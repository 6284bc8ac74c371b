------------------------------- MODULE ExpertTurn -------------------------------
(***************************************************************************)
(* The turns of a session's experts, one after the other                   *)
(* (runtime_bridge/agentscope_expert_runtime.py,                           *)
(* runtime_bridge/native_skill_executor.py).                               *)
(*                                                                         *)
(* The coordinator of a team works with tools, every other expert decides  *)
(* on a route first; both end in an answer of their own, in a Skill for    *)
(* the main planner, or in a card that offers another expert.  The state   *)
(* of the runtime is kept from turn to turn.  Who may take over, and the   *)
(* cards themselves, are in ExpertSession; what the planner does with a    *)
(* Skill is in PlannerDialogue.                                            *)
(***************************************************************************)
EXTENDS Naturals, FiniteSets

CONSTANTS
  Skills,
  Experts,
  Team,            \* the experts of the session's team
  Coordinator,
  Authorized,      \* the Skills each expert is locked to
  MaxSkillCalls,   \* budget of a coordinator's turn
  MaxRounds,       \* bound on the rounds of a route decision; the code has none
  None

\* What the constants are; the instances assume it.
ExpertAssumption ==
  /\ Team \subseteq Experts /\ Coordinator \in Team
  /\ Authorized \in [Experts -> SUBSET Skills]
  /\ MaxSkillCalls \in Nat \ {0} /\ MaxRounds \in Nat
  /\ None \notin Skills \cup Experts

VARIABLES
  registry,   \* the Skills the process serves
  expert,     \* who answers
  pc,         \* where the turn is
  reply,      \* agent_reply: what kind of text, and is it of this turn
  failed,     \* agent_reply_error: a diagnostic of the framework was discarded
  missing,    \* skill_unavailable: a Skill a tool call did not find
  decision,   \* skill_route_decision: its mode and Skill
  form,       \* pending_form: the Skill of a form that was asked for
  handoff,    \* team_handoff: "new" or "old", None if there is none
  calls,      \* Skill calls of this turn
  requested,  \* expert_requested_skill_id
  direct,     \* expert_direct_reply: "new" or "old", None if there is none
  waiting,    \* the Skill with a pending native questionnaire
  intro,      \* identity_intro: the expert due to introduce itself, who was seen last
  inspected,  \* Skills whose instructions the route decision has read, and its rounds
  answered,   \* what the last turn came to, while no other has begun
  proposed    \* history: this turn has proposed a handoff

runtime == <<reply, failed, missing, decision, form, handoff, calls, intro>>
meta == <<requested, direct, waiting>>
vars == <<registry, expert, pc, runtime, meta, inspected, answered, proposed>>

NoReply == [kind |-> "none", fresh |-> TRUE]
\* What a model may come up with: a text, a text that names another expert as the one to
\* take over, a diagnostic of the framework.
Texts == {"text", "routing", "diagnostic"}
Answer(k) == [kind |-> k, fresh |-> TRUE]
NoDecision == [mode |-> None, skill |-> None]
Directly == [mode |-> "direct_reply", skill |-> None]
Unanswered == [by |-> None, with |-> None]
NothingRead == [skills |-> {}, rounds |-> 0]

Init ==
  /\ registry = Skills
  /\ expert \in Experts
  /\ pc = "idle"
  /\ reply = NoReply /\ failed = FALSE /\ missing = FALSE
  /\ decision = NoDecision /\ form = None /\ handoff = None /\ calls = 0
  /\ requested = None /\ direct = None /\ waiting = None
  /\ intro = [due |-> None, seen |-> None]
  /\ inspected = NothingRead
  /\ answered = Unanswered /\ proposed = FALSE

Goto(p) == pc' = p
Coordinates == expert = Coordinator
InTeam == expert \in Team
Aged(x) == IF x = "new" THEN "old" ELSE x
SessionStays == UNCHANGED <<registry, expert, answered>>

-----------------------------------------------------------------------------
(* Between turns.                                                          *)

\* A publication or a deletion, at any time.
Publish(s) ==
  /\ registry' = (registry \ {s}) \cup ({s} \ registry)
  /\ UNCHANGED <<expert, pc, runtime, meta, inspected, answered, proposed>>

\* The user picks another expert on the toolbar, or takes the one a card offers: the
\* forms end, and a toolbar choice drops the request for a Skill, too.
Select(e, byCard) ==
  /\ pc = "idle" /\ e # expert
  /\ expert' = e
  /\ form' = None /\ waiting' = None
  /\ requested' = IF byCard THEN requested ELSE None
  /\ UNCHANGED <<registry, pc, reply, failed, missing, decision, handoff, calls, direct,
                 intro, inspected, answered, proposed>>

\* An expert is due to introduce itself once, when it was not seen last.
Due == IF expert \in {intro.due, intro.seen} THEN intro ELSE [intro EXCEPT !.due = expert]

\* Mutant: the proposal of an earlier turn is kept.
BeginWithCard ==
  /\ pc = "idle"
  /\ Goto(IF Coordinates THEN "react" ELSE "route")
  /\ reply' = [reply EXCEPT !.fresh = (reply.kind = "none")]
  /\ form' = None /\ handoff' = Aged(handoff) /\ calls' = 0
  /\ intro' = Due
  /\ requested' = IF Coordinates THEN requested ELSE None
  /\ direct' = Aged(direct)
  /\ inspected' = NothingRead /\ proposed' = FALSE /\ answered' = Unanswered
  /\ UNCHANGED <<registry, expert, failed, missing, decision, waiting>>

\* A message: the form and the proposal of the last turn are dropped, the answer, its
\* error, a missing Skill and the decision are not.  An expert that decides on a route
\* drops the request of a failed turn first, the coordinator does not.
Begin ==
  /\ pc = "idle"
  /\ Goto(IF Coordinates THEN "react" ELSE "route")
  /\ reply' = [reply EXCEPT !.fresh = (reply.kind = "none")]
  /\ form' = None /\ handoff' = None /\ calls' = 0
  /\ intro' = Due
  /\ requested' = IF Coordinates THEN requested ELSE None
  /\ direct' = Aged(direct)
  /\ inspected' = NothingRead /\ proposed' = FALSE /\ answered' = Unanswered
  /\ UNCHANGED <<registry, expert, failed, missing, decision, waiting>>

\* A model or the framework is unavailable, or returns nothing that can be used.
Fail ==
  /\ pc \in {"react", "route", "reply", "fallback", "judge"}
  /\ Goto("idle")
  /\ answered' = [by |-> expert, with |-> "error"]
  /\ UNCHANGED <<registry, expert, runtime, meta, inspected, proposed>>

-----------------------------------------------------------------------------
(* The tools of the coordinator.                                           *)

ToolStays == UNCHANGED <<reply, failed, decision, intro, direct, waiting, inspected>> /\ SessionStays

\* execute_skill, within the budget: what it asks for is a hint to the planner.
Schedule(s) ==
  /\ s \in Authorized[expert] \cap registry /\ calls < MaxSkillCalls
  /\ calls' = calls + 1
  /\ requested' = s

ExecuteSkill(s) ==
  /\ pc = "react"
  /\ Schedule(s)
  /\ UNCHANGED <<pc, missing, form, handoff, proposed>> /\ ToolStays

SkillMissing(s) ==
  /\ pc = "react" /\ s \in Authorized[expert] \ registry /\ calls < MaxSkillCalls
  /\ missing' = TRUE
  /\ UNCHANGED <<pc, form, handoff, calls, requested, proposed>> /\ ToolStays

\* request_declared_form: a Skill that is not loaded declares no question, but a request
\* without questions passes.
RequestForm(s) ==
  /\ pc = "react" /\ s \in Authorized[expert]
  /\ form' = s /\ requested' = s
  /\ UNCHANGED <<pc, missing, handoff, calls, proposed>> /\ ToolStays

\* propose_member_handoff, to one to three other members.
Propose ==
  /\ handoff' = "new"
  /\ proposed' = TRUE

ProposeHandoff ==
  /\ pc = "react" /\ Team # {Coordinator}
  /\ Propose
  /\ UNCHANGED <<pc, missing, form, calls, requested>> /\ ToolStays

\* The agent ends with some text.
AgentReplies(k) ==
  /\ pc = "react" /\ k \in Texts \cup {"none"}
  /\ reply' = Answer(k)
  /\ Goto("ensure")
  /\ UNCHANGED <<failed, missing, decision, form, handoff, calls, intro, meta, inspected,
                 proposed>> /\ SessionStays

\* No card was proposed: a second decision may ask the user, propose one after all, or
\* leave it at the answer.  It may fail without harm.
EnsureHandoff ==
  /\ pc = "ensure"
  /\ Goto("fallback")
  /\ \/ UNCHANGED <<reply, failed, handoff, proposed>>
     \/ /\ handoff = None /\ reply' = Answer("text")
        /\ UNCHANGED <<failed, handoff, proposed>>
     \/ /\ handoff = None /\ Team # {Coordinator} /\ Propose
        /\ reply' = NoReply /\ failed' = FALSE
  /\ UNCHANGED <<missing, decision, form, calls, intro, meta, inspected>> /\ SessionStays

-----------------------------------------------------------------------------
(* The route decision of every other expert.                               *)

RouteStays ==
  /\ UNCHANGED <<reply, failed, missing, form, handoff, intro, direct, waiting, proposed>>
  /\ SessionStays

\* The model is asked again, with the full instructions of Skills S.
Inspect(S) ==
  /\ inspected.rounds < MaxRounds
  /\ inspected' = [skills |-> S, rounds |-> inspected.rounds + 1]
  /\ UNCHANGED <<pc, decision, calls, requested>> /\ RouteStays

\* It wants to read one or two Skills.
RouteInspects(S) ==
  /\ pc = "route" /\ S # {} /\ S \subseteq Authorized[expert] /\ Cardinality(S) <= 2
  /\ Inspect(S)

Decide(d) ==
  /\ decision' = d
  /\ Goto(IF d.mode = "execute_skill" THEN "schedule" ELSE "reply")
  /\ UNCHANGED <<calls, requested, inspected>> /\ RouteStays

Executes(s) == [mode |-> "execute_skill", skill |-> s]

\* Mutant: a Skill is executed on the strength of its card alone.
RouteExecutesAtOnce(s, inScope) ==
  /\ pc = "route" /\ s \in Authorized[expert]
  /\ IF s \in registry /\ inScope THEN Decide(Executes(s)) ELSE Decide(Directly)

\* It wants a Skill: first the instructions are read, then the Skill must be proven to
\* be for this task; a Skill that is not there is answered directly.
RouteExecutes(s, inScope) ==
  /\ pc = "route" /\ s \in Authorized[expert]
  /\ IF s \in registry
     THEN IF s \in inspected.skills
          THEN Decide(IF inScope THEN Executes(s) ELSE Directly)
          ELSE Inspect(inspected.skills \cup {s})
     ELSE Decide(Directly)

\* It wants to answer.  Unless the rules of the expert say so, the Skill that matches
\* best (None if there is none) is read, and may be proven to be for the task.
RouteReplies(match, byRules, inScope) ==
  /\ pc = "route" /\ match \in Authorized[expert] \cup {None}
  /\ IF match = None \/ byRules THEN Decide(Directly)
     ELSE IF match \notin inspected.skills THEN Inspect({match})
     ELSE Decide(IF inScope /\ match \in registry THEN Executes(match) ELSE Directly)

\* The Skill may have gone in the meantime.
ScheduleRouted ==
  /\ pc = "schedule"
  /\ IF decision.skill \in registry
     THEN Schedule(decision.skill) /\ Goto("fallback") /\ UNCHANGED decision
     ELSE decision' = Directly /\ Goto("reply") /\ UNCHANGED <<calls, requested>>
  /\ UNCHANGED inspected /\ RouteStays

DirectReply(k) ==
  /\ pc = "reply" /\ k \in Texts
  /\ reply' = Answer(k)
  /\ Goto("fallback")
  /\ UNCHANGED <<failed, missing, decision, form, handoff, calls, intro, meta, inspected,
                 proposed>> /\ SessionStays

-----------------------------------------------------------------------------
(* What the turn comes to.                                                 *)

\* After a missing Skill the expert answers itself, unless there is a card.
Fallback(k) ==
  /\ pc = "fallback" /\ k \in Texts
  /\ Goto("judge")
  /\ IF missing /\ handoff = None
     THEN decision' = Directly /\ reply' = Answer(k)
     ELSE UNCHANGED <<decision, reply>>
  /\ UNCHANGED <<failed, missing, form, handoff, calls, intro, meta, inspected, proposed>>
  /\ SessionStays

\* A diagnostic is discarded.
Shown == IF reply.kind = "diagnostic" THEN NoReply ELSE reply

\* A failure of the framework is covered by a new answer, and so is a text that sends the
\* user to another expert without a card; the second one is not looked at again.
Covered(k) ==
  IF Shown.kind = "none" /\ (failed \/ reply.kind = "diagnostic")
  THEN Answer(IF Coordinates THEN k ELSE "text")
  ELSE IF Shown.kind = "routing" /\ InTeam THEN Answer(k) ELSE Shown

\* A card is a terminal decision: it cancels the Skill and the form of its turn.
Judge(k) ==
  /\ pc = "judge" /\ k \in Texts \ {"diagnostic"}
  /\ failed' = (failed \/ reply.kind = "diagnostic")
  /\ IF handoff = None
     THEN reply' = Covered(k) /\ UNCHANGED <<requested, form>>
     ELSE reply' = Answer("text") /\ requested' = None /\ form' = None
  /\ Goto("hand")
  /\ UNCHANGED <<missing, decision, handoff, calls, intro, direct, waiting, inspected,
                 proposed>> /\ SessionStays

\* Mutant: only a form or a questionnaire counts as work for the planner.
NativeFormOnly == (form # None \/ waiting # None) /\ decision.mode # "direct_reply" /\ handoff = None

\* The turn has work for the planner.
Native ==
  /\ requested # None \/ form # None \/ waiting # None
  /\ decision.mode # "direct_reply" /\ handoff = None

\* The planner gets an answer or work; a turn with neither fails.
Hand ==
  /\ pc = "hand"
  /\ IF reply.kind = "none" /\ ~Native
     THEN Goto("idle") /\ answered' = [by |-> expert, with |-> "error"] /\ UNCHANGED direct
     ELSE /\ Goto("planner") /\ UNCHANGED answered
          /\ direct' = IF Native THEN direct ELSE "new"
  /\ UNCHANGED <<registry, expert, runtime, requested, waiting, inspected, proposed>>

\* The reply was seen: an introduction that was due is done; a card does not count.
Seen == IF handoff # None THEN intro
        ELSE [due |-> IF intro.due = expert THEN None ELSE intro.due, seen |-> expert]

\* The planner repeats the answer.
AnswerDirectly ==
  /\ pc = "planner" /\ direct # None
  /\ answered' = [by |-> expert, with |-> direct]
  /\ direct' = None
  /\ intro' = Seen
  /\ Goto("idle")
  /\ UNCHANGED <<registry, expert, reply, failed, missing, decision, form, handoff, calls,
                 requested, waiting, inspected, proposed>>

\* Or it works: the request is taken if the expert may have the Skill, otherwise the
\* planner's own routing goes on.  The Skill may leave a form.
Work(asks) ==
  /\ pc = "planner" /\ direct = None
  /\ LET s == IF requested \in Authorized[expert] \cap registry THEN requested ELSE None
     IN /\ answered' = [by |-> expert, with |-> s]
        /\ waiting' = IF asks THEN s ELSE None
        /\ form' = IF asks /\ s # None THEN s ELSE form
  /\ requested' = None
  /\ intro' = Seen
  /\ Goto("idle")
  /\ UNCHANGED <<registry, expert, reply, failed, missing, decision, handoff, calls, direct,
                 inspected, proposed>>

\* The moderation of the message comes last: a blocked one leaves what it was to hand over.
Blocked ==
  /\ pc = "planner"
  /\ answered' = [by |-> expert, with |-> "blocked"]
  /\ Goto("idle")
  /\ UNCHANGED <<registry, expert, runtime, meta, inspected, proposed>>

Next ==
  \/ \E s \in Skills : Publish(s) \/ ExecuteSkill(s) \/ SkillMissing(s) \/ RequestForm(s)
  \/ \E e \in Experts, byCard \in BOOLEAN : Select(e, byCard)
  \/ Begin \/ Fail \/ ProposeHandoff \/ EnsureHandoff
  \/ \E k \in Texts \cup {"none"} : AgentReplies(k)
  \/ \E S \in SUBSET Skills : RouteInspects(S)
  \/ \E s \in Skills, inScope \in BOOLEAN : RouteExecutes(s, inScope)
  \/ \E match \in Skills \cup {None}, byRules, inScope \in BOOLEAN :
       RouteReplies(match, byRules, inScope)
  \/ ScheduleRouted
  \/ \E k \in Texts : DirectReply(k) \/ Fallback(k) \/ Judge(k)
  \/ Hand \/ AnswerDirectly \/ \E asks \in BOOLEAN : Work(asks)
  \/ Blocked

Spec == Init /\ [][Next]_vars

-----------------------------------------------------------------------------
(* Properties.                                                             *)

\* A card belongs to the very turn that proposed it, and is the only thing its turn comes
\* to: the answer is the words of the card, and no Skill or form is left scheduled,
\* whatever the tools were asked before.
CardStandsAlone ==
  pc = "planner" /\ handoff # None =>
    /\ proposed /\ Coordinates
    /\ direct = "new" /\ requested = None /\ form = None

\* An expert that decides on routes never schedules a Skill whose full instructions were
\* not read in this very decision, whatever the rounds before have read and dropped.
ScopeProven ==
  pc = "schedule" => decision.skill \in inspected.skills \cap Authorized[expert]

\* What the user gets to read was said in this turn, although the answer of the last turn
\* is still around when the next one only schedules a Skill; and it is never a diagnostic.
AnswersThisTurn ==
  pc = "planner" /\ ~Native => reply.fresh /\ reply.kind # "diagnostic" /\ direct = "new"
=============================================================================
