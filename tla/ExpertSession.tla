----------------------------- MODULE ExpertSession -----------------------------
(***************************************************************************)
(* Who answers in a session: the expert team, the expert, and the cards    *)
(* and forms they leave behind (api/routes/chat_stream.py, core/context.py,*)
(* api/configuration_sync.py, core/message_interactions.py,                *)
(* core/team_handoff_confirmation.py and the expert runtime).              *)
(*                                                                         *)
(* A session has one branch per child and one without a child.  Each       *)
(* branch has its own agent, handoff card, form and route suggestions; the *)
(* selected agent and the configuration belong to the session.  A request  *)
(* activates its branch, follows the configuration served now, changes the *)
(* agent and starts a turn; the turn ends with a reply, a card or a form,  *)
(* fails half way, or is displaced.  One request's handler is one step.    *)
(* Versions, wording and the content of turns are left out.                *)
(***************************************************************************)
EXTENDS Naturals, FiniteSets

CONSTANTS
  Branches,     \* the branches of the session
  Unbound,      \* the branch without a child
  Configs,      \* deployments that may be served
  Experts,
  Team,         \* the team of a configuration; under None, of the installation
  Members,      \* its members
  Coordinator,  \* its coordinating expert
  Picks,        \* agents a user picks from the catalogue: a team's member, or an expert
  None          \* no deployment, team, expert, card or form

VARIABLES
  branch,  \* what each branch holds
  cur,     \* the active branch
  sel,     \* session_agent_selection
  config,  \* configuration_snapshot
  served,  \* the deployment that is served now
  turn,    \* the turn that is running
  stale    \* history: sel was confirmed on a card of another configuration

vars == <<branch, cur, sel, config, served, turn, stale>>

Teams == {Team[d] : d \in Configs \cup {None}}
Agent(t, e) == [team |-> t, expert |-> e]
Nobody == Agent(None, None)
Agents == [team : Teams \cup {None}, expert : Experts \cup {None}]

ASSUME ExpertSessionAssumption ==
  /\ Unbound \in Branches
  /\ None \notin Configs \cup Experts \cup Agents
  /\ \A d \in Configs \cup {None} : /\ Members[d] \subseteq Experts
                                   /\ Coordinator[d] \in Members[d]
                                   /\ Team[d] # None
  /\ Picks \subseteq Agents /\ \A a \in Picks : a.expert # None

\* A handoff: the experts the user may choose, never the coordinator, and under
\* which configuration the coordinator proposed them.
Handoffs == {h \in [team : Teams, cands : SUBSET Experts, under : Configs \cup {None}] :
               h.cands # {} /\ Coordinator[h.under] \notin h.cands}

\* A questionnaire waits for answers; live, while its form can be submitted.
Forms == [owner : Experts \cup {None}, live : BOOLEAN]

Branch == [agent : Agents,               \* expert_team_id, active_expert_id
           over : Agents \cup {None},    \* branch_expert_override
           intent : Handoffs \cup {None},  \* pending_team_handoff_intent
           card : Handoffs \cup {None},  \* the active card
           form : Forms \cup {None},
           route : BOOLEAN]              \* active route suggestions

Fresh == [agent |-> Nobody, over |-> None, intent |-> None, card |-> None,
          form |-> None, route |-> FALSE]

Idle == [kind |-> "idle"]
Turns == [kind : {"idle"}]
  \cup [kind : {"chat"}, inherits : BOOLEAN]
  \cup [kind : {"control"}, card : Handoffs]
  \cup [kind : {"switch"}, to : Agents, cross : BOOLEAN]
  \cup [kind : {"skill"}]

Init ==
  /\ branch = [b \in Branches |-> Fresh]
  /\ cur \in Branches
  /\ served \in Configs \cup {None}
  /\ config = served
  /\ sel = None
  /\ turn = Idle
  /\ stale = FALSE

-----------------------------------------------------------------------------
(* Cards and forms of a branch.                                            *)

\* expire_active_interactions
Expired(r) == [r EXCEPT !.card = None, !.route = FALSE,
                        !.form = IF @ = None THEN None ELSE [@ EXCEPT !.live = FALSE]]
AnyActive(r) == r.card # None \/ r.route \/ (r.form # None /\ r.form.live)

\* Mutant: the form is closed, the questionnaire behind it goes on.
AbandonedFormOnly(r) == Expired(r)

\* abandon_active_interactions_for_expert_change
Abandoned(r) == [Expired(r) EXCEPT !.form = None]

\* The same when the user leaves a child: cards stay.
AbandonedForms(r) == [r EXCEPT !.form = None]

\* pending_team_handoff has no state of its own: it is never set without the intent,
\* and is looked at only where there is none.
Dropped(r) == [r EXCEPT !.intent = None]

\* What a branch answers an ordinary chat with.
Answers(r, s) == IF r.over # None THEN r.over ELSE IF s # None THEN s ELSE r.agent

\* Mutant: the inherited agent takes over the cards of the last one.
InheritedKeepsCards(r, s) ==
  LET next == [r EXCEPT !.agent = Answers(r, s)]
  IN IF next = r THEN r ELSE AbandonedForms(next)

\* apply_session_agent_selection: the override of the branch, or the selection,
\* is what the branch answers with; a change ends what the last agent left open.
Inherited(r, s) ==
  LET next == [r EXCEPT !.agent = Answers(r, s)]
  IN IF next = r THEN r ELSE Abandoned(next)

-----------------------------------------------------------------------------
(* The part every request has in common.                                   *)

\* What the request works on: its branch, the selection, the configuration.
View(r, s, c, o) == [here |-> r, sel |-> s, config |-> c, stale |-> o]

\* The branches once b is active: leaving a child ends its forms.
Left(b) == IF b # cur /\ cur # Unbound
             THEN [branch EXCEPT ![cur] = AbandonedForms(@)] ELSE branch

\* A team without a deployment behind it is given up each time.
Unversioned(r) == config = None /\ served = None /\ r.agent # Nobody
MustSync(r) == config # served \/ Unversioned(r)

\* Mutant: whoever answered last goes on, member or not.
SyncedKeepsExpert(r) ==
  LET prior == IF r.agent.expert # None THEN r.agent.expert
                ELSE IF sel # None THEN sel.expert ELSE None
      next == IF served = None THEN Nobody
                ELSE Agent(Team[served], IF prior # None THEN prior ELSE Coordinator[served])
  IN View(Inherited(Abandoned(r), next), next, served, FALSE)

\* synchronize_configuration: everything open ends, and the team that is served
\* takes over with the expert who answered last, if it has that member.
Synced(r) ==
  LET prior == IF r.agent.expert # None THEN r.agent.expert
                ELSE IF sel # None THEN sel.expert ELSE None
      next == IF served = None THEN Nobody
                ELSE Agent(Team[served],
                           IF prior \in Members[served] THEN prior ELSE Coordinator[served])
  IN View(Inherited(Abandoned(r), next), next, served, FALSE)

Arrived(b) == IF MustSync(Left(b)[b]) THEN Synced(Left(b)[b])
                ELSE View(Left(b)[b], sel, config, stale)

\* An ordinary request: where it has just activated the branch it takes the
\* session's agent, else the client has named the agent it saw.
Continued(b, inherits) ==
  LET v == Arrived(b) IN IF inherits THEN [v EXCEPT !.here = Inherited(@, v.sel)] ELSE v

\* A turn that is running keeps the session in its branch.
MayArrive(b) == b = cur \/ turn = Idle

Commit(b, v, others, t) ==
  /\ cur' = b
  /\ branch' = [others EXCEPT ![b] = v.here]
  /\ sel' = v.sel
  /\ config' = v.config
  /\ stale' = v.stale
  /\ turn' = t
  /\ UNCHANGED served

Chosen(v, a) == [v EXCEPT !.here.agent = a, !.sel = a, !.stale = FALSE]

-----------------------------------------------------------------------------
(* Requests.                                                               *)

\* The handoff that a text of consent is about: the saved intent, for no message
\* carries the entry that the search for a card looks at.
Consented(r) ==
  IF r.agent.team # None /\ r.intent # None /\ r.intent.team = r.agent.team
    THEN r.intent ELSE None

\* A text never switches: consent is answered with a new card, any other text
\* ends the cards that are open.
Spoken(b, v, consent, inherits) ==
  LET h == IF consent THEN Consented(v.here) ELSE None
      open == IF AnyActive(v.here) THEN Dropped(v.here) ELSE v.here
  IN IF h # None
       THEN Commit(b, [v EXCEPT !.here.intent = h], Left(b),
                   [kind |-> "control", card |-> h])
       ELSE Commit(b, [v EXCEPT !.here = Expired(open)], Left(b),
                   [kind |-> "chat", inherits |-> inherits])

Chat(b, inherits, consent) ==
  /\ MayArrive(b)
  /\ b # cur => inherits
  /\ Spoken(b, Continued(b, inherits), consent, inherits)

\* clear_expert
Clear(b, consent) ==
  /\ MayArrive(b)
  /\ LET v == Chosen(Arrived(b), Nobody)
         r == [Arrived(b).here EXCEPT !.over = None]
     IN Spoken(b, [v EXCEPT !.here = [Inherited(r, Nobody) EXCEPT !.intent = None]], consent, FALSE)

\* select_team, select_expert, select_team_member: what a chosen agent starts with.
Taken(v, a) ==
  Chosen([v EXCEPT !.here = Dropped([(IF @.agent = a THEN @ ELSE Abandoned(@)) EXCEPT !.over = None])],
         a)

Select(b, a) ==
  /\ MayArrive(b)
  /\ LET v == Arrived(b)
     IN /\ a.expert \in Members[v.config]
        /\ \/ a.team = Team[v.config]
           \/ a.team = None /\ v.here.agent.team = None
        /\ Spoken(b, Taken(v, a), FALSE, FALSE)

\* A request that is refused after its branch was activated.  A turn that was running
\* is lost: the session has a new version, and its save is refused.
Refused(b) ==
  /\ MayArrive(b)
  /\ Commit(b, Arrived(b), Left(b), Idle)

\* The card that was clicked, in the branch it was left in.
HandedOn(r) == [Dropped(r) EXCEPT !.card = None]

\* confirm_team_handoff, of a card of branch a in branch b.  The card decides: that
\* its candidate is still a member is checked by the turn.
Confirm(b, a, e) ==
  LET v == Arrived(b)
      h == Left(b)[a].card
      to == Agent(h.team, e)
      here == [Abandoned(v.here) EXCEPT !.agent = to]
      odd == h.under # v.config
  IN /\ MayArrive(b)
     /\ ~MustSync(Left(b)[b])
     /\ h # None
     /\ h.team = Team[v.config] /\ e \in h.cands
     /\ IF a = b
          THEN Commit(b, [v EXCEPT !.here = here, !.sel = to, !.stale = odd], Left(b),
                      [kind |-> "switch", to |-> to, cross |-> FALSE])
          ELSE Commit(b, [v EXCEPT !.here = [here EXCEPT !.over = to]],
                      [Left(b) EXCEPT ![a] = HandedOn(@)],
                      [kind |-> "switch", to |-> to, cross |-> TRUE])

\* switch_team_member, from the toolbar.
SwitchMember(b, e) ==
  LET v == Continued(b, b # cur)
      team == v.here.agent.team
      from == IF v.here.agent.expert # None THEN v.here.agent.expert ELSE Coordinator[v.config]
      here == IF from = e THEN v.here ELSE Abandoned(v.here)
      to == Agent(team, e)
  IN /\ MayArrive(b)
     /\ team = Team[v.config] /\ e \in Members[v.config]
     /\ Commit(b, Chosen([v EXCEPT !.here = here], to), Left(b),
               [kind |-> "switch", to |-> to, cross |-> FALSE])

\* enter_skill leaves the agent first.
Standalone(b) ==
  LET v == Continued(b, b # cur)
  IN IF v.here.agent = Nobody THEN v ELSE Chosen([v EXCEPT !.here = Abandoned(@)], Nobody)

EnterSkill(b) ==
  /\ MayArrive(b)
  /\ \/ Commit(b, [Standalone(b) EXCEPT !.here = Abandoned(@)], Left(b), [kind |-> "skill"])
     \/ Commit(b, Standalone(b), Left(b), Idle)   \* already in it: 409 after the first save

\* From route suggestions of branch a: they must be active once the agent is left.
EnterFromSuggestion(b, a) ==
  LET v == Standalone(b)
      others == [Left(b) EXCEPT ![a].route = FALSE]
  IN /\ MayArrive(b)
     /\ Left(b)[a].route
     /\ IF a # b \/ v.here.route
          THEN Commit(b, [v EXCEPT !.here = Expired(@)], others, [kind |-> "skill"])
          ELSE Commit(b, v, Left(b), Idle)

\* quit_skill ends with the request; a skill is left in the branch it runs in.
QuitSkill(b) ==
  LET reset(r) == Abandoned(r)
      left == [Left(b) EXCEPT ![cur] = reset(@)]
      v == Continued(b, b # cur)
  IN /\ MayArrive(b)
     /\ IF b = cur THEN Commit(b, [v EXCEPT !.here = reset(@)], Left(b), Idle)
                   ELSE Commit(b, v, left, Idle)

-----------------------------------------------------------------------------
(* The turn.                                                               *)

Rest(r, s) ==
  /\ branch' = [branch EXCEPT ![cur] = r]
  /\ sel' = s
  /\ turn' = Idle
  /\ UNCHANGED <<cur, config, served>>

\* A turn of consent shows the handoff again, under a message of its own.
Control ==
  /\ turn.kind = "control"
  /\ Rest([Expired(branch[cur]) EXCEPT !.card = turn.card, !.intent = turn.card], sel)
  /\ UNCHANGED stale

\* The team of the branch, as the runtime finds it: in the session's configuration
\* or among the teams of the installation.
Known(r) == r.agent.team \in {None, Team[config], Team[None]}
Source(r) == IF r.agent.team = Team[config] THEN config ELSE None

\* Mutant: a switch is the session's agent, whatever card it came from.
SwitchedForAll(r, s, t) ==
  IF t.kind # "switch" \/ r.form # None THEN [here |-> r, sel |-> s]
    ELSE [here |-> [Dropped(r) EXCEPT !.agent.expert = t.to.expert,
                                      !.over = IF t.cross THEN t.to ELSE @],
          sel |-> t.to]

\* _apply_structured_team_switch: not while a questionnaire waits.
Switched(r, s, t) ==
  IF t.kind # "switch" \/ r.form # None THEN [here |-> r, sel |-> s]
    ELSE [here |-> [Dropped(r) EXCEPT !.agent.expert = t.to.expert,
                                      !.over = IF t.cross THEN t.to ELSE @],
          sel |-> IF t.cross THEN s ELSE t.to]

\* The switch is refused where the expert is not, or no longer, a member.
Switchable(r, t) ==
  t.kind = "switch" /\ r.form = None => t.to.expert \in Members[Source(r)]

\* handle_message: a stranger in the team gives way to the coordinator.
Stranger(r) == r.agent.team # None /\ r.agent.expert \notin Members[Source(r)]
Answering(r) ==
  IF Stranger(r)
    THEN [r EXCEPT !.agent.expert = Coordinator[Source(r)]] ELSE r

Runs(r) == turn.kind \in {"chat", "switch", "skill"} /\ Known(r) /\ Switchable(r, turn)

\* The context as the turn has it when it decides, and then with its user message.
Started == LET w == Switched(branch[cur], sel, turn) IN [w EXCEPT !.here = Answering(@)]
Coordinates(r) == r.agent.team # None /\ r.agent.expert = Coordinator[Source(r)]

\* A reply; the questionnaire may go on or be done, and where no team answers there
\* may be suggestions.
Reply ==
  /\ Runs(branch[cur])
  /\ \E done \in BOOLEAN, route \in BOOLEAN :
       LET r == Expired(Started.here)
       IN /\ route => r.agent.team = None /\ turn.kind # "skill"
          /\ Rest([r EXCEPT !.form = IF done THEN None ELSE @, !.route = route], Started.sel)
  /\ UNCHANGED stale

\* A form of the skill that the expert, or no expert, works with.
AskForm ==
  /\ Runs(branch[cur])
  /\ LET r == Expired(Started.here)
     IN Rest([r EXCEPT !.form = [owner |-> r.agent.expert, live |-> TRUE]], Started.sel)
  /\ UNCHANGED stale

\* _propose_member_handoff: only the coordinator, one to three other members.
Proposals(d) == {h \in [team : {Team[d]}, cands : SUBSET (Members[d] \ {Coordinator[d]}),
                        under : {d}] : Cardinality(h.cands) \in 1..3}

Propose ==
  /\ Runs(branch[cur])
  /\ LET r == Expired(Started.here)
     IN /\ Coordinates(r)
        /\ \E h \in Proposals(Source(r)) :
             Rest([r EXCEPT !.card = h, !.intent = h], Started.sel)
  /\ UNCHANGED stale

\* A turn that fails or is stopped leaves what it has changed so far.
FailTurn ==
  /\ turn # Idle
  /\ \/ Rest(branch[cur], sel)
     \/ /\ Runs(branch[cur])
        /\ \/ Rest(Started.here, Started.sel)
           \/ Rest(Expired(Started.here), Started.sel)
           \/ /\ Coordinates(Started.here)
              /\ \E h \in Proposals(Source(Started.here)) :
                   Rest([Started.here EXCEPT !.intent = h], Started.sel)
  /\ UNCHANGED stale

\* A deployment is activated or taken offline.
Serve(d) ==
  /\ served' = d
  /\ UNCHANGED <<branch, cur, sel, config, turn, stale>>

Requests(b) ==
  \/ \E inherits, consent \in BOOLEAN : Chat(b, inherits, consent)
  \/ Clear(b, TRUE)
  \/ \E a \in Picks : Select(b, a)
  \/ Refused(b)
  \/ \E a \in Branches, e \in Experts : Confirm(b, a, e)
  \/ \E e \in Experts : SwitchMember(b, e)
  \/ EnterSkill(b)
  \/ \E a \in Branches : EnterFromSuggestion(b, a)
  \/ QuitSkill(b)

TurnEnds == Control \/ Reply \/ AskForm \/ Propose \/ FailTurn

Next ==
  \/ \E b \in Branches : Requests(b)
  \/ TurnEnds
  \/ \E d \in Configs \cup {None} : Serve(d)

Spec == Init /\ [][Next]_vars

-----------------------------------------------------------------------------
(* Properties.                                                             *)

\* Every variable keeps its type; in particular no handoff offers its coordinator.
TypeOK ==
  /\ branch \in [Branches -> Branch]
  /\ cur \in Branches
  /\ sel \in Agents \cup {None}
  /\ config \in Configs \cup {None}
  /\ served \in Configs \cup {None}
  /\ turn \in Turns
  /\ stale \in BOOLEAN

\* Whenever the expert of a branch changes, the questionnaire of the last one is over,
\* whatever changed it: only an expert who is no longer in the team of the branch gives
\* way to the coordinator with the questionnaire still waiting.
FormsEndWithTheirExpert ==
  \A b \in Branches :
    LET now == branch'[b].agent.expert
    IN branch[b].agent.expert # now /\ ~Stranger(branch[b])
         => branch'[b].form = None \/ branch'[b].form.owner = now

\* An active handoff card is of the team that its branch talks to.
CardOfItsTeam ==
  \A b \in Branches : branch[b].card # None => branch[b].card.team = branch[b].agent.team

\* A handoff that was confirmed on the card of another branch decides who answers in
\* the branch it was confirmed for and in no other, then and when its turn ends.
CrossHandoff(t) == t.kind = "switch" /\ t.cross
HandoffStaysInItsBranch ==
  (CrossHandoff(turn') /\ turn' # turn) \/ (CrossHandoff(turn) /\ TurnEnds)
    => \A b \in Branches \ {cur'} :
         Answers(branch'[b], sel') = Answers(branch[b], sel)

\* An ordinary chat that names no agent is answered by the team that is served and
\* a member of it, or by nobody in particular, unless its branch is on a handoff of
\* another branch or the selection was confirmed on a card of an older configuration.
InheritsWhatIsServed ==
  LET r == branch[cur]
  IN turn.kind = "chat" /\ turn.inherits /\ r.over = None /\ ~stale
       => \/ r.agent = Nobody
          \/ r.agent.team \in {Team[config], None} /\ r.agent.expert \in Members[config]

\* Among the branches of a session: a card is of the team its branch talks to, and an
\* ordinary chat is answered by what is served (the routes of chat_stream.py).
AnswersAsServed == TypeOK /\ CardOfItsTeam /\ InheritsWhatIsServed

\* No step changes the expert of a branch under a waiting questionnaire, and a confirmed
\* handoff changes no other branch (core/context.py, the expert runtime).
FormsEnd == [][FormsEndWithTheirExpert]_vars
HandoffsStay == [][HandoffStaysInItsBranch]_vars
=============================================================================
