-------------------------- MODULE ExpertSessionProofs --------------------------
(***************************************************************************)
(* What ExpertSession promises for any branches, deployments, teams and     *)
(* experts: who answers an ordinary chat, that a questionnaire ends with    *)
(* the expert who asked, and that a handoff stays in its branch.  Then what *)
(* ExpertTurn promises of each turn: what is said, shown and scheduled in   *)
(* it was decided in it, though the reply, the form and the card of an      *)
(* earlier turn lie in the same session (TurnInv).                          *)
(***************************************************************************)
EXTENDS Experts, FiniteSetTheorems, TLAPS

-----------------------------------------------------------------------------
(* The inductive invariant. *)

\* An agent is nobody, or has an expert.
Named(a) == a = Nobody \/ a.expert \in Experts

\* An agent that the configuration c serves: of its team or of none, and a member.
Serves(a, c) == a = Nobody \/ (a.team \in {Team[c], None} /\ a.expert \in Members[c])

\* A handoff offers members of the team it was proposed in.
Proposed(h) == h # None => h.cands \subseteq Members[h.under]

\* A branch has named agents, and cards of its team.
Sound(r) ==
  /\ Named(r.agent) /\ (r.over # None => Named(r.over))
  /\ Proposed(r.card) /\ Proposed(r.intent)
  /\ (r.card # None => r.card.team = r.agent.team)

\* The selection is served, unless it was confirmed on an older configuration's card.
Selected(s, c, o) == s # None => Named(s) /\ (o \/ Serves(s, c))

\* Before anybody was selected nobody answers anywhere.
Unused(r) == r.agent = Nobody /\ r.over = None

\* A switch inside a branch is to the selection, a shown handoff of the branch's team.
Sent(t, r, s) ==
  /\ t.kind = "switch" => /\ t.to.expert \in Experts /\ s # None
                          /\ (~t.cross => t.to = s)
  /\ t.kind = "control" => Proposed(t.card) /\ t.card.team = r.agent.team

\* What an ordinary chat is answered with.
Inherits(r, c, o) == r.over = None /\ ~o => Serves(r.agent, c)

Inv ==
  /\ TypeOK
  /\ \A b \in Branches : Sound(branch[b]) /\ (sel = None => Unused(branch[b]))
  /\ Selected(sel, config, stale)
  /\ Sent(turn, branch[cur], sel)
  /\ turn.kind = "chat" /\ turn.inherits => Inherits(branch[cur], config, stale)

-----------------------------------------------------------------------------
(* What the operators on a branch do. *)

\* A questionnaire is closed for good, or goes on with the same expert.
Keeps(r, n) ==
  n.form = None \/ (n.agent.expert = r.agent.expert /\ (r.form = None => n.form = None))

LEMMA BranchParts ==
  ASSUME NEW r \in Branch
  PROVE  /\ r.agent \in Agents /\ r.over \in Agents \cup {None}
         /\ r.intent \in Handoffs \cup {None} /\ r.card \in Handoffs \cup {None}
         /\ r.form \in Forms \cup {None} /\ r.route \in BOOLEAN
BY DEF Branch

LEMMA Constants ==
  /\ Unbound \in Branches /\ None \notin Configs /\ None \notin Experts /\ None \notin Agents
  /\ \A d \in Configs \cup {None} : /\ Members[d] \subseteq Experts /\ Coordinator[d] \in Members[d]
                                    /\ Coordinator[d] \in Experts
                                    /\ Team[d] # None /\ Team[d] \in Teams
  /\ \A a \in Picks : a \in Agents /\ a.expert # None
BY ExpertSessionAssumption DEF Teams

LEMMA AgentOf ==
  /\ Nobody \in Agents /\ Nobody.team = None /\ Nobody.expert = None /\ Nobody # None
  /\ \A t \in Teams \cup {None}, e \in Experts \cup {None} :
        Agent(t, e) \in Agents /\ Agent(t, e).team = t /\ Agent(t, e).expert = e
  /\ \A a \in Agents : a.team \in Teams \cup {None} /\ a.expert \in Experts \cup {None}
  /\ \A a \in Agents : Named(a) => (a = Nobody \/ a.expert \in Experts)
BY Constants DEF Agents, Agent, Nobody, Named

LEMMA ExpiredOf ==
  ASSUME NEW r \in Branch
  PROVE  /\ Expired(r) \in Branch /\ Expired(r).agent = r.agent /\ Expired(r).over = r.over
         /\ Expired(r).intent = r.intent /\ Expired(r).card = None /\ ~Expired(r).route
         /\ (r.form = None <=> Expired(r).form = None) \/ Expired(r).form = None
         /\ (r.form = None => Expired(r).form = None)
<1> DEFINE f == IF r.form = None THEN None ELSE [r.form EXCEPT !.live = FALSE]
<1>1. f \in Forms \cup {None} /\ (r.form = None => f = None)
  BY BranchParts DEF Forms
<1>2. Expired(r) = [r EXCEPT !.card = None, !.route = FALSE, !.form = f]
  BY DEF Expired
<1> HIDE DEF f
<1> QED BY <1>1, <1>2 DEF Branch

LEMMA AbandonedOf ==
  ASSUME NEW r \in Branch
  PROVE  /\ Abandoned(r) \in Branch /\ Abandoned(r).agent = r.agent
         /\ Abandoned(r).over = r.over /\ Abandoned(r).intent = r.intent
         /\ Abandoned(r).card = None /\ ~Abandoned(r).route /\ Abandoned(r).form = None
<1> DEFINE e == Expired(r)
<1>1. e \in Branch /\ e.agent = r.agent /\ e.over = r.over /\ e.intent = r.intent
      /\ e.card = None /\ ~e.route
  BY ExpiredOf
<1>2. Abandoned(r) = [e EXCEPT !.form = None]
  BY DEF Abandoned
<1> HIDE DEF e
<1> QED BY <1>1, <1>2 DEF Branch

LEMMA FormsOf ==
  ASSUME NEW r \in Branch
  PROVE  /\ AbandonedForms(r) \in Branch /\ AbandonedForms(r).agent = r.agent
         /\ AbandonedForms(r).over = r.over /\ AbandonedForms(r).intent = r.intent
         /\ AbandonedForms(r).card = r.card /\ AbandonedForms(r).form = None
         /\ AbandonedForms(r).route = r.route
BY DEF AbandonedForms, Branch

LEMMA DroppedOf ==
  ASSUME NEW r \in Branch
  PROVE  /\ Dropped(r) \in Branch /\ Dropped(r).agent = r.agent /\ Dropped(r).over = r.over
         /\ Dropped(r).intent = None /\ Dropped(r).card = r.card /\ Dropped(r).form = r.form
         /\ Dropped(r).route = r.route
BY DEF Dropped, Branch

LEMMA WithAgent ==
  ASSUME NEW r \in Branch, NEW a \in Agents
  PROVE  LET n == [r EXCEPT !.agent = a]
         IN /\ n \in Branch /\ n.agent = a /\ n.over = r.over /\ n.intent = r.intent
            /\ n.card = r.card /\ n.form = r.form /\ n.route = r.route
BY DEF Branch

LEMMA WithOver ==
  ASSUME NEW r \in Branch, NEW a \in Agents \cup {None}
  PROVE  LET n == [r EXCEPT !.over = a]
         IN /\ n \in Branch /\ n.agent = r.agent /\ n.over = a /\ n.intent = r.intent
            /\ n.card = r.card /\ n.form = r.form /\ n.route = r.route
BY DEF Branch

LEMMA WithIntent ==
  ASSUME NEW r \in Branch, NEW h \in Handoffs \cup {None}
  PROVE  LET n == [r EXCEPT !.intent = h]
         IN /\ n \in Branch /\ n.agent = r.agent /\ n.over = r.over /\ n.intent = h
            /\ n.card = r.card /\ n.form = r.form /\ n.route = r.route
BY DEF Branch

LEMMA AnswersOf ==
  ASSUME NEW r \in Branch, NEW s \in Agents \cup {None}
  PROVE  /\ Answers(r, s) \in Agents
         /\ Sound(r) /\ (s # None => Named(s)) => Named(Answers(r, s))
BY BranchParts DEF Answers, Sound

LEMMA InheritedOf ==
  ASSUME NEW r \in Branch, NEW s \in Agents \cup {None}, Sound(r), s # None => Named(s)
  PROVE  /\ Inherited(r, s) \in Branch /\ Sound(Inherited(r, s))
         /\ Inherited(r, s).agent = Answers(r, s) /\ Inherited(r, s).over = r.over
         /\ Inherited(r, s).intent = r.intent /\ Keeps(r, Inherited(r, s))
         /\ Inherited(r, s).form \in {r.form, None}
<1> DEFINE n == [r EXCEPT !.agent = Answers(r, s)]
<1>1. Answers(r, s) \in Agents /\ Named(Answers(r, s))
  BY AnswersOf
<1>2. /\ n \in Branch /\ n.agent = Answers(r, s) /\ n.over = r.over /\ n.intent = r.intent
  BY <1>1, WithAgent
<1>3. Inherited(r, s) = IF n = r THEN n ELSE Abandoned(n)
  BY DEF Inherited
<1> HIDE DEF n
<1>4. CASE n = r
  BY <1>2, <1>3, <1>4 DEF Keeps
<1>5. CASE n # r
  <2>1. /\ Inherited(r, s) \in Branch /\ Inherited(r, s).agent = Answers(r, s)
        /\ Inherited(r, s).over = r.over /\ Inherited(r, s).intent = r.intent
        /\ Inherited(r, s).card = None /\ Inherited(r, s).form = None
    BY <1>2, <1>3, <1>5, AbandonedOf
  <2> QED BY <2>1, <1>1 DEF Sound, Keeps, Proposed
<1> QED BY <1>4, <1>5

LEMMA KeepsChain ==
  ASSUME NEW r, NEW m, NEW n, Keeps(r, m), Keeps(m, n)
  PROVE  Keeps(r, n)
BY DEF Keeps

-----------------------------------------------------------------------------
(* What a request works on. *)

Views == [here : Branch, sel : Agents \cup {None}, config : Configs \cup {None},
          stale : BOOLEAN]

\* What branch b and the session may become.
Good(b, v) ==
  /\ v \in Views /\ Sound(v.here) /\ Keeps(branch[b], v.here)
  /\ Selected(v.sel, v.config, v.stale)
  /\ v.sel = None => sel = None /\ Unused(v.here)

\* What the other branches may become: nobody else answers there.
Beside(b, o) ==
  /\ o \in [Branches -> Branch]
  /\ \A a \in Branches \ {b} :
       o[a].agent = branch[a].agent /\ o[a].over = branch[a].over /\ Sound(o[a])

LEMMA ViewOf ==
  ASSUME NEW r \in Branch, NEW s \in Agents \cup {None}, NEW c \in Configs \cup {None},
         NEW o \in BOOLEAN
  PROVE  /\ View(r, s, c, o) \in Views /\ View(r, s, c, o).here = r /\ View(r, s, c, o).sel = s
         /\ View(r, s, c, o).config = c /\ View(r, s, c, o).stale = o
BY DEF View, Views

LEMMA ViewParts ==
  ASSUME NEW v \in Views
  PROVE  /\ v.here \in Branch /\ v.sel \in Agents \cup {None} /\ v.config \in Configs \cup {None}
         /\ v.stale \in BOOLEAN
BY DEF Views

LEMMA WithHere ==
  ASSUME NEW v \in Views, NEW r \in Branch
  PROVE  LET w == [v EXCEPT !.here = r]
         IN w \in Views /\ w.here = r /\ w.sel = v.sel /\ w.config = v.config /\ w.stale = v.stale
BY DEF Views

LEMMA LeftOf ==
  ASSUME Inv, NEW b \in Branches
  PROVE  /\ Beside(b, Left(b)) /\ Left(b)[b] = branch[b]
         /\ \A a \in Branches : /\ Left(b)[a].card = branch[a].card
                                 /\ Left(b)[a].intent = branch[a].intent
<1>1. cur \in Branches /\ branch \in [Branches -> Branch] /\ \A a \in Branches : Sound(branch[a])
  BY DEF Inv, TypeOK
<1> DEFINE f == AbandonedForms(branch[cur])
<1>2. /\ f \in Branch /\ f.agent = branch[cur].agent /\ f.over = branch[cur].over
      /\ f.card = branch[cur].card /\ f.intent = branch[cur].intent
  BY <1>1, FormsOf
<1>3. Sound(f)
  BY <1>1, <1>2 DEF Sound
<1>4. Left(b) = IF b # cur /\ cur # Unbound THEN [branch EXCEPT ![cur] = f] ELSE branch
  BY DEF Left
<1> HIDE DEF f
<1> QED BY <1>1, <1>2, <1>3, <1>4 DEF Beside

LEMMA SyncedOf ==
  ASSUME Inv, NEW b \in Branches
  PROVE  Good(b, Synced(branch[b])) /\ Synced(branch[b]).here.form = None
<1> DEFINE r == branch[b]
           prior == IF r.agent.expert # None THEN r.agent.expert
                      ELSE IF sel # None THEN sel.expert ELSE None
           e == IF prior \in Members[served] THEN prior ELSE Coordinator[served]
           next == IF served = None THEN Nobody ELSE Agent(Team[served], e)
           n == Inherited(Abandoned(r), next)
<1>1. r \in Branch /\ Sound(r) /\ served \in Configs \cup {None}
  BY DEF Inv, TypeOK
<1>2. e \in Members[served] /\ e \in Experts
  BY <1>1, Constants
<1>3. /\ next \in Agents /\ Named(next) /\ Serves(next, served)
  BY <1>1, <1>2, Constants, AgentOf DEF Named, Serves
<1>4. Synced(r) = View(n, next, served, FALSE)
  BY DEF Synced
<1> HIDE DEF next, e, prior
<1>5. /\ Abandoned(r) \in Branch /\ Sound(Abandoned(r)) /\ Abandoned(r).form = None
  BY <1>1, AbandonedOf DEF Sound, Proposed
<1>6. n \in Branch /\ Sound(n) /\ n.form \in {Abandoned(r).form, None}
  BY <1>3, <1>5, InheritedOf
<1> HIDE DEF n, r
<1>7. n.form = None /\ Keeps(r, n)
  BY <1>5, <1>6 DEF Keeps
<1>8. next # None
  BY <1>3, Constants
<1>9. LET v == Synced(r)
      IN v \in Views /\ v.here = n /\ v.sel = next /\ v.config = served
  BY <1>1, <1>3, <1>4, <1>6 DEF View, Views
<1>10. Good(b, Synced(r)) /\ Synced(r).here.form = None
  BY <1>3, <1>6, <1>7, <1>8, <1>9 DEF Good, Selected, r
<1> QED BY <1>10 DEF r

LEMMA ArrivedOf ==
  ASSUME Inv, NEW b \in Branches
  PROVE  /\ Good(b, Arrived(b)) /\ Arrived(b).here \in Branch
         /\ ~MustSync(Left(b)[b]) => Arrived(b) = View(branch[b], sel, config, stale)
<1>1. Left(b)[b] = branch[b]
  BY LeftOf
<1>2. CASE MustSync(branch[b])
  <2>1. Arrived(b) = Synced(branch[b])
    BY <1>1, <1>2 DEF Arrived
  <2> QED BY <1>1, <1>2, <2>1, SyncedOf, ViewParts DEF Good
<1>3. CASE ~MustSync(branch[b])
  <2>1. Arrived(b) = View(branch[b], sel, config, stale)
    BY <1>1, <1>3 DEF Arrived
  <2>2. /\ branch[b] \in Branch /\ sel \in Agents \cup {None} /\ config \in Configs \cup {None}
        /\ stale \in BOOLEAN /\ Sound(branch[b]) /\ Selected(sel, config, stale)
        /\ sel = None => Unused(branch[b])
    BY DEF Inv, TypeOK
  <2>3. Keeps(branch[b], branch[b])
    BY DEF Keeps
  <2> HIDE DEF Keeps
  <2> QED BY <2>1, <2>2, <2>3, ViewOf DEF Good
<1> QED BY <1>2, <1>3

LEMMA ContinuedOf ==
  ASSUME Inv, NEW b \in Branches, NEW i \in BOOLEAN
  PROVE  /\ Good(b, Continued(b, i))
         /\ i => LET v == Continued(b, i) IN Inherits(v.here, v.config, v.stale)
<1> DEFINE v == Arrived(b)
           n == Inherited(v.here, v.sel)
           w == [v EXCEPT !.here = n]
<1>1. Good(b, v)
  BY ArrivedOf
<1>2. Continued(b, i) = IF i THEN w ELSE v
  BY DEF Continued
<1> HIDE DEF v
<1>3. CASE ~i
  BY <1>1, <1>2, <1>3
<1>4. CASE i
  <2>1. /\ v \in Views /\ v.here \in Branch /\ v.sel \in Agents \cup {None}
        /\ Sound(v.here) /\ (v.sel # None => Named(v.sel))
    BY <1>1, ViewParts DEF Good, Selected
  <2>2. /\ n \in Branch /\ Sound(n) /\ n.agent = Answers(v.here, v.sel) /\ n.over = v.here.over
        /\ Keeps(v.here, n)
    BY <2>1, InheritedOf
  <2>3. v.sel = None => sel = None /\ Unused(n)
    BY <1>1, <2>2 DEF Good, Unused, Answers
  <2>4. Inherits(n, v.config, v.stale)
    BY <1>1, <2>2, <2>3 DEF Good, Unused, Answers, Inherits, Selected, Serves
  <2> HIDE DEF n
  <2>5. /\ w \in Views /\ w.here = n /\ w.sel = v.sel /\ w.config = v.config /\ w.stale = v.stale
    BY <2>1, <2>2, WithHere
  <2>6. Keeps(branch[b], n)
    BY <1>1, <2>2, KeepsChain DEF Good
  <2> HIDE DEF w
  <2> QED BY <1>1, <1>2, <1>4, <2>2, <2>3, <2>4, <2>5, <2>6 DEF Good
<1> QED BY <1>3, <1>4

-----------------------------------------------------------------------------
(* Requests. *)

\* What a request leaves to its turn.
Starts(t, v) ==
  /\ t \in Turns /\ Sent(t, v.here, v.sel)
  /\ t.kind = "chat" /\ t.inherits => Inherits(v.here, v.config, v.stale)

LEMMA TurnsOf ==
  /\ Idle \in Turns /\ Idle.kind = "idle"
  /\ \A i \in BOOLEAN : LET t == [kind |-> "chat", inherits |-> i] IN t \in Turns
  /\ \A h \in Handoffs : LET t == [kind |-> "control", card |-> h] IN t \in Turns
  /\ \A a \in Agents, x \in BOOLEAN :
        LET t == [kind |-> "switch", to |-> a, cross |-> x] IN t \in Turns
  /\ LET t == [kind |-> "skill"] IN t \in Turns
  /\ \A t \in Turns : /\ t.kind = "control" => t.card \in Handoffs
                      /\ t.kind = "switch" => t.to \in Agents /\ t.cross \in BOOLEAN
                      /\ t.kind = "chat" => t.inherits \in BOOLEAN
BY DEF Turns, Idle

LEMMA CommitOf ==
  ASSUME Inv, NEW b \in Branches, NEW v, NEW o, NEW t, Commit(b, v, o, t),
         Good(b, v), Beside(b, o), Starts(t, v)
  PROVE  Inv' /\ FormsEndWithTheirExpert
<1>1. /\ v.here \in Branch /\ v.sel \in Agents \cup {None} /\ v.config \in Configs \cup {None}
      /\ v.stale \in BOOLEAN
  BY ViewParts DEF Good
<1>2. branch' \in [Branches -> Branch] /\ branch'[b] = v.here
      /\ \A a \in Branches \ {b} : branch'[a] = o[a]
  BY <1>1 DEF Commit, Beside
<1>3. /\ cur' = b /\ sel' = v.sel /\ config' = v.config /\ stale' = v.stale /\ turn' = t
      /\ served' = served
  BY DEF Commit
<1>4. TypeOK'
  BY <1>1, <1>2, <1>3 DEF TypeOK, Inv, Starts
<1>5. ASSUME NEW a \in Branches
      PROVE  Sound(branch'[a]) /\ (sel' = None => Unused(branch'[a]))
  BY <1>2, <1>3 DEF Good, Beside, Inv, Unused
<1>6. Selected(sel', config', stale')
  BY <1>3 DEF Good
<1>7. /\ Sent(turn', branch'[cur'], sel')
      /\ (turn'.kind = "chat" /\ turn'.inherits => Inherits(branch'[cur'], config', stale'))
  BY <1>2, <1>3 DEF Starts
<1>8. FormsEndWithTheirExpert
  <2> SUFFICES ASSUME NEW a \in Branches, branch[a].agent.expert # branch'[a].agent.expert
               PROVE  branch'[a].form = None
    BY DEF FormsEndWithTheirExpert
  <2>1. a = b
    BY <1>2 DEF Beside
  <2> QED BY <2>1, <1>2 DEF Good, Keeps
<1> QED BY <1>4, <1>5, <1>6, <1>7, <1>8 DEF Inv

LEMMA GoodHere ==
  ASSUME NEW b, NEW v, Good(b, v), NEW n \in Branch, Sound(n), Keeps(v.here, n),
         v.sel = None => Unused(n)
  PROVE  LET w == [v EXCEPT !.here = n]
         IN Good(b, w) /\ w.here = n /\ w.sel = v.sel /\ w.config = v.config /\ w.stale = v.stale
<1> DEFINE w == [v EXCEPT !.here = n]
<1>1. w \in Views /\ w.here = n /\ w.sel = v.sel /\ w.config = v.config /\ w.stale = v.stale
  BY WithHere DEF Good
<1> HIDE DEF w
<1>2. Keeps(branch[b], n)
  BY KeepsChain DEF Good
<1>3. Good(b, w)
  BY <1>1, <1>2 DEF Good
<1> QED BY <1>1, <1>3 DEF w

LEMMA SpokenOf ==
  ASSUME Inv, NEW b \in Branches, NEW v, NEW consent \in BOOLEAN, NEW inherits \in BOOLEAN,
         Good(b, v), inherits => Inherits(v.here, v.config, v.stale),
         Spoken(b, v, consent, inherits)
  PROVE  Inv' /\ FormsEndWithTheirExpert /\ ~CrossHandoff(turn')
<1> DEFINE h == IF consent THEN Consented(v.here) ELSE None
           open == IF AnyActive(v.here) THEN Dropped(v.here) ELSE v.here
<1>1. v \in Views /\ v.here \in Branch /\ Sound(v.here) /\ Beside(b, Left(b))
  BY ViewParts, LeftOf DEF Good
<1>2. h \in Handoffs \cup {None} /\ (h # None => Proposed(h) /\ h.team = v.here.agent.team)
  BY <1>1, BranchParts DEF Consented, Sound
<1>3. \/ /\ h # None
         /\ Commit(b, [v EXCEPT !.here.intent = h], Left(b), [kind |-> "control", card |-> h])
      \/ h = None /\ Commit(b, [v EXCEPT !.here = Expired(open)], Left(b),
                            [kind |-> "chat", inherits |-> inherits])
  BY DEF Spoken
<1> HIDE DEF h
<1>4. CASE /\ h # None
           /\ Commit(b, [v EXCEPT !.here.intent = h], Left(b), [kind |-> "control", card |-> h])
  <2> DEFINE n == [v.here EXCEPT !.intent = h]
             w == [v EXCEPT !.here = n]
             t == [kind |-> "control", card |-> h]
  <2>1. /\ n \in Branch /\ n.agent = v.here.agent /\ n.over = v.here.over /\ n.intent = h
        /\ n.card = v.here.card /\ n.form = v.here.form
    BY <1>1, <1>2, WithIntent
  <2>2. [v EXCEPT !.here.intent = h] = w
    BY <1>1 DEF Views
  <2>3. Commit(b, w, Left(b), t)
    BY <1>4, <2>2
  <2>4. t \in Turns /\ t.kind = "control" /\ t.card = h
    BY <1>2, <1>4, TurnsOf
  <2> HIDE DEF n, t
  <2>5. Sound(n) /\ Keeps(v.here, n) /\ (v.sel = None => Unused(n))
    BY <1>1, <1>2, <1>4, <2>1 DEF Sound, Keeps, Good, Unused
  <2>6. Good(b, w) /\ w.here = n
    BY <2>1, <2>5, GoodHere
  <2> HIDE DEF w
  <2>7. Starts(t, w)
    BY <1>2, <1>4, <2>1, <2>4, <2>6 DEF Starts, Sent
  <2>8. turn' = t
    BY <2>3 DEF Commit
  <2> QED BY <1>1, <2>3, <2>4, <2>6, <2>7, <2>8, CommitOf DEF CrossHandoff
<1>5. CASE Commit(b, [v EXCEPT !.here = Expired(open)], Left(b),
                  [kind |-> "chat", inherits |-> inherits])
  <2> DEFINE n == Expired(open)
             w == [v EXCEPT !.here = n]
             t == [kind |-> "chat", inherits |-> inherits]
  <2>1. /\ open \in Branch /\ open.agent = v.here.agent /\ open.over = v.here.over
        /\ open.intent \in {None, v.here.intent} /\ open.form = v.here.form
    BY <1>1, DroppedOf
  <2> HIDE DEF open
  <2>2. /\ n \in Branch /\ n.agent = v.here.agent /\ n.over = v.here.over
        /\ n.intent \in {None, v.here.intent} /\ n.card = None
        /\ (v.here.form = None => n.form = None)
    BY <2>1, ExpiredOf
  <2> HIDE DEF n
  <2>3. Sound(n) /\ Keeps(v.here, n) /\ (v.sel = None => Unused(n))
    BY <1>1, <2>2 DEF Sound, Keeps, Good, Unused, Proposed
  <2>4. Good(b, w) /\ w.here = n /\ w.config = v.config /\ w.stale = v.stale
    BY <2>2, <2>3, GoodHere
  <2>5. t \in Turns /\ t.kind = "chat" /\ t.inherits = inherits
    BY TurnsOf
  <2>6. Commit(b, w, Left(b), t)
    BY <1>5 DEF n
  <2> HIDE DEF w, t
  <2>7. Starts(t, w)
    BY <2>2, <2>4, <2>5 DEF Starts, Sent, Inherits
  <2>8. turn' = t
    BY <2>6 DEF Commit
  <2> QED BY <1>1, <2>4, <2>5, <2>6, <2>7, <2>8, CommitOf DEF CrossHandoff
<1> QED BY <1>3, <1>4, <1>5

LEMMA ChosenParts ==
  ASSUME NEW v \in Views, NEW a \in Agents
  PROVE  LET n == [v.here EXCEPT !.agent = a]
             w == Chosen(v, a)
         IN w \in Views /\ w.here = n /\ w.sel = a /\ w.config = v.config /\ w.stale = FALSE
<1> DEFINE n == [v.here EXCEPT !.agent = a]
<1>1. n \in Branch
  BY ViewParts, WithAgent
<1>2. Chosen(v, a) = [v EXCEPT !.here = n, !.sel = a, !.stale = FALSE]
  BY DEF Chosen, Views
<1> HIDE DEF n
<1>3. LET w == Chosen(v, a)
      IN w \in Views /\ w.here = n /\ w.sel = a /\ w.config = v.config /\ w.stale = FALSE
  BY <1>1, <1>2 DEF Views
<1> QED BY <1>3 DEF n

\* What is left open in a branch may go on under the agent a.
Fits(m, a) ==
  \/ m.agent = a
  \/ m.card = None /\ m.form = None
  \/ m.agent.team = a.team /\ m.agent.expert = a.expert

\* An agent is chosen with what m keeps of the branch.
LEMMA ChosenOf ==
  ASSUME NEW b, NEW v, Good(b, v), NEW m \in Branch, Sound(m), Keeps(v.here, m),
         NEW a \in Agents, Named(a), Serves(a, v.config), Fits(m, a)
  PROVE  LET w == Chosen([v EXCEPT !.here = m], a)
         IN /\ Good(b, w) /\ w.here = [m EXCEPT !.agent = a] /\ w.sel = a
            /\ w.config = v.config /\ w.stale = FALSE
<1> DEFINE u == [v EXCEPT !.here = m]
           n == [m EXCEPT !.agent = a]
           w == Chosen(u, a)
<1>1. u \in Views /\ u.here = m /\ u.config = v.config
  BY WithHere DEF Good
<1> HIDE DEF u
<1>2. w \in Views /\ w.here = n /\ w.sel = a /\ w.config = v.config /\ w.stale = FALSE
  BY <1>1, ChosenParts
<1>3. /\ n \in Branch /\ n.agent = a /\ n.over = m.over /\ n.intent = m.intent
      /\ n.card = m.card /\ n.form = m.form
  BY WithAgent
<1> HIDE DEF n, w
<1>4. Sound(n) /\ Keeps(m, n)
  BY <1>3 DEF Sound, Keeps, Fits
<1>5. Keeps(branch[b], n)
  BY <1>4, KeepsChain DEF Good
<1>6. a # None
  BY Constants
<1>7. Good(b, w)
  BY <1>2, <1>4, <1>5, <1>6 DEF Good, Selected
<1> QED BY <1>2, <1>7 DEF n, w, u

LEMMA ClearOf ==
  ASSUME Inv, NEW b \in Branches, NEW consent \in BOOLEAN, Clear(b, consent)
  PROVE  Inv' /\ FormsEndWithTheirExpert /\ ~CrossHandoff(turn')
<1> DEFINE u == Arrived(b)
           v == Chosen(u, Nobody)
           r == [u.here EXCEPT !.over = None]
           m == Inherited(r, Nobody)
           n == [m EXCEPT !.intent = None]
           w == [v EXCEPT !.here = n]
<1>1. Good(b, u) /\ u \in Views /\ u.here \in Branch /\ Sound(u.here)
  BY ArrivedOf, ViewParts DEF Good
<1>2. Spoken(b, w, consent, FALSE)
  BY DEF Clear
<1> HIDE DEF u
<1>3. Nobody \in Agents /\ Nobody # None /\ Named(Nobody) /\ Serves(Nobody, u.config)
  BY AgentOf DEF Named, Serves
<1>4. v \in Views /\ v.sel = Nobody /\ v.config = u.config /\ v.stale = FALSE
  BY <1>1, <1>3, ChosenParts
<1> HIDE DEF v
<1>5. /\ r \in Branch /\ r.agent = u.here.agent /\ r.over = None /\ r.intent = u.here.intent
      /\ r.card = u.here.card /\ r.form = u.here.form
  BY <1>1, WithOver
<1> HIDE DEF r
<1>6. Sound(r) /\ Keeps(u.here, r)
  BY <1>1, <1>5 DEF Sound, Keeps
<1>7. /\ m \in Branch /\ Sound(m) /\ Keeps(r, m)
  BY <1>3, <1>5, <1>6, InheritedOf
<1> HIDE DEF m
<1>8. /\ n \in Branch /\ n.agent = m.agent /\ n.over = m.over /\ n.intent = None
      /\ n.card = m.card /\ n.form = m.form
  BY <1>7, WithIntent
<1> HIDE DEF n
<1>9. Sound(n) /\ Keeps(m, n)
  BY <1>7, <1>8 DEF Sound, Keeps, Proposed
<1>10. Keeps(branch[b], n)
  BY <1>1, <1>6, <1>7, <1>9, KeepsChain DEF Good
<1>11. w \in Views /\ w.here = n /\ w.sel = Nobody /\ w.config = u.config /\ w.stale = FALSE
  BY <1>4, <1>8, WithHere
<1> HIDE DEF w
<1>12. Good(b, w)
  BY <1>3, <1>9, <1>10, <1>11 DEF Good, Selected
<1> QED BY <1>2, <1>12, SpokenOf

LEMMA SelectOf ==
  ASSUME Inv, NEW b \in Branches, NEW a \in Picks, Select(b, a)
  PROVE  Inv' /\ FormsEndWithTheirExpert /\ ~CrossHandoff(turn')
<1> DEFINE v == Arrived(b)
           m == IF v.here.agent = a THEN v.here ELSE Abandoned(v.here)
           n == [m EXCEPT !.over = None]
           d == Dropped(n)
           w == Chosen([v EXCEPT !.here = d], a)
<1>1. Good(b, v) /\ v \in Views /\ v.here \in Branch /\ Sound(v.here)
  BY ArrivedOf, ViewParts DEF Good
<1>2. Taken(v, a) = w
  BY <1>1 DEF Taken
<1>3. Spoken(b, w, FALSE, FALSE) /\ a.expert \in Members[v.config]
      /\ a.team \in {Team[v.config], None}
  BY <1>2 DEF Select
<1> HIDE DEF v
<1>4. a \in Agents /\ a.expert # None /\ Named(a) /\ Serves(a, v.config)
  BY <1>3, Constants, AgentOf DEF Named, Serves
<1>5. /\ m \in Branch /\ m.agent = v.here.agent /\ m.over = v.here.over
      /\ m.intent = v.here.intent /\ m.card \in {None, v.here.card}
      /\ m.form \in {None, v.here.form}
      /\ (m.agent = a \/ (m.card = None /\ m.form = None))
  BY <1>1, AbandonedOf
<1> HIDE DEF m
<1>6. /\ n \in Branch /\ n.agent = m.agent /\ n.over = None /\ n.intent = m.intent
      /\ n.card = m.card /\ n.form = m.form
  BY <1>5, WithOver
<1> HIDE DEF n
<1>7. /\ d \in Branch /\ d.agent = m.agent /\ d.over = None /\ d.intent = None
      /\ d.card = m.card /\ d.form = m.form
  BY <1>6, DroppedOf
<1> HIDE DEF d
<1>8. Sound(d) /\ Keeps(v.here, d)
  BY <1>1, <1>5, <1>7 DEF Sound, Keeps, Proposed
<1>9. Good(b, w)
  <2>1. Fits(d, a)
    BY <1>5, <1>7 DEF Fits
  <2> QED BY <1>1, <1>4, <1>7, <1>8, <2>1, ChosenOf
<1> HIDE DEF w
<1> QED BY <1>3, <1>9, SpokenOf

\* The card of another branch is taken away with its handoff.
LEMMA HandedOnOf ==
  ASSUME NEW r \in Branch, Sound(r)
  PROVE  /\ HandedOn(r) \in Branch /\ HandedOn(r).agent = r.agent /\ HandedOn(r).over = r.over
         /\ Sound(HandedOn(r))
<1>1. /\ Dropped(r) \in Branch /\ Dropped(r).agent = r.agent /\ Dropped(r).over = r.over
      /\ Dropped(r).intent = None
  BY DroppedOf
<1>2. HandedOn(r) = [Dropped(r) EXCEPT !.card = None]
  BY DEF HandedOn
<1>3. /\ HandedOn(r) \in Branch /\ HandedOn(r).agent = r.agent /\ HandedOn(r).over = r.over
      /\ HandedOn(r).card = None /\ HandedOn(r).intent = None
  BY <1>1, <1>2 DEF Branch
<1> QED BY <1>3 DEF Sound, Proposed

LEMMA ConfirmOf ==
  ASSUME Inv, NEW b \in Branches, NEW a \in Branches, NEW e \in Experts, Confirm(b, a, e)
  PROVE  /\ Inv' /\ FormsEndWithTheirExpert
         /\ CrossHandoff(turn') => \A x \in Branches \ {b} :
                                     Answers(branch'[x], sel') = Answers(branch[x], sel)
<1> DEFINE v == Arrived(b)
           h == Left(b)[a].card
           to == Agent(h.team, e)
           q == Abandoned(v.here)
           n == [q EXCEPT !.agent = to]
           odd == h.under # v.config
<1>1. Good(b, v) /\ v \in Views /\ v.here \in Branch /\ Sound(v.here)
  BY ArrivedOf, ViewParts DEF Good
<1>2. /\ h # None /\ h.team = Team[v.config] /\ e \in h.cands
      /\ \/ a = b /\ Commit(b, [v EXCEPT !.here = n, !.sel = to, !.stale = odd], Left(b),
                            [kind |-> "switch", to |-> to, cross |-> FALSE])
         \/ a # b /\ Commit(b, [v EXCEPT !.here = [n EXCEPT !.over = to]],
                            [Left(b) EXCEPT ![a] = HandedOn(@)],
                            [kind |-> "switch", to |-> to, cross |-> TRUE])
      /\ v.sel = sel
  <2>1. v = View(branch[b], sel, config, stale)
    BY ArrivedOf DEF Confirm
  <2>2. v.sel = sel
    BY <2>1 DEF View
  <2> QED BY <2>2 DEF Confirm
<1>3. /\ branch[a] \in Branch /\ Sound(branch[a]) /\ h = branch[a].card
      /\ (sel = None => Unused(branch[a]))
  BY LeftOf DEF Inv, TypeOK
<1>4. h \in Handoffs /\ Proposed(h) /\ h.team = branch[a].agent.team
  BY <1>2, <1>3, BranchParts DEF Sound
<1>5. v.config \in Configs \cup {None} /\ Beside(b, Left(b)) /\ Left(b) \in [Branches -> Branch]
  BY <1>1, ViewParts, LeftOf DEF Beside
<1> HIDE DEF v, h
<1>6. sel # None
  BY <1>2, <1>3, <1>4, <1>5, Constants, AgentOf DEF Unused
<1>7. to \in Agents /\ to.team = h.team /\ to.expert = e /\ Named(to) /\ to # None
  BY <1>4, AgentOf, Constants DEF Handoffs, Named
<1>8. ~odd => Serves(to, v.config)
  BY <1>2, <1>4, <1>7 DEF Serves, Proposed
<1> HIDE DEF to
<1>9. /\ q \in Branch /\ q.over = v.here.over /\ q.intent = v.here.intent
      /\ q.card = None /\ q.form = None
  BY <1>1, AbandonedOf
<1> HIDE DEF q
<1>10. /\ n \in Branch /\ n.agent = to /\ n.over = v.here.over /\ n.intent = v.here.intent
       /\ n.card = None /\ n.form = None
  BY <1>7, <1>9, WithAgent
<1> HIDE DEF n
<1>11. Sound(n) /\ Keeps(branch[b], n)
  BY <1>1, <1>7, <1>10 DEF Sound, Keeps, Proposed
<1>12. ASSUME a = b, Commit(b, [v EXCEPT !.here = n, !.sel = to, !.stale = odd], Left(b),
                            [kind |-> "switch", to |-> to, cross |-> FALSE])
       PROVE  Inv' /\ FormsEndWithTheirExpert /\ ~CrossHandoff(turn')
  <2> DEFINE w == [v EXCEPT !.here = n, !.sel = to, !.stale = odd]
             t == [kind |-> "switch", to |-> to, cross |-> FALSE]
  <2>1. w \in Views /\ w.here = n /\ w.sel = to /\ w.config = v.config /\ w.stale = odd
    BY <1>1, <1>7, <1>10 DEF Views
  <2>2. t \in Turns /\ t.kind = "switch" /\ t.to = to /\ t.cross = FALSE
    BY <1>7, TurnsOf
  <2>3. Commit(b, w, Left(b), t)
    BY <1>12
  <2> HIDE DEF w, t
  <2>4. Good(b, w)
    BY <1>7, <1>8, <1>11, <2>1 DEF Good, Selected
  <2>5. Starts(t, w)
    BY <1>7, <2>1, <2>2 DEF Starts, Sent
  <2>6. turn' = t
    BY <2>3 DEF Commit
  <2> QED BY <1>5, <2>2, <2>3, <2>4, <2>5, <2>6, CommitOf DEF CrossHandoff
<1>13. ASSUME a # b, Commit(b, [v EXCEPT !.here = [n EXCEPT !.over = to]],
                            [Left(b) EXCEPT ![a] = HandedOn(@)],
                            [kind |-> "switch", to |-> to, cross |-> TRUE])
       PROVE  /\ Inv' /\ FormsEndWithTheirExpert
              /\ \A x \in Branches \ {b} : Answers(branch'[x], sel') = Answers(branch[x], sel)
  <2> DEFINE d == [n EXCEPT !.over = to]
             w == [v EXCEPT !.here = d]
             t == [kind |-> "switch", to |-> to, cross |-> TRUE]
             o == [Left(b) EXCEPT ![a] = HandedOn(@)]
  <2>1. /\ d \in Branch /\ d.agent = to /\ d.over = to /\ d.intent = n.intent
        /\ d.card = None /\ d.form = None
    BY <1>7, <1>10, WithOver
  <2>2. Commit(b, w, o, t)
    BY <1>13
  <2> HIDE DEF d
  <2>3. w \in Views /\ w.here = d /\ w.sel = v.sel /\ w.config = v.config /\ w.stale = v.stale
    BY <1>1, <2>1, WithHere
  <2>4. t \in Turns /\ t.kind = "switch" /\ t.to = to /\ t.cross = TRUE
    BY <1>7, TurnsOf
  <2>5. /\ HandedOn(Left(b)[a]) \in Branch /\ Sound(HandedOn(Left(b)[a]))
        /\ HandedOn(Left(b)[a]).agent = branch[a].agent
        /\ HandedOn(Left(b)[a]).over = branch[a].over
    BY <1>5, <1>13, HandedOnOf DEF Beside
  <2>6. Beside(b, o)
    BY <1>5, <2>5 DEF Beside
  <2> HIDE DEF w, t, o
  <2>7. Good(b, w)
    BY <1>1, <1>2, <1>6, <1>7, <1>11, <1>10, <2>1, <2>3 DEF Good, Sound, Keeps
  <2>8. Starts(t, w)
    BY <1>2, <1>6, <1>7, <2>3, <2>4 DEF Starts, Sent
  <2>9. \A x \in Branches \ {b} : Answers(branch'[x], sel') = Answers(branch[x], sel)
    <3>1. branch' = [o EXCEPT ![b] = w.here] /\ sel' = sel
      BY <1>2, <2>2, <2>3 DEF Commit
    <3> QED BY <2>6, <3>1 DEF Beside, Answers
  <2> QED BY <2>2, <2>6, <2>7, <2>8, <2>9, CommitOf
<1> QED BY <1>2, <1>12, <1>13

LEMMA SwitchMemberOf ==
  ASSUME Inv, NEW b \in Branches, NEW e \in Experts, SwitchMember(b, e)
  PROVE  Inv' /\ FormsEndWithTheirExpert /\ ~CrossHandoff(turn')
<1> DEFINE v == Continued(b, b # cur)
           team == v.here.agent.team
           from == IF v.here.agent.expert # None THEN v.here.agent.expert ELSE Coordinator[v.config]
           m == IF from = e THEN v.here ELSE Abandoned(v.here)
           to == Agent(team, e)
           w == Chosen([v EXCEPT !.here = m], to)
           t == [kind |-> "switch", to |-> to, cross |-> FALSE]
<1>1. /\ Good(b, v) /\ v \in Views /\ v.here \in Branch /\ Sound(v.here)
      /\ v.config \in Configs \cup {None}
  BY ContinuedOf, ViewParts DEF Good
<1>2. team = Team[v.config] /\ e \in Members[v.config] /\ Commit(b, w, Left(b), t)
  BY DEF SwitchMember
<1> HIDE DEF v
<1>3. v.here.agent \in Agents /\ team \in Teams /\ team # None
  BY <1>1, <1>2, Constants, BranchParts
<1>4. from = v.here.agent.expert
  BY <1>1, <1>3, AgentOf, Constants DEF Sound, Named
<1>5. /\ to \in Agents /\ to.team = team /\ to.expert = e /\ Named(to) /\ Serves(to, v.config)
      /\ to # None
  BY <1>2, <1>3, AgentOf, Constants DEF Named, Serves
<1>6. /\ m \in Branch /\ m.agent = v.here.agent /\ m.over = v.here.over
      /\ m.intent = v.here.intent /\ m.card \in {None, v.here.card}
      /\ m.form \in {None, v.here.form}
      /\ (from = e \/ (m.card = None /\ m.form = None))
  BY <1>1, AbandonedOf
<1>7. t \in Turns /\ t.kind = "switch" /\ t.to = to /\ t.cross = FALSE
  BY <1>5, TurnsOf
<1> HIDE DEF to, t, m
<1>8. Sound(m) /\ Keeps(v.here, m)
  BY <1>1, <1>6 DEF Sound, Keeps, Proposed
<1>9. Good(b, w) /\ w.sel = to
  <2>1. /\ Good(b, v) /\ m \in Branch /\ Sound(m) /\ Keeps(v.here, m)
        /\ to \in Agents /\ Named(to) /\ Serves(to, v.config)
    BY <1>1, <1>5, <1>6, <1>8
  <2>2. Fits(m, to)
    BY <1>4, <1>5, <1>6 DEF Fits
  <2>3. Good(b, w)
    BY <2>1, <2>2, ChosenOf
  <2>4. w.sel = to
    <3> DEFINE u == [v EXCEPT !.here = m]
    <3>1. u \in Views
      BY <1>1, <2>1, WithHere
    <3> HIDE DEF u
    <3>2. Chosen(u, to).sel = to
      BY <2>1, <3>1, ChosenParts
    <3> QED BY <3>2 DEF u
  <2> QED BY <2>3, <2>4
<1> HIDE DEF w
<1>10. Starts(t, w)
  BY <1>5, <1>7, <1>9 DEF Starts, Sent
<1>11. turn' = t /\ Beside(b, Left(b))
  BY <1>2, LeftOf DEF Commit
<1> QED BY <1>2, <1>7, <1>9, <1>10, <1>11, CommitOf DEF CrossHandoff

LEMMA AbandonGood ==
  ASSUME NEW b, NEW v, Good(b, v)
  PROVE  LET w == [v EXCEPT !.here = Abandoned(@)]
         IN /\ Good(b, w) /\ w.here = Abandoned(v.here) /\ w.sel = v.sel
            /\ w.config = v.config /\ w.stale = v.stale
<1> DEFINE n == Abandoned(v.here)
           w == [v EXCEPT !.here = n]
<1>1. v \in Views /\ v.here \in Branch /\ Sound(v.here)
  BY ViewParts DEF Good
<1>2. /\ n \in Branch /\ n.agent = v.here.agent /\ n.over = v.here.over
      /\ n.intent = v.here.intent /\ n.card = None /\ n.form = None
  BY <1>1, AbandonedOf
<1>3. [v EXCEPT !.here = Abandoned(@)] = w
  BY <1>1 DEF Views
<1> HIDE DEF n
<1>4. Sound(n) /\ Keeps(v.here, n) /\ (v.sel = None => Unused(n))
  BY <1>1, <1>2 DEF Sound, Keeps, Good, Unused, Proposed
<1>5. Good(b, w) /\ w.here = n /\ w.sel = v.sel /\ w.config = v.config /\ w.stale = v.stale
  BY <1>2, <1>4, GoodHere
<1> HIDE DEF w
<1> QED BY <1>3, <1>5 DEF n

LEMMA StandaloneOf ==
  ASSUME Inv, NEW b \in Branches
  PROVE  Good(b, Standalone(b))
<1> DEFINE v == Continued(b, b # cur)
           m == Abandoned(v.here)
           w == Chosen([v EXCEPT !.here = m], Nobody)
<1>1. Good(b, v) /\ v \in Views /\ v.here \in Branch /\ Sound(v.here)
  BY ContinuedOf, ViewParts DEF Good
<1>2. Standalone(b) = IF v.here.agent = Nobody THEN v ELSE w
  BY <1>1 DEF Standalone, Views
<1> HIDE DEF v
<1>3. /\ m \in Branch /\ m.agent = v.here.agent /\ m.over = v.here.over
      /\ m.intent = v.here.intent /\ m.card = None /\ m.form = None
  BY <1>1, AbandonedOf
<1> HIDE DEF m
<1>4. Sound(m) /\ Keeps(v.here, m)
  BY <1>1, <1>3 DEF Sound, Keeps, Proposed
<1>5. Nobody \in Agents /\ Named(Nobody) /\ Serves(Nobody, v.config)
  BY AgentOf DEF Named, Serves
<1>6. Good(b, w)
  <2>1. Fits(m, Nobody)
    BY <1>3 DEF Fits
  <2> QED BY <1>1, <1>3, <1>4, <1>5, <2>1, ChosenOf
<1> QED BY <1>1, <1>2, <1>6

\* Entering and leaving a Skill: no turn of theirs is a switch.
LEMMA PlainCommit ==
  ASSUME Inv, NEW b \in Branches, NEW v, NEW o, NEW t, Commit(b, v, o, t),
         Good(b, v), Beside(b, o), t \in {Idle, [kind |-> "skill"]}
  PROVE  Inv' /\ FormsEndWithTheirExpert /\ ~CrossHandoff(turn')
<1>1. t \in Turns /\ t.kind \in {"idle", "skill"}
  BY TurnsOf
<1>2. turn' = t /\ Starts(t, v)
  BY <1>1 DEF Commit, Starts, Sent
<1> QED BY <1>1, <1>2, CommitOf DEF CrossHandoff

LEMMA EnterSkillOf ==
  ASSUME Inv, NEW b \in Branches, EnterSkill(b)
  PROVE  Inv' /\ FormsEndWithTheirExpert /\ ~CrossHandoff(turn')
<1>1. Good(b, Standalone(b)) /\ Good(b, [Standalone(b) EXCEPT !.here = Abandoned(@)])
  BY StandaloneOf, AbandonGood
<1>2. Beside(b, Left(b))
  BY LeftOf
<1> QED BY <1>1, <1>2, PlainCommit DEF EnterSkill

LEMMA EnterFromSuggestionOf ==
  ASSUME Inv, NEW b \in Branches, NEW a \in Branches, EnterFromSuggestion(b, a)
  PROVE  Inv' /\ FormsEndWithTheirExpert /\ ~CrossHandoff(turn')
<1> DEFINE v == Standalone(b)
           n == Expired(v.here)
           w == [v EXCEPT !.here = n]
           g == [Left(b)[a] EXCEPT !.route = FALSE]
           o == [Left(b) EXCEPT ![a] = g]
<1>1. Good(b, v) /\ v \in Views /\ v.here \in Branch /\ Sound(v.here)
  BY StandaloneOf, ViewParts DEF Good
<1>2. Beside(b, Left(b)) /\ Left(b) \in [Branches -> Branch]
  BY LeftOf DEF Beside
<1>3. \/ Commit(b, w, o, [kind |-> "skill"])
      \/ Commit(b, v, Left(b), Idle)
  <2>1. [v EXCEPT !.here = Expired(@)] = w
    BY <1>1 DEF Views
  <2>2. [Left(b) EXCEPT ![a].route = FALSE] = o
    BY <1>2
  <2> HIDE DEF w, o, v
  <2> QED BY <2>1, <2>2 DEF EnterFromSuggestion, v
<1> HIDE DEF v
<1>4. /\ n \in Branch /\ n.agent = v.here.agent /\ n.over = v.here.over
      /\ n.intent = v.here.intent /\ n.card = None /\ (v.here.form = None => n.form = None)
  BY <1>1, ExpiredOf
<1> HIDE DEF n
<1>5. Sound(n) /\ Keeps(v.here, n) /\ (v.sel = None => Unused(n))
  BY <1>1, <1>4 DEF Sound, Keeps, Good, Unused, Proposed
<1>6. Good(b, w)
  BY <1>1, <1>4, <1>5, GoodHere
<1>7. /\ g \in Branch /\ g.agent = Left(b)[a].agent /\ g.over = Left(b)[a].over
      /\ g.card = Left(b)[a].card /\ g.intent = Left(b)[a].intent
  BY <1>2 DEF Branch
<1> HIDE DEF w, g
<1>8. Beside(b, o)
  BY <1>2, <1>7 DEF Beside, Sound
<1> HIDE DEF o
<1> QED BY <1>1, <1>2, <1>3, <1>6, <1>8, PlainCommit

LEMMA QuitSkillOf ==
  ASSUME Inv, NEW b \in Branches, QuitSkill(b)
  PROVE  Inv' /\ FormsEndWithTheirExpert /\ ~CrossHandoff(turn')
<1> DEFINE v == Continued(b, b # cur)
           w == [v EXCEPT !.here = Abandoned(@)]
           g == Abandoned(Left(b)[cur])
           o == [Left(b) EXCEPT ![cur] = g]
<1>1. Good(b, v) /\ Good(b, w)
  BY ContinuedOf, AbandonGood
<1>2. Beside(b, Left(b)) /\ Left(b) \in [Branches -> Branch] /\ cur \in Branches
  BY LeftOf DEF Beside, Inv, TypeOK
<1>3. \/ Commit(b, w, Left(b), Idle)
      \/ b # cur /\ Commit(b, v, o, Idle)
  BY DEF QuitSkill
<1> HIDE DEF v, w
<1>4. /\ g \in Branch /\ g.agent = Left(b)[cur].agent /\ g.over = Left(b)[cur].over
      /\ g.card = None /\ g.intent = Left(b)[cur].intent
  BY <1>2, AbandonedOf
<1> HIDE DEF g
<1>5. b # cur => Beside(b, o)
  BY <1>2, <1>4 DEF Beside, Sound, Proposed
<1> HIDE DEF o
<1> QED BY <1>1, <1>2, <1>3, <1>5, PlainCommit

LEMMA RequestsOf ==
  ASSUME Inv, NEW b \in Branches, Requests(b)
  PROVE  /\ Inv' /\ FormsEndWithTheirExpert
         /\ CrossHandoff(turn') => \A x \in Branches \ {b} :
                                     Answers(branch'[x], sel') = Answers(branch[x], sel)
<1>1. ASSUME NEW inherits \in BOOLEAN, NEW consent \in BOOLEAN, Chat(b, inherits, consent)
      PROVE  Inv' /\ FormsEndWithTheirExpert /\ ~CrossHandoff(turn')
  <2>1. Spoken(b, Continued(b, inherits), consent, inherits)
    BY <1>1 DEF Chat
  <2>2. Good(b, Continued(b, inherits))
        /\ (inherits => Inherits(Continued(b, inherits).here, Continued(b, inherits).config,
                                 Continued(b, inherits).stale))
    BY ContinuedOf
  <2> QED BY <2>1, <2>2, SpokenOf
<1>2. ASSUME Refused(b)
      PROVE  Inv' /\ FormsEndWithTheirExpert /\ ~CrossHandoff(turn')
  BY <1>2, ArrivedOf, LeftOf, PlainCommit DEF Refused
<1>3. ASSUME Clear(b, TRUE)
      PROVE  Inv' /\ FormsEndWithTheirExpert /\ ~CrossHandoff(turn')
  BY <1>3, ClearOf
<1> QED
  BY <1>1, <1>2, <1>3, SelectOf, ConfirmOf, SwitchMemberOf, EnterSkillOf,
     EnterFromSuggestionOf, QuitSkillOf DEF Requests

-----------------------------------------------------------------------------
(* The turn. *)

LEMMA WithExpert ==
  ASSUME NEW a \in Agents, NEW e \in Experts
  PROVE  LET g == [a EXCEPT !.expert = e]
         IN g \in Agents /\ g.team = a.team /\ g.expert = e /\ Named(g)
BY DEF Agents, Named

LEMMA SourceOf ==
  ASSUME Inv, NEW r
  PROVE  /\ Source(r) \in Configs \cup {None} /\ Coordinator[Source(r)] \in Experts
         /\ Known(r) /\ r.agent.team # None => Team[Source(r)] = r.agent.team
BY Constants DEF Source, Known, Inv, TypeOK

\* The questionnaire of a branch is over, or goes on with the expert that follows.
Follows(r, n) ==
  \/ n.form = None \/ n.form.owner = n.agent.expert
  \/ n.agent.expert = r.agent.expert \/ Stranger(r)

LEMMA RestOf ==
  ASSUME Inv, NEW n \in Branch, Rest(n, sel), UNCHANGED stale, Sound(n),
         sel = None => Unused(n), Follows(branch[cur], n)
  PROVE  /\ Inv' /\ FormsEndWithTheirExpert /\ cur' = cur /\ turn' = Idle
         /\ \A x \in Branches \ {cur} : Answers(branch'[x], sel') = Answers(branch[x], sel)
<1>1. cur \in Branches /\ branch \in [Branches -> Branch]
  BY DEF Inv, TypeOK
<1>2. /\ branch' \in [Branches -> Branch] /\ branch'[cur] = n
      /\ \A x \in Branches \ {cur} : branch'[x] = branch[x]
      /\ sel' = sel /\ turn' = Idle /\ cur' = cur /\ config' = config /\ served' = served
      /\ stale' = stale
  BY <1>1 DEF Rest
<1>3. Idle \in Turns /\ Idle.kind = "idle"
  BY TurnsOf
<1>4. TypeOK'
  BY <1>2, <1>3 DEF Inv, TypeOK
<1>5. ASSUME NEW a \in Branches
      PROVE  Sound(branch'[a]) /\ (sel' = None => Unused(branch'[a]))
  BY <1>2 DEF Inv
<1>6. Selected(sel', config', stale')
  BY <1>2 DEF Inv
<1>7. Inv'
  BY <1>2, <1>3, <1>4, <1>5, <1>6 DEF Inv, Sent
<1>8. FormsEndWithTheirExpert
  BY <1>2 DEF FormsEndWithTheirExpert, Follows
<1>9. \A x \in Branches \ {cur} : Answers(branch'[x], sel') = Answers(branch[x], sel)
  BY <1>2
<1> QED BY <1>2, <1>7, <1>8, <1>9

LEMMA SwitchedOf ==
  ASSUME Inv
  PROVE  LET r == branch[cur]
             w == Switched(r, sel, turn)
         IN /\ w.sel = sel /\ w.here \in Branch /\ Sound(w.here)
            /\ sel = None => Unused(w.here)
            /\ w.here.agent.team = r.agent.team /\ w.here.form = r.form
            /\ w.here = r \/ r.form = None
<1> DEFINE r == branch[cur]
           w == Switched(r, sel, turn)
<1>1. r \in Branch /\ Sound(r) /\ (sel = None => Unused(r)) /\ turn \in Turns /\ Sent(turn, r, sel)
  BY DEF Inv, TypeOK
<1>2. CASE turn.kind # "switch" \/ r.form # None
  <2>1. w = [here |-> r, sel |-> sel]
    BY <1>2 DEF Switched
  <2> QED BY <1>1, <2>1
<1>3. CASE turn.kind = "switch" /\ r.form = None
  <2> DEFINE q == Dropped(r)
             g == [q.agent EXCEPT !.expert = turn.to.expert]
             o == IF turn.cross THEN turn.to ELSE q.over
             n == [q EXCEPT !.agent = g, !.over = o]
  <2>1. /\ turn.to \in Agents /\ turn.cross \in BOOLEAN /\ turn.to.expert \in Experts
        /\ sel # None /\ (~turn.cross => turn.to = sel) /\ Named(turn.to)
    BY <1>1, <1>3, TurnsOf DEF Sent, Named
  <2>2. /\ q \in Branch /\ q.agent = r.agent /\ q.over = r.over
        /\ q.intent = None /\ q.card = r.card /\ q.form = r.form
    BY <1>1, DroppedOf
  <2>3. w = [here |-> n, sel |-> IF turn.cross THEN sel ELSE turn.to]
    <3>1. w = [here |-> [q EXCEPT !.agent.expert = turn.to.expert,
                                  !.over = IF turn.cross THEN turn.to ELSE @],
               sel |-> IF turn.cross THEN sel ELSE turn.to]
      BY <1>3 DEF Switched
    <3> HIDE DEF w, q
    <3>2. [q EXCEPT !.agent.expert = turn.to.expert,
                    !.over = IF turn.cross THEN turn.to ELSE @] = n
      BY <2>2 DEF Branch
    <3> QED BY <3>1, <3>2
  <2> HIDE DEF q
  <2>4. g \in Agents /\ g.team = q.agent.team /\ g.expert = turn.to.expert /\ Named(g)
    BY <2>1, <2>2, BranchParts, WithExpert
  <2>5. o \in Agents \cup {None} /\ (o # None => Named(o))
    BY <1>1, <2>1, <2>2, BranchParts DEF Sound
  <2> HIDE DEF g, o
  <2>6. /\ n \in Branch /\ n.agent = g /\ n.over = o /\ n.intent = q.intent
        /\ n.card = q.card /\ n.form = q.form
    BY <2>2, <2>4, <2>5 DEF Branch
  <2> HIDE DEF n
  <2>7. Sound(n)
    BY <1>1, <2>2, <2>4, <2>5, <2>6 DEF Sound, Proposed
  <2>8. w.here = n /\ w.sel = sel
    BY <2>1, <2>3
  <2> QED BY <1>3, <2>1, <2>2, <2>4, <2>6, <2>7, <2>8
<1> QED BY <1>2, <1>3

LEMMA StartedOf ==
  ASSUME Inv
  PROVE  /\ Started.sel = sel /\ Started.here \in Branch /\ Sound(Started.here)
         /\ sel = None => Unused(Started.here)
         /\ Started.here.agent.team = branch[cur].agent.team
         /\ Started.here.form = branch[cur].form
         /\ Follows(branch[cur], Started.here)
<1> DEFINE r == branch[cur]
           w == Switched(r, sel, turn)
           p == w.here
           g == [p.agent EXCEPT !.expert = Coordinator[Source(p)]]
           n == [p EXCEPT !.agent = g]
           k == Answering(p)
<1>1. /\ w.sel = sel /\ p \in Branch /\ Sound(p) /\ (sel = None => Unused(p))
      /\ p.agent.team = r.agent.team /\ p.form = r.form /\ (p = r \/ r.form = None)
  BY SwitchedOf
<1>2. Started.sel = w.sel /\ Started.here = k
  <2>1. Started = [w EXCEPT !.here = Answering(@)]
    BY DEF Started
  <2>2. w = [here |-> p, sel |-> w.sel]
    BY DEF Switched
  <2> HIDE DEF w
  <2> QED BY <2>1, <2>2
<1> HIDE DEF w
<1>3. k = IF Stranger(p) THEN n ELSE p
  <2>1. Stranger(p) => k = [p EXCEPT !.agent.expert = Coordinator[Source(p)]]
    BY DEF Answering
  <2>2. [p EXCEPT !.agent.expert = Coordinator[Source(p)]] = n
    BY <1>1 DEF Branch
  <2> QED BY <2>1, <2>2 DEF Answering
<1> HIDE DEF k
<1>4. CASE ~Stranger(p)
  <2>1. Follows(r, p)
    BY <1>1 DEF Follows
  <2> QED BY <1>1, <1>2, <1>3, <1>4, <2>1
<1>5. CASE Stranger(p)
  <2>1. g \in Agents /\ g.team = p.agent.team /\ Named(g)
    BY <1>1, BranchParts, SourceOf, WithExpert
  <2> HIDE DEF g
  <2>2. /\ n \in Branch /\ n.agent = g /\ n.over = p.over /\ n.intent = p.intent
        /\ n.card = p.card /\ n.form = p.form
    BY <1>1, <2>1, WithAgent
  <2> HIDE DEF n
  <2>3. Sound(n)
    BY <1>1, <2>1, <2>2 DEF Sound
  <2>4. sel # None
    BY <1>1, <1>5, AgentOf DEF Stranger, Unused
  <2>5. Follows(r, n)
    BY <1>1, <1>5, <2>2 DEF Follows
  <2> QED BY <1>1, <1>2, <1>3, <1>5, <2>1, <2>2, <2>3, <2>4, <2>5
<1> QED BY <1>4, <1>5

\* What the turn writes once its user message is in: the open cards have expired.
LEMMA SpokeOf ==
  ASSUME Inv
  PROVE  LET n == Expired(Started.here)
         IN /\ n \in Branch /\ Sound(n) /\ (sel = None => Unused(n)) /\ n.card = None
            /\ n.agent = Started.here.agent
            /\ Follows(branch[cur], n)
<1> DEFINE p == Started.here
           n == Expired(p)
           f == IF p.form = None THEN None ELSE [p.form EXCEPT !.live = FALSE]
<1>1. /\ p \in Branch /\ Sound(p) /\ (sel = None => Unused(p)) /\ Follows(branch[cur], p)
  BY StartedOf
<1>2. n = [p EXCEPT !.card = None, !.route = FALSE, !.form = f]
  BY DEF Expired
<1> HIDE DEF p
<1>3. f \in Forms \cup {None} /\ (p.form = None => f = None)
      /\ (p.form # None => f.owner = p.form.owner)
  BY <1>1, BranchParts DEF Forms
<1>4. /\ n \in Branch /\ n.agent = p.agent /\ n.over = p.over
      /\ n.intent = p.intent /\ n.card = None
  BY <1>1, ExpiredOf
<1> HIDE DEF f
<1>5. n.form = f
  BY <1>1, <1>2 DEF Branch
<1> HIDE DEF n
<1>6. Sound(n) /\ (sel = None => Unused(n))
  BY <1>1, <1>4 DEF Sound, Unused, Proposed
<1>7. Follows(branch[cur], n)
  BY <1>1, <1>3, <1>4, <1>5 DEF Follows
<1> QED BY <1>4, <1>6, <1>7 DEF n, p

\* What every step of a turn comes to.
Ended ==
  /\ Inv' /\ FormsEndWithTheirExpert /\ cur' = cur /\ turn' = Idle
  /\ \A x \in Branches \ {cur} : Answers(branch'[x], sel') = Answers(branch[x], sel)

LEMMA ControlOf == ASSUME Inv, Control PROVE Ended
<1> DEFINE r == branch[cur]
           e == Expired(r)
           n == [e EXCEPT !.card = turn.card, !.intent = turn.card]
<1>1. /\ r \in Branch /\ Sound(r) /\ (sel = None => Unused(r)) /\ turn \in Turns
      /\ Sent(turn, r, sel) /\ turn.kind = "control"
  BY DEF Inv, TypeOK, Control
<1>2. turn.card \in Handoffs /\ Proposed(turn.card) /\ turn.card.team = r.agent.team
  BY <1>1, TurnsOf DEF Sent
<1>3. Rest(n, sel) /\ UNCHANGED stale
  BY DEF Control
<1> HIDE DEF r
<1>4. /\ e \in Branch /\ e.agent = r.agent /\ e.over = r.over
  BY <1>1, ExpiredOf
<1> HIDE DEF e
<1>5. /\ n \in Branch /\ n.agent = r.agent /\ n.over = r.over
      /\ n.card = turn.card /\ n.intent = turn.card
  BY <1>2, <1>4 DEF Branch
<1> HIDE DEF n
<1>6. Sound(n) /\ (sel = None => Unused(n)) /\ Follows(r, n)
  BY <1>1, <1>2, <1>5 DEF Sound, Unused, Follows
<1> QED BY <1>3, <1>5, <1>6, RestOf DEF Ended, r

LEMMA ReplyOf == ASSUME Inv, Reply PROVE Ended
<1> DEFINE r == Expired(Started.here)
<1>1. PICK done \in BOOLEAN, route \in BOOLEAN :
        Rest([r EXCEPT !.form = IF done THEN None ELSE @, !.route = route], Started.sel)
  BY DEF Reply
<1>2. /\ r \in Branch /\ Sound(r) /\ (sel = None => Unused(r)) /\ Follows(branch[cur], r)
  BY SpokeOf
<1>3. UNCHANGED stale /\ Started.sel = sel
  BY StartedOf DEF Reply
<1> HIDE DEF r
<1> DEFINE f == IF done THEN None ELSE r.form
           n == [r EXCEPT !.form = f, !.route = route]
<1>4. Rest(n, sel)
  <2>1. [r EXCEPT !.form = IF done THEN None ELSE @, !.route = route] = n
    BY <1>2 DEF Branch
  <2> QED BY <1>1, <1>3, <2>1
<1>5. f \in Forms \cup {None} /\ f \in {None, r.form}
  BY <1>2, BranchParts
<1> HIDE DEF f
<1>6. /\ n \in Branch /\ n.agent = r.agent /\ n.over = r.over
      /\ n.card = r.card /\ n.intent = r.intent /\ n.form = f
  BY <1>2, <1>5 DEF Branch
<1> HIDE DEF n
<1>7. Sound(n) /\ (sel = None => Unused(n)) /\ Follows(branch[cur], n)
  BY <1>2, <1>5, <1>6 DEF Sound, Unused, Follows
<1> QED BY <1>3, <1>4, <1>6, <1>7, RestOf DEF Ended

LEMMA AskFormOf == ASSUME Inv, AskForm PROVE Ended
<1> DEFINE r == Expired(Started.here)
           f == [owner |-> r.agent.expert, live |-> TRUE]
           n == [r EXCEPT !.form = f]
<1>1. /\ r \in Branch /\ Sound(r) /\ (sel = None => Unused(r))
  BY SpokeOf
<1>2. Rest(n, sel) /\ UNCHANGED stale
  BY StartedOf DEF AskForm
<1> HIDE DEF r
<1>3. f \in Forms /\ f.owner = r.agent.expert
  BY <1>1, BranchParts, AgentOf DEF Forms
<1> HIDE DEF f
<1>4. /\ n \in Branch /\ n.agent = r.agent /\ n.over = r.over
      /\ n.card = r.card /\ n.intent = r.intent /\ n.form = f
  BY <1>1, <1>3 DEF Branch
<1> HIDE DEF n
<1>5. Sound(n) /\ (sel = None => Unused(n)) /\ Follows(branch[cur], n)
  BY <1>1, <1>3, <1>4 DEF Sound, Unused, Follows
<1> QED BY <1>2, <1>4, <1>5, RestOf DEF Ended

LEMMA ProposalsOf ==
  ASSUME NEW d \in Configs \cup {None}, NEW h \in Proposals(d)
  PROVE  h \in Handoffs /\ Proposed(h) /\ h.team = Team[d]
<1>1. /\ h \in [team : {Team[d]}, cands : SUBSET (Members[d] \ {Coordinator[d]}), under : {d}]
      /\ Cardinality(h.cands) \in 1..3
  BY DEF Proposals
<1>2. h.cands # {}
  BY <1>1, FS_EmptySet
<1> QED BY <1>1, <1>2, Constants DEF Handoffs, Proposed

LEMMA ProposeOf == ASSUME Inv, Propose PROVE Ended
<1> DEFINE r == Expired(Started.here)
<1>1. /\ r \in Branch /\ Sound(r) /\ (sel = None => Unused(r)) /\ Follows(branch[cur], r)
      /\ r.agent.team = branch[cur].agent.team
  BY SpokeOf, StartedOf
<1>2. PICK h \in Proposals(Source(r)) : Rest([r EXCEPT !.card = h, !.intent = h], sel)
  BY StartedOf DEF Propose
<1>3. Coordinates(r) /\ Known(branch[cur]) /\ UNCHANGED stale
  BY DEF Propose, Runs
<1> HIDE DEF r
<1>4. Source(r) \in Configs \cup {None} /\ Team[Source(r)] = r.agent.team
  BY <1>1, <1>3, SourceOf DEF Known, Coordinates
<1>5. h \in Handoffs /\ Proposed(h) /\ h.team = r.agent.team
  BY <1>4, ProposalsOf
<1> DEFINE n == [r EXCEPT !.card = h, !.intent = h]
<1>6. /\ n \in Branch /\ n.agent = r.agent /\ n.over = r.over
      /\ n.card = h /\ n.intent = h /\ n.form = r.form
  BY <1>1, <1>5 DEF Branch
<1>7. Rest(n, sel)
  BY <1>2
<1> HIDE DEF n
<1>8. Sound(n) /\ (sel = None => Unused(n)) /\ Follows(branch[cur], n)
  BY <1>1, <1>5, <1>6 DEF Sound, Unused, Follows
<1> QED BY <1>3, <1>6, <1>7, <1>8, RestOf DEF Ended

LEMMA FailTurnOf == ASSUME Inv, FailTurn PROVE Ended
<1>1. UNCHANGED stale /\ Started.sel = sel
  BY StartedOf DEF FailTurn
<1>2. /\ Started.here \in Branch /\ Sound(Started.here) /\ (sel = None => Unused(Started.here))
      /\ Follows(branch[cur], Started.here)
  BY StartedOf
<1>3. ASSUME Rest(branch[cur], sel) PROVE Ended
  <2>1. branch[cur] \in Branch /\ Sound(branch[cur]) /\ (sel = None => Unused(branch[cur]))
    BY DEF Inv, TypeOK
  <2>2. Follows(branch[cur], branch[cur])
    BY DEF Follows
  <2> QED BY <1>1, <1>3, <2>1, <2>2, RestOf DEF Ended
<1>4. ASSUME Rest(Started.here, sel) PROVE Ended
  BY <1>1, <1>2, <1>4, RestOf DEF Ended
<1>5. ASSUME Rest(Expired(Started.here), sel) PROVE Ended
  BY <1>1, <1>5, SpokeOf, RestOf DEF Ended
<1>6. ASSUME NEW h \in Proposals(Source(Started.here)), Rest([Started.here EXCEPT !.intent = h], sel)
      PROVE  Ended
  <2> DEFINE p == Started.here
             n == [p EXCEPT !.intent = h]
  <2>1. h \in Handoffs /\ Proposed(h)
    BY SourceOf, ProposalsOf
  <2> HIDE DEF p
  <2>2. /\ n \in Branch /\ n.agent = p.agent /\ n.over = p.over
        /\ n.card = p.card /\ n.intent = h /\ n.form = p.form
    BY <1>2, <2>1, WithIntent DEF p
  <2> HIDE DEF n
  <2>3. Sound(n) /\ (sel = None => Unused(n)) /\ Follows(branch[cur], n)
    BY <1>2, <2>1, <2>2 DEF Sound, Unused, Follows, p
  <2> QED BY <1>1, <1>6, <2>2, <2>3, RestOf DEF Ended, n, p
<1> QED BY <1>1, <1>3, <1>4, <1>5, <1>6 DEF FailTurn

LEMMA TurnEndsOf == ASSUME Inv, TurnEnds PROVE Ended
BY ControlOf, ReplyOf, AskFormOf, ProposeOf, FailTurnOf DEF TurnEnds

-----------------------------------------------------------------------------
(* Theorems. *)

LEMMA InitInv == Init => Inv
<1> SUFFICES ASSUME Init PROVE Inv
  OBVIOUS
<1>1. Fresh \in Branch /\ Fresh.agent = Nobody /\ Fresh.over = None /\ Fresh.intent = None
      /\ Fresh.card = None
  BY AgentOf DEF Fresh, Branch
<1>2. Sound(Fresh) /\ Unused(Fresh)
  BY <1>1 DEF Sound, Unused, Named, Proposed
<1>3. turn \in Turns /\ turn.kind = "idle"
  BY TurnsOf DEF Init
<1>4. TypeOK
  BY <1>1, <1>3 DEF Init, TypeOK
<1> QED BY <1>2, <1>3, <1>4 DEF Init, Inv, TypeOK, Selected, Sent

LEMMA ServeOf == ASSUME Inv, NEW d \in Configs \cup {None}, Serve(d) PROVE Inv'
BY DEF Inv, Serve, TypeOK

LEMMA NextOf ==
  ASSUME Inv, [Next]_vars
  PROVE  /\ Inv' /\ [FormsEndWithTheirExpert]_vars /\ [HandoffStaysInItsBranch]_vars
<1>1. ASSUME NEW b \in Branches, Requests(b), ~TurnEnds
      PROVE  Inv' /\ FormsEndWithTheirExpert /\ HandoffStaysInItsBranch
  <2>1. /\ Inv' /\ FormsEndWithTheirExpert
        /\ CrossHandoff(turn') => \A x \in Branches \ {b} :
                                    Answers(branch'[x], sel') = Answers(branch[x], sel)
    BY <1>1, RequestsOf
  <2>2. cur' = b
    BY <1>1 DEF Requests, Chat, Clear, Select, Refused, Confirm, SwitchMember, EnterSkill,
                EnterFromSuggestion, QuitSkill, Spoken, Commit
  <2> QED BY <1>1, <2>1, <2>2 DEF HandoffStaysInItsBranch
<1>2. ASSUME TurnEnds
      PROVE  Inv' /\ FormsEndWithTheirExpert /\ HandoffStaysInItsBranch
  <2>1. Ended
    BY <1>2, TurnEndsOf
  <2> QED BY <2>1 DEF Ended, HandoffStaysInItsBranch
<1>3. ASSUME NEW d \in Configs \cup {None}, Serve(d), ~TurnEnds
      PROVE  Inv' /\ FormsEndWithTheirExpert /\ HandoffStaysInItsBranch
  BY <1>3, ServeOf DEF Serve, FormsEndWithTheirExpert, HandoffStaysInItsBranch
<1>4. ASSUME UNCHANGED vars PROVE Inv'
  BY <1>4 DEF vars, Inv, TypeOK
<1> QED BY <1>1, <1>2, <1>3, <1>4 DEF Next

\* Every variable keeps its type, for any branches, deployments, teams and experts.
THEOREM TypeTheorem == Spec => []TypeOK
<1>1. Inv /\ [Next]_vars => Inv'
  BY NextOf
<1>2. Inv => TypeOK
  BY DEF Inv
<1> QED BY <1>1, <1>2, InitInv, PTL DEF Spec

\* A card is of the team that its branch talks to, and an ordinary chat that names no
\* agent is answered by what is served (the routes of chat_stream.py).
THEOREM AnswersTheorem == Spec => []AnswersAsServed
<1>1. Inv /\ [Next]_vars => Inv'
  BY NextOf
<1>2. Inv => AnswersAsServed
  BY DEF Inv, AnswersAsServed, CardOfItsTeam, InheritsWhatIsServed, Sound, Inherits, Serves
<1> QED BY <1>1, <1>2, InitInv, PTL DEF Spec

\* No step changes the expert of a branch under a waiting questionnaire, unless the team
\* of the branch no longer has that expert (core/context.py, the expert runtime).
THEOREM FormsTheorem == Spec => FormsEnd
<1>1. Inv /\ [Next]_vars => Inv' /\ [FormsEndWithTheirExpert]_vars
  BY NextOf
<1> QED BY <1>1, InitInv, PTL DEF Spec, FormsEnd

\* A handoff that was confirmed on the card of another branch changes who answers in the
\* branch it was confirmed for, and in no other (chat_stream.py, confirm_team_handoff).
THEOREM HandoffTheorem == Spec => HandoffsStay
<1>1. Inv /\ [Next]_vars => Inv' /\ [HandoffStaysInItsBranch]_vars
  BY NextOf
<1> QED BY <1>1, InitInv, PTL DEF Spec, HandoffsStay
-----------------------------------------------------------------------------
(* The turns of an expert (ExpertTurn).                                    *)

Scheduled == tRequested # None /\ tDecision.mode # "direct_reply" /\ tHandoff = None

\* Only the coordinator proposes, and only in this turn.  An answer of an earlier turn is
\* carried along only next to a Skill that is scheduled; what is handed to the planner is
\* no diagnostic, and next to a card it is the words of the card.
TurnInv ==
  /\ tReply \in [kind : ET!Texts \cup {"none"}, fresh : BOOLEAN]
  /\ tExpert \in TurnExperts
  /\ tPc \in {"react", "ensure"} => tExpert = TurnCoordinator
  /\ tPc \in {"route", "schedule", "reply"} => tHandoff = None
  /\ tPc = "schedule" => tDecision.mode = "execute_skill"
  /\ tPc # "idle" /\ tHandoff # None => tProposed /\ tExpert = TurnCoordinator
  /\ tPc \in {"ensure", "fallback", "judge", "hand", "planner"} => tReply.fresh \/ Scheduled
  /\ tPc \in {"hand", "planner"} =>
       /\ tReply.kind # "diagnostic"
       /\ tHandoff # None => tRequested = None /\ tForm = None /\ tReply.kind = "text"
  /\ tPc = "planner" /\ ~ET!Native => tDirect = "new"
  /\ ET!ScopeProven

LEMMA TurnStarts == ET!Init => TurnInv
BY DEF ET!Init, TurnInv, ET!NoReply, ET!Texts, ET!ScopeProven

LEMMA PublishTurn == ASSUME NEW s, TurnInv, ET!Publish(s) PROVE TurnInv'
BY DEF ET!Publish, TurnInv, Scheduled, ET!Native, ET!ScopeProven, ET!Texts, ET!runtime, ET!meta

LEMMA SelectTurn == ASSUME NEW e \in TurnExperts, NEW c, TurnInv, ET!Select(e, c) PROVE TurnInv'
BY DEF ET!Select, TurnInv, Scheduled, ET!Native, ET!ScopeProven, ET!Texts

LEMMA BeginTurn == ASSUME TurnInv, ET!Begin PROVE TurnInv'
BY DEF ET!Begin, ET!Goto, ET!Coordinates, TurnInv, Scheduled, ET!Native, ET!ScopeProven, ET!Texts

LEMMA EndTurn ==
  ASSUME TurnInv, ET!Fail \/ ET!Blocked \/ ET!AnswerDirectly \/ \E b \in BOOLEAN : ET!Work(b)
  PROVE  TurnInv'
BY DEF ET!Fail, ET!Blocked, ET!AnswerDirectly, ET!Work, ET!Goto, TurnInv, ET!ScopeProven, ET!Texts,
       ET!runtime, ET!meta

LEMMA EnsureTurn == ASSUME TurnInv, ET!EnsureHandoff PROVE TurnInv'
<1> USE DEF TurnInv, Scheduled, ET!Native, ET!ScopeProven, ET!SessionStays, ET!Goto, ET!Texts,
            ET!meta
<1>1. CASE UNCHANGED <<tReply, tFailed, tHandoff, tProposed>>
  BY <1>1 DEF ET!EnsureHandoff
<1>2. CASE /\ tHandoff = None /\ tReply' = ET!Answer("text")
           /\ UNCHANGED <<tFailed, tHandoff, tProposed>>
  BY <1>2 DEF ET!EnsureHandoff, ET!Answer
<1>3. CASE tHandoff = None /\ ET!Propose /\ tReply' = ET!NoReply
  BY <1>3 DEF ET!EnsureHandoff, ET!Propose, ET!NoReply
<1> QED BY <1>1, <1>2, <1>3 DEF ET!EnsureHandoff

\* The tools of the coordinator.
LEMMA ToolTurn ==
  ASSUME ET!ExpertAssumption, TurnInv,
         \/ \E s \in Skills : ET!ExecuteSkill(s) \/ ET!SkillMissing(s) \/ ET!RequestForm(s)
         \/ ET!ProposeHandoff \/ ET!EnsureHandoff
         \/ \E k \in ET!Texts \cup {"none"} : ET!AgentReplies(k)
  PROVE  TurnInv'
<1>5. CASE ET!EnsureHandoff
  BY <1>5, EnsureTurn
<1> USE DEF TurnInv, Scheduled, ET!Native, ET!ScopeProven, ET!SessionStays, ET!ToolStays,
            ET!Goto, ET!Texts, ET!meta
<1>1. ASSUME NEW s \in Skills, ET!ExecuteSkill(s) PROVE TurnInv'
  BY <1>1 DEF ET!ExecuteSkill, ET!Schedule
<1>2. ASSUME NEW s \in Skills, ET!SkillMissing(s) PROVE TurnInv'
  BY <1>2 DEF ET!SkillMissing
<1>3. ASSUME NEW s \in Skills, ET!RequestForm(s) PROVE TurnInv'
  BY <1>3 DEF ET!RequestForm
<1>4. CASE ET!ProposeHandoff
  BY <1>4 DEF ET!ProposeHandoff, ET!Propose
<1>6. ASSUME NEW k \in ET!Texts \cup {"none"}, ET!AgentReplies(k) PROVE TurnInv'
  BY <1>6 DEF ET!AgentReplies, ET!Answer
<1> QED BY <1>1, <1>2, <1>3, <1>4, <1>5, <1>6

\* The route decision.
LEMMA DecideTurn ==
  ASSUME TurnInv, tPc = "route", NEW d, ET!Decide(d),
         d = ET!Directly \/ \E s \in tInspected.skills \cap Authorized[tExpert] : d = ET!Executes(s)
  PROVE  TurnInv'
BY DEF TurnInv, Scheduled, ET!Native, ET!ScopeProven, ET!Decide, ET!RouteStays, ET!SessionStays,
       ET!Goto, ET!Texts, ET!Directly, ET!Executes

LEMMA InspectTurn ==
  ASSUME TurnInv, tPc = "route", NEW S, ET!Inspect(S)
  PROVE  TurnInv'
BY DEF TurnInv, Scheduled, ET!Native, ET!ScopeProven, ET!Inspect, ET!RouteStays,
       ET!SessionStays, ET!Texts

LEMMA ScheduleTurn == ASSUME ET!ExpertAssumption, TurnInv, ET!ScheduleRouted PROVE TurnInv'
<1> USE DEF TurnInv, ET!SessionStays, ET!RouteStays, ET!Goto
<1>1. CASE tDecision.skill \in tRegistry
  <2>1. /\ tDecision.skill \in Authorized[tExpert] /\ tRequested' = tDecision.skill
        /\ tPc = "schedule" /\ tPc' = "fallback" /\ tDecision' = tDecision
        /\ tHandoff' = tHandoff /\ tReply' = tReply /\ tExpert' = tExpert
        /\ tProposed' = tProposed
    BY <1>1 DEF ET!ScheduleRouted, ET!Schedule
  <2>2. Scheduled'
    BY <2>1 DEF Scheduled, ET!ExpertAssumption
  <2> QED BY <2>1, <2>2 DEF ET!ScopeProven
<1>2. CASE tDecision.skill \notin tRegistry
  BY <1>2 DEF ET!ScheduleRouted, ET!ScopeProven
<1> QED BY <1>1, <1>2

LEMMA RouteTurn ==
  ASSUME ET!ExpertAssumption, TurnInv,
         \/ \E S \in SUBSET Skills : ET!RouteInspects(S)
         \/ \E s \in Skills, inScope \in BOOLEAN : ET!RouteExecutes(s, inScope)
         \/ \E match \in Skills \cup {None}, byRules, inScope \in BOOLEAN :
              ET!RouteReplies(match, byRules, inScope)
         \/ ET!ScheduleRouted
         \/ \E k \in ET!Texts : ET!DirectReply(k)
  PROVE  TurnInv'
<1>1. ASSUME NEW S \in SUBSET Skills, ET!RouteInspects(S) PROVE TurnInv'
  BY <1>1, InspectTurn DEF ET!RouteInspects
<1>2. ASSUME NEW s \in Skills, NEW inScope \in BOOLEAN, ET!RouteExecutes(s, inScope) PROVE TurnInv'
  <2>1. tPc = "route" /\ s \in Authorized[tExpert]
    BY <1>2 DEF ET!RouteExecutes
  <2>2. CASE ET!Decide(ET!Directly)
    BY <2>1, <2>2, DecideTurn
  <2>3. CASE ET!Decide(ET!Executes(s)) /\ s \in tInspected.skills
    BY <2>1, <2>3, DecideTurn
  <2>4. CASE ET!Inspect(tInspected.skills \cup {s})
    BY <2>1, <2>4, InspectTurn
  <2> QED BY <1>2, <2>2, <2>3, <2>4 DEF ET!RouteExecutes
<1>3. ASSUME NEW match \in Skills \cup {None}, NEW byRules \in BOOLEAN, NEW inScope \in BOOLEAN,
             ET!RouteReplies(match, byRules, inScope)
      PROVE  TurnInv'
  <2>1. tPc = "route" /\ match \in Authorized[tExpert] \cup {None}
    BY <1>3 DEF ET!RouteReplies
  <2>2. CASE ET!Decide(ET!Directly)
    BY <2>1, <2>2, DecideTurn
  <2>3. CASE ET!Decide(ET!Executes(match)) /\ match \in tInspected.skills /\ match # None
    BY <2>1, <2>3, DecideTurn
  <2>4. CASE ET!Inspect({match})
    BY <2>1, <2>4, InspectTurn
  <2> QED BY <1>3, <2>2, <2>3, <2>4 DEF ET!RouteReplies
<1>4. CASE ET!ScheduleRouted
  BY <1>4, ScheduleTurn
<1> USE DEF TurnInv, Scheduled, ET!Native, ET!ScopeProven, ET!SessionStays, ET!RouteStays,
            ET!Goto, ET!Texts, ET!meta
<1>5. ASSUME NEW k \in ET!Texts, ET!DirectReply(k) PROVE TurnInv'
  BY <1>5 DEF ET!DirectReply, ET!Answer
<1> QED BY <1>1, <1>2, <1>3, <1>4, <1>5

\* An answer of this turn.
LEMMA AnswerShape ==
  ASSUME NEW k \in ET!Texts
  PROVE  /\ ET!Answer(k) \in [kind : ET!Texts \cup {"none"}, fresh : BOOLEAN]
         /\ ET!Answer(k).kind = k /\ ET!Answer(k).fresh
BY DEF ET!Answer

LEMMA FallbackTurn == ASSUME TurnInv, NEW k \in ET!Texts, ET!Fallback(k) PROVE TurnInv'
<1>1. /\ tPc' = "judge" /\ tHandoff' = tHandoff /\ tExpert' = tExpert /\ tProposed' = tProposed
      /\ tRequested' = tRequested
      /\ tReply' = ET!Answer(k) \/ (tReply' = tReply /\ tDecision' = tDecision)
  BY DEF ET!Fallback, ET!Goto, ET!SessionStays, ET!meta
<1>2. tReply' \in [kind : ET!Texts \cup {"none"}, fresh : BOOLEAN]
  BY <1>1, AnswerShape DEF TurnInv
<1>3. tReply'.fresh \/ Scheduled'
  BY <1>1, AnswerShape DEF TurnInv, Scheduled, ET!Fallback
<1>4. tExpert' \in TurnExperts
      /\ (tHandoff' # None => tProposed' /\ tExpert' = TurnCoordinator)
  BY <1>1 DEF TurnInv, ET!Fallback
<1> QED BY <1>1, <1>2, <1>3, <1>4 DEF TurnInv, ET!ScopeProven

LEMMA JudgeTurn == ASSUME TurnInv, NEW k \in ET!Texts, ET!Judge(k) PROVE TurnInv'
<1>1. /\ tPc = "judge" /\ tPc' = "hand" /\ tHandoff' = tHandoff /\ tExpert' = tExpert
      /\ tProposed' = tProposed /\ tDecision' = tDecision
      /\ IF tHandoff = None THEN tReply' = ET!Covered(k) /\ UNCHANGED <<tRequested, tForm>>
                            ELSE tReply' = ET!Answer("text") /\ tRequested' = None /\ tForm' = None
      /\ k # "diagnostic"
  BY DEF ET!Judge, ET!Goto, ET!SessionStays
<1>2. /\ tReply' \in [kind : ET!Texts \cup {"none"}, fresh : BOOLEAN]
      /\ tReply'.kind # "diagnostic"
      /\ tReply'.fresh \/ Scheduled'
      /\ tHandoff # None => tReply'.kind = "text"
  <2>1. CASE tHandoff = None
    <3>1. \/ ET!Covered(k) = tReply /\ tReply.kind # "diagnostic"
          \/ \E l \in ET!Texts \ {"diagnostic"} : ET!Covered(k) = ET!Answer(l)
          \/ ET!Covered(k) = ET!NoReply
      BY <1>1 DEF ET!Covered, ET!Shown, ET!Texts, ET!NoReply, TurnInv
    <3>2. CASE tReply' = tReply /\ tReply.kind # "diagnostic"
      BY <1>1, <2>1, <3>2 DEF TurnInv, Scheduled
    <3>3. ASSUME NEW l \in ET!Texts \ {"diagnostic"}, tReply' = ET!Answer(l)
          PROVE  /\ tReply' \in [kind : ET!Texts \cup {"none"}, fresh : BOOLEAN]
                 /\ tReply'.kind # "diagnostic"
                 /\ tReply'.fresh \/ Scheduled'
      BY <2>1, <3>3, AnswerShape
    <3>4. CASE tReply' = ET!NoReply
      BY <2>1, <3>4 DEF ET!NoReply
    <3> QED BY <1>1, <2>1, <3>1, <3>2, <3>3, <3>4
  <2>2. CASE tHandoff # None
    <3>1. "text" \in ET!Texts /\ tReply' = ET!Answer("text")
      BY <1>1, <2>2 DEF ET!Texts
    <3> QED BY <3>1, AnswerShape
  <2> QED BY <2>1, <2>2
<1>3. tHandoff' # None => tRequested' = None /\ tForm' = None
  BY <1>1
<1>4. tExpert' \in TurnExperts
      /\ (tHandoff' # None => tProposed' /\ tExpert' = TurnCoordinator)
  BY <1>1 DEF TurnInv
<1> QED BY <1>1, <1>2, <1>3, <1>4 DEF TurnInv, ET!ScopeProven

\* What the turn comes to.
LEMMA OutcomeTurn ==
  ASSUME TurnInv,
         \/ \E k \in ET!Texts : ET!Fallback(k) \/ ET!Judge(k)
         \/ ET!Hand
  PROVE  TurnInv'
<1>1. CASE ET!Hand
  BY <1>1 DEF ET!Hand, ET!runtime, TurnInv, Scheduled, ET!Native, ET!ScopeProven, ET!Goto,
              ET!Texts
<1> QED BY <1>1, FallbackTurn, JudgeTurn

LEMMA NextTurn == ASSUME ET!ExpertAssumption, TurnInv, [ET!Next]_(ET!vars) PROVE TurnInv'
<1>1. CASE ET!Next
  BY <1>1, PublishTurn, SelectTurn, BeginTurn, EndTurn, ToolTurn, RouteTurn, OutcomeTurn DEF ET!Next
<1>2. CASE UNCHANGED ET!vars
  BY <1>2 DEF ET!vars, ET!runtime, ET!meta, TurnInv, Scheduled, ET!Native, ET!ScopeProven, ET!Texts
<1> QED BY <1>1, <1>2

\* A card stands alone, no Skill is scheduled unread, and what the user reads was said in
\* this turn, whatever an earlier one has left (agentscope_expert_runtime.py).
THEOREM TurnTheorem == ET!Spec => []TurnAnswersForItself
<1>1. TurnInv /\ [ET!Next]_(ET!vars) => TurnInv'
  BY NextTurn, ExpertTurnAssumption
<1>2. TurnInv => TurnAnswersForItself
  BY DEF TurnInv, TurnAnswersForItself, ET!CardStandsAlone, ET!ScopeProven, ET!AnswersThisTurn,
         ET!Native, ET!Coordinates, Scheduled
<1> QED BY <1>1, <1>2, TurnStarts, PTL DEF ET!Spec
================================================================================
