----------------------------- MODULE CandidateTeams -----------------------------
(***************************************************************************)
(* The test of an unpublished expert team (workbench/service.py): what its *)
(* stored context keeps from one turn to the next about the expert, the    *)
(* cards, the forms and the messages.                                      *)
(*                                                                         *)
(* A turn restores the context, applies what the tester did (a text, a     *)
(* form, a card, an expert on the toolbar), runs, and stores the context   *)
(* again, also when it has failed.  Turns come one after the other here;   *)
(* that two of them meet is in CandidateTests, what an expert does with a  *)
(* turn in ExpertTurn.                                                     *)
(***************************************************************************)
EXTENDS Naturals, Sequences

CONSTANTS
  Members,       \* the experts that the snapshot locks for the team
  Coordinator,
  MaxTurns,      \* bound on the turns of a test
  None

\* What the constants are; the instances assume it.
TeamAssumption == Coordinator \in Members /\ MaxTurns \in Nat /\ None \notin Members

VARIABLES
  row,   \* the stored context
  ctx,   \* the working copy of a turn
  pc,    \* where the turn is
  turn   \* its number, which stands for the tester's own words

vars == <<row, ctx, pc, turn>>

Blank ==
  [expert |-> None,   \* active_expert_id
   said |-> <<>>,     \* the words of the user messages, by the turn they come from
   replies |-> <<>>,  \* the assistant messages, with their card and form
   visible |-> 0]     \* team_handoff_visible_user_message: from which turn, 0 if none

Init == row = Blank /\ ctx = Blank /\ pc = "idle" /\ turn = 0

-----------------------------------------------------------------------------
(* What the tester does.                                                   *)

\* The coordinator starts; a member that was chosen stays.
Restored == [row EXCEPT !.expert = IF @ \in Members THEN @ ELSE Coordinator]

Begin(c) ==
  /\ pc = "idle" /\ turn < MaxTurns
  /\ turn' = turn + 1
  /\ ctx' = c
  /\ pc' = "run"
  /\ UNCHANGED row

Expired(s) == IF s = "active" THEN "expired" ELSE s
FormLeft(r) == [r EXCEPT !.form = Expired(@)]
CardLeft(r) == [r EXCEPT !.card = Expired(@)]

\* expire_active_interactions: a free text leaves the cards as they are.
FormsExpired(c) == [c EXCEPT !.replies = [i \in DOMAIN c.replies |-> FormLeft(c.replies[i])]]

Text == Begin(FormsExpired(Restored))

Replaced(c, i, r) == [c EXCEPT !.replies[i] = r]

Form(i) ==
  /\ i \in DOMAIN row.replies /\ row.replies[i].form = "active"
  /\ Begin(Replaced(Restored, i, [row.replies[i] EXCEPT !.form = "submitted"]))

\* Mutant: another expert takes over and the forms stay.
AbandonedCardsOnly(c) == [c EXCEPT !.replies = [i \in DOMAIN c.replies |-> CardLeft(c.replies[i])]]

\* abandon_active_interactions_for_expert_change
Abandoned(c) ==
  [c EXCEPT !.replies = [i \in DOMAIN c.replies |-> CardLeft(FormLeft(c.replies[i]))]]

\* The expert e takes over, and the user message will show other words than the tester's.
TakenOver(c, e) == [c EXCEPT !.expert = e, !.visible = turn + 1]

\* A card that is active leads to one of the experts it offers.
Confirmed(r) == [r EXCEPT !.card = "selected", !.confirmed = @ + 1]

Handoff(i, e) ==
  /\ i \in DOMAIN row.replies
  /\ row.replies[i].card = "active" /\ e \in row.replies[i].to \cap Members
  /\ Begin(TakenOver(Replaced(Abandoned(Restored), i, Confirmed(FormLeft(row.replies[i]))), e))

\* An expert on the toolbar.  The one that is active already leaves cards and forms, and
\* with a questionnaire under way the choice is ignored.
At(e) ==
  /\ e \in Members
  /\ IF e # Restored.expert THEN Begin(TakenOver(Abandoned(Restored), e))
     ELSE \E ignored \in BOOLEAN : Begin(IF ignored THEN Restored ELSE TakenOver(Restored, e))

-----------------------------------------------------------------------------
(* The turn.                                                               *)

Store(c) == row' = c /\ ctx' = c /\ pc' = "idle" /\ UNCHANGED turn

\* An exception is evidence, and the context is stored as it is by then: before or after
\* the message has been recorded.
Fail == pc \in {"run", "reply"} /\ Store(ctx)

\* Nothing is stored of a turn whose Skills cannot be mounted, or that was stopped and
\* overtaken.
Lose == pc \in {"run", "reply"} /\ Store(row)

\* Mutant: the words are used and kept.
RecordKeepingWords ==
  /\ pc = "run"
  /\ ctx' = [ctx EXCEPT !.said = Append(@, IF ctx.visible # 0 THEN ctx.visible ELSE turn)]
  /\ pc' = "reply"
  /\ UNCHANGED <<row, turn>>

\* The message is added to the conversation, in the words to be shown if there are any.
Record ==
  /\ pc = "run"
  /\ ctx' = [ctx EXCEPT !.said = Append(@, IF ctx.visible # 0 THEN ctx.visible ELSE turn),
                        !.visible = 0]
  /\ pc' = "reply"
  /\ UNCHANGED <<row, turn>>

\* The coordinator may offer one to three other members; a Skill may ask with a form.
Reply(to, asks) ==
  /\ pc = "reply"
  /\ to # {} => ctx.expert = Coordinator /\ ~asks
  /\ Store([ctx EXCEPT !.replies =
       Append(@, [by |-> ctx.expert, to |-> to, confirmed |-> 0,
                  card |-> IF to = {} THEN None ELSE "active",
                  form |-> IF asks THEN "active" ELSE None])])

Next ==
  \/ Text \/ Fail \/ Lose \/ Record
  \/ \E i \in DOMAIN row.replies : Form(i) \/ \E e \in Members : Handoff(i, e)
  \/ \E e \in Members : At(e)
  \/ \E to \in SUBSET (Members \ {Coordinator}), asks \in BOOLEAN : Reply(to, asks)

Spec == Init /\ [][Next]_vars

-----------------------------------------------------------------------------
(* Properties.                                                             *)

\* A form that can still be answered was shown by the expert who gets the answer, however
\* the tester has changed between the experts and which turns have failed.
FormsOfTheExpert ==
  \A i \in DOMAIN row.replies : row.replies[i].form = "active" => row.replies[i].by = row.expert

\* A card is confirmed once, although texts and failed turns leave it as it is.
CardsConfirmedOnce == \A i \in DOMAIN row.replies : row.replies[i].confirmed <= 1

\* No words are recorded for two turns, and none before earlier ones: those that a failed
\* turn has left take the place of the next message once.
WordsRecordedOnce ==
  \A i, j \in DOMAIN row.said : i < j => row.said[i] < row.said[j]
=============================================================================
