-------------------------- MODULE PlannerDialogueProofs --------------------------
(***************************************************************************)
(* For any Skills, configurations, questions and messages: a session is    *)
(* only in a specialist Skill that was chosen, a refused reply leaves no   *)
(* trace, and the session waits only for fields of forms it has shown.     *)
(*                                                                         *)
(* The three speak of the saved state, a turn works on a copy: each needs  *)
(* the same fact about the copy at every stage, and about what will move   *)
(* it later.  A hint, a pick and the gate for the school stage only lead   *)
(* where the user or the expert chose to go (Chosen); a copy has gained no *)
(* progress before it is published (Unfinished); and a form that is not    *)
(* yet shown is the block of the reply about to be published (Waits).      *)
(*                                                                         *)
(* Then the two other machines of Replies.  A reply's cards: who is        *)
(* invited is told apart from what is only noted, and cards are there only *)
(* between the turns (CardsInv).  A native Skill's reply: what a turn may  *)
(* still use of its draft, of a script's result and of evidence follows    *)
(* the turn from stage to stage (NativeInv), for the flags of the session  *)
(* outlive the turn that set them.                                         *)
(***************************************************************************)
EXTENDS Replies, Sequences, FiniteSetTheorems, Functions, TLAPS

LEMMA Constants ==
  /\ General \in Skills /\ Career \in Skills /\ Junior \in Skills /\ Senior \in Skills
  /\ Asking \subseteq Native \ {General, Career} /\ Native \subseteq Skills
  /\ Asking \subseteq Skills /\ Authorized \subseteq Skills
  /\ \A R \in Registries : R \subseteq Skills /\ General \in R
  /\ {General, Career} \cap MultiPath = {}
  /\ Direct \notin Skills /\ None \notin Skills /\ Direct # None /\ MaxMessages \in Nat
BY PlannerAssumption DEF PlannerAssumption

LEMMA Bounds ==
  /\ OnSubmit \subseteq Questions /\ OnCompletion \subseteq Questions
BY QuestionnaireAssumption DEF QuestionnaireAssumption

-----------------------------------------------------------------------------
(* The questionnaire: what its operators do to a record.                   *)

LEMMA UntouchedType == Untouched \in Questionnaires
BY DEF Untouched, Questionnaires

LEMMA SubmitProperties ==
  ASSUME NEW r \in Questionnaires, NEW A \in SUBSET r.form
  PROVE  /\ Submit(r, A) \in Questionnaires
         /\ Submit(r, A).form \subseteq r.form
         /\ Submit(r, A).deferred \subseteq r.deferred \cup r.form
         /\ Promoted(A) \subseteq r.form
BY Bounds DEF Submit, Questionnaires, Promoted

LEMMA FlushProperties ==
  ASSUME NEW r \in Questionnaires
  PROVE  /\ Flush(r) \in Questionnaires /\ Flush(r).form = r.form /\ Flush(r).deferred = {}
         /\ r.form \subseteq Questions /\ r.deferred \subseteq Questions
BY Bounds DEF Flush, Questionnaires

LEMMA StageProperties ==
  ASSUME NEW r \in Questionnaires, NEW b \in SUBSET Questions
  PROVE  /\ Stage(r, b) \in Questionnaires /\ Stage(r, b).deferred = r.deferred
         /\ Stage(r, b).form \subseteq r.form \cup b
BY DEF Stage, Questionnaires

LEMMA AbandonProperties ==
  ASSUME NEW r \in Questionnaires
  PROVE  /\ Abandon(r) \in Questionnaires
         /\ Abandon(r).form = {} /\ Abandon(r).deferred = r.deferred
BY DEF Abandon, Questionnaires

LEMMA LeftoverProperties ==
  ASSUME NEW r0 \in Questionnaires, NEW r \in Questionnaires
  PROVE  /\ Leftover(r0, r) \in Questionnaires
         /\ Leftover(r0, r).form \subseteq r0.form \cup r.form
         /\ Leftover(r0, r).deferred \subseteq r0.deferred \cup r.deferred
BY DEF Leftover, Questionnaires

\* An outcome that comes from r keeps its form and its promises, or drops them.
From(o, r) ==
  /\ o \in [q : Questionnaires, block : SUBSET Questions, stuck : BOOLEAN]
  /\ o.q.form \subseteq r.form /\ o.q.deferred \subseteq r.deferred

LEMMA FormsAreQuestions ==
  ASSUME NEW c \in SUBSET Questions
  PROVE  Forms(c) \subseteq SUBSET Questions /\ Fallbacks(c) \subseteq SUBSET Questions
BY DEF Forms, Fallbacks

LEMMA OutcomeFrom ==
  ASSUME NEW r \in Questionnaires, NEW b \in SUBSET Questions, NEW s \in BOOLEAN,
         NEW q \in Questionnaires, q.form \subseteq r.form, q.deferred \subseteq r.deferred
  PROVE  From(Outcome(q, b, s), r)
BY DEF From, Outcome

LEMMA DecideFrom ==
  ASSUME NEW r \in Questionnaires, NEW c \in SUBSET Questions, NEW o \in Decide(r, c)
  PROVE  From(o, r)
<1> DEFINE popped == [r EXCEPT !.script = {}]
           dropped == [r EXCEPT !.form = {}]
           closed == [r EXCEPT !.form = {}, !.script = {}]
<1>1. /\ popped \in Questionnaires /\ popped.form = r.form /\ popped.deferred = r.deferred
      /\ dropped \in Questionnaires /\ dropped.form = {} /\ dropped.deferred = r.deferred
      /\ closed \in Questionnaires /\ closed.form = {} /\ closed.deferred = r.deferred
  BY DEF Questionnaires
<1> HIDE DEF popped, dropped, closed
<1>2. \A d \in SUBSET Questions : \A b \in Forms(d) \cup Fallbacks(d) : b \in SUBSET Questions
  BY FormsAreQuestions
<1>0. CASE o = Outcome(r, {}, FALSE)
  BY <1>0, OutcomeFrom
<1>3. CASE o \in Planned(r, c)
  <2>1. PICK q \in {r, dropped}, b \in {{}} \cup Forms(c) \cup Fallbacks(c), s \in BOOLEAN :
          o = Outcome(q, b, s)
    BY <1>3 DEF Planned, dropped
  <2> QED BY <1>1, <1>2, <2>1, OutcomeFrom
<1>4. CASE o \in Completed(r, c)
  <2>1. PICK q \in {r, closed}, b \in {{}} \cup Fallbacks(c) : o = Outcome(q, b, FALSE)
    BY <1>4 DEF Completed, closed
  <2> QED BY <1>1, <1>2, <2>1, OutcomeFrom
<1>5. CASE o \in Asked(r, c)
  <2>1. PICK d \in {c, r.script} : /\ d \subseteq c
                                   /\ \E b \in Fallbacks(d) : o = Outcome(popped, b, FALSE)
    BY <1>5 DEF Asked, popped
  <2>2. PICK b \in Fallbacks(d) : o = Outcome(popped, b, FALSE)
    BY <2>1
  <2> QED BY <1>1, <1>2, <2>1, <2>2, OutcomeFrom
<1> QED BY <1>0, <1>3, <1>4, <1>5 DEF Decide

LEMMA ReconciledFrom ==
  ASSUME NEW r \in Questionnaires, NEW c \in SUBSET Questions, NEW r1 \in Reconciled(r, c)
  PROVE  r1 \in Questionnaires /\ r1.form = r.form /\ r1.deferred = r.deferred
<1>1. \/ r1 = r
      \/ \E A \in SUBSET c : r1 = [r EXCEPT !.answers = A, !.made = TRUE, !.reconciled = TRUE]
      \/ r1 = [r EXCEPT !.made = TRUE]
  BY DEF Reconciled
<1>2. CASE \E A \in SUBSET c : r1 = [r EXCEPT !.answers = A, !.made = TRUE, !.reconciled = TRUE]
  BY <1>2 DEF Questionnaires
<1>3. CASE r1 = [r EXCEPT !.made = TRUE]
  BY <1>3 DEF Questionnaires
<1> QED BY <1>1, <1>2, <1>3

LEMMA OffersAreQuestions ==
  ASSUME NEW r, NEW c \in Offers(r)
  PROVE  c \in SUBSET Questions
BY DEF Offers

LEMMA ResolveFrom ==
  ASSUME NEW r \in Questionnaires, NEW o \in Resolve(r)
  PROVE  From(o, r)
<1>1. PICK c \in Offers(r) :
        o \in IF c = {} THEN Decide(r, c)
              ELSE UNION {UNION {Decide(r1, c1) : c1 \in Left(r, r1, c)} : r1 \in Reconciled(r, c)}
  BY DEF Resolve
<1>2. c \in SUBSET Questions
  BY OffersAreQuestions
<1>3. CASE o \in Decide(r, c)
  BY <1>2, <1>3, DecideFrom
<1>4. ASSUME NEW r1 \in Reconciled(r, c), o \in UNION {Decide(r1, c1) : c1 \in Left(r, r1, c)}
      PROVE  From(o, r)
  <2>1. r1 \in Questionnaires /\ r1.form = r.form /\ r1.deferred = r.deferred
    BY <1>2, ReconciledFrom
  <2>2. PICK c1 \in Left(r, r1, c) : o \in Decide(r1, c1)
    BY <1>4
  <2>3. c1 \in SUBSET Questions
    BY <1>2, OffersAreQuestions DEF Left
  <2> QED BY <2>1, <2>2, <2>3, DecideFrom DEF From
<1> QED BY <1>1, <1>3, <1>4

LEMMA ContinueProperties ==
  ASSUME NEW r \in Questionnaires, NEW o \in Continue(r)
  PROVE  /\ o.q \in Questionnaires /\ o.block \in SUBSET Questions
         /\ o.q.form \subseteq r.form \cup o.block /\ o.q.deferred \subseteq r.deferred
<1>0. PICK c \in Offers(r) : \E r1 \in Scripted(r, c) : \E o1 \in Resolve(r1) :
                               \E o2 \in Recover(o1) : o = Staged(o2)
  BY DEF Continue
<1> PICK r1 \in Scripted(r, c) : \E o1 \in Resolve(r1) : \E o2 \in Recover(o1) : o = Staged(o2)
  BY <1>0
<1> PICK o1 \in Resolve(r1) : \E o2 \in Recover(o1) : o = Staged(o2)
  OBVIOUS
<1>1. PICK o2 \in Recover(o1) : o = Staged(o2)
  OBVIOUS
<1>2. c \in SUBSET Questions
  BY OffersAreQuestions
<1>3. r1 \in Questionnaires /\ r1.form = r.form /\ r1.deferred = r.deferred
  BY <1>2 DEF Scripted, Questionnaires
<1>4. From(o1, r1)
  BY <1>3, ResolveFrom
<1>5. /\ o2.q \in Questionnaires /\ o2.block \in SUBSET Questions
      /\ o2.q.form \subseteq r1.form /\ o2.q.deferred \subseteq r1.deferred
  <2>1. CASE o2 = o1
    BY <1>4, <2>1 DEF From
  <2>2. ASSUME NEW o3 \in Resolve(o1.q), o2 \in {o3, [o3 EXCEPT !.block = o1.block]}
        PROVE  /\ o2.q \in Questionnaires /\ o2.block \in SUBSET Questions
               /\ o2.q.form \subseteq r1.form /\ o2.q.deferred \subseteq r1.deferred
    <3>1. From(o3, o1.q)
      BY <1>4, ResolveFrom DEF From
    <3> QED BY <1>4, <2>2, <3>1 DEF From
  <2> QED BY <2>1, <2>2 DEF Recover
<1>6. o.q = Stage(o2.q, o2.block) /\ o.block = o2.block
  BY <1>1 DEF Staged
<1> QED BY <1>3, <1>5, <1>6, StageProperties

LEMMA RepliesProperties ==
  ASSUME NEW r, NEW b \in Replies(r)
  PROVE  b \in SUBSET Questions
BY FormsAreQuestions, OffersAreQuestions DEF Replies

-----------------------------------------------------------------------------
(* The state: what the operators do to it.                                 *)

Places == Skills \cup {Direct, None}

LEMMA RestTypes ==
  /\ NoHint \in Hints /\ NoHint.req = None
  /\ NoTurn \in Turns /\ NoTurn.pick = None /\ NoTurn.refused = None /\ None \notin Authorized
BY Constants DEF NoHint, NoTurn, Hints, Turns

LEMMA FreshType == ASSUME NEW s \in Places PROVE Fresh(s) \in States
BY UntouchedType DEF Fresh, States, Places

LEMMA ActiveType ==
  ASSUME NEW st \in States, NEW s \in Places
  PROVE  [st EXCEPT !.active = s] \in States
BY DEF States, Places

LEMMA QuestionnaireType ==
  ASSUME NEW st \in States, NEW k \in Asking, NEW r \in Questionnaires
  PROVE  [st EXCEPT !.q[k] = r] \in States
BY DEF States

LEMMA EnteredType ==
  ASSUME NEW st \in States, NEW s \in Skills, NEW from
  PROVE  /\ Entered(st, s, from) \in States
         /\ Entered(st, s, from).active = s /\ Entered(st, s, from).gate = st.gate
         /\ Entered(st, s, from).progress = st.progress /\ Entered(st, s, from).q = st.q
BY DEF Entered, States

\* The stage of the school closes or opens the gate, or leads from Junior to Senior.
LEMMA SplitProperties ==
  ASSUME NEW st \in States, NEW st1 \in Split(st)
  PROVE  /\ st1 \in States /\ st1.progress = st.progress /\ st1.q = st.q
         /\ st1.active = st.active \/ (st.active = Junior /\ st1.active = Senior)
         /\ st1.gate => st1.active = Junior
<1> USE Constants
<1>1. PICK g \in BOOLEAN : \/ st1 = [st EXCEPT !.gate = g]
                           \/ /\ st.active = Junior
                              /\ st1 = st \/ st1 = [st EXCEPT !.gate = FALSE, !.active = Senior]
  BY DEF Split
<1>2. CASE st1 = [st EXCEPT !.gate = FALSE, !.active = Senior] /\ st.active = Junior
  BY <1>2 DEF States
<1>3. CASE st1 = st /\ st.active = Junior
  BY <1>3
<1>4. CASE st1 = [st EXCEPT !.gate = g]
  <2>1. st1 \in States /\ st1.progress = st.progress /\ st1.q = st.q /\ st1.active = st.active
    BY <1>4 DEF States
  <2>2. st1.gate => st1.active = Junior
    BY <1>4 DEF Split, States
  <2> QED BY <2>1, <2>2
<1> QED BY <1>1, <1>2, <1>3, <1>4

LEMMA FinalizedProperties ==
  ASSUME NEW st \in States, NEW accepted \in BOOLEAN
  PROVE  /\ Finalized(st, accepted) \in States
         /\ Finalized(st, accepted).active = st.active /\ Finalized(st, accepted).gate = st.gate
         /\ Finalized(st, accepted).q = st.q
         /\ Finalized(st, accepted).outcome = st.outcome
         /\ ~accepted => Finalized(st, accepted).progress = st.progress
BY DEF Finalized, States

LEMMA SpeakerType == ASSUME TypeOK PROVE Speaker \in Skills
BY Constants DEF TypeOK, Speaker

LEMMA GuardedProperties ==
  ASSUME TypeOK, NEW accepted \in BOOLEAN
  PROVE  /\ Guarded(accepted) \in States
         /\ Guarded(accepted).active = state.active /\ Guarded(accepted).gate = state.gate
         /\ Guarded(accepted).q = state.q /\ Guarded(accepted).progress = state.progress
         /\ ~accepted => Guarded(accepted).outcome = Speaker
BY SpeakerType DEF Guarded, States, TypeOK

LEMMA LeavingsProperties ==
  ASSUME TypeOK
  PROVE  /\ Leavings \in States
         /\ Leavings.active = saved.active /\ Leavings.gate = saved.gate
         /\ \A k \in Asking : Leavings.q[k] = Leftover(saved.q[k], state.q[k])
<1>1. \A k \in Asking : Leftover(saved.q[k], state.q[k]) \in Questionnaires
  BY LeftoverProperties DEF TypeOK, States
<1> QED BY <1>1 DEF Leavings, States, TypeOK

-----------------------------------------------------------------------------
(* What is true at every stage of a turn.                                  *)

\* Where a choice leads: to itself, if it is no place that anyone may go to.
Open == {General, Career, Direct, None}

Reaches(s) == s \in Open \cup chosen

\* A choice of one multi-path Skill is one of both, the gate stands before a choice
\* that was made, and hints and picks name choices.
Chosen ==
  /\ chosen \cap MultiPath # {} => MultiPath \subseteq chosen
  /\ \A st \in {saved, state} : Reaches(st.active) /\ (st.gate => MultiPath \subseteq chosen)
  /\ meta.req # None => Leads(meta.req) \subseteq chosen
  /\ turn.pick \in Authorized => Leads(turn.pick) \subseteq chosen

\* Nothing is committed before the reply, and a refusal leaves the outcome of the Skill
\* and commits nothing.  A turn that is routed has a Skill.
Unfinished ==
  /\ pc \in {"route", "reply", "runtime", "draft", "publish"} => state.active \in Skills
  /\ pc = "load" => state = saved
  /\ pc # "publish" => state.progress = saved.progress /\ turn.refused = None
  /\ pc = "publish" /\ turn.refused # None =>
       state.progress = saved.progress /\ state.outcome = turn.refused

\* Forms and promises of the saved state and of the copy are fields that were shown;
\* the copy may have the form of the reply it is about to publish.
Waits ==
  /\ \A k \in Asking : /\ saved.q[k].form \cup saved.q[k].deferred \subseteq shown[k]
                       /\ state.q[k].deferred \subseteq shown[k]
                       /\ state.q[k].form \subseteq shown[k]
                            \cup (IF pc = "publish" /\ k = state.active THEN turn.block ELSE {})
  /\ facts \subseteq UNION {shown[k] : k \in Asking}

IInv == TypeOK /\ Chosen /\ Unfinished /\ Waits

-----------------------------------------------------------------------------
(* Choices.                                                                *)

LEMMA LeadsProperties ==
  ASSUME NEW s \in Skills
  PROVE  /\ Leads(s) \subseteq Skills
         /\ Leads(s) \cap MultiPath # {} => MultiPath \subseteq Leads(s)
         /\ s \in Open \cup Leads(s)
BY Constants DEF Leads, MultiPath, Open

LEMMA ReachedMultiPath ==
  ASSUME Chosen, NEW s \in MultiPath, Reaches(s)
  PROVE  MultiPath \subseteq chosen
<1>1. s \in Skills /\ s \notin {General, Career}
  <2>1. s \notin {General, Career}
    BY Constants
  <2>2. s \in Skills
    BY Constants DEF MultiPath
  <2> QED BY <2>1, <2>2
<1>2. s \notin Open
  BY <1>1, Constants DEF Open
<1>3. s \in chosen
  BY <1>2 DEF Reaches
<1> QED BY <1>3 DEF Chosen

-----------------------------------------------------------------------------
(* Between turns.                                                          *)

LEMMA InitIInv == ASSUME Init PROVE IInv
<1> USE Constants
<1>1. TypeOK
  <2>1. saved \in States /\ state \in States /\ state = saved /\ pc = "idle"
    BY FreshType DEF Init, Places
  <2>2. NoHint \in Hints /\ NoTurn \in Turns
    BY RestTypes
  <2>3. messages \in 0..MaxMessages /\ shown \in [Asking -> SUBSET Questions]
    BY DEF Init
  <2> QED BY <2>1, <2>2, <2>3 DEF Init, TypeOK
<1>2. saved.active = General /\ ~saved.gate /\ saved = state
      /\ \A k \in Asking : saved.q[k] = Untouched
  BY DEF Init, Fresh
<1>3. Chosen
  BY <1>2 DEF Init, Chosen, Reaches, Open, NoHint, NoTurn
<1>4. Unfinished
  BY <1>2 DEF Init, Unfinished, NoTurn
<1>5. Waits
  BY <1>2 DEF Init, Waits, Untouched
<1> QED BY <1>1, <1>3, <1>4, <1>5 DEF IInv

LEMMA RedeployStep == ASSUME IInv, Redeploy PROVE IInv'
<1>1. pc = "idle" /\ registry' \in Registries
      /\ UNCHANGED <<saved, state, facts, meta, pc, turn, kept, messages, chosen, shown>>
  BY DEF Redeploy
<1>2. TypeOK'
  BY <1>1 DEF IInv, TypeOK
<1>3. Chosen'
  BY <1>1 DEF IInv, Chosen, Reaches
<1>4. Unfinished' /\ Waits'
  BY <1>1 DEF IInv, Unfinished, Waits
<1> QED BY <1>2, <1>3, <1>4 DEF IInv

\* A saved state that is taken over between turns.
LEMMA SavedStep ==
  ASSUME IInv, NEW st \in States, Save(st), pc' = "idle", turn' = NoTurn,
         UNCHANGED <<registry, facts, kept, messages, shown>>,
         meta' \in {meta, NoHint}, chosen' \subseteq Skills,
         st.active \in Open \cup chosen', st.gate => MultiPath \subseteq chosen',
         chosen' \cap MultiPath # {} => MultiPath \subseteq chosen',
         meta'.req # None => Leads(meta'.req) \subseteq chosen',
         \A k \in Asking : st.q[k].form \cup st.q[k].deferred \subseteq shown[k]
  PROVE  IInv'
<1> USE Constants
<1>1. TypeOK'
  BY RestTypes DEF IInv, TypeOK, Save
<1>2. Chosen'
  BY DEF IInv, Chosen, Reaches, Save, NoTurn
<1>3. Unfinished'
  BY DEF Unfinished, Save, NoTurn
<1>4. Waits'
  BY DEF IInv, Waits, Save
<1> QED BY <1>1, <1>2, <1>3, <1>4 DEF IInv

LEMMA ExitStep == ASSUME IInv, Exit PROVE IInv'
<1> USE Constants
<1>1. Fresh(General) \in States /\ Fresh(General).active = General /\ ~Fresh(General).gate
      /\ \A k \in Asking : Fresh(General).q[k].form = {} /\ Fresh(General).q[k].deferred = {}
  BY FreshType DEF Fresh, Places, Untouched
<1>2. turn = NoTurn
  BY DEF Exit, IInv, TypeOK
<1> QED BY <1>1, <1>2, SavedStep DEF Exit, Open, NoHint

LEMMA ChangeExpertStep ==
  ASSUME IInv, NEW s \in {General, Career, None}, ChangeExpert(s)
  PROVE  IInv'
<1> USE Constants
<1> DEFINE st == [saved EXCEPT !.active = s, !.q = [k \in Asking |-> Abandon(saved.q[k])]]
<1>1. \A k \in Asking : /\ Abandon(saved.q[k]) \in Questionnaires
                        /\ Abandon(saved.q[k]).form = {}
                        /\ Abandon(saved.q[k]).deferred = saved.q[k].deferred
  BY AbandonProperties DEF IInv, TypeOK, States
<1>2. st \in States /\ st.active = s /\ st.gate = saved.gate
      /\ \A k \in Asking : st.q[k] = Abandon(saved.q[k])
  <2> DEFINE q == [k \in Asking |-> Abandon(saved.q[k])]
  <2>1. q \in [Asking -> Questionnaires] /\ \A k \in Asking : q[k] = Abandon(saved.q[k])
    BY <1>1
  <2>2. st = [saved EXCEPT !.active = s, !.q = q]
    OBVIOUS
  <2> HIDE DEF q, st
  <2> QED BY <2>1, <2>2 DEF IInv, TypeOK, States
<1>3. /\ Save(st) /\ pc' = "idle" /\ turn' = NoTurn
      /\ UNCHANGED <<registry, facts, meta, kept, messages, chosen, shown>>
  BY DEF ChangeExpert, IInv, TypeOK
<1>4. \A k \in Asking : st.q[k].form \cup st.q[k].deferred \subseteq shown[k]
  BY <1>1, <1>2 DEF IInv, Waits
<1> HIDE DEF st
<1> QED BY <1>2, <1>3, <1>4, SavedStep DEF IInv, TypeOK, Chosen, Open

LEMMA BlockStep == ASSUME IInv, Block PROVE IInv'
<1>1. /\ Save(saved) /\ pc' = "idle" /\ turn' = NoTurn
      /\ UNCHANGED <<registry, facts, meta, kept, messages, chosen, shown>>
  BY DEF Block, Goto, Note
<1> QED BY <1>1, SavedStep DEF IInv, TypeOK, Chosen, Reaches, Waits

LEMMA FailStep == ASSUME IInv, Fail PROVE IInv'
<1>1. /\ Save(Leavings) /\ pc' = "idle" /\ turn' = NoTurn /\ pc # "publish"
      /\ UNCHANGED <<registry, facts, meta, kept, messages, chosen, shown>>
  BY DEF Fail, Goto, Note
<1>2. /\ Leavings \in States /\ Leavings.active = saved.active /\ Leavings.gate = saved.gate
      /\ \A k \in Asking : Leavings.q[k] = Leftover(saved.q[k], state.q[k])
  BY LeavingsProperties DEF IInv
<1>3. ASSUME NEW k \in Asking
      PROVE  Leavings.q[k].form \cup Leavings.q[k].deferred \subseteq shown[k]
  <2>1. /\ Leftover(saved.q[k], state.q[k]).form \subseteq saved.q[k].form \cup state.q[k].form
        /\ Leftover(saved.q[k], state.q[k]).deferred
             \subseteq saved.q[k].deferred \cup state.q[k].deferred
    BY LeftoverProperties DEF IInv, TypeOK, States
  <2>2. state.q[k].form \subseteq shown[k]
    BY <1>1 DEF IInv, Waits
  <2> QED BY <1>2, <2>1, <2>2 DEF IInv, Waits
<1> QED BY <1>1, <1>2, <1>3, SavedStep DEF IInv, TypeOK, Chosen, Reaches

\* A turn begins on the saved state.
LEMMA BeginStep ==
  ASSUME IInv, NEW n \in Turns, Begin(n), n.refused = None,
         saved' \in States, state' = saved', UNCHANGED <<registry, facts, shown>>,
         meta' \in Hints,
         chosen' \subseteq Skills,
         saved'.active \in Open \cup chosen', saved'.gate => MultiPath \subseteq chosen',
         chosen' \cap MultiPath # {} => MultiPath \subseteq chosen',
         meta'.req # None => Leads(meta'.req) \subseteq chosen',
         n.pick \in Authorized => Leads(n.pick) \subseteq chosen',
         \A k \in Asking : saved'.q[k].form \cup saved'.q[k].deferred \subseteq shown[k]
  PROVE  IInv'
<1> USE Constants
<1>1. pc' = "load" /\ turn' = n /\ kept' = FALSE /\ messages < MaxMessages
      /\ messages' = messages + 1
  BY DEF Begin, Goto, Note
<1>2. messages' \in 0..MaxMessages
  BY <1>1 DEF IInv, TypeOK
<1>3. TypeOK'
  BY <1>1, <1>2 DEF IInv, TypeOK
<1>4. Chosen'
  BY <1>1 DEF Chosen, Reaches
<1>5. Unfinished'
  BY <1>1 DEF Unfinished
<1>6. Waits'
  BY <1>1 DEF IInv, Waits
<1> QED BY <1>3, <1>4, <1>5, <1>6 DEF IInv

LEMMA EnterStep ==
  ASSUME IInv, NEW s \in Skills, NEW factsOnly \in BOOLEAN, Enter(s, factsOnly)
  PROVE  IInv'
<1> USE Constants
<1> DEFINE st0 == IF factsOnly THEN Fresh(s) ELSE saved
           st == [st0 EXCEPT !.active = s]
<1>1. /\ pc = "idle" /\ s \in registry /\ Save(st) /\ Begin(NoTurn)
      /\ meta' = [req |-> s, pre |-> s, from |-> saved.active]
      /\ chosen' = IF factsOnly THEN Leads(s) ELSE chosen \cup Leads(s)
      /\ UNCHANGED <<registry, facts, shown>>
  BY DEF Enter
<1>2. st0 \in States
  BY FreshType DEF Places, IInv, TypeOK
<1>3. /\ \A k \in Asking : st0.q[k].form \cup st0.q[k].deferred \subseteq shown[k]
      /\ st0.gate => ~factsOnly /\ MultiPath \subseteq chosen
  <2>1. CASE factsOnly
    BY <2>1 DEF Fresh, Untouched
  <2>2. CASE ~factsOnly
    BY <2>2 DEF IInv, Waits, Chosen
  <2> QED BY <2>1, <2>2
<1> HIDE DEF st0
<1>4. st \in States /\ st.active = s /\ st.gate = st0.gate /\ st.q = st0.q
  BY <1>2, ActiveType DEF States, Places
<1> HIDE DEF st
<1>5. /\ Leads(s) \subseteq Skills /\ (Leads(s) \cap MultiPath # {} => MultiPath \subseteq Leads(s))
      /\ s \in Open \cup Leads(s)
  BY LeadsProperties
<1>6. /\ chosen' \subseteq Skills /\ Leads(s) \subseteq chosen'
      /\ chosen' \cap MultiPath # {} => MultiPath \subseteq chosen'
  <2>1. chosen \subseteq Skills /\ (chosen \cap MultiPath # {} => MultiPath \subseteq chosen)
    BY DEF IInv, TypeOK, Chosen
  <2>2. CASE factsOnly
    BY <1>1, <1>5, <2>2
  <2>3. CASE ~factsOnly
    BY <1>1, <1>5, <2>1, <2>3
  <2> QED BY <2>2, <2>3
<1>7. /\ meta' \in Hints
      /\ meta'.req = s
  BY <1>1 DEF IInv, TypeOK, States, Hints
<1>8. /\ saved' = st /\ state' = st
      /\ \A k \in Asking : st.q[k].form \cup st.q[k].deferred \subseteq shown[k]
      /\ (st.gate => MultiPath \subseteq chosen') /\ st.active \in Open \cup chosen'
  BY <1>1, <1>3, <1>4, <1>5, <1>6 DEF Save
<1> QED BY <1>1, <1>4, <1>6, <1>7, <1>8, RestTypes, BeginStep

LEMMA RequestStep == ASSUME IInv, NEW s \in Skills, Request(s) PROVE IInv'
<1> USE Constants
<1>1. /\ pc = "idle" /\ meta' = [meta EXCEPT !.req = s] /\ chosen' = chosen \cup Leads(s)
      /\ Begin(NoTurn) /\ UNCHANGED <<registry, saved, state, facts, shown>>
  BY DEF Request
<1>2. /\ meta' \in Hints
      /\ meta'.req = s
  BY <1>1 DEF IInv, TypeOK, Hints
<1>3. /\ chosen' \subseteq Skills /\ Leads(s) \subseteq chosen' /\ chosen \subseteq chosen'
      /\ chosen' \cap MultiPath # {} => MultiPath \subseteq chosen'
  BY <1>1, LeadsProperties DEF IInv, TypeOK, Chosen
<1>4. /\ saved' = state' /\ saved' = saved /\ saved \in States
      /\ saved.active \in Open \cup chosen' /\ (saved.gate => MultiPath \subseteq chosen')
      /\ \A k \in Asking : saved.q[k].form \cup saved.q[k].deferred \subseteq shown[k]
  BY <1>1, <1>3 DEF IInv, TypeOK, Chosen, Reaches, Waits
<1> QED BY <1>1, <1>2, <1>3, <1>4, RestTypes, BeginStep

LEMMA SayStep ==
  ASSUME IInv, NEW pick \in Skills \cup {None}, NEW direct \in BOOLEAN, Say(pick, direct)
  PROVE  IInv'
<1> USE Constants
<1> DEFINE n == [NoTurn EXCEPT !.pick = pick, !.direct = direct]
<1>1. /\ pc = "idle" /\ Begin(n) /\ UNCHANGED <<registry, saved, state, facts, meta, shown>>
      /\ chosen' = chosen \cup (IF pick \in Authorized THEN Leads(pick) ELSE {})
  BY DEF Say
<1>2. /\ n \in Turns /\ n.refused = None /\ n.pick = pick
  BY DEF NoTurn, Turns
<1>3. /\ chosen' \subseteq Skills /\ chosen \subseteq chosen'
      /\ pick \in Authorized => Leads(pick) \subseteq chosen'
      /\ chosen' \cap MultiPath # {} => MultiPath \subseteq chosen'
  <2>1. CASE pick \in Authorized
    BY <1>1, <2>1, LeadsProperties DEF IInv, TypeOK, Chosen
  <2>2. CASE pick \notin Authorized
    BY <1>1, <2>2 DEF IInv, TypeOK, Chosen
  <2> QED BY <2>1, <2>2
<1>4. /\ saved' = state' /\ saved' = saved /\ saved \in States
      /\ saved.active \in Open \cup chosen' /\ (saved.gate => MultiPath \subseteq chosen')
      /\ \A k \in Asking : saved.q[k].form \cup saved.q[k].deferred \subseteq shown[k]
  BY <1>1, <1>3 DEF IInv, TypeOK, Chosen, Reaches, Waits
<1>5. /\ meta' \in Hints
      /\ meta'.req # None => Leads(meta'.req) \subseteq chosen'
  BY <1>1, <1>3 DEF IInv, TypeOK, Chosen
<1> HIDE DEF n
<1> QED BY <1>1, <1>2, <1>3, <1>4, <1>5, BeginStep

-----------------------------------------------------------------------------
(* Loading and publishing.                                                 *)

LEMMA DirectReplyStep == ASSUME IInv, DirectReply PROVE IInv'
<1> USE Constants
<1> DEFINE st == [saved EXCEPT !.active = Direct]
<1>1. /\ Save(st) /\ pc' = "idle" /\ turn' = NoTurn /\ kept' = Remembered(st)
      /\ UNCHANGED <<registry, facts, meta, messages, chosen, shown>>
  BY DEF DirectReply, End, Goto, Note, RegistryStays
<1>2. st \in States /\ st.active = Direct /\ st.gate = saved.gate /\ st.q = saved.q
  BY ActiveType DEF IInv, TypeOK, States, Places
<1> HIDE DEF st
<1> QED
  <2>1. TypeOK'
    BY <1>1, <1>2, RestTypes DEF IInv, TypeOK, Save, Remembered
  <2>2. Chosen'
    BY <1>1, <1>2 DEF IInv, Chosen, Reaches, Open, Save, NoTurn
  <2>3. Unfinished'
    BY <1>1 DEF Unfinished, Save, NoTurn
  <2>4. Waits'
    BY <1>1, <1>2 DEF IInv, Waits, Save
  <2> QED BY <2>1, <2>2, <2>3, <2>4 DEF IInv

LEMMA PublishStep == ASSUME IInv, Publish PROVE IInv'
<1> USE Constants
<1>1. /\ pc = "publish" /\ saved' = state /\ state' = state /\ pc' = "idle" /\ turn' = NoTurn
      /\ kept' = Remembered(state) /\ UNCHANGED <<registry, facts, meta, messages, chosen>>
  BY DEF Publish, End, Save, Goto, Note
<1>2. \A k \in Asking :
        shown'[k] = shown[k] \cup (IF k = state.active THEN turn.block ELSE {})
  BY DEF Publish
<1>3. shown' \in [Asking -> SUBSET Questions]
  <2>1. turn.block \subseteq Questions /\ shown \in [Asking -> SUBSET Questions]
    BY DEF IInv, TypeOK, Turns
  <2> QED BY <2>1 DEF Publish
<1>4. TypeOK'
  BY <1>1, <1>3, RestTypes DEF IInv, TypeOK, Remembered
<1>5. Chosen'
  BY <1>1 DEF IInv, Chosen, Reaches, NoTurn
<1>6. Unfinished'
  BY <1>1 DEF Unfinished, NoTurn
<1>7. Waits'
  <2>1. \A k \in Asking : saved'.q[k].form \cup saved'.q[k].deferred \subseteq shown'[k]
    BY <1>1, <1>2 DEF IInv, Waits
  <2>2. UNION {shown[k] : k \in Asking} \subseteq UNION {shown'[k] : k \in Asking}
    BY <1>2
  <2> QED BY <1>1, <2>1, <2>2 DEF IInv, Waits
<1> QED BY <1>4, <1>5, <1>6, <1>7 DEF IInv

LEMMA LoadStep == ASSUME IInv, Load PROVE IInv'
<1> USE Constants
<1>1. /\ pc = "load" /\ pc' = "route" /\ state = saved /\ turn.refused = None
      /\ UNCHANGED <<registry, saved, meta, kept, messages, chosen, shown>>
  BY DEF Load, Goto, RegistryStays, IInv, Unfinished
<1>2. /\ state' \in States /\ state'.active \in Skills
      /\ state'.active \in {General, saved.active} /\ state'.gate = saved.gate
      /\ state'.progress = saved.progress
      /\ \A k \in Asking : state'.q[k].form \cup state'.q[k].deferred \subseteq shown[k]
      /\ facts' \subseteq Questions /\ facts' \subseteq UNION {shown[k] : k \in Asking}
      /\ turn' \in {[turn EXCEPT !.submitted = b] : b \in BOOLEAN} \cup {turn}
  <2>1. CASE saved.active \notin registry
    <3>1. state' = [saved EXCEPT !.active = General] /\ UNCHANGED <<facts, turn>>
      BY <2>1 DEF Load
    <3> QED BY <3>1 DEF IInv, TypeOK, States, Waits
  <2>2. CASE saved.active \in registry \ Asking
    <3>1. UNCHANGED <<state, facts, turn>>
      BY <2>2 DEF Load
    <3> QED BY <1>1, <2>2, <3>1 DEF IInv, TypeOK, Waits
  <2>3. CASE saved.active \in registry \cap Asking
    <3> DEFINE a == saved.active
    <3>1. PICK A \in SUBSET saved.q[a].form :
            /\ state' = IF A = {} THEN saved ELSE [saved EXCEPT !.q[a] = Submit(@, A)]
            /\ facts' = facts \cup Promoted(A)
            /\ turn' = [turn EXCEPT !.submitted = A # {}]
      BY <2>3 DEF Load
    <3>2. /\ Submit(saved.q[a], A) \in Questionnaires
          /\ Submit(saved.q[a], A).form \subseteq saved.q[a].form
          /\ Submit(saved.q[a], A).deferred \subseteq saved.q[a].deferred \cup saved.q[a].form
          /\ Promoted(A) \subseteq saved.q[a].form
      BY <2>3, SubmitProperties DEF IInv, TypeOK, States
    <3>3. saved.q[a].form \cup saved.q[a].deferred \subseteq shown[a]
          /\ shown[a] \subseteq Questions
      BY <2>3 DEF IInv, Waits, TypeOK
    <3>4. facts' \subseteq Questions /\ facts' \subseteq UNION {shown[k] : k \in Asking}
      BY <2>3, <3>1, <3>2, <3>3 DEF IInv, Waits, TypeOK
    <3>5. CASE A = {}
      BY <1>1, <2>3, <3>1, <3>4, <3>5 DEF IInv, TypeOK, Waits
    <3>6. CASE A # {}
      <4>1. state' = [saved EXCEPT !.q[a] = Submit(saved.q[a], A)]
        BY <3>1, <3>6
      <4>2. /\ state' \in States /\ state'.active = a /\ state'.gate = saved.gate
            /\ state'.progress = saved.progress
            /\ \A k \in Asking : state'.q[k] = IF k = a THEN Submit(saved.q[a], A) ELSE saved.q[k]
        <5>1. a \in Asking /\ saved \in States
          BY <2>3 DEF IInv, TypeOK
        <5>2. state' \in States
          BY <3>2, <4>1, <5>1, QuestionnaireType
        <5> DEFINE r == Submit(saved.q[a], A)
        <5> HIDE DEF a, r
        <5>3. state' = [saved EXCEPT !.q[a] = r]
          BY <4>1 DEF r
        <5>4. /\ state'.active = saved.active /\ state'.gate = saved.gate
              /\ state'.progress = saved.progress
              /\ \A k \in Asking : state'.q[k] = IF k = a THEN r ELSE saved.q[k]
          BY <5>1, <5>3 DEF States
        <5> QED BY <5>2, <5>4 DEF a, r
      <4>3. \A k \in Asking : state'.q[k].form \cup state'.q[k].deferred \subseteq shown[k]
        BY <3>2, <3>3, <4>2 DEF IInv, Waits
      <4> QED BY <2>3, <3>1, <3>4, <4>2, <4>3 DEF IInv, TypeOK
    <3> QED BY <3>5, <3>6
  <2> QED BY <2>1, <2>2, <2>3 DEF Load
<1>3. /\ turn' \in Turns
      /\ turn'.pick = turn.pick /\ turn'.refused = None
  BY <1>1, <1>2 DEF IInv, TypeOK, Turns
<1>4. TypeOK'
  BY <1>1, <1>2, <1>3 DEF IInv, TypeOK
<1>5. Chosen'
  BY <1>1, <1>2, <1>3 DEF IInv, Chosen, Reaches, Open
<1>6. Unfinished'
  BY <1>1, <1>2, <1>3 DEF Unfinished
<1>7. Waits'
  BY <1>1, <1>2 DEF IInv, Waits
<1> QED BY <1>4, <1>5, <1>6, <1>7 DEF IInv

-----------------------------------------------------------------------------
(* Routing.                                                                *)

\* Going to a Skill that was reached, on to the reply or to the gate's question.
LEMMA ToStep ==
  ASSUME IInv, pc = "route", NEW st \in States, NEW hint \in {meta, NoHint},
         NEW entry \in BOOLEAN, To(st, hint, entry),
         st.active \in Skills, Reaches(st.active),
         st.progress = state.progress, st.q = state.q
  PROVE  IInv'
<1> USE Constants
<1>1. PICK st1 \in Split(st) :
        /\ state' = st1
        /\ turn' = [turn EXCEPT !.pick = None,
                                !.entry = entry /\ st1.active = st.active /\ st.active # General]
  BY DEF To, Note
<1>2. /\ meta' = hint /\ pc' \in {"publish", "reply"}
      /\ UNCHANGED <<registry, saved, facts, kept, messages, chosen, shown>>
  BY DEF To, Replying, Goto, RegistryStays
<1>3. /\ st1 \in States /\ st1.progress = st.progress /\ st1.q = st.q
      /\ st1.active = st.active \/ (st.active = Junior /\ st1.active = Senior)
      /\ st1.gate => st1.active = Junior
  BY SplitProperties
<1>4. turn' \in Turns /\ turn'.pick = None /\ turn'.refused = None /\ turn'.block = turn.block
  BY <1>1 DEF IInv, TypeOK, Unfinished, Turns
<1>5. st.active \in MultiPath => MultiPath \subseteq chosen
  BY ReachedMultiPath DEF IInv
<1>6. /\ st1.active \in Skills /\ Reaches(st1.active)
      /\ st1.gate => MultiPath \subseteq chosen
  <2>1. Junior \in MultiPath /\ Senior \in MultiPath
    BY DEF MultiPath
  <2>2. st1.active \in Skills /\ Reaches(st1.active)
    BY <1>3, <1>5, <2>1 DEF Reaches
  <2>3. st1.gate => MultiPath \subseteq chosen
    <3>1. SUFFICES ASSUME st1.gate PROVE MultiPath \subseteq chosen
      OBVIOUS
    <3>2. st1.active \in MultiPath
      BY <1>3, <2>1, <3>1
    <3> QED BY <2>2, <3>2, ReachedMultiPath DEF IInv
  <2> QED BY <2>2, <2>3
<1>7. meta' \in Hints /\ (meta'.req # None => Leads(meta'.req) \subseteq chosen)
  BY <1>2, RestTypes DEF IInv, TypeOK, Chosen
<1>8. TypeOK'
  BY <1>1, <1>2, <1>3, <1>4, <1>7 DEF IInv, TypeOK
<1>9. Chosen'
  BY <1>1, <1>2, <1>4, <1>6, <1>7 DEF IInv, Chosen, Reaches
<1>10. Unfinished'
  BY <1>1, <1>2, <1>3, <1>4, <1>6 DEF IInv, Unfinished
<1>11. Waits'
  BY <1>1, <1>2, <1>3 DEF IInv, Waits
<1> QED BY <1>8, <1>9, <1>10, <1>11 DEF IInv

LEMMA RoutePickStep == ASSUME IInv, RoutePick PROVE IInv'
<1> USE Constants
<1> DEFINE st == [state EXCEPT !.active = turn.pick]
           entry == turn.pick # state.active /\ turn.pick # Career
<1>1. pc = "route" /\ turn.pick \in Authorized \cap registry /\ To(st, meta, entry)
  BY DEF RoutePick, Picked
<1>2. turn.pick \in Skills /\ Reaches(turn.pick)
  BY <1>1, LeadsProperties DEF IInv, Chosen, Reaches
<1>3. /\ st \in States /\ st.active = turn.pick
      /\ st.progress = state.progress /\ st.q = state.q
  BY <1>2, ActiveType DEF IInv, TypeOK, States, Places
<1>4. entry \in BOOLEAN
  OBVIOUS
<1> HIDE DEF st, entry
<1> QED BY <1>1, <1>2, <1>3, <1>4, ToStep

LEMMA RouteRequestedStep == ASSUME IInv, RouteRequested PROVE IInv'
<1> USE Constants
<1> DEFINE r == meta.req
<1>1. pc = "route" /\ r # None
  BY DEF RouteRequested, Routing
<1>2. r \in Skills /\ Reaches(r) /\ state \in States /\ state.active \in Skills /\ Reaches(state.active)
  <2>1. r \in Skills /\ Leads(r) \subseteq chosen
    BY <1>1 DEF IInv, TypeOK, Hints, Chosen
  <2> QED BY <1>1, <2>1, LeadsProperties DEF IInv, TypeOK, Chosen, Unfinished, Reaches
<1>3. \/ To(state, NoHint, FALSE)
      \/ \E from \in {meta.from, state.active} : To(Entered(state, r, from), NoHint, TRUE)
  BY DEF RouteRequested
<1>4. CASE To(state, NoHint, FALSE)
  BY <1>1, <1>2, <1>4, ToStep
<1>5. ASSUME NEW from \in {meta.from, state.active}, To(Entered(state, r, from), NoHint, TRUE)
      PROVE  IInv'
  <2> HIDE DEF r
  <2>1. /\ Entered(state, r, from) \in States /\ Entered(state, r, from).active = r
        /\ Entered(state, r, from).progress = state.progress
        /\ Entered(state, r, from).q = state.q
    BY <1>2, EnteredType
  <2> QED BY <1>1, <1>2, <1>5, <2>1, ToStep
<1> QED BY <1>3, <1>4, <1>5

LEMMA RouteGatedStep == ASSUME IInv, RouteGated PROVE IInv'
<1> USE Constants
<1> DEFINE st == [state EXCEPT !.active = Senior]
<1>1. pc = "route" /\ state.gate /\ To(st, NoHint, FALSE)
  BY DEF RouteGated, Unrequested, Routing
<1>2. Reaches(Senior)
  BY <1>1 DEF IInv, Chosen, Reaches, MultiPath
<1>3. st \in States /\ st.active = Senior /\ st.progress = state.progress /\ st.q = state.q
  BY ActiveType DEF IInv, TypeOK, States, Places
<1> HIDE DEF st
<1> QED BY <1>1, <1>2, <1>3, ToStep

LEMMA RouteTextStep == ASSUME IInv, RouteText PROVE IInv'
<1> USE Constants
<1>1. PICK s \in {state.active, General} : To([state EXCEPT !.active = s], NoHint, FALSE)
  BY DEF RouteText
<1> DEFINE st == [state EXCEPT !.active = s]
<1>2. pc = "route" /\ state.active \in Skills
  BY DEF RouteText, Unrequested, Routing, IInv, Unfinished
<1>3. s \in Skills /\ Reaches(s)
  BY <1>2 DEF IInv, Chosen, Reaches, Open
<1>4. st \in States /\ st.active = s /\ st.progress = state.progress /\ st.q = state.q
  BY <1>3, ActiveType DEF IInv, TypeOK, States, Places
<1>5. To(st, NoHint, FALSE)
  BY <1>1
<1> HIDE DEF st
<1> QED BY <1>2, <1>3, <1>4, <1>5, ToStep

\* A routing step that asks the school stage of nobody.
LEMMA StayStep ==
  ASSUME IInv, pc = "route", NEW st \in States, state' = st, pc' \in {"publish", "reply"},
         NEW hint \in {meta, NoHint}, meta' = hint,
         turn' \in {turn, [turn EXCEPT !.pick = None]},
         UNCHANGED <<registry, saved, facts, kept, messages, chosen, shown>>,
         st.active \in Skills, Reaches(st.active), st.gate = state.gate,
         st.progress = state.progress, st.q = state.q
  PROVE  IInv'
<1> USE Constants
<1>1. /\ turn' \in Turns /\ turn'.refused = None
      /\ turn'.pick \in Authorized => Leads(turn'.pick) \subseteq chosen
  BY DEF IInv, TypeOK, Unfinished, Turns, Chosen
<1>2. meta' \in Hints /\ (meta'.req # None => Leads(meta'.req) \subseteq chosen)
  BY RestTypes DEF IInv, TypeOK, Chosen
<1>3. TypeOK'
  BY <1>1, <1>2 DEF IInv, TypeOK
<1>4. Chosen'
  BY <1>1, <1>2 DEF IInv, Chosen, Reaches
<1>5. Unfinished'
  BY <1>1 DEF IInv, Unfinished
<1>6. Waits'
  BY DEF IInv, Waits
<1> QED BY <1>3, <1>4, <1>5, <1>6 DEF IInv

LEMMA RouteDisabledStep == ASSUME IInv, RouteDisabled PROVE IInv'
<1> USE Constants
<1> DEFINE s == IF state.active \in registry \ {Career} THEN state.active ELSE General
           st == [state EXCEPT !.active = s]
<1>1. /\ pc = "route" /\ state' = st /\ pc' \in {"publish", "reply"}
      /\ UNCHANGED <<registry, saved, facts, meta, turn, kept, messages, chosen, shown>>
  BY DEF RouteDisabled, Replying, Goto, RegistryStays
<1>2. s \in Skills /\ Reaches(s)
  BY DEF IInv, TypeOK, Chosen, Reaches, Open
<1> HIDE DEF s
<1>3. /\ st \in States /\ st.active = s /\ st.gate = state.gate
      /\ st.progress = state.progress /\ st.q = state.q
  BY <1>2, ActiveType DEF IInv, TypeOK, States, Places
<1> HIDE DEF st
<1> QED BY <1>1, <1>2, <1>3, StayStep

LEMMA RouteGeneralStep == ASSUME IInv, RouteGeneral PROVE IInv'
<1> USE Constants
<1>1. /\ pc = "route" /\ state.active = General /\ pc' \in {"publish", "reply"}
      /\ meta' = NoHint /\ turn' = [turn EXCEPT !.pick = None]
      /\ UNCHANGED <<registry, saved, state, facts, kept, messages, chosen, shown>>
  BY DEF RouteGeneral, Unrequested, Routing, Replying, Goto, Note, RegistryStays
<1> QED BY <1>1, StayStep DEF IInv, TypeOK, Reaches, Open

-----------------------------------------------------------------------------
(* Replying.                                                               *)

\* A reply with the block b; a refused one commits nothing.
LEMMA FinishStep ==
  ASSUME IInv, pc \in {"reply", "runtime", "draft"},
         NEW st \in States, NEW b \in SUBSET Questions, NEW refused \in Skills \cup {None},
         Finish(st, b, refused),
         st.active = state.active, st.gate = state.gate,
         refused # None => st.progress = state.progress /\ st.outcome = refused,
         \A k \in Asking : /\ st.q[k].deferred \subseteq shown[k]
                           /\ st.q[k].form \subseteq shown[k] \cup (IF k = st.active THEN b ELSE {}),
         facts' \subseteq Questions, facts' \subseteq UNION {shown[k] : k \in Asking}
  PROVE  IInv'
<1> USE Constants
<1>1. /\ state' = st /\ pc' = "publish"
      /\ turn' = [turn EXCEPT !.block = b, !.refused = refused]
      /\ UNCHANGED <<registry, saved, meta, kept, messages, chosen, shown>>
  BY DEF Finish, Goto, Note, RegistryStays
<1>2. turn' \in Turns /\ turn'.refused = refused /\ turn'.block = b /\ turn'.pick = turn.pick
  BY <1>1 DEF IInv, TypeOK, Turns
<1>3. TypeOK'
  BY <1>1, <1>2 DEF IInv, TypeOK
<1>4. Chosen'
  BY <1>1, <1>2 DEF IInv, Chosen, Reaches
<1>5. Unfinished'
  BY <1>1, <1>2 DEF IInv, Unfinished
<1>6. Waits'
  BY <1>1, <1>2 DEF IInv, Waits
<1> QED BY <1>3, <1>4, <1>5, <1>6 DEF IInv

\* A reply that keeps the questionnaires as they are.
LEMMA SpokenStep ==
  ASSUME IInv, pc \in {"reply", "runtime", "draft"},
         NEW st \in States, NEW refused \in Skills \cup {None}, Finish(st, {}, refused),
         st.active = state.active, st.gate = state.gate, st.q = state.q, UNCHANGED facts,
         refused # None => st.progress = state.progress /\ st.outcome = refused
  PROVE  IInv'
<1>1. \A k \in Asking : st.q[k].form \subseteq shown[k] /\ st.q[k].deferred \subseteq shown[k]
  BY DEF IInv, Waits
<1>2. facts' \subseteq Questions /\ facts' \subseteq UNION {shown[k] : k \in Asking}
  BY DEF IInv, TypeOK, Waits
<1> QED BY <1>1, <1>2, FinishStep

LEMMA CannedStep ==
  ASSUME IInv, pc \in {"reply", "runtime", "draft"}, Canned
  PROVE  IInv'
BY SpokenStep DEF Canned, IInv, TypeOK

\* A Skill that asks speaks for itself: the planner does not ask.
LEMMA AskingSpeaks ==
  ASSUME Speaker \in Asking
  PROVE  Speaker = state.active
BY Constants DEF Speaker

LEMMA LightweightStep == ASSUME IInv, Lightweight PROVE IInv'
<1> USE Constants
<1> DEFINE k0 == Speaker
<1>1. /\ pc = "reply" /\ k0 \in Asking /\ k0 = state.active /\ UNCHANGED facts
      /\ state \in States /\ state.q[k0] \in Questionnaires
  BY AskingSpeaks DEF Lightweight, Asks, IInv, TypeOK, States
<1>2. PICK o \in Continue(state.q[k0]) :
        Finish([state EXCEPT !.q[k0] = o.q], o.block, None)
  BY DEF Lightweight
<1>3. /\ o.q \in Questionnaires /\ o.block \in SUBSET Questions
      /\ o.q.form \subseteq state.q[k0].form \cup o.block
      /\ o.q.deferred \subseteq state.q[k0].deferred
  BY <1>1, ContinueProperties
<1> DEFINE st == [state EXCEPT !.q[k0] = o.q]
<1> HIDE DEF k0
<1>4. /\ st \in States /\ st.active = state.active /\ st.gate = state.gate
      /\ \A k \in Asking : st.q[k] = IF k = k0 THEN o.q ELSE state.q[k]
  <2>1. st \in States
    BY <1>1, <1>3, QuestionnaireType
  <2> DEFINE r == o.q
  <2> HIDE DEF r
  <2>2. /\ [state EXCEPT !.q[k0] = r].active = state.active
        /\ [state EXCEPT !.q[k0] = r].gate = state.gate
        /\ \A k \in Asking : [state EXCEPT !.q[k0] = r].q[k] = IF k = k0 THEN r ELSE state.q[k]
    BY <1>1 DEF States
  <2> QED BY <2>1, <2>2 DEF r
<1>5. Finish(st, o.block, None)
  BY <1>2
<1> HIDE DEF st
<1>6. \A k \in Asking : /\ state.q[k].form \subseteq shown[k]
                        /\ state.q[k].deferred \subseteq shown[k]
  BY <1>1 DEF IInv, Waits
<1>7. \A k \in Asking :
        /\ st.q[k].deferred \subseteq shown[k]
        /\ st.q[k].form \subseteq shown[k] \cup (IF k = st.active THEN o.block ELSE {})
  BY <1>1, <1>3, <1>4, <1>6
<1>8. facts' \subseteq Questions /\ facts' \subseteq UNION {shown[k] : k \in Asking}
  BY <1>1 DEF IInv, TypeOK, Waits
<1> QED BY <1>1, <1>3, <1>4, <1>5, <1>7, <1>8, FinishStep

\* From the reply to a model call, with or without staged progress.
LEMMA CallStep ==
  ASSUME IInv, pc \in {"reply", "runtime", "draft"}, pc' \in {"runtime", "draft"},
         NEW patch \in SUBSET Native, state' = [state EXCEPT !.patch = patch],
         UNCHANGED <<registry, saved, facts, meta, turn, kept, messages, chosen, shown>>
  PROVE  IInv'
<1>1. /\ state' \in States /\ state'.active = state.active /\ state'.gate = state.gate
      /\ state'.progress = state.progress /\ state'.q = state.q
  BY DEF IInv, TypeOK, States
<1>2. TypeOK'
  BY <1>1 DEF IInv, TypeOK
<1>3. Chosen'
  BY <1>1 DEF IInv, Chosen, Reaches
<1>4. Unfinished'
  BY <1>1 DEF IInv, Unfinished
<1>5. Waits'
  BY <1>1 DEF IInv, Waits
<1> QED BY <1>2, <1>3, <1>4, <1>5 DEF IInv

LEMMA ComposeStep == ASSUME IInv, Compose PROVE IInv'
<1>1. state \in States /\ state.patch \in SUBSET Native
  BY DEF IInv, TypeOK, States
<1>2. state' = [state EXCEPT !.patch = state.patch]
  BY <1>1 DEF Compose, States
<1> QED BY <1>1, <1>2, CallStep DEF Compose, Goto, RegistryStays

LEMMA PlanStep == ASSUME IInv, Plan PROVE IInv'
<1>1. PICK staged \in SUBSET ({Speaker} \cap Native) :
        state' = [state EXCEPT !.patch = @ \cup staged]
  BY DEF Plan
<1>2. state.patch \cup staged \in SUBSET Native
  BY DEF IInv, TypeOK, States
<1>3. state' = [state EXCEPT !.patch = state.patch \cup staged]
  BY <1>1
<1>4. /\ pc = "runtime" /\ pc' = "draft"
      /\ UNCHANGED <<registry, saved, facts, meta, turn, kept, messages, chosen, shown>>
  BY DEF Plan, Goto, RegistryStays
<1> QED BY <1>2, <1>3, <1>4, CallStep

\* What is finalized after a verdict, or without one.
LEMMA VerdictProperties ==
  ASSUME IInv, NEW accepted \in BOOLEAN, NEW st,
         st = Finalized(Guarded(accepted), accepted)
           \/ (accepted /\ st = Finalized(state, TRUE))
  PROVE  /\ st \in States /\ st.active = state.active /\ st.gate = state.gate /\ st.q = state.q
         /\ ~accepted => st.progress = state.progress /\ st.outcome = Speaker
<1>1. /\ Guarded(accepted) \in States
      /\ Guarded(accepted).active = state.active /\ Guarded(accepted).gate = state.gate
      /\ Guarded(accepted).q = state.q /\ Guarded(accepted).progress = state.progress
      /\ ~accepted => Guarded(accepted).outcome = Speaker
  BY GuardedProperties DEF IInv
<1>2. CASE st = Finalized(Guarded(accepted), accepted)
  BY <1>1, <1>2, FinalizedProperties
<1>3. CASE accepted /\ st = Finalized(state, TRUE)
  BY <1>3, FinalizedProperties DEF IInv, TypeOK
<1> QED BY <1>2, <1>3

LEMMA FinalTextStep == ASSUME IInv, FinalText PROVE IInv'
<1>1. PICK accepted \in BOOLEAN :
        \/ Finish(Finalized(Guarded(accepted), accepted), {}, Refusal(accepted))
        \/ accepted /\ Finish(Finalized(state, TRUE), {}, None)
  BY DEF FinalText, Risks, Verdicts
<1>2. pc = "draft" /\ UNCHANGED facts
  BY DEF FinalText
<1>3. Refusal(accepted) \in Skills \cup {None} /\ (Refusal(accepted) # None => ~accepted)
      /\ (Refusal(accepted) # None => Refusal(accepted) = Speaker)
  BY SpeakerType DEF IInv, Refusal
<1>4. CASE Finish(Finalized(Guarded(accepted), accepted), {}, Refusal(accepted))
  BY <1>2, <1>3, <1>4, VerdictProperties, SpokenStep
<1>5. CASE accepted /\ Finish(Finalized(state, TRUE), {}, None)
  BY <1>2, <1>5, VerdictProperties, SpokenStep
<1> QED BY <1>1, <1>4, <1>5

LEMMA AnswerStep == ASSUME IInv, Answer PROVE IInv'
<1> USE Constants
<1> DEFINE k0 == Speaker
           r == state.q[k0]
<1>1. /\ pc = "draft" /\ k0 \in Asking /\ k0 = state.active
      /\ state \in States /\ r \in Questionnaires
      /\ facts' \in {facts, facts \cup r.deferred}
  BY AskingSpeaks DEF Answer, IInv, TypeOK, States
<1>2. \A k \in Asking : /\ state.q[k].form \subseteq shown[k]
                        /\ state.q[k].deferred \subseteq shown[k]
  BY <1>1 DEF IInv, Waits
<1>3. facts' \subseteq Questions /\ facts' \subseteq UNION {shown[k] : k \in Asking}
  <2>1. r.deferred \subseteq Questions /\ r.deferred \subseteq shown[k0]
    BY <1>1, <1>2, FlushProperties
  <2>2. facts \subseteq Questions /\ facts \subseteq UNION {shown[k] : k \in Asking}
    BY DEF IInv, TypeOK, Waits
  <2> HIDE DEF r
  <2> QED BY <1>1, <2>1, <2>2
<1>4. \/ \E b \in Replies(r) :
           Finish([Finalized(state, TRUE) EXCEPT !.q[k0] = Stage(r, b)], b, None)
      \/ \E accepted \in BOOLEAN :
           \/ Finish([Finalized(Guarded(accepted), accepted) EXCEPT !.q[k0] = Flush(r)],
                     {}, Refusal(accepted))
           \/ accepted /\ Finish([Finalized(state, TRUE) EXCEPT !.q[k0] = Flush(r)], {}, None)
  BY DEF Answer, Risks, Verdicts
\* A record of the questionnaire put into what was finalized.
<1>5. ASSUME NEW st1 \in States, st1.active = state.active, st1.gate = state.gate,
             st1.q = state.q, NEW r1 \in Questionnaires, NEW b \in SUBSET Questions,
             NEW refused \in Skills \cup {None}, Finish([st1 EXCEPT !.q[k0] = r1], b, refused),
             refused # None => st1.progress = state.progress /\ st1.outcome = refused,
             r1.deferred \subseteq r.deferred, r1.form \subseteq r.form \cup b
      PROVE  IInv'
  <2> HIDE DEF k0
  <2> DEFINE st == [st1 EXCEPT !.q[k0] = r1]
  <2>1. /\ st \in States /\ st.active = state.active /\ st.gate = state.gate
        /\ st.progress = st1.progress /\ st.outcome = st1.outcome
        /\ \A k \in Asking : st.q[k] = IF k = k0 THEN r1 ELSE state.q[k]
    <3>1. st \in States
      BY <1>1, <1>5, QuestionnaireType
    <3>2. /\ st.active = st1.active /\ st.gate = st1.gate
          /\ st.progress = st1.progress /\ st.outcome = st1.outcome
          /\ \A k \in Asking : st.q[k] = IF k = k0 THEN r1 ELSE st1.q[k]
      BY <1>1 DEF States
    <3> HIDE DEF st
    <3> QED BY <1>5, <3>1, <3>2
  <2>2. Finish(st, b, refused)
    BY <1>5
  <2> HIDE DEF st
  <2>3. \A k \in Asking :
          /\ st.q[k].deferred \subseteq shown[k]
          /\ st.q[k].form \subseteq shown[k] \cup (IF k = st.active THEN b ELSE {})
    BY <1>1, <1>2, <1>5, <2>1
  <2>4. refused # None => st.progress = state.progress /\ st.outcome = refused
    BY <1>5, <2>1
  <2> QED BY <1>1, <1>3, <2>1, <2>2, <2>3, <2>4, FinishStep
<1>6. Flush(r) \in Questionnaires /\ Flush(r).form = r.form /\ Flush(r).deferred = {}
  BY <1>1, FlushProperties
<1>7. ASSUME NEW b \in Replies(r),
             Finish([Finalized(state, TRUE) EXCEPT !.q[k0] = Stage(r, b)], b, None)
      PROVE  IInv'
  <2>1. b \in SUBSET Questions
    BY RepliesProperties
  <2>2. /\ Stage(r, b) \in Questionnaires /\ Stage(r, b).deferred = r.deferred
        /\ Stage(r, b).form \subseteq r.form \cup b
    BY <1>1, <2>1, StageProperties
  <2>3. /\ Finalized(state, TRUE) \in States /\ Finalized(state, TRUE).q = state.q
        /\ Finalized(state, TRUE).active = state.active
        /\ Finalized(state, TRUE).gate = state.gate
    BY <1>1, FinalizedProperties
  <2> HIDE DEF r, k0
  <2> QED BY <1>5, <1>7, <2>1, <2>2, <2>3
<1>8. ASSUME NEW accepted \in BOOLEAN, NEW st1, NEW refused \in {None, Refusal(accepted)},
             \/ st1 = Finalized(Guarded(accepted), accepted)
             \/ accepted /\ st1 = Finalized(state, TRUE),
             Finish([st1 EXCEPT !.q[k0] = Flush(r)], {}, refused)
      PROVE  IInv'
  <2>1. /\ st1 \in States /\ st1.active = state.active /\ st1.gate = state.gate
        /\ st1.q = state.q /\ (~accepted => st1.progress = state.progress /\ st1.outcome = Speaker)
    BY <1>8, VerdictProperties
  <2>2. refused \in Skills \cup {None} /\ (refused # None => ~accepted /\ refused = Speaker)
    BY <1>8, SpeakerType DEF IInv, Refusal
  <2>3. /\ Flush(r).form \subseteq r.form \cup {} /\ Flush(r).deferred \subseteq r.deferred
        /\ {} \in SUBSET Questions
    BY <1>6
  <2> HIDE DEF r, k0
  <2> QED BY <1>5, <1>6, <1>8, <2>1, <2>2, <2>3
<1>9. CASE \E b \in Replies(r) :
             Finish([Finalized(state, TRUE) EXCEPT !.q[k0] = Stage(r, b)], b, None)
  BY <1>7, <1>9
<1> HIDE DEF r, k0
<1> QED BY <1>4, <1>8, <1>9

-----------------------------------------------------------------------------
(* The session.                                                            *)

LEMMA NextIInv == ASSUME IInv, [Next]_vars PROVE IInv'
<1>1. CASE Redeploy \/ Exit \/ Block \/ DirectReply \/ Load \/ Fail \/ Publish
  BY <1>1, RedeployStep, ExitStep, BlockStep, DirectReplyStep, LoadStep, FailStep, PublishStep
<1>2. ASSUME NEW s \in Skills, Enter(s, TRUE) \/ Enter(s, FALSE) \/ Request(s) \/ Say(s, FALSE)
      PROVE  IInv'
  BY <1>2, EnterStep, RequestStep, SayStep
<1>3. CASE Say(None, FALSE) \/ Say(None, TRUE)
  BY <1>3, SayStep
<1>4. ASSUME NEW s \in {General, Career, None}, ChangeExpert(s)
      PROVE  IInv'
  BY <1>4, ChangeExpertStep
<1>5. CASE RoutePick \/ RouteDisabled \/ RouteRequested \/ RouteGated \/ RouteGeneral \/ RouteText
  BY <1>5, RoutePickStep, RouteDisabledStep, RouteRequestedStep, RouteGatedStep,
     RouteGeneralStep, RouteTextStep
<1>6. CASE Lightweight \/ Compose \/ Plan \/ Answer \/ FinalText
  BY <1>6, LightweightStep, ComposeStep, PlanStep, AnswerStep, FinalTextStep
<1>7. CASE Fallback \/ EntryReply \/ Apologise \/ Unchecked
  BY <1>7, CannedStep DEF Fallback, EntryReply, Apologise, Unchecked
<1>8. CASE UNCHANGED vars
  BY <1>8 DEF vars, IInv, TypeOK, Chosen, Reaches, Unfinished, Waits
<1> QED BY <1>1, <1>2, <1>3, <1>4, <1>5, <1>6, <1>7, <1>8 DEF Next

LEMMA Invariance == Spec => []IInv
<1>1. Init => IInv
  BY InitIInv
<1>2. IInv /\ [Next]_vars => IInv'
  BY NextIInv
<1> QED BY <1>1, <1>2, PTL DEF Spec

\* The variables keep their types: at every stage of a turn there is a working copy of
\* the right shape, and between turns none of its own (main_planner.py,
\* _load_runtime_state, _persist_runtime_state).
THEOREM TypeTheorem == Spec => []TypeOK
<1>1. IInv => TypeOK
  BY DEF IInv
<1> QED BY <1>1, Invariance, PTL

\* A session is only in a specialist Skill that was chosen since the last exit: neither
\* text nor a left-over hint, a failed turn, the gate or a configuration moves it
\* elsewhere (main_planner.py, _route_with_main_planner).
THEOREM ChosenTheorem == Spec => []ChosenSkill
<1>1. IInv => ChosenSkill
  BY DEF IInv, Chosen, Reaches, Open, ChosenSkill
<1> QED BY <1>1, Invariance, PTL

\* What a session waits for, promised to write or wrote to the facts was a field of a
\* form that was shown (native_questionnaire.py, flush_deferred_questionnaire_promotions).
THEOREM ShownTheorem == Spec => []FormsAreShown
<1>1. IInv => FormsAreShown
  BY DEF IInv, Waits, FormsAreShown
<1> QED BY <1>1, Invariance, PTL

LEMMA RefusedStep == ASSUME IInv, [Next]_vars PROVE RefusedLeavesNoTrace
<1> USE Constants
<1> SUFFICES ASSUME pc = "publish", pc' = "idle", turn.refused = state.active
             PROVE  ~kept' /\ saved'.progress = saved.progress
  BY DEF RefusedLeavesNoTrace
<1>1. Publish
  BY DEF Next, vars, Redeploy, Exit, Enter, Request, Say, ChangeExpert, Block, DirectReply,
     Load, Fail, RoutePick, RouteDisabled, RouteRequested, RouteGated, RouteGeneral, RouteText,
     Routing, Unrequested, Fallback, Lightweight, EntryReply, Compose, Apologise, Plan, Answer,
     Unchecked, FinalText
<1>2. turn.refused # None
  BY DEF IInv, Unfinished
<1>3. state.progress = saved.progress /\ state.outcome = state.active
  BY <1>2 DEF IInv, Unfinished
<1> QED BY <1>1, <1>3 DEF Publish, End, Save, Remembered

\* A reply of the active Skill that the guard refused stays out of the memory and commits
\* no progress, of this turn or of an earlier one (main_planner.py,
\* _finalize_skill_progress_transaction, _append_turn_memory).
THEOREM RefusedTheorem == Spec => RefusalsLeaveNoTrace
<1>1. IInv /\ [Next]_vars => [RefusedLeavesNoTrace]_vars
  BY RefusedStep
<1> QED BY <1>1, Invariance, PTL DEF Spec, RefusalsLeaveNoTrace

-----------------------------------------------------------------------------
(* The cards under a reply.                                                *)

\* An invitation is for the general chat and for Skills the note still offers, or that were
\* deleted; what a specialist has under its reply is the one Skill that matches very well.
Inviting ==
  cInvited # {} =>
    /\ cActive = General /\ cPc \in {"idle", "reply"}
    /\ cPc = "reply" => /\ cInvited \subseteq RC!Deterministic \cup cGone
                        /\ cInvited \subseteq cReply.names /\ cReply.clicks
    /\ cPc = "idle" /\ ~cTeam => cInvited \subseteq cCards \cup cGone

CardsInv ==
  /\ cPc \in {"idle", "route", "answer", "reply"}
  /\ cRegistry \subseteq Skills \ {General} /\ cKnown \subseteq Skills \ {General}
  /\ cRoute.level \in 0 .. 2
  /\ cCards # {} => cPc = "idle"
  /\ Inviting
  /\ RC!SpecialistUndisturbed

LEMMA CardsStart == ASSUME RC!Init PROVE CardsInv
BY DEF RC!Init, RC!NoRoute, RC!NoReply, CardsInv, Inviting, RC!SpecialistUndisturbed

\* What may be published, entered or left without cards.
LEMMA CardsBetween ==
  ASSUME RC!CardsAssumption, CardsInv,
         \/ \E s \in Skills \ {General, Career} : RC!Publish(s)
         \/ \E s \in Skills \ {General}, how \in {"facts", "messages", "plain"} : RC!Enter(s, how)
         \/ RC!Say \/ RC!Exit \/ RC!ChangeTeam \/ RC!Drop
  PROVE  CardsInv'
<1> USE DEF CardsInv, Inviting, RC!SpecialistUndisturbed
<1>1. ASSUME NEW s \in Skills \ {General, Career}, RC!Publish(s) PROVE CardsInv'
  <2>1. RC!Deterministic \subseteq RC!Deterministic' \cup (cRegistry \cap {s})
    BY <1>1 DEF RC!Publish, RC!Deterministic, RC!Threshold
  <2> QED BY <1>1, <2>1 DEF RC!Publish
<1>2. ASSUME NEW s \in Skills \ {General}, NEW how \in {"facts", "messages", "plain"},
             RC!Enter(s, how)
      PROVE  CardsInv'
  <2>1. cRoute'.level \in 0 .. 2
    BY <1>2 DEF RC!Enter, RC!NoRoute
  <2> QED BY <1>2, <2>1 DEF RC!Enter, RC!Begin
<1>3. CASE RC!Say
  BY <1>3 DEF RC!Say, RC!Begin
<1>4. CASE RC!Exit
  BY <1>4 DEF RC!Exit, RC!NoRoute
<1>5. CASE RC!ChangeTeam
  BY <1>5 DEF RC!ChangeTeam
<1>6. CASE RC!Drop
  BY <1>6 DEF RC!Drop
<1> QED BY <1>1, <1>2, <1>3, <1>4, <1>5, <1>6

\* The router writes a note, no card.
LEMMA NotedLevel ==
  ASSUME NEW score \in RC!Scores, NEW not, NEW n \in RC!Matched(score, not), CardsInv
  PROVE  n.level \in 0 .. 2
BY DEF RC!Scores, RC!Matched, RC!Best, RC!Note, RC!Levels

LEMMA CardsRouted ==
  ASSUME RC!CardsAssumption, CardsInv,
         \/ \E score \in RC!Scores :
              \/ RC!RouteGeneral(score)
              \/ \E planning \in BOOLEAN : RC!RouteCareer(score, planning)
              \/ RC!RouteSpecialist(score)
         \/ RC!RouteGated
         \/ \E s \in Skills \ {General} : RC!RouteExpert(s)
  PROVE  CardsInv'
<1>1. RC!TurnStays /\ cPc = "route" /\ cPc' = "answer"
  BY DEF RC!RouteGeneral, RC!RouteCareer, RC!RouteSpecialist, RC!RouteGated, RC!RouteExpert
<1>2. cRoute'.level \in 0 .. 2
  <2>1. cRoute.level \in 0 .. 2 /\ RC!NoRoute.level \in 0 .. 2
    BY DEF CardsInv, RC!NoRoute
  <2>2. ASSUME NEW score \in RC!Scores, RC!RouteGeneral(score) PROVE cRoute'.level \in 0 .. 2
    BY <2>1, <2>2, NotedLevel DEF RC!RouteGeneral, RC!Kept
  <2>3. ASSUME NEW score \in RC!Scores, NEW planning \in BOOLEAN, RC!RouteCareer(score, planning)
        PROVE  cRoute'.level \in 0 .. 2
    BY <2>1, <2>3, NotedLevel DEF RC!RouteCareer, RC!Kept
  <2>4. ASSUME NEW score \in RC!Scores, RC!RouteSpecialist(score) PROVE cRoute'.level \in 0 .. 2
    BY <2>1, <2>4, NotedLevel DEF RC!RouteSpecialist, RC!Kept
  <2>5. CASE RC!RouteGated \/ \E s \in Skills \ {General} : RC!RouteExpert(s)
    BY <2>1, <2>5 DEF RC!RouteGated, RC!RouteExpert
  <2> QED BY <2>2, <2>3, <2>4, <2>5
<1> QED BY <1>1, <1>2 DEF RC!TurnStays, CardsInv, Inviting, RC!SpecialistUndisturbed

\* The reply invites, the cards follow.
LEMMA CardsAnswered ==
  ASSUME CardsInv, NEW names \in SUBSET (Skills \ {General}), NEW clicks \in BOOLEAN,
         RC!Answer(names, clicks)
  PROVE  CardsInv'
<1>1. RC!Deterministic' = RC!Deterministic
  BY DEF RC!Answer, RC!Deterministic, RC!Threshold
<1>2. /\ cInvited' \in {RC!Deterministic, {}}
      /\ cInvited' # {} => cActive = General
      /\ cInvited' \subseteq cReply'.names
      /\ cInvited' # {} => cReply'.clicks
      /\ cPc = "answer" /\ cPc' = "reply"
      /\ UNCHANGED <<cRegistry, cKnown, cActive, cTeam, cRoute, cEntry, cCards>>
  BY DEF RC!Answer
<1> QED BY <1>1, <1>2 DEF CardsInv, Inviting, RC!SpecialistUndisturbed

LEMMA CardsFinal ==
  ASSUME RC!CardsAssumption, CardsInv, NEW found, NEW stage, RC!Finalize(found, stage)
  PROVE  CardsInv'
<1>1. /\ cPc = "reply" /\ cPc' = "idle"
      /\ cCards' = IF RC!NoCards THEN {} ELSE RC!Offer(found)
      /\ UNCHANGED <<cRegistry, cKnown, cActive, cTeam, cRoute, cEntry, cInvited, cGone>>
  BY DEF RC!Finalize
<1>2. Inviting'
  <2> SUFFICES ASSUME cInvited # {}, ~cTeam PROVE cInvited \subseteq cCards' \cup cGone
    BY <1>1 DEF CardsInv, Inviting
  <2>1. /\ cActive = General /\ cInvited \subseteq RC!Deterministic \cup cGone
        /\ cInvited \subseteq cReply.names /\ cReply.clicks
    BY <1>1 DEF CardsInv, Inviting
  <2>2. ~RC!NoCards
    BY <2>1 DEF RC!NoCards, RC!CardsAssumption
  <2>3. RC!Explicit = RC!Deterministic \cap cReply.names
    BY <2>1 DEF RC!Explicit
  <2>4. cRegistry = {} => RC!Deterministic = {}
    BY DEF RC!Deterministic
  <2> QED BY <1>1, <2>1, <2>2, <2>3, <2>4 DEF RC!Offer
<1>3. RC!SpecialistUndisturbed'
  <2> SUFFICES ASSUME cActive \in Skills \ {General, Career}, cCards' # {}
               PROVE  ~cEntry /\ cRoute.level = 2 /\ cCards' = {cRoute.target}
    BY <1>1 DEF RC!SpecialistUndisturbed
  <2>1. ~cEntry /\ cCards' \in {RC!Deterministic, {}}
    BY <1>1 DEF RC!NoCards, RC!Offer
  <2>2. RC!Deterministic
          = {s \in ({cRoute.target} \ {None}) \cap cRegistry : s # cActive /\ cRoute.level >= 2}
    BY DEF RC!Deterministic, RC!Threshold
  <2> QED BY <2>1, <2>2 DEF CardsInv
<1> QED BY <1>1, <1>2, <1>3 DEF CardsInv

LEMMA CardsNext == ASSUME RC!CardsAssumption, CardsInv, [RC!Next]_(RC!vars) PROVE CardsInv'
<1>1. CASE UNCHANGED RC!vars
  BY <1>1 DEF RC!vars, CardsInv, Inviting, RC!SpecialistUndisturbed, RC!Deterministic, RC!Threshold
<1> QED BY <1>1, CardsBetween, CardsRouted, CardsAnswered, CardsFinal DEF RC!Next

\* Whatever the Skills and what is published meanwhile: each Skill a reply invites to has its
\* card unless it was deleted or the session is a team's, and a specialist's turn offers at
\* most the Skill that matches very well (_build_intent_route_suggestions,
\* build_route_suggestions, build_finalized_payload).
THEOREM CardsTheorem == RC!Spec => []CardsFitTheReply
<1>1. CardsInv /\ [RC!Next]_(RC!vars) => CardsInv'
  BY RepliesAssumption, CardsNext
<1>2. CardsInv => CardsFitTheReply
  BY DEF CardsInv, Inviting, CardsFitTheReply, RC!InvitedIsOffered
<1> QED BY <1>1, <1>2, CardsStart, PTL DEF RC!Spec

-----------------------------------------------------------------------------
(* The answers of a native Skill.                                          *)

\* The shapes.
Traces == [skill : NativeSkills \cup {None}, inputs : Facts \cup {None},
           outputs : {"none", "ok", "failed"}, current : BOOLEAN]
References == [skill : NativeSkills \cup {None}, needed : BOOLEAN, current : BOOLEAN]
Flags == [facts : Facts, trace : Traces,
          cached : {None} \cup [skill : NativeSkills, inputs : Facts],
          refs : References, evidence : {None, "this", "earlier"}]
Answers == [skill : NativeSkills \cup {None}, followup : BOOLEAN, allowed : SUBSET Tools,
            loads : SUBSET {"references", "scripts"}, routing : {None} \cup SUBSET Tools,
            held : BOOLEAN, last : BOOLEAN, refuted : BOOLEAN, need : BOOLEAN,
            inputs : Facts \cup {None}, tools : SUBSET Tools, ran : Seq(Tools), live : BOOLEAN,
            reported : {None, "this", "earlier"}, reply : {None, "draft", "text", "apology"}]

NativeTyped ==
  /\ nMode \in Modes
  /\ nState \in Flags /\ nSaved \in Flags
  /\ nPc \in {"idle", "plan", "check", "scripts", "review", "route", "tools", "text"}
  /\ nTurn \in Answers

\* What holds of a turn under way.
InTurn(t) == t.reply = None /\ t.reported = None /\ t.skill \in NativeSkills

\* A draft that may not be used is gone.
DraftAllowed(t) == t.need \/ t.refuted => ~t.held /\ ~t.last

\* Evidence was required and found in this turn.
EvidenceNeeded(st, t) ==
  st.evidence # None =>
    st.evidence = "this" /\ t.need
    /\ st.refs = [skill |-> t.skill, needed |-> TRUE, current |-> TRUE]

\* A result is of a script this turn was to run.
ResultFits(st, t) ==
  st.trace.outputs # "none" =>
    st.trace.current /\ "scripts" \in t.loads
    /\ st.trace.skill = t.skill /\ st.trace.inputs = t.inputs

\* Scripts are only loaded where they are, and there nothing streams.
ScriptsSilent(t) ==
  /\ "scripts" \in t.loads => t.skill \in WithScripts
  /\ t.live => t.skill \notin WithScripts

ToolsNamed(t) == nMode # "standalone" /\ t.routing # None => t.tools \subseteq t.routing

NativeInv ==
  /\ NativeTyped
  /\ nPc # "idle" => /\ InTurn(nTurn) /\ DraftAllowed(nTurn) /\ ScriptsSilent(nTurn)
                     /\ EvidenceNeeded(nState, nTurn)
  /\ nPc = "plan" => /\ ~nTurn.held /\ ~nTurn.last /\ ~nTurn.refuted
                     /\ nTurn.loads = {} /\ nTurn.ran = <<>>
  /\ nPc \in {"plan", "check", "scripts", "review"} => nState.evidence = None /\ ~nTurn.need
  /\ nPc = "check" => ~nTurn.refuted
  /\ nPc = "scripts" => "scripts" \in nTurn.loads
  /\ nPc = "review" /\ "scripts" \in nTurn.loads => ResultFits(nState, nTurn)
  /\ nPc \in {"route", "tools", "text"} => ResultFits(nState, nTurn)
  /\ nPc = "tools" => ToolsNamed(nTurn)
  /\ RepliesRestOnThisTurn

\* The flags of an earlier turn.
LEMMA AgedFlags ==
  ASSUME NEW st \in Flags
  PROVE  /\ NT!Aged(st) \in Flags
         /\ NT!Fresh(st) \in Flags /\ NT!Fresh(st).evidence = None
<1>1. st \in [facts : Facts, trace : Traces,
              cached : {None} \cup [skill : NativeSkills, inputs : Facts],
              refs : References, evidence : {None, "this", "earlier"}]
  BY DEF Flags
<1>2. [st.trace EXCEPT !.current = FALSE] \in Traces
  <2>1. st.trace \in [skill : NativeSkills \cup {None}, inputs : Facts \cup {None},
                      outputs : {"none", "ok", "failed"}, current : BOOLEAN]
    BY <1>1 DEF Traces
  <2> QED BY <2>1 DEF Traces
<1>3. [st.refs EXCEPT !.current = FALSE] \in References
  <2>1. st.refs \in [skill : NativeSkills \cup {None}, needed : BOOLEAN, current : BOOLEAN]
    BY <1>1 DEF References
  <2> QED BY <2>1 DEF References
<1> DEFINE tr == [st.trace EXCEPT !.current = FALSE]
           rf == [st.refs EXCEPT !.current = FALSE]
           ev == IF st.evidence = None THEN None ELSE "earlier"
           a == [st EXCEPT !.trace = tr, !.refs = rf, !.evidence = ev]
<1>4. NT!Aged(st) = a
  BY DEF NT!Aged
<1>5. ev \in {None, "this", "earlier"}
  OBVIOUS
<1> HIDE DEF tr, rf, ev
<1>6. a \in Flags
  BY <1>1, <1>2, <1>3, <1>5 DEF Flags, tr, rf
<1> HIDE DEF a
<1>7. NT!Fresh(st) = [a EXCEPT !.evidence = None]
  BY <1>4 DEF NT!Fresh
<1>8. [a EXCEPT !.evidence = None] \in Flags /\ [a EXCEPT !.evidence = None].evidence = None
  <2>1. a \in [facts : Facts, trace : Traces,
               cached : {None} \cup [skill : NativeSkills, inputs : Facts],
               refs : References, evidence : {None, "this", "earlier"}]
    BY <1>6 DEF Flags
  <2> QED BY <2>1 DEF Flags
<1> QED BY <1>4, <1>6, <1>7, <1>8

LEMMA NoTurnShape == NT!NoTurn \in Answers
BY DEF NT!NoTurn, Answers

LEMMA NativeStart == ASSUME NT!Init PROVE NativeInv
<1>1. nState \in Flags /\ nSaved = nState
  <2>1. PICK f \in Facts :
          nState = [facts |-> f, trace |-> NT!NoTrace, cached |-> None, refs |-> NT!NoRefs,
                    evidence |-> None]
    BY DEF NT!Init
  <2>2. NT!NoTrace \in Traces /\ NT!NoRefs \in References
    BY DEF NT!NoTrace, NT!NoRefs, Traces, References
  <2> QED BY <2>1, <2>2 DEF NT!Init, Flags
<1>2. nTurn \in Answers /\ nTurn.ran = <<>> /\ nTurn.reply = None
  BY NoTurnShape DEF NT!Init, NT!NoTurn
<1>3. ~NT!Replied
  BY <1>2, RepliesAssumption DEF NT!Replied, NT!NativeAssumption
<1>4. NT!ToolsAsAuthorised
  BY <1>2 DEF NT!ToolsAsAuthorised
<1> QED BY <1>1, <1>2, <1>3, <1>4
        DEF NT!Init, NativeInv, NativeTyped, RepliesRestOnThisTurn, NT!DraftStandsAlone,
            NT!ResultsAreCurrent, NT!ScriptRepliesHeld, NT!EvidenceOfThisTurn

\* While a turn is under way, or ends without a reply of its own, nothing is claimed but
\* what ran.
LEMMA NothingSaidYet ==
  ASSUME nPc' # "idle" \/ nTurn'.reply \notin {"draft", "text"}, NT!ToolsAsAuthorised'
  PROVE  RepliesRestOnThisTurn'
BY DEF RepliesRestOnThisTurn, NT!Replied, NT!DraftStandsAlone, NT!ResultsAreCurrent,
       NT!ScriptRepliesHeld, NT!EvidenceOfThisTurn

LEMMA NativeBegin ==
  ASSUME NT!NativeAssumption, NativeInv, NEW s \in NativeSkills, NT!Begin(s)
  PROVE  NativeInv'
<1>1. PICK followup \in BOOLEAN, found \in SUBSET Looked, web \in BOOLEAN :
        nTurn' = [NT!NoTurn EXCEPT !.skill = s, !.followup = followup,
                     !.allowed = NT!Allowed(found) \cup IF web THEN {Web} ELSE {}]
  BY DEF NT!Begin
<1>2. NT!Allowed(found) \cup (IF web THEN {Web} ELSE {}) \in SUBSET Tools
  BY DEF NT!Allowed, NT!NativeAssumption
<1> DEFINE al == NT!Allowed(found) \cup IF web THEN {Web} ELSE {}
<1> HIDE DEF al
<1>3. /\ nTurn' \in Answers /\ InTurn(nTurn') /\ DraftAllowed(nTurn') /\ ScriptsSilent(nTurn')
      /\ ~nTurn'.held /\ ~nTurn'.last /\ ~nTurn'.refuted /\ ~nTurn'.need
      /\ nTurn'.loads = {} /\ nTurn'.ran = <<>>
  <2>1. nTurn' = [NT!NoTurn EXCEPT !.skill = s, !.followup = followup, !.allowed = al]
    BY <1>1 DEF al
  <2>2. al \in SUBSET Tools
    BY <1>2 DEF al
  <2> QED BY <2>1, <2>2, NoTurnShape
          DEF NT!NoTurn, Answers, InTurn, DraftAllowed, ScriptsSilent
<1>4. nState' \in Flags /\ nState'.evidence = None /\ nPc' = "plan" /\ nMode' = nMode
      /\ nSaved' = nSaved
  BY AgedFlags DEF NT!Begin, NT!To, NativeInv, NativeTyped
<1>5. RepliesRestOnThisTurn'
  <2>1. NT!ToolsAsAuthorised'
    BY <1>3 DEF NT!ToolsAsAuthorised
  <2> QED BY <2>1, <1>4, NothingSaidYet
<1> QED BY <1>3, <1>4, <1>5 DEF NativeInv, NativeTyped, EvidenceNeeded

\* What the session keeps of the flags at the end of a turn.
LEMMA NativeFinish ==
  ASSUME NativeInv, NEW st \in Flags, NEW reply \in {"draft", "text", "apology"},
         NT!Finish(st, reply)
  PROVE  /\ NativeTyped' /\ nPc' = "idle" /\ nState' = st
         /\ nTurn' = [nTurn EXCEPT !.reply = reply]
         /\ NT!ToolsAsAuthorised'
<1>1. nTurn \in Answers
  BY DEF NativeInv, NativeTyped
<1>2. nTurn' \in Answers /\ nTurn'.ran = nTurn.ran /\ nTurn'.routing = nTurn.routing
  BY <1>1 DEF NT!Finish, Answers
<1>3. NT!ToolsAsAuthorised'
  BY <1>2 DEF NT!Finish, NativeInv, RepliesRestOnThisTurn, NT!ToolsAsAuthorised
<1>4. nSaved' \in Flags
  BY AgedFlags DEF NT!Finish
<1> QED BY <1>2, <1>3, <1>4 DEF NT!Finish, NativeInv, NativeTyped

LEMMA NativeApologise ==
  ASSUME NT!NativeAssumption, NativeInv, NT!Apologise PROVE NativeInv'
<1>1. nState \in Flags /\ nTurn \in Answers
  BY DEF NativeInv, NativeTyped
<1>2. /\ NativeTyped' /\ nPc' = "idle" /\ nTurn' = [nTurn EXCEPT !.reply = "apology"]
      /\ NT!ToolsAsAuthorised'
  BY <1>1, NativeFinish DEF NT!Apologise
<1>3. nTurn'.reply = "apology"
  BY <1>1, <1>2 DEF Answers
<1>4. RepliesRestOnThisTurn'
  BY <1>2, <1>3, NothingSaidYet
<1> QED BY <1>2, <1>4 DEF NativeInv

LEMMA NativeRecover ==
  ASSUME NT!NativeAssumption, NativeInv, NT!Recover PROVE NativeInv'
<1>1. nState \in Flags /\ nTurn \in Answers
  BY DEF NativeInv, NativeTyped
<1>2. nTurn' = nTurn /\ nPc = "plan" /\ nPc' = "route" /\ nMode' = nMode /\ nSaved' = nSaved
  BY DEF NT!Recover, NT!To
<1>3. /\ nState' \in Flags /\ nState'.evidence = nState.evidence
      /\ nState'.refs = nState.refs /\ nState'.trace.outputs = "none"
  <2>1. NT!NoTrace \in Traces /\ NT!NoTrace.outputs = "none"
    BY DEF NT!NoTrace, Traces
  <2>2. nState' = [nState EXCEPT !.trace = NT!NoTrace]
    BY DEF NT!Recover, NT!Recovered
  <2> QED BY <1>1, <2>1, <2>2 DEF Flags
<1>4. RepliesRestOnThisTurn'
  <2>1. NT!ToolsAsAuthorised'
    BY <1>2 DEF NativeInv, RepliesRestOnThisTurn, NT!ToolsAsAuthorised
  <2> QED BY <2>1, <1>2, NothingSaidYet
<1> QED BY <1>1, <1>2, <1>3, <1>4 DEF NativeInv, NativeTyped, EvidenceNeeded, ResultFits

LEMMA NativePlan ==
  ASSUME NT!NativeAssumption, NativeInv, NT!Plan PROVE NativeInv'
<1>1. nState \in Flags /\ nTurn \in Answers
  BY DEF NativeInv, NativeTyped
<1>2. PICK loads \in SUBSET ({"references"}
                              \cup IF nTurn.skill \in WithScripts THEN {"scripts"} ELSE {}),
           routing \in NT!Routings, draft \in BOOLEAN, ordered \in BOOLEAN, f \in Facts :
        /\ nTurn' = [nTurn EXCEPT !.loads = loads, !.routing = routing,
                        !.held = draft, !.last = draft,
                        !.live = NT!Streams /\ NT!LetThrough(draft, loads, ordered, routing)]
        /\ nState' = NT!Promoted(nState, f)
  BY DEF NT!Plan
<1> DEFINE live == NT!Streams /\ NT!LetThrough(draft, loads, ordered, routing)
<1>3. live \in BOOLEAN /\ (live => nTurn.skill \notin WithScripts)
  BY DEF NT!Streams
<1>4. routing \in {None} \cup SUBSET Tools /\ loads \in SUBSET {"references", "scripts"}
      /\ ("scripts" \in loads => nTurn.skill \in WithScripts)
  BY DEF NT!Routings
<1> HIDE DEF live
<1>5. nTurn' = [nTurn EXCEPT !.loads = loads, !.routing = routing, !.held = draft, !.last = draft,
                   !.live = live]
  BY <1>2 DEF live
<1>6. /\ nTurn' \in Answers /\ nTurn'.loads = loads /\ nTurn'.live = live
      /\ nTurn'.skill = nTurn.skill /\ nTurn'.reply = nTurn.reply
      /\ nTurn'.reported = nTurn.reported /\ nTurn'.ran = nTurn.ran
      /\ nTurn'.need = nTurn.need /\ nTurn'.refuted = nTurn.refuted
  BY <1>1, <1>3, <1>4, <1>5 DEF Answers
<1>7. nState' \in Flags /\ nState'.evidence = nState.evidence
  BY <1>1, <1>2 DEF NT!Promoted, Flags
<1>8. nPc = "plan" /\ nPc' = "check" /\ nMode' = nMode /\ nSaved' = nSaved
  BY DEF NT!Plan, NT!To
<1>9. RepliesRestOnThisTurn'
  <2>1. NT!ToolsAsAuthorised'
    BY <1>6, <1>8 DEF NativeInv, NT!ToolsAsAuthorised
  <2> QED BY <2>1, <1>8, NothingSaidYet
<1>10. /\ InTurn(nTurn') /\ ScriptsSilent(nTurn') /\ DraftAllowed(nTurn')
       /\ ~nTurn'.need /\ ~nTurn'.refuted
  BY <1>3, <1>4, <1>6, <1>8 DEF NativeInv, InTurn, ScriptsSilent, DraftAllowed
<1> QED BY <1>6, <1>7, <1>8, <1>9, <1>10 DEF NativeInv, NativeTyped, EvidenceNeeded

\* A dropped draft is no draft; nothing else changes.
LEMMA DroppedDraft ==
  ASSUME NEW t \in Answers
  PROVE  /\ NT!Dropped(t) \in Answers /\ ~NT!Dropped(t).held /\ ~NT!Dropped(t).last
         /\ \A f \in {"skill", "loads", "live", "ran", "routing", "tools", "need", "inputs",
                      "reported", "reply", "refuted"} : NT!Dropped(t)[f] = t[f]
BY DEF NT!Dropped, Answers

LEMMA NativeCheck ==
  ASSUME NT!NativeAssumption, NativeInv, NT!Check PROVE NativeInv'
<1>1. nState \in Flags /\ nTurn \in Answers
  BY DEF NativeInv, NativeTyped
<1>2. PICK clash \in NT!Clashes, asks \in BOOLEAN :
        LET t == [nTurn EXCEPT !.refuted = clash \/ asks,
                               !.followup = @ /\ "scripts" \in nTurn.loads] IN
        nTurn' = IF t.refuted THEN NT!Dropped(t) ELSE t
  BY DEF NT!Check
<1> DEFINE t == [nTurn EXCEPT !.refuted = clash \/ asks,
                              !.followup = @ /\ "scripts" \in nTurn.loads]
<1>3. /\ t \in Answers
      /\ t.skill = nTurn.skill /\ t.loads = nTurn.loads /\ t.live = nTurn.live /\ t.ran = nTurn.ran
      /\ t.routing = nTurn.routing /\ t.need = nTurn.need /\ t.reported = nTurn.reported
      /\ t.reply = nTurn.reply
  BY <1>1 DEF Answers
<1>4. nTurn' = IF t.refuted THEN NT!Dropped(t) ELSE t
  BY <1>2
<1> HIDE DEF t
<1>5. /\ nTurn' \in Answers /\ (nTurn'.refuted => ~nTurn'.held /\ ~nTurn'.last)
      /\ nTurn'.skill = nTurn.skill /\ nTurn'.loads = nTurn.loads /\ nTurn'.live = nTurn.live
      /\ nTurn'.ran = nTurn.ran /\ nTurn'.routing = nTurn.routing /\ nTurn'.need = nTurn.need
      /\ nTurn'.reported = nTurn.reported /\ nTurn'.reply = nTurn.reply
  <2>1. CASE t.refuted
    BY <1>3, <1>4, <2>1, DroppedDraft
  <2>2. CASE ~t.refuted
    BY <1>3, <1>4, <2>2
  <2> QED BY <2>1, <2>2
<1>6. /\ nPc = "check" /\ nPc' = IF "scripts" \in nTurn.loads THEN "scripts" ELSE "review"
      /\ nMode' = nMode /\ nSaved' = nSaved /\ nState' = nState
  BY DEF NT!Check, NT!To
<1>7. RepliesRestOnThisTurn'
  <2>1. NT!ToolsAsAuthorised'
    BY <1>5, <1>6 DEF NativeInv, RepliesRestOnThisTurn, NT!ToolsAsAuthorised
  <2> QED BY <2>1, <1>6, NothingSaidYet
<1>8. InTurn(nTurn') /\ ScriptsSilent(nTurn') /\ DraftAllowed(nTurn') /\ ~nTurn'.need
  BY <1>5, <1>6 DEF NativeInv, InTurn, ScriptsSilent, DraftAllowed
<1> QED BY <1>1, <1>5, <1>6, <1>7, <1>8 DEF NativeInv, NativeTyped, EvidenceNeeded

\* A step of the scripts leaves a result of this turn.
LEMMA NativeScript ==
  ASSUME NT!NativeAssumption, NativeInv, NT!Script PROVE NativeInv'
<1>1. nState \in Flags /\ nTurn \in Answers
  BY DEF NativeInv, NativeTyped
<1>2. nPc = "scripts" /\ nPc' = "review" /\ nMode' = nMode /\ nSaved' = nSaved
      /\ nTurn' = [nTurn EXCEPT !.inputs = nState.facts, !.followup = FALSE]
  BY DEF NT!Script, NT!Reuse, NT!Execute, NT!To
<1>3. nState.facts \in Facts
  BY <1>1 DEF Flags
<1>4. /\ nTurn' \in Answers /\ nTurn'.inputs = nState.facts
      /\ nTurn'.skill = nTurn.skill /\ nTurn'.loads = nTurn.loads /\ nTurn'.live = nTurn.live
      /\ nTurn'.ran = nTurn.ran /\ nTurn'.routing = nTurn.routing /\ nTurn'.need = nTurn.need
      /\ nTurn'.reported = nTurn.reported /\ nTurn'.reply = nTurn.reply
      /\ nTurn'.held = nTurn.held /\ nTurn'.last = nTurn.last /\ nTurn'.refuted = nTurn.refuted
  BY <1>1, <1>2, <1>3 DEF Answers
<1>5. nTurn.skill \in NativeSkills /\ "scripts" \in nTurn.loads
  BY <1>2 DEF NativeInv, InTurn
<1>6. /\ nState' \in Flags /\ nState'.evidence = nState.evidence
      /\ nState'.trace.current /\ nState'.trace.skill = nTurn.skill
      /\ nState'.trace.inputs = nState.facts
  <2>1. CASE NT!Reuse
    <3> DEFINE tr == [skill |-> nTurn.skill, inputs |-> nState.cached.inputs, outputs |-> "ok",
                      current |-> TRUE]
    <3>1. nState.cached.inputs = nState.facts /\ nState' = [nState EXCEPT !.trace = tr]
      BY <2>1 DEF NT!Reuse, NT!SameInputs
    <3>2. tr \in Traces /\ tr.current /\ tr.skill = nTurn.skill /\ tr.inputs = nState.facts
      BY <1>3, <1>5, <3>1 DEF Traces
    <3> HIDE DEF tr
    <3> QED BY <1>1, <3>1, <3>2 DEF Flags
  <2>2. CASE NT!Execute
    <3>1. PICK outputs \in {"none", "ok", "failed"} : nState' = NT!Executed(outputs)
      BY <2>2 DEF NT!Execute
    <3> DEFINE tr == [skill |-> nTurn.skill, inputs |-> nState.facts, outputs |-> outputs,
                      current |-> TRUE]
               ca == IF outputs = "ok" THEN [skill |-> nTurn.skill, inputs |-> nState.facts]
                                       ELSE nState.cached
    <3>2. tr \in Traces /\ tr.current /\ tr.skill = nTurn.skill /\ tr.inputs = nState.facts
      BY <1>3, <1>5 DEF Traces
    <3>3. ca \in {None} \cup [skill : NativeSkills, inputs : Facts]
      BY <1>1, <1>3, <1>5 DEF Flags
    <3>4. nState' = [nState EXCEPT !.trace = tr, !.cached = ca]
      BY <1>1, <3>1 DEF NT!Executed, Flags
    <3> HIDE DEF tr, ca
    <3> QED BY <1>1, <3>2, <3>3, <3>4 DEF Flags
  <2> QED BY <2>1, <2>2 DEF NT!Script
<1>7. RepliesRestOnThisTurn'
  <2>1. NT!ToolsAsAuthorised'
    BY <1>2, <1>4 DEF NativeInv, RepliesRestOnThisTurn, NT!ToolsAsAuthorised
  <2> QED BY <2>1, <1>2, NothingSaidYet
<1>8. /\ InTurn(nTurn') /\ ScriptsSilent(nTurn') /\ DraftAllowed(nTurn') /\ ~nTurn'.need
      /\ ResultFits(nState', nTurn')
  BY <1>2, <1>4, <1>5, <1>6 DEF NativeInv, InTurn, ScriptsSilent, DraftAllowed, ResultFits
<1> QED BY <1>2, <1>4, <1>6, <1>7, <1>8 DEF NativeInv, NativeTyped, EvidenceNeeded

\* The flags once the plan of the turn is in them.
LEMMA NotedFlags ==
  ASSUME NativeInv, nPc = "review"
  PROVE  /\ NT!Noted(nState) \in Flags /\ NT!Noted(nState).evidence = None
         /\ NT!Noted(nState).refs = [skill |-> nTurn.skill, needed |-> FALSE, current |-> TRUE]
         /\ ResultFits(NT!Noted(nState), nTurn)
<1>1. nState \in Flags /\ nTurn \in Answers /\ nTurn.skill \in NativeSkills
      /\ nState.evidence = None
  BY DEF NativeInv, NativeTyped, InTurn
<1> DEFINE tr == IF "scripts" \in nTurn.loads THEN nState.trace
                 ELSE [skill |-> nTurn.skill, inputs |-> None, outputs |-> "none", current |-> TRUE]
           rf == [skill |-> nTurn.skill, needed |-> FALSE, current |-> TRUE]
<1>2. tr \in Traces /\ ("scripts" \in nTurn.loads => tr = nState.trace)
      /\ ("scripts" \notin nTurn.loads => tr.outputs = "none")
  BY <1>1 DEF Traces, Flags
<1>3. rf \in References
  BY <1>1 DEF References
<1>4. NT!Noted(nState) = [nState EXCEPT !.trace = tr, !.refs = rf]
  BY <1>1 DEF NT!Noted, Flags
<1> HIDE DEF tr
<1>5. /\ NT!Noted(nState) \in Flags /\ NT!Noted(nState).evidence = None
      /\ NT!Noted(nState).refs = rf /\ NT!Noted(nState).trace = tr
  <2> HIDE DEF rf
  <2> QED BY <1>1, <1>2, <1>3, <1>4 DEF Flags
<1>6. ResultFits(NT!Noted(nState), nTurn)
  BY <1>2, <1>5 DEF NativeInv, ResultFits
<1> QED BY <1>5, <1>6

LEMMA NativeReview ==
  ASSUME NT!NativeAssumption, NativeInv, NT!Review PROVE NativeInv'
<1>1. nTurn \in Answers
  BY DEF NativeInv, NativeTyped
<1>2. nPc = "review" /\ nPc' = "route" /\ nMode' = nMode /\ nSaved' = nSaved /\ nTurn' = nTurn
      /\ nState' = NT!Noted(nState)
  BY DEF NT!Review, NT!To
<1>3. nState' \in Flags /\ nState'.evidence = None /\ ResultFits(nState', nTurn')
  BY <1>2, NotedFlags
<1>4. RepliesRestOnThisTurn'
  <2>1. NT!ToolsAsAuthorised'
    BY <1>2 DEF NativeInv, RepliesRestOnThisTurn, NT!ToolsAsAuthorised
  <2> QED BY <2>1, <1>2, NothingSaidYet
<1> QED BY <1>1, <1>2, <1>3, <1>4 DEF NativeInv, NativeTyped, EvidenceNeeded

LEMMA NativePreflight ==
  ASSUME NT!NativeAssumption, NativeInv, NT!Preflight PROVE NativeInv'
<1>1. nTurn \in Answers /\ InTurn(nTurn) /\ ScriptsSilent(nTurn) /\ DraftAllowed(nTurn)
  BY DEF NativeInv, NativeTyped, NT!Preflight
<1>2. nPc = "review" /\ nPc' = "route" /\ nMode' = nMode /\ nSaved' = nSaved
  BY DEF NT!Preflight, NT!To
<1>3. /\ NT!Noted(nState) \in Flags /\ NT!Noted(nState).evidence = None
      /\ NT!Noted(nState).refs = [skill |-> nTurn.skill, needed |-> FALSE, current |-> TRUE]
      /\ ResultFits(NT!Noted(nState), nTurn)
  BY <1>2, NotedFlags
<1> DEFINE drop == NT!Dropped(nTurn)
<1>4. /\ drop \in Answers /\ ~drop.held /\ ~drop.last
      /\ drop.skill = nTurn.skill /\ drop.loads = nTurn.loads /\ drop.live = nTurn.live
      /\ drop.ran = nTurn.ran /\ drop.routing = nTurn.routing /\ drop.inputs = nTurn.inputs
      /\ drop.reported = nTurn.reported /\ drop.reply = nTurn.reply
  BY <1>1, DroppedDraft
<1> HIDE DEF drop
<1>5. /\ nTurn' \in Answers /\ DraftAllowed(nTurn')
      /\ nTurn'.skill = nTurn.skill /\ nTurn'.loads = nTurn.loads /\ nTurn'.live = nTurn.live
      /\ nTurn'.ran = nTurn.ran /\ nTurn'.routing = nTurn.routing /\ nTurn'.inputs = nTurn.inputs
      /\ nTurn'.reported = nTurn.reported /\ nTurn'.reply = nTurn.reply
      /\ nState' \in Flags /\ nState'.trace = NT!Noted(nState).trace
      /\ EvidenceNeeded(nState', nTurn')
  <2>1. CASE nTurn' = [drop EXCEPT !.need = TRUE] /\ nState' = NT!Injected(NT!Noted(nState))
    <3>1. /\ nTurn' \in Answers /\ nTurn'.need /\ ~nTurn'.held /\ ~nTurn'.last
          /\ nTurn'.skill = drop.skill /\ nTurn'.loads = drop.loads /\ nTurn'.live = drop.live
          /\ nTurn'.ran = drop.ran /\ nTurn'.routing = drop.routing /\ nTurn'.inputs = drop.inputs
          /\ nTurn'.reported = drop.reported /\ nTurn'.reply = drop.reply
      BY <2>1, <1>4 DEF Answers
    <3> DEFINE n == NT!Noted(nState)
               rf == [n.refs EXCEPT !.needed = TRUE]
    <3>2. NT!Injected(n) = [n EXCEPT !.evidence = "this", !.refs = rf]
      BY <1>3 DEF NT!Injected, Flags
    <3>3. rf = [skill |-> nTurn.skill, needed |-> TRUE, current |-> TRUE] /\ rf \in References
      <4>1. n.refs = [skill |-> nTurn.skill, needed |-> FALSE, current |-> TRUE]
        BY <1>3
      <4>2. nTurn.skill \in NativeSkills
        BY <1>1 DEF InTurn
      <4>3. n.refs \in [skill : NativeSkills \cup {None}, needed : BOOLEAN, current : BOOLEAN]
        BY <4>1, <4>2
      <4>4. rf \in References /\ rf.skill = n.refs.skill /\ rf.needed = TRUE
            /\ rf.current = n.refs.current
        BY <4>3 DEF References
      <4>5. rf.skill = nTurn.skill /\ rf.current = TRUE
        BY <4>1, <4>4
      <4> HIDE DEF rf
      <4> QED BY <4>4, <4>5 DEF References
    <3>4. n \in Flags
      BY <1>3
    <3> HIDE DEF n, rf
    <3>5. NT!Injected(n) \in Flags /\ NT!Injected(n).trace = n.trace
          /\ NT!Injected(n).refs = rf /\ NT!Injected(n).evidence = "this"
      BY <3>2, <3>3, <3>4 DEF Flags
    <3> QED BY <2>1, <1>4, <3>1, <3>3, <3>5 DEF n, DraftAllowed, EvidenceNeeded
  <2>2. CASE nTurn' = [drop EXCEPT !.refuted = TRUE] /\ nState' = NT!Noted(nState)
    <3>1. /\ nTurn' \in Answers /\ ~nTurn'.held /\ ~nTurn'.last
          /\ nTurn'.skill = drop.skill /\ nTurn'.loads = drop.loads /\ nTurn'.live = drop.live
          /\ nTurn'.ran = drop.ran /\ nTurn'.routing = drop.routing /\ nTurn'.inputs = drop.inputs
          /\ nTurn'.reported = drop.reported /\ nTurn'.reply = drop.reply
      BY <2>2, <1>4 DEF Answers
    <3> QED BY <2>2, <1>3, <1>4, <3>1 DEF DraftAllowed, EvidenceNeeded
  <2>3. CASE nTurn' = nTurn /\ nState' = NT!Noted(nState)
    BY <2>3, <1>1, <1>3 DEF EvidenceNeeded
  <2> QED BY <2>1, <2>2, <2>3 DEF NT!Preflight, drop
<1>6. InTurn(nTurn') /\ ScriptsSilent(nTurn') /\ ResultFits(nState', nTurn')
  BY <1>1, <1>3, <1>5 DEF InTurn, ScriptsSilent, ResultFits
<1>7. RepliesRestOnThisTurn'
  <2>1. NT!ToolsAsAuthorised'
    BY <1>2, <1>5 DEF NativeInv, RepliesRestOnThisTurn, NT!ToolsAsAuthorised
  <2> QED BY <2>1, <1>2, NothingSaidYet
<1> QED BY <1>2, <1>5, <1>6, <1>7 DEF NativeInv, NativeTyped

LEMMA NativeRoute ==
  ASSUME NT!NativeAssumption, NativeInv, NT!Route PROVE NativeInv'
<1>1. /\ nState \in Flags /\ nTurn \in Answers /\ InTurn(nTurn) /\ ScriptsSilent(nTurn)
      /\ DraftAllowed(nTurn) /\ EvidenceNeeded(nState, nTurn) /\ ResultFits(nState, nTurn)
      /\ nTurn.reply = None /\ NT!ToolsAsAuthorised
  BY DEF NativeInv, NativeTyped, NT!Route, InTurn, RepliesRestOnThisTurn
<1>2. PICK tools \in NT!Authorised :
        LET t == [nTurn EXCEPT !.tools = tools] IN
        IF NT!Draft /\ nTurn.loads = {} /\ tools = {}
        THEN /\ nTurn' = [t EXCEPT !.reply = "draft", !.reported = nState.evidence]
             /\ nState' = [nState EXCEPT !.evidence = None]
             /\ nSaved' = NT!Aged(nState') /\ nPc' = "idle" /\ nMode' = nMode
        ELSE /\ nTurn' = [NT!Dropped(t) EXCEPT !.allowed = {}, !.refuted = FALSE]
             /\ nState' = nState /\ NT!To(IF tools = {} THEN "text" ELSE "tools")
  BY DEF NT!Route
<1>3. tools \in SUBSET Tools
      /\ (nMode # "standalone" /\ nTurn.routing # None => tools \subseteq nTurn.routing)
  BY <1>1 DEF NT!Authorised, NT!Requested, NT!Classified, NT!Offered, NT!NativeAssumption, Answers
<1> DEFINE t == [nTurn EXCEPT !.tools = tools]
<1>4. /\ t \in Answers /\ t.tools = tools /\ t.skill = nTurn.skill /\ t.loads = nTurn.loads
      /\ t.live = nTurn.live /\ t.ran = nTurn.ran /\ t.routing = nTurn.routing
      /\ t.need = nTurn.need /\ t.inputs = nTurn.inputs /\ t.reported = nTurn.reported
      /\ t.reply = nTurn.reply /\ t.refuted = nTurn.refuted
  BY <1>1, <1>3 DEF Answers
<1>5. CASE NT!Draft /\ nTurn.loads = {} /\ tools = {}
  <2>1. /\ nTurn' = [t EXCEPT !.reply = "draft", !.reported = nState.evidence]
        /\ nState' = [nState EXCEPT !.evidence = None]
        /\ nSaved' = NT!Aged(nState') /\ nPc' = "idle" /\ nMode' = nMode
    BY <1>2, <1>5
  <2> HIDE DEF t
  <2>2. nState' \in Flags /\ nState'.trace = nState.trace /\ nState'.refs = nState.refs
    BY <1>1, <2>1 DEF Flags
  <2>3. nSaved' \in Flags
    BY <2>1, <2>2, AgedFlags
  <2>4. nState.evidence = None /\ ~nTurn.need /\ ~nTurn.refuted
    BY <1>1, <1>5 DEF NT!Draft, DraftAllowed, EvidenceNeeded
  <2>5. /\ nTurn' \in Answers /\ nTurn'.reported = None /\ nTurn'.tools = tools
        /\ nTurn'.reply = "draft"
        /\ nTurn'.skill = nTurn.skill /\ nTurn'.loads = nTurn.loads /\ nTurn'.live = nTurn.live
        /\ nTurn'.ran = nTurn.ran /\ nTurn'.routing = nTurn.routing /\ nTurn'.need = nTurn.need
        /\ nTurn'.inputs = nTurn.inputs /\ nTurn'.refuted = nTurn.refuted
    BY <1>4, <2>1, <2>4 DEF Answers
  <2>6. NT!ToolsAsAuthorised'
    BY <1>1, <2>1, <2>5 DEF NT!ToolsAsAuthorised
  <2>7. nState'.trace.outputs = "none"
    BY <1>1, <1>5, <2>2 DEF ResultFits, Flags, Traces
  <2>8. RepliesRestOnThisTurn'
    BY <1>5, <2>4, <2>5, <2>6, <2>7
       DEF RepliesRestOnThisTurn, NT!DraftStandsAlone, NT!ResultsAreCurrent, NT!ScriptRepliesHeld,
           NT!EvidenceOfThisTurn
  <2> QED BY <2>1, <2>2, <2>3, <2>5, <2>8 DEF NativeInv, NativeTyped
<1>6. CASE ~(NT!Draft /\ nTurn.loads = {} /\ tools = {})
  <2> DEFINE d == NT!Dropped(t)
  <2>1. /\ nTurn' = [d EXCEPT !.allowed = {}, !.refuted = FALSE] /\ nState' = nState
        /\ nPc' = (IF tools = {} THEN "text" ELSE "tools") /\ nMode' = nMode /\ nSaved' = nSaved
    BY <1>2, <1>6 DEF NT!To
  <2> HIDE DEF t
  <2>2. /\ d \in Answers /\ ~d.held /\ ~d.last
        /\ d.skill = t.skill /\ d.loads = t.loads /\ d.live = t.live /\ d.ran = t.ran
        /\ d.routing = t.routing /\ d.tools = t.tools /\ d.need = t.need /\ d.inputs = t.inputs
        /\ d.reported = t.reported /\ d.reply = t.reply
    BY <1>4, DroppedDraft
  <2> HIDE DEF d
  <2>3. /\ nTurn' \in Answers /\ ~nTurn'.held /\ ~nTurn'.last /\ nTurn'.tools = tools
        /\ nTurn'.skill = nTurn.skill /\ nTurn'.loads = nTurn.loads /\ nTurn'.live = nTurn.live
        /\ nTurn'.ran = nTurn.ran /\ nTurn'.routing = nTurn.routing /\ nTurn'.need = nTurn.need
        /\ nTurn'.inputs = nTurn.inputs /\ nTurn'.reported = nTurn.reported
        /\ nTurn'.reply = nTurn.reply
    BY <1>4, <2>1, <2>2 DEF Answers
  <2>4. /\ InTurn(nTurn') /\ ScriptsSilent(nTurn') /\ DraftAllowed(nTurn')
        /\ EvidenceNeeded(nState', nTurn') /\ ResultFits(nState', nTurn')
    BY <1>1, <2>1, <2>3 DEF InTurn, ScriptsSilent, DraftAllowed, EvidenceNeeded, ResultFits
  <2>5. nMode' # "standalone" /\ nTurn'.routing # None => nTurn'.tools \subseteq nTurn'.routing
    BY <1>3, <2>1, <2>3
  <2>6. RepliesRestOnThisTurn'
    <3>1. NT!ToolsAsAuthorised'
      BY <1>1, <2>1, <2>3 DEF NT!ToolsAsAuthorised
    <3> QED BY <3>1, <2>1, NothingSaidYet
  <2> QED BY <1>1, <2>1, <2>3, <2>4, <2>5, <2>6 DEF NativeInv, NativeTyped, ToolsNamed
<1> QED BY <1>5, <1>6

\* The end of a turn whose reply is not its draft.
LEMMA NativeAnswer ==
  ASSUME NT!NativeAssumption, NativeInv, NT!AnswerWithoutTool PROVE NativeInv'
<1>1. /\ nState \in Flags /\ nTurn \in Answers /\ InTurn(nTurn) /\ ScriptsSilent(nTurn)
      /\ ResultFits(nState, nTurn) /\ NT!Finish(nState, "text")
  BY DEF NativeInv, NativeTyped, NT!AnswerWithoutTool
<1>2. /\ NativeTyped' /\ nPc' = "idle" /\ nState' = nState
      /\ nTurn' = [nTurn EXCEPT !.reply = "text"] /\ NT!ToolsAsAuthorised'
  BY <1>1, NativeFinish
<1>3. /\ nTurn'.reply = "text" /\ nTurn'.skill = nTurn.skill /\ nTurn'.loads = nTurn.loads
      /\ nTurn'.live = nTurn.live /\ nTurn'.inputs = nTurn.inputs /\ nTurn'.reported = None
  BY <1>1, <1>2 DEF Answers, InTurn
<1>4. RepliesRestOnThisTurn'
  BY <1>1, <1>2, <1>3
     DEF RepliesRestOnThisTurn, NT!DraftStandsAlone, NT!ResultsAreCurrent, NT!ScriptRepliesHeld,
         NT!EvidenceOfThisTurn, ResultFits, ScriptsSilent
<1> QED BY <1>2, <1>4 DEF NativeInv

LEMMA NativeFinalText ==
  ASSUME NT!NativeAssumption, NativeInv, NT!FinalText PROVE NativeInv'
<1>1. /\ nPc = "text" /\ nState \in Flags /\ nTurn \in Answers /\ InTurn(nTurn)
      /\ ScriptsSilent(nTurn) /\ EvidenceNeeded(nState, nTurn) /\ ResultFits(nState, nTurn)
      /\ NT!ToolsAsAuthorised
  BY DEF NativeInv, NativeTyped, NT!FinalText, RepliesRestOnThisTurn
<1>2. PICK risk \in NT!Risks, empty \in BOOLEAN :
        /\ nTurn' = [nTurn EXCEPT
             !.reply = "text", !.reported = nState.evidence,
             !.live = @ \/ (~risk /\ ~empty /\ nState.trace.outputs = "none")]
        /\ nState' = [nState EXCEPT !.evidence = None]
  BY DEF NT!FinalText
<1> DEFINE live == nTurn.live \/ (~risk /\ ~empty /\ nState.trace.outputs = "none")
<1>3. nTurn' = [nTurn EXCEPT !.reply = "text", !.reported = nState.evidence, !.live = live]
  BY <1>1, <1>2 DEF Answers
<1>4. live \in BOOLEAN /\ (live => nTurn.live \/ nState.trace.outputs = "none")
  BY <1>1 DEF Answers
<1> HIDE DEF live
<1>5. nState.evidence \in {None, "this", "earlier"}
  BY <1>1 DEF Flags
<1>6. /\ nTurn' \in Answers /\ nTurn'.reply = "text" /\ nTurn'.reported = nState.evidence
      /\ nTurn'.live = live
      /\ nTurn'.skill = nTurn.skill /\ nTurn'.loads = nTurn.loads /\ nTurn'.inputs = nTurn.inputs
      /\ nTurn'.need = nTurn.need /\ nTurn'.ran = nTurn.ran /\ nTurn'.routing = nTurn.routing
  BY <1>1, <1>3, <1>4, <1>5 DEF Answers
<1>7. nState' \in Flags /\ nState'.trace = nState.trace /\ nState'.refs = nState.refs
  BY <1>1, <1>2 DEF Flags
<1>8. nSaved' \in Flags /\ nPc' = "idle" /\ nMode' = nMode
  BY <1>7, AgedFlags DEF NT!FinalText
<1>9. NT!ToolsAsAuthorised'
  BY <1>1, <1>6, <1>8 DEF NT!ToolsAsAuthorised
<1>10. RepliesRestOnThisTurn'
  BY <1>1, <1>4, <1>6, <1>7, <1>9
     DEF RepliesRestOnThisTurn, NT!DraftStandsAlone, NT!ResultsAreCurrent, NT!ScriptRepliesHeld,
         NT!EvidenceOfThisTurn, ResultFits, ScriptsSilent, EvidenceNeeded
<1> QED BY <1>6, <1>7, <1>8, <1>10 DEF NativeInv, NativeTyped

LEMMA NativeFail ==
  ASSUME NT!NativeAssumption, NativeInv, NT!Fail PROVE NativeInv'
<1>1. nSaved \in Flags /\ nTurn \in Answers
  BY DEF NativeInv, NativeTyped
<1>2. /\ nTurn' = [NT!NoTurn EXCEPT !.live = nTurn.live] /\ nState' = nSaved /\ nSaved' = nSaved
      /\ nPc' = "idle" /\ nMode' = nMode
  BY DEF NT!Fail
<1>3. nTurn' \in Answers /\ nTurn'.reply = None /\ nTurn'.ran = <<>> /\ nTurn'.routing = None
  BY <1>1, <1>2, NoTurnShape DEF NT!NoTurn, Answers
<1>4. RepliesRestOnThisTurn'
  <2>1. NT!ToolsAsAuthorised'
    BY <1>3 DEF NT!ToolsAsAuthorised
  <2>2. nTurn'.reply \notin {"draft", "text"}
    BY <1>3 DEF NT!NativeAssumption
  <2> QED BY <2>1, <2>2, NothingSaidYet
<1> QED BY <1>1, <1>2, <1>3, <1>4 DEF NativeInv, NativeTyped

\* The model's sets are counted by the same operators as here.
LEMMA SameCount ==
  ASSUME NEW S
  PROVE  (NT!IsFiniteSet(S) <=> IsFiniteSet(S)) /\ NT!Cardinality(S) = Cardinality(S)
<1>1. NT!IsFiniteSet(S) <=> IsFiniteSet(S)
  BY DEF NT!IsFiniteSet, IsFiniteSet
<1>2. NT!Cardinality(S) = Cardinality(S)
  BY DEF NT!Cardinality, Cardinality
<1> QED BY <1>1, <1>2

\* Some of the first numbers are finitely many.
LEMMA FinitelyMany ==
  ASSUME NEW n \in Nat, NEW S \in SUBSET (1 .. n)
  PROVE  IsFiniteSet(S) /\ Cardinality(S) \in Nat
<1>1. IsFiniteSet(1 .. n)
  BY FS_Interval
<1>2. IsFiniteSet(S)
  BY <1>1, FS_Subset
<1> QED BY <1>2, FS_CardinalityType

\* Among finitely many numbers each rank is somebody's.
LEMMA EveryRank ==
  ASSUME NEW n \in Nat, NEW S \in SUBSET (1 .. n), NEW k \in 1 .. Cardinality(S)
  PROVE  \E i \in S : Cardinality({j \in S : j <= i}) = k
<1>1. IsFiniteSet(S) /\ Cardinality(S) \in Nat
  BY FinitelyMany
<1> DEFINE upto(i) == {j \in S : j <= i}
           m == Cardinality(S)
           rank == [i \in S |-> Cardinality(upto(i))]
<1>2. ASSUME NEW i \in S PROVE IsFiniteSet(upto(i)) /\ Cardinality(upto(i)) \in 1 .. m
  <2>1. upto(i) \in SUBSET S /\ i \in upto(i)
    OBVIOUS
  <2>2. IsFiniteSet(upto(i)) /\ Cardinality(upto(i)) <= m
    BY <1>1, <2>1, FS_Subset
  <2>3. Cardinality(upto(i)) \in Nat /\ Cardinality(upto(i)) # 0
    BY <2>1, <2>2, FS_CardinalityType, FS_EmptySet
  <2> QED BY <1>1, <2>2, <2>3
<1>3. ASSUME NEW a \in S, NEW b \in S, a < b PROVE rank[a] # rank[b]
  <2>1. upto(a) \in SUBSET upto(b) /\ b \in upto(b) /\ b \notin upto(a)
    <3>1. a \in Int /\ b \in Int /\ \A j \in S : j \in Int
      OBVIOUS
    <3>2. \A j \in S : j <= a => j <= b
      BY <1>3, <3>1
    <3>3. ~(b <= a) /\ b <= b
      BY <1>3, <3>1
    <3> QED BY <3>2, <3>3
  <2>2. IsFiniteSet(upto(b)) /\ (Cardinality(upto(b)) = Cardinality(upto(a)) => upto(b) = upto(a))
    BY <1>2, <2>1, FS_Subset
  <2> QED BY <2>1, <2>2
<1>4. rank \in Injection(S, 1 .. m)
  <2>1. rank \in [S -> 1 .. m]
    BY <1>2
  <2>2. ASSUME NEW a \in S, NEW b \in S, rank[a] = rank[b] PROVE a = b
    <3>1. a \in Int /\ b \in Int
      OBVIOUS
    <3>2. ~(a < b) /\ ~(b < a)
      BY <1>3, <2>2
    <3> QED BY <3>1, <3>2
  <2> HIDE DEF rank
  <2> QED BY <2>1, <2>2 DEF Injection, IsInjective
<1>5. IsFiniteSet(1 .. m) /\ Cardinality(1 .. m) = m
  BY <1>1, FS_Interval
<1> HIDE DEF rank
<1>6. rank \in Surjection(S, 1 .. m)
  BY <1>4, <1>5, FS_Injection
<1>7. PICK i \in S : rank[i] = k
  BY <1>6 DEF Surjection
<1> QED BY <1>7 DEF rank

\* Of the calls of one answer those run that are authorised and the first of their tool.
LEMMA RanOnce ==
  ASSUME NEW n \in Nat, NEW calls \in [1 .. n -> Tools]
  PROVE  /\ NT!Ran(calls) \in Seq(nTurn.tools)
         /\ \A k, l \in DOMAIN NT!Ran(calls) : NT!Ran(calls)[k] = NT!Ran(calls)[l] => k = l
<1> DEFINE first(i) == calls[i] \in nTurn.tools /\ \A j \in 1 .. (i - 1) : calls[j] # calls[i]
           taken == {i \in DOMAIN calls : first(i)}
           m == NT!Cardinality(taken)
           pick(k) == CHOOSE i \in taken : NT!Cardinality({j \in taken : j <= i}) = k
           ran == [k \in 1 .. m |-> calls[pick(k)]]
<1>1. NT!Ran(calls) = ran
  BY DEF NT!Ran
<1>2. taken \in SUBSET (1 .. n)
  OBVIOUS
<1>3. m \in Nat /\ m = Cardinality(taken)
  <2> HIDE DEF taken
  <2> QED BY <1>2, FinitelyMany, SameCount
<1>4. ASSUME NEW k \in 1 .. m
      PROVE  pick(k) \in taken /\ NT!Cardinality({j \in taken : j <= pick(k)}) = k
  <2>1. k \in 1 .. Cardinality(taken)
    BY <1>3
  <2> HIDE DEF taken, m
  <2>2. PICK i \in taken : Cardinality({j \in taken : j <= i}) = k
    BY <1>2, <2>1, EveryRank
  <2>3. NT!Cardinality({j \in taken : j <= i}) = k
    BY <2>2, SameCount
  <2> QED BY <2>3
<1>5. ASSUME NEW k \in 1 .. m PROVE ran[k] = calls[pick(k)] /\ ran[k] \in nTurn.tools
  <2>1. ran[k] = calls[pick(k)]
    OBVIOUS
  <2> HIDE DEF pick, ran
  <2> QED BY <1>4, <2>1
<1>6. ASSUME NEW k \in 1 .. m, NEW l \in 1 .. m, ran[k] = ran[l] PROVE k = l
  <2>1. calls[pick(k)] = calls[pick(l)]
    BY <1>5, <1>6
  <2>2. pick(k) \in taken /\ pick(l) \in taken
    BY <1>4
  <2>3. pick(k) = pick(l)
    <3> HIDE DEF pick, ran, m
    <3> QED BY <2>1, <2>2
  <2> HIDE DEF pick, ran, taken
  <2> QED BY <1>4, <2>3
<1> HIDE DEF pick, taken
<1>7. ran \in [1 .. m -> nTurn.tools] /\ DOMAIN ran = 1 .. m
  <2> HIDE DEF m
  <2> QED BY <1>5
<1> HIDE DEF ran, m
<1>8. ran \in Seq(nTurn.tools)
  BY <1>3, <1>7
<1> QED BY <1>1, <1>6, <1>7, <1>8

LEMMA NativeCallTools ==
  ASSUME NT!NativeAssumption, NativeInv, NT!CallTools PROVE NativeInv'
<1>1. /\ nPc = "tools" /\ nState \in Flags /\ nTurn \in Answers /\ InTurn(nTurn)
      /\ ScriptsSilent(nTurn) /\ DraftAllowed(nTurn) /\ EvidenceNeeded(nState, nTurn)
      /\ ResultFits(nState, nTurn) /\ ToolsNamed(nTurn)
  BY DEF NativeInv, NativeTyped, NT!CallTools
<1>2. PICK calls \in NT!Calls : \E f \in NT!Tracked(NT!Ran(calls)) :
        /\ nTurn' = [nTurn EXCEPT !.ran = NT!Ran(calls)]
        /\ nState' = [nState EXCEPT !.facts = f]
  BY DEF NT!CallTools
<1>3. nState' \in Flags /\ nState'.trace = nState.trace /\ nState'.refs = nState.refs
      /\ nState'.evidence = nState.evidence
  <2>1. PICK f \in NT!Tracked(NT!Ran(calls)) : nState' = [nState EXCEPT !.facts = f]
    BY <1>2
  <2>2. f \in Facts
    BY <1>1 DEF NT!Tracked, Flags
  <2> QED BY <1>1, <2>1, <2>2 DEF Flags
<1> DEFINE ran == NT!Ran(calls)
<1>4. ran \in Seq(nTurn.tools) /\ \A k, l \in DOMAIN ran : ran[k] = ran[l] => k = l
  <2>1. PICK n \in 1 .. Cardinality(Tools) : calls \in [1 .. n -> Tools]
    BY SameCount DEF NT!Calls
  <2>2. n \in Nat
    BY SameCount, FS_CardinalityType DEF NT!NativeAssumption
  <2> QED BY <2>1, <2>2, RanOnce
<1>5. nTurn' = [nTurn EXCEPT !.ran = ran]
  BY <1>2
<1> HIDE DEF ran
<1>6. ran \in Seq(Tools)
  <2>1. nTurn.tools \subseteq Tools
    BY <1>1 DEF Answers
  <2> QED BY <1>4, <2>1
<1>7. /\ nTurn' \in Answers /\ nTurn'.ran = ran
      /\ nTurn'.skill = nTurn.skill /\ nTurn'.loads = nTurn.loads /\ nTurn'.live = nTurn.live
      /\ nTurn'.routing = nTurn.routing /\ nTurn'.need = nTurn.need
      /\ nTurn'.inputs = nTurn.inputs /\ nTurn'.reported = nTurn.reported
      /\ nTurn'.reply = nTurn.reply /\ nTurn'.held = nTurn.held /\ nTurn'.last = nTurn.last
      /\ nTurn'.refuted = nTurn.refuted
  BY <1>1, <1>5, <1>6 DEF Answers
<1>8. nPc' = "text" /\ nMode' = nMode /\ nSaved' = nSaved
  BY DEF NT!CallTools, NT!To
<1>9. RepliesRestOnThisTurn'
  <2>1. \A i \in DOMAIN ran : ran[i] \in nTurn.tools
    BY <1>4
  <2>2. NT!ToolsAsAuthorised'
    BY <1>1, <1>4, <1>7, <1>8, <2>1 DEF NT!ToolsAsAuthorised, ToolsNamed
  <2> QED BY <2>2, <1>8, NothingSaidYet
<1>10. /\ InTurn(nTurn') /\ ScriptsSilent(nTurn') /\ DraftAllowed(nTurn')
       /\ EvidenceNeeded(nState', nTurn') /\ ResultFits(nState', nTurn')
  BY <1>1, <1>3, <1>7 DEF InTurn, ScriptsSilent, DraftAllowed, EvidenceNeeded, ResultFits
<1> QED BY <1>3, <1>7, <1>8, <1>9, <1>10 DEF NativeInv, NativeTyped

LEMMA NativeSteps ==
  ASSUME NT!NativeAssumption, NativeInv, [NT!Next]_nVars PROVE NativeInv'
<1>1. CASE UNCHANGED nVars
  BY <1>1 DEF nVars, NativeInv, NativeTyped, ToolsNamed, RepliesRestOnThisTurn,
              NT!Replied, NT!DraftStandsAlone, NT!ResultsAreCurrent, NT!ScriptRepliesHeld,
              NT!EvidenceOfThisTurn, NT!ToolsAsAuthorised
<1>2. ASSUME NEW s \in NativeSkills, NT!Begin(s) PROVE NativeInv'
  BY <1>2, NativeBegin
<1> QED BY <1>1, <1>2, NativeApologise, NativeRecover, NativePlan, NativeCheck, NativeScript,
           NativeReview, NativePreflight, NativeRoute, NativeAnswer, NativeCallTools,
           NativeFinalText, NativeFail DEF NT!Next

\* A reply rests on what happened in its own turn, whatever the Skills, facts, tools and
\* settings of tool_routing.
THEOREM NativeTheorem == NT!Spec => []RepliesRestOnThisTurn
<1>1. NT!NativeAssumption
  BY RepliesAssumption
<1>2. NT!Init => NativeInv
  BY NativeStart
<1>3. NativeInv /\ [NT!Next]_(NT!vars) => NativeInv'
  BY <1>1, NativeSteps DEF nVars, NT!vars
<1>4. NativeInv => RepliesRestOnThisTurn
  BY DEF NativeInv
<1> QED BY <1>2, <1>3, <1>4, PTL DEF NT!Spec
=============================================================================
