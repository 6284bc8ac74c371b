------------------------------ MODULE Questionnaire ------------------------------
(***************************************************************************)
(* The questionnaire of one native Skill                                   *)
(* (runtime_bridge/native_questionnaire.py, the questionnaire parts of     *)
(* runtime_bridge/main_planner.py): a record kept between turns and what   *)
(* one step does to it.  Where the model or a script of the Skill decides, *)
(* an operator is the set of all outcomes the server accepts.              *)
(***************************************************************************)
EXTENDS Integers, FiniteSets

CONSTANTS
  Questions,
  OnSubmit,      \* questions written to the facts when they are submitted,
  OnCompletion,  \* and those written when the Skill completes
  MaxFields,     \* max_fields_per_form
  Complete       \* the script's decision that nothing more is asked

ASSUME QuestionnaireAssumption ==
  /\ OnSubmit \subseteq Questions /\ OnCompletion \subseteq Questions \ OnSubmit
  /\ MaxFields \in Nat \ {0}
  /\ Complete \notin Questions

Questionnaires ==
  [answers : SUBSET Questions,
   made : BOOLEAN,                      \* the dictionary of answers exists
   form : SUBSET Questions,             \* fields of _pending_questionnaire
   script : SUBSET (Questions \cup {Complete}),  \* script_action, ids; {} if none
   reconciled : BOOLEAN,                \* _questionnaire_reconciliation_completed
   deferred : SUBSET OnCompletion]      \* _deferred_questionnaire_promotions

Untouched ==
  [answers |-> {}, made |-> FALSE, form |-> {}, script |-> {},
   reconciled |-> FALSE, deferred |-> {}]

\* The catalogs the server may offer: display conditions, decision tables and page
\* sizes narrow the unanswered questions.
Offers(r) == SUBSET (Questions \ r.answers)

Forms(c) == {b \in SUBSET c : b # {} /\ Cardinality(b) <= MaxFields}

\* The first fields of the catalog, when the answer of the model is of no use.
Fallbacks(c) ==
  {b \in Forms(c) : Cardinality(b) = MaxFields \/ b = c}

-----------------------------------------------------------------------------
(* The answers a user submits.                                             *)

\* The accepted fields A of the pending form; the others stay in it.
Submit(r, A) ==
  [r EXCEPT !.answers = @ \cup A, !.made = TRUE, !.form = @ \ A,
            !.deferred = @ \cup (A \cap OnCompletion)]

Promoted(A) == A \cap OnSubmit

\* flush_deferred_questionnaire_promotions: the facts get r.deferred.
Flush(r) == [r EXCEPT !.deferred = {}]

-----------------------------------------------------------------------------
(* Choosing the next form.                                                 *)

\* The decision script defers or fails, completes, or asks offered questions.
Scripted(r, c) ==
  {r} \cup {[r EXCEPT !.script = s] : s \in {{Complete}} \cup (SUBSET c \ {{}})}

\* Mutant: answers found elsewhere are promised like those of a form.
ReconciledPromises(r, c) ==
  IF r.answers # {} \/ r.reconciled THEN {r}
  ELSE {[r EXCEPT !.answers = A, !.made = TRUE, !.reconciled = TRUE,
                  !.deferred = @ \cup (A \cap OnCompletion)] : A \in SUBSET c}

\* Answers found in facts and earlier messages, once and before the first form.
Reconciled(r, c) ==
  IF r.answers # {} \/ r.reconciled THEN {r}
  ELSE {r} \cup {[r EXCEPT !.answers = A, !.made = TRUE, !.reconciled = TRUE] : A \in SUBSET c}
           \cup {[r EXCEPT !.made = TRUE]}

Outcome(r, b, s) == [q |-> r, block |-> b, stuck |-> s]

Asked(r, c) ==
  LET popped == [r EXCEPT !.script = {}] IN
  {Outcome(popped, b, FALSE) :
     b \in Fallbacks(c) \cup (IF r.script \subseteq c THEN Fallbacks(r.script) ELSE {})}

Completed(r, c) ==
  {Outcome([r EXCEPT !.form = {}, !.script = {}], {}, FALSE)}
    \cup {Outcome(r, b, FALSE) : b \in Fallbacks(c)}

\* Without a script: complete, answer directly, ask, or return no question, which
\* gets the fallback form and is an empty collecting plan.
Planned(r, c) ==
  {Outcome([r EXCEPT !.form = {}], {}, FALSE), Outcome(r, {}, FALSE)}
    \cup {Outcome(r, b, FALSE) : b \in Forms(c)}
    \cup {Outcome(r, b, TRUE) : b \in Fallbacks(c)}

Decide(r, c) ==
  IF c = {} THEN {Outcome(r, {}, FALSE)}
  ELSE IF r.script = {} THEN Planned(r, c)
  ELSE IF r.script = {Complete} THEN Completed(r, c)
  ELSE Asked(r, c)

\* The catalog after the state patch that made r1 of r.
Left(r, r1, c) == IF r1.answers = r.answers THEN {c} ELSE Offers(r1)

\* resolve_questionnaire_continuation.
Resolve(r) ==
  UNION {IF c = {} THEN Decide(r, c)
         ELSE UNION {UNION {Decide(r1, c1) : c1 \in Left(r, r1, c)} : r1 \in Reconciled(r, c)} :
           c \in Offers(r)}

\* A second attempt replaces the first unless it is stuck as well.
Recover(o) ==
  IF ~o.stuck THEN {o}
  ELSE {o} \cup {IF o2.stuck THEN [o2 EXCEPT !.block = o.block] ELSE o2 : o2 \in Resolve(o.q)}

Stage(r, b) == IF b = {} THEN r ELSE [r EXCEPT !.form = b]

Staged(o) == [q |-> Stage(o.q, o.block), block |-> o.block]

\* The lightweight continuation, for a nonempty catalog.
Continue(r) ==
  {Staged(o) : o \in UNION {UNION {UNION {Recover(o1) : o1 \in Resolve(r1)} :
                                     r1 \in Scripted(r, c)} : c \in Offers(r) \ {{}}}}

\* The forms of the full questionnaire reply; {} if it asks nothing.
Replies(r) == {{}} \cup UNION {Forms(c) : c \in Offers(r)}

-----------------------------------------------------------------------------
(* Leaving.                                                                *)

\* A turn works on a copy that shares the nested containers of the saved record:
\* what a failed turn leaves is what it changed inside of one that existed.
Leftover(r0, r) ==
  [r0 EXCEPT !.answers = IF r0.made THEN r.answers ELSE @,
             !.form = IF r.form # {} THEN r.form ELSE @,
             !.deferred = IF @ # {} THEN r.deferred ELSE @]

\* A form of the previous expert is dropped when the expert changes.
Abandon(r) == [r EXCEPT !.form = {}]
=============================================================================
