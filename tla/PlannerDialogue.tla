----------------------------- MODULE PlannerDialogue -----------------------------
(***************************************************************************)
(* One session in the main planner (runtime_bridge/main_planner.py,        *)
(* runtime_bridge/question_progress.py, transitions of                     *)
(* core/streaming_runner.py and core/context.py).                          *)
(*                                                                         *)
(* A turn loads a working copy of the saved state, takes the answers to    *)
(* the pending form, routes to a Skill, produces a reply along one of      *)
(* several paths, checks it, stages what it wants to keep and publishes.   *)
(* A model call that fails ends the turn on the way.  The turns of a       *)
(* session are serial (TurnCoordinator); configuration changes are not.    *)
(***************************************************************************)
EXTENDS Questionnaire

CONSTANTS
  Skills,
  Asking,        \* native Skills with a questionnaire
  Native,        \* native Skills: a planner patch may stage progress
  Authorized,    \* what the session's expert may pick
  Registries,    \* the sets of Skills that configurations enable
  General, Career, Junior, Senior,   \* Skills with a part of their own
  Direct,        \* EXPERT_DIRECT_EXECUTION_ID, which is no Skill
  None,
  MaxMessages    \* bound on the messages of a session

MultiPath == {Junior, Senior}

\* What a choice leads to: the school stage decides between the multi-path Skills.
Leads(s) == IF s \in MultiPath THEN MultiPath ELSE ({s} \cap Skills) \ {General, Career}

ASSUME PlannerAssumption ==
  /\ {General, Career, Junior, Senior} \subseteq Skills
  /\ {General, Career} \cap MultiPath = {}
  /\ Asking \subseteq Native \ {General, Career} /\ Native \subseteq Skills
  /\ Authorized \subseteq Skills
  /\ Registries \subseteq {s \in SUBSET Skills : General \in s} /\ Registries # {}
  /\ MaxMessages \in Nat
  /\ Direct \notin Skills /\ None \notin Skills \cup {Direct}

VARIABLES
  registry,  \* the enabled Skills
  saved,     \* the state kept in the session
  state,     \* the working copy of a turn
  facts,     \* questions whose answers were written to the facts
  meta,      \* hints in session_meta: the requested Skill, the one entered ahead of
             \* its turn, and where from
  pc,        \* where the turn is
  turn,      \* what the turn has noted
  kept,      \* the turn that ended last is in the conversation memory
  messages,  \* how many messages the user has sent
  chosen,    \* history: specialists the user or the expert chose since the last exit
  shown      \* history: fields of the forms the user was shown, by Skill

vars == <<registry, saved, state, facts, meta, pc, turn, kept, messages, chosen, shown>>

Fresh(s) ==
  [active |-> s,         \* None once an expert change ended it
   gate |-> FALSE,       \* awaiting_school_stage_for_multi_path
   explicit |-> FALSE,   \* Career was entered on purpose, from elsewhere
   outcome |-> None,     \* _reply_progress_outcome: the Skill of a refused reply
   patch |-> {},         \* Skills with a _pending_skill_progress_transaction
   progress |-> {},      \* Skills with committed progress
   q |-> [k \in Asking |-> Untouched]]

NoHint == [req |-> None, pre |-> None, from |-> None]
NoTurn == [pick |-> None, direct |-> FALSE, submitted |-> FALSE, entry |-> FALSE,
           refused |-> None, block |-> {}]

Init ==
  /\ registry \in Registries
  /\ saved = Fresh(General) /\ state = saved
  /\ facts = {}
  /\ meta = NoHint
  /\ pc = "idle" /\ turn = NoTurn
  /\ kept = FALSE
  /\ messages = 0
  /\ chosen = {}
  /\ shown = [k \in Asking |-> {}]

Goto(p) == pc' = p
Note(n) == turn' = n
RegistryStays == UNCHANGED <<registry, messages, chosen, shown>>

-----------------------------------------------------------------------------
(* Between turns: what the user, the expert and the configuration do.      *)

\* The next turn is served by a process that started from another configuration.
Redeploy ==
  /\ pc = "idle"
  /\ registry' \in Registries \ {registry}
  /\ UNCHANGED <<saved, state, facts, meta, pc, turn, kept, messages, chosen, shown>>

Save(st) == saved' = st /\ state' = st

\* Mutant: the hints for the next route survive.
ExitKeepsHints ==
  /\ pc = "idle"
  /\ Save(Fresh(General))
  /\ chosen' = {}
  /\ UNCHANGED <<registry, facts, meta, pc, turn, kept, messages, shown>>

\* The user leaves the Skill: the planner state is discarded, the facts stay.
Exit ==
  /\ pc = "idle"
  /\ Save(Fresh(General))
  /\ meta' = NoHint
  /\ chosen' = {}
  /\ UNCHANGED <<registry, facts, pc, turn, kept, messages, shown>>

Begin(n) ==
  /\ messages < MaxMessages
  /\ messages' = messages + 1
  /\ Goto("load") /\ Note(n)
  /\ kept' = FALSE

\* A transition enters an enabled Skill before its turn starts, either with the
\* facts only or with the messages and the planner state.
Enter(s, factsOnly) ==
  /\ pc = "idle" /\ s \in registry
  /\ Save([IF factsOnly THEN Fresh(s) ELSE saved EXCEPT !.active = s])
  /\ meta' = [req |-> s, pre |-> s, from |-> saved.active]
  /\ chosen' = IF factsOnly THEN Leads(s) ELSE chosen \cup Leads(s)
  /\ Begin(NoTurn)
  /\ UNCHANGED <<registry, facts, shown>>

\* A message that names a Skill, enabled or not, and leaves entering it to the route.
Request(s) ==
  /\ pc = "idle"
  /\ meta' = [meta EXCEPT !.req = s]
  /\ chosen' = chosen \cup Leads(s)
  /\ Begin(NoTurn)
  /\ UNCHANGED <<registry, saved, state, facts, shown>>

\* The expert has picked a Skill, has answered itself, or there is none.
Say(pick, direct) ==
  /\ pc = "idle"
  /\ chosen' = chosen \cup (IF pick \in Authorized THEN Leads(pick) ELSE {})
  /\ Begin([NoTurn EXCEPT !.pick = pick, !.direct = direct])
  /\ UNCHANGED <<registry, saved, state, facts, meta, shown>>

\* Another expert or team, or none: its forms go, and a Skill it had entered.
ChangeExpert(s) ==
  /\ pc = "idle"
  /\ Save([saved EXCEPT !.active = s, !.q = [k \in Asking |-> Abandon(saved.q[k])]])
  /\ UNCHANGED <<registry, facts, meta, pc, turn, kept, messages, chosen, shown>>

-----------------------------------------------------------------------------
(* Ending a turn.                                                          *)

\* _append_turn_memory: not after a reply of the active Skill that was refused.
Remembered(st) == st.outcome # st.active

End(st) ==
  /\ Save(st)
  /\ kept' = Remembered(st)
  /\ Goto("idle") /\ Note(NoTurn)

\* attach_staged_questionnaire_form, _persist_runtime_state, _append_turn_memory.
Publish ==
  /\ pc = "publish"
  /\ End(state)
  /\ shown' = [k \in Asking |-> IF k = state.active THEN shown[k] \cup turn.block ELSE shown[k]]
  /\ UNCHANGED <<registry, facts, meta, messages, chosen>>

\* The moderation of the input raises before the state is loaded; the hints stay.
Block ==
  /\ pc = "load" /\ turn = NoTurn
  /\ Save(saved)
  /\ Goto("idle") /\ Note(NoTurn)
  /\ UNCHANGED <<registry, facts, meta, kept, messages, chosen, shown>>

\* A model call raised: the session is saved, with what is in shared containers.
Leavings ==
  [saved EXCEPT !.q = [k \in Asking |-> Leftover(saved.q[k], state.q[k])],
                !.patch = IF @ # {} THEN state.patch ELSE @]

Fail ==
  /\ pc \in {"runtime", "draft"}
  /\ Save(Leavings)
  /\ Goto("idle") /\ Note(NoTurn)
  /\ UNCHANGED <<registry, facts, meta, kept, messages, chosen, shown>>

-----------------------------------------------------------------------------
(* Loading, and the answers to a form.                                     *)

\* The expert has answered: no Skill takes part.
DirectReply ==
  /\ pc = "load" /\ turn.direct
  /\ End([saved EXCEPT !.active = Direct])
  /\ UNCHANGED <<registry, facts, meta, messages, chosen, shown>>

\* A Skill that is gone falls back to the general chat, a form stays unanswered.
Load ==
  /\ pc = "load" /\ ~turn.direct
  /\ \/ /\ saved.active \notin registry
        /\ state' = [saved EXCEPT !.active = General]
        /\ UNCHANGED <<facts, turn>>
     \/ /\ saved.active \in registry \ Asking
        /\ UNCHANGED <<state, facts, turn>>
     \/ /\ saved.active \in registry \cap Asking
        /\ \E A \in SUBSET saved.q[saved.active].form :
             /\ state' = IF A = {} THEN saved
                         ELSE [saved EXCEPT !.q[saved.active] = Submit(@, A)]
             /\ facts' = facts \cup Promoted(A)
             /\ turn' = [turn EXCEPT !.submitted = A # {}]
  /\ Goto("route")
  /\ UNCHANGED <<saved, meta, kept>> /\ RegistryStays

-----------------------------------------------------------------------------
(* Routing.                                                                *)

\* _split_multi_path_skill_by_stage: the school stage, read from the facts and
\* the messages, is unknown, junior or senior.
Split(st) ==
  IF st.active # Junior THEN {[st EXCEPT !.gate = FALSE]}
  ELSE {[st EXCEPT !.gate = TRUE], [st EXCEPT !.gate = FALSE],
        IF Senior \in registry THEN [st EXCEPT !.gate = FALSE, !.active = Senior] ELSE st}

Entered(st, s, from) ==
  [st EXCEPT !.active = s, !.explicit = (s = Career /\ from \notin {None, Career})]

Planning == Career \in registry   \* the main planner is enabled

\* _respond_need_grade_for_multi_path takes the place of the reply.
Replying(st) == Goto(IF st.gate THEN "publish" ELSE "reply")

To(st, hint, entry) ==
  /\ \E st1 \in Split(st) :
       /\ state' = st1
       /\ Note([turn EXCEPT !.pick = None,
                            !.entry = entry /\ st1.active = st.active /\ st.active # General])
  /\ meta' = hint
  /\ Replying(state')
  /\ UNCHANGED <<saved, facts, kept>> /\ RegistryStays

Picked == turn.pick \in Authorized \cap registry

\* The pick of an expert, if it is authorized; what the user requested waits.
RoutePick ==
  /\ pc = "route" /\ Picked
  /\ To([state EXCEPT !.active = turn.pick], meta,
        turn.pick # state.active /\ turn.pick # Career)

\* Without the planner an enabled specialist goes on.
RouteDisabled ==
  /\ pc = "route" /\ turn.pick = None /\ ~Planning
  /\ state' = [state EXCEPT !.active = IF @ \in registry \ {Career} THEN @ ELSE General]
  /\ Replying(state)
  /\ UNCHANGED <<saved, facts, meta, turn, kept>> /\ RegistryStays

Routing == pc = "route" /\ ~Picked /\ (Planning \/ turn.pick # None)

\* _apply_requested_target_skill_if_present, for a Skill that is active already
\* or is switched to.
RouteRequested ==
  /\ Routing /\ meta.req # None
  /\ \/ /\ meta.req = state.active
        /\ IF meta.pre = meta.req /\ meta.from # meta.req
           THEN To(Entered(state, meta.req, meta.from), NoHint, TRUE)
           ELSE To(state, NoHint, FALSE)
     \/ /\ meta.req \in registry \ {state.active}
        /\ To(Entered(state, meta.req, state.active), NoHint, TRUE)

Unrequested == Routing /\ (meta.req = None \/ meta.req \notin registry \cup {state.active})

\* The answer to the question for the school stage.
RouteGated ==
  /\ Unrequested /\ state.gate /\ state.active # General
  /\ To([state EXCEPT !.active = Senior], NoHint, FALSE)

\* The general chat only suggests, and a specialist Skill stays until it is left;
\* from the planner itself a message without a plan goes to the general chat,
\* unless the user entered it on purpose.
RouteGeneral ==
  /\ Unrequested /\ state.active = General
  /\ Replying(state) /\ meta' = NoHint
  /\ Note([turn EXCEPT !.pick = None])
  /\ UNCHANGED <<saved, state, facts, kept>> /\ RegistryStays

RouteText ==
  /\ Unrequested /\ ~state.gate /\ state.active # General
  /\ \E s \in {state.active} \cup (IF state.active = Career /\ ~state.explicit THEN {General} ELSE {}) :
       To([state EXCEPT !.active = s], NoHint, FALSE)

-----------------------------------------------------------------------------
(* Replying.                                                               *)

\* Configuration by which a Skill speaks; the planner's own if it is not enabled.
Speaker == IF state.active \in registry THEN state.active ELSE Career

Finish(st, b, refused) ==
  /\ state' = st
  /\ Note([turn EXCEPT !.block = b, !.refused = refused])
  /\ Goto("publish")
  /\ UNCHANGED <<saved, meta, kept>> /\ RegistryStays

Canned == Finish(state, {}, None) /\ UNCHANGED facts

\* _run_hailiang_fallback: the general chat without a planner.
Fallback ==
  /\ pc = "reply" /\ state.active = General /\ ~Planning
  /\ Canned

Asks == Speaker \in Asking /\ (turn.submitted \/ state.q[Speaker].form = {})

\* _resolve_lightweight_questionnaire, by the Skill's own planner.
Lightweight ==
  /\ pc = "reply" /\ Asks
  /\ \E o \in Continue(state.q[Speaker]) :
       Finish([state EXCEPT !.q[Speaker] = o.q], o.block, None)
  /\ UNCHANGED facts

\* _resolve_lightweight_skill_entry: the first words of a Skill just entered.
EntryReply ==
  /\ pc = "reply" /\ ~Asks /\ turn.entry
  /\ Canned

\* A questionnaire may have nothing to ask.
Compose ==
  /\ pc = "reply" /\ (Asks \/ ~turn.entry) /\ (state.active # General \/ Planning)
  /\ Goto("runtime")
  /\ UNCHANGED <<saved, state, facts, meta, turn, kept>> /\ RegistryStays

\* There is no model client, ms-agent is not available or its plan failed.
Apologise ==
  /\ pc = "runtime"
  /\ Canned

\* _prepare_ms_agent_native_turn: the plan of a native Skill may stage progress.
Plan ==
  /\ pc = "runtime"
  /\ \E staged \in SUBSET ({Speaker} \cap Native) : state' = [state EXCEPT !.patch = @ \cup staged]
  /\ Goto("draft")
  /\ UNCHANGED <<saved, facts, meta, turn, kept>> /\ RegistryStays

\* _finalize_skill_progress: commit or discard what is staged.
Finalized(st, accepted) ==
  [st EXCEPT !.patch = @ \ {Speaker},
             !.progress = IF accepted THEN @ \cup (st.patch \cap {Speaker}) ELSE @]

\* Mutant: the degraded answer leaves no outcome.
GuardedSilently(accepted) == [state EXCEPT !.outcome = IF accepted THEN None ELSE @]

\* _guard_final_reply_progress accepts the draft or its second version, or answers
\* that no result was produced.
Guarded(accepted) == [state EXCEPT !.outcome = IF accepted THEN None ELSE Speaker]

\* _reply_progress_contract: a reply is buffered and guarded if it is at risk, after a
\* script, a short message, or one that answers a question the Skill asked in prose.
Risks == BOOLEAN

\* _evaluate_reply_progress of the draft or, if that fails, of its second version.
Verdicts == BOOLEAN

Refusal(accepted) == IF accepted THEN None ELSE Speaker

\* The full reply of a Skill with a questionnaire shows a form, or none: then it is
\* guarded if at risk, and the promised answers are written whatever the verdict.
Answer ==
  /\ pc = "draft" /\ Speaker \in Asking
  /\ LET r == state.q[Speaker]
         Flushed(st) == [st EXCEPT !.q[Speaker] = Flush(r)] IN
     \/ /\ \E b \in Replies(r) \ {{}} :
             Finish([Finalized(state, TRUE) EXCEPT !.q[Speaker] = Stage(r, b)], b, None)
        /\ UNCHANGED facts
     \/ /\ \E risk \in Risks, accepted \in Verdicts :
             IF risk THEN Finish(Flushed(Finalized(Guarded(accepted), accepted)), {}, Refusal(accepted))
             ELSE Finish(Flushed(Finalized(state, TRUE)), {}, None)
        /\ facts' = facts \cup r.deferred

\* A reply that came with the plan, instead of a tool call, after too many of them
\* or from a second call for an empty stream: nothing is checked or finalized.
Unchecked ==
  /\ pc = "draft" /\ Speaker \notin Asking
  /\ Canned

\* _stream_runtime_final_text: buffered and guarded, or streamed if not at risk.
FinalText ==
  /\ pc = "draft" /\ Speaker \notin Asking
  /\ \E risk \in Risks, accepted \in Verdicts :
       IF risk THEN Finish(Finalized(Guarded(accepted), accepted), {}, Refusal(accepted))
       ELSE Finish(Finalized(state, TRUE), {}, None)
  /\ UNCHANGED facts

Next ==
  \/ Redeploy \/ Exit
  \/ \E s \in Skills : Enter(s, TRUE) \/ Enter(s, FALSE) \/ Request(s) \/ Say(s, FALSE)
  \/ Say(None, FALSE) \/ Say(None, TRUE)
  \/ \E s \in {General, Career, None} : ChangeExpert(s)
  \/ Block \/ DirectReply \/ Load \/ Fail
  \/ RoutePick \/ RouteDisabled \/ RouteRequested \/ RouteGated \/ RouteGeneral \/ RouteText
  \/ Fallback \/ Lightweight \/ EntryReply \/ Compose
  \/ Apologise \/ Plan \/ Answer \/ Unchecked \/ FinalText \/ Publish

Spec == Init /\ [][Next]_vars

-----------------------------------------------------------------------------
(* Properties.                                                             *)

States ==
  [active : Skills \cup {Direct, None}, gate : BOOLEAN, explicit : BOOLEAN,
   outcome : Skills \cup {None}, patch : SUBSET Native, progress : SUBSET Native,
   q : [Asking -> Questionnaires]]

Hints == [req : Skills \cup {None}, pre : Skills \cup {None}, from : Skills \cup {Direct, None}]

Turns ==
  [pick : Skills \cup {None}, direct : BOOLEAN, submitted : BOOLEAN, entry : BOOLEAN,
   refused : Skills \cup {None}, block : SUBSET Questions]

\* The variables have their types, and between turns there is no working copy of
\* its own and nothing noted.
TypeOK ==
  /\ registry \in Registries
  /\ saved \in States /\ state \in States
  /\ facts \subseteq Questions
  /\ meta \in Hints
  /\ pc \in {"idle", "load", "route", "reply", "runtime", "draft", "publish"}
  /\ turn \in Turns
  /\ pc = "idle" => state = saved /\ turn = NoTurn
  /\ kept \in BOOLEAN /\ messages \in 0..MaxMessages /\ chosen \subseteq Skills
  /\ shown \in [Asking -> SUBSET Questions]

\* A session is only in a specialist Skill that the user, or the expert within its
\* authority, chose since the last exit; the two multi-path Skills count as one.
\* No text, left-over hint, failed turn, gate or configuration moves it elsewhere.
ChosenSkill ==
  saved.active \in {General, Career, Direct, None} \cup chosen

\* A reply of the active Skill that the guard refused is not added to the memory,
\* and no progress that was staged, in this turn or an earlier one, comes with it.
RefusedLeavesNoTrace ==
  pc = "publish" /\ pc' = "idle" /\ turn.refused = state.active
    => ~kept' /\ saved'.progress = saved.progress

RefusalsLeaveNoTrace == [][RefusedLeavesNoTrace]_vars

\* What the session waits for, promised to write or has written to the facts was a
\* field of a form the user was shown: also after a turn that failed half-way.
FormsAreShown ==
  /\ TypeOK
  /\ \A k \in Asking : saved.q[k].form \cup saved.q[k].deferred \subseteq shown[k]
  /\ facts \subseteq UNION {shown[k] : k \in Asking}
=============================================================================
