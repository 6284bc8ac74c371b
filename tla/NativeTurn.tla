------------------------------ MODULE NativeTurn ------------------------------
(***************************************************************************)
(* One answer of a native Skill (runtime_bridge/main_planner.py,           *)
(* _resolve_runtime_reply and what it calls, with the tools of             *)
(* skill_runtime/tools.py), turn after turn of one session.                *)
(*                                                                         *)
(* One model call plans the turn and may already hold a draft of the reply.*)
(* The draft is used only if nothing has to be loaded, run, called or      *)
(* proved first; otherwise scripts run (or their last result is used       *)
(* again), references are injected, tools are called, and a second model   *)
(* call writes the text.  Some of what a turn leaves in the status flags   *)
(* is read by the next: the last script result, the loaded references, the *)
(* evidence of the last preflight, the trace of the last plan.             *)
(*                                                                         *)
(* A turn that fails leaves the flags as they were.  Skills with a form    *)
(* and the staging of progress are PlannerDialogue's.                      *)
(***************************************************************************)
EXTENDS Naturals, Sequences, FiniteSets

CONSTANTS
  Skills,     \* native Skills without a questionnaire
  WithScripts, \* those with a scripts directory
  Ruled,      \* those whose SKILL.md has explicit evidence rules
  Facts,      \* what the facts of the session may say
  Tools,      \* the tools the Skills are capable of
  Looked,     \* those the asset lookup has to recommend for the user's message
  Track, Web, \* the tool that writes facts, and the one a routing can unlock
  Modes,      \* settings of tool_routing: "standalone", "fallback", "closed"
  None        \* no Skill, no value

\* What the constants are; the instances assume it.
NativeAssumption ==
  /\ WithScripts \cup Ruled \subseteq Skills
  /\ Looked \subseteq Tools /\ {Track, Web} \subseteq Tools /\ IsFiniteSet(Tools)
  /\ Modes \subseteq {"standalone", "fallback", "closed"}
  /\ None \notin Skills \cup Facts \cup {"this", "earlier", "draft", "text", "apology"}
  /\ \A routing \in SUBSET Tools : routing # None

VARIABLES
  mode,    \* the setting of this server
  state,   \* the flags and facts of the session, as the turn sees them
  saved,   \* the same, as the session keeps them
  pc,      \* where the turn is
  turn     \* what is local to the turn

vars == <<mode, state, saved, pc, turn>>

NoTrace == [skill |-> None, inputs |-> None, outputs |-> "none", current |-> FALSE]
NoRefs == [skill |-> None, needed |-> FALSE, current |-> FALSE]

\* held and last are the two copies of the draft: the loaded context's, the planner's.
NoTurn ==
  [skill |-> None, followup |-> FALSE, allowed |-> {}, loads |-> {},
   routing |-> None, held |-> FALSE, last |-> FALSE, refuted |-> FALSE,
   need |-> FALSE, inputs |-> None, tools |-> {}, ran |-> <<>>, live |-> FALSE,
   reported |-> None, reply |-> None]

Init ==
  /\ mode \in Modes
  /\ \E f \in Facts :
       state = [facts |-> f, trace |-> NoTrace, cached |-> None, refs |-> NoRefs, evidence |-> None]
  /\ saved = state
  /\ pc = "idle" /\ turn = NoTurn

-----------------------------------------------------------------------------
(* Tools.                                                                  *)

\* build_tool_specs: what the server allows for this message, for which the asset lookup
\* recommends the tools in found; web search also if the turn's routing asks for it.
Allowed(found) == {t \in Tools : t \in Looked => t \in found}

Offered(web) == turn.allowed \cup IF web THEN {Web} ELSE {}

\* _authorize_requested_tool_specs: of those, what a valid plan asked for.
Requested(routing) == Offered(Web \in routing) \cap routing

\* classify_tool_routing, an own model call: whether this turn may search the web.
Classified == {Offered(web) : web \in BOOLEAN}

\* The tools of a turn. A plan whose routing is missing or inconsistent falls back to
\* the classifier or, with the fallback off, to a decision that asks for nothing; in
\* both cases what the server allows is not narrowed to what was asked for.
Authorised ==
  IF mode = "standalone" THEN {turn.allowed}
  ELSE IF turn.routing # None THEN {Requested(turn.routing)}
  ELSE IF mode = "fallback" THEN Classified
  ELSE {Offered(FALSE)}

-----------------------------------------------------------------------------
(* The steps of a turn.                                                    *)

To(label) == pc' = label /\ UNCHANGED <<mode, saved>>

\* What was of this turn is of an earlier one when the next begins.
Aged(st) ==
  [st EXCEPT !.trace.current = FALSE, !.refs.current = FALSE,
             !.evidence = IF @ = None THEN None ELSE "earlier"]

\* Mutant: the evidence of the last preflight is not dropped.
BeginKeepingEvidence(st) == Aged(st)

\* _prepare_ms_agent_native_turn drops evidence that was found and not reported.
Fresh(st) == [Aged(st) EXCEPT !.evidence = None]

\* A message for the active Skill: it may ask for a result that was computed before,
\* and the asset lookup may recommend tools. In standalone mode the classifier is
\* called before the plan.
Begin(s) ==
  /\ pc = "idle"
  /\ \E followup \in BOOLEAN, found \in SUBSET Looked, web \in BOOLEAN :
       /\ web => mode = "standalone"
       /\ turn' = [NoTurn EXCEPT !.skill = s, !.followup = followup,
                      !.allowed = Allowed(found) \cup IF web THEN {Web} ELSE {}]
  /\ state' = Fresh(state)
  /\ To("plan")

Finish(st, reply) ==
  /\ saved' = Aged(st) /\ state' = st /\ pc' = "idle"
  /\ turn' = [turn EXCEPT !.reply = reply]
  /\ UNCHANGED mode

\* ms-agent is not available, or its plan failed for good.
Apologise == pc = "plan" /\ Finish(state, "apology")

\* Mutant: the trace of the last plan stays.
RecoverKeepingTrace(st) == st

\* The plan could not be parsed: the trace says so, what was loaded before stays.
Recovered(st) == [st EXCEPT !.trace = NoTrace]

Recover ==
  /\ pc = "plan"
  /\ state' = Recovered(state) /\ UNCHANGED turn
  /\ To("route")

\* The extractor lets a draft through while it is written, after the plan said that it
\* needs no tool and, where it names its files before the draft (ordered), no file.
LetThrough(draft, loads, ordered, routing) ==
  /\ draft /\ (ordered => loads = {})
  /\ mode # "standalone" => routing = {}

\* Mutant: a Skill with scripts streams its draft too.
StreamsAlways == turn.skill \notin Ruled

\* The draft may go to the user while it is written: not of a Skill with scripts or
\* evidence rules, nor when the classifier already enabled a tool.
Streams ==
  /\ turn.skill \notin WithScripts \cup Ruled
  /\ mode = "standalone" => turn.allowed = {}

\* parse_ms_agent_tool_routing: what a plan may ask for; None is missing or inconsistent.
\* In standalone mode the plan is not asked.
Routings == IF mode = "standalone" THEN {None} ELSE {None} \cup SUBSET Tools

\* Facts the plan took from the user are part of the session's at once.
Promoted(st, f) == [st EXCEPT !.facts = f]

\* run_single_skill_turn: the plan, its draft and the files it loads. A failed call is
\* an empty plan without routing. Confirmed facts are promoted at once.
Plan ==
  /\ pc = "plan"
  /\ \E loads \in SUBSET ({"references"} \cup IF turn.skill \in WithScripts THEN {"scripts"} ELSE {}),
        routing \in Routings, draft \in BOOLEAN, ordered \in BOOLEAN, f \in Facts :
       /\ turn' = [turn EXCEPT !.loads = loads, !.routing = routing, !.held = draft, !.last = draft,
                               !.live = Streams /\ LetThrough(draft, loads, ordered, routing)]
       /\ state' = Promoted(state, f)
  /\ To("check")

\* Mutant: the planner's copy of the draft is kept.
DroppedHalf(t) == [t EXCEPT !.held = FALSE]

\* A draft that may not be used is dropped in both places.
Dropped(t) == [t EXCEPT !.held = FALSE, !.last = FALSE]

\* _apply_reference_plan_consistency_guard: a parameter of the plan may contradict what
\* a loaded reference says.
Clashes == {clash \in BOOLEAN : clash => "references" \in turn.loads}

\* asks: the patch lists a resolved topic as pending, or the draft asks an answered
\* question.
Check ==
  /\ pc = "check"
  /\ \E clash \in Clashes, asks \in BOOLEAN :
       LET t == [turn EXCEPT !.refuted = clash \/ asks, !.followup = @ /\ "scripts" \in turn.loads] IN
       turn' = IF t.refuted THEN Dropped(t) ELSE t
  /\ UNCHANGED state
  /\ To(IF "scripts" \in turn.loads THEN "scripts" ELSE "review")

\* The sandbox runs the scripts on the facts; one success is kept for reuse.
Executed(outputs) ==
  [state EXCEPT
     !.trace = [skill |-> turn.skill, inputs |-> state.facts, outputs |-> outputs, current |-> TRUE],
     !.cached = IF outputs = "ok" THEN [skill |-> turn.skill, inputs |-> state.facts] ELSE @]

Execute ==
  /\ pc = "scripts"
  /\ \E outputs \in {"none", "ok", "failed"} : state' = Executed(outputs)
  /\ turn' = [turn EXCEPT !.inputs = state.facts, !.followup = FALSE]
  /\ To("review")

\* Mutant: the fingerprint leaves the facts out.
FingerprintOfSkill(cached) == cached # None /\ cached.skill = turn.skill

\* _script_result_fingerprint: the Skill and the facts, not the scripts or parameters.
SameInputs(cached) ==
  cached # None /\ cached = [skill |-> turn.skill, inputs |-> state.facts]

\* A follow-up on unchanged inputs gets the last result.
Reuse ==
  /\ pc = "scripts" /\ turn.followup /\ SameInputs(state.cached)
  /\ state' = [state EXCEPT !.trace = [skill |-> turn.skill, inputs |-> state.cached.inputs,
                                       outputs |-> "ok", current |-> TRUE]]
  /\ turn' = [turn EXCEPT !.inputs = state.facts, !.followup = FALSE]
  /\ To("review")

\* Scripts are not run again for a follow-up on unchanged inputs.
Script == Reuse \/ (~(turn.followup /\ SameInputs(state.cached)) /\ Execute)

\* The flags of this turn's plan: its trace and its references.
Noted(st) ==
  [st EXCEPT !.trace = IF "scripts" \in turn.loads THEN @
                       ELSE [skill |-> turn.skill, inputs |-> None, outputs |-> "none", current |-> TRUE],
             !.refs = [skill |-> turn.skill, needed |-> FALSE, current |-> TRUE]]

Draft == turn.held \/ turn.last

\* No preflight: no draft, no evidence rules, or not a sensitive turn.
Review ==
  /\ pc = "review"
  /\ state' = Noted(state) /\ UNCHANGED turn
  /\ To("route")

\* Mutant: the references in the flags are not refreshed after the injection.
InjectedUnseen(st) == [st EXCEPT !.evidence = "this"]

\* The required references are among the loaded ones, which the prompt reads.
Injected(st) == [st EXCEPT !.evidence = "this", !.refs.needed = TRUE]

\* _reference_preflight asks whether the draft needs a reference. Found and injected,
\* it replaces the draft; required and not found, or a preflight that fails or takes
\* too long, releases the draft. What is injected may contradict the plan.
Preflight ==
  /\ pc = "review" /\ Draft /\ turn.skill \in Ruled
  /\ \/ /\ turn' = [Dropped(turn) EXCEPT !.need = TRUE]
        /\ state' = Injected(Noted(state))
     \/ /\ state' = Noted(state)
        /\ \E clash \in BOOLEAN :
             turn' = IF clash THEN [Dropped(turn) EXCEPT !.refuted = TRUE] ELSE turn
  /\ To("route")

\* The draft is the reply if nothing was loaded and no tool is enabled. Otherwise what
\* the turn knew of its draft is of no use any more.
Route ==
  /\ pc = "route"
  /\ \E tools \in Authorised :
       LET t == [turn EXCEPT !.tools = tools] IN
       IF Draft /\ turn.loads = {} /\ tools = {}
       THEN /\ turn' = [t EXCEPT !.reply = "draft", !.reported = state.evidence]
            /\ state' = [state EXCEPT !.evidence = None]
            /\ saved' = Aged(state') /\ pc' = "idle" /\ UNCHANGED mode
       ELSE /\ turn' = [Dropped(t) EXCEPT !.allowed = {}, !.refuted = FALSE]
            /\ UNCHANGED state /\ To(IF tools = {} THEN "text" ELSE "tools")

\* complete_with_tools answers instead of calling a tool: nothing is checked, and
\* evidence is not reported.
AnswerWithoutTool == pc = "tools" /\ Finish(state, "text")

\* Calls of one answer, at most as many as the tools, but one may come twice.
Calls == UNION {[1..n -> Tools] : n \in 1..Cardinality(Tools)}

\* Mutant: a tool may run again in the same turn.
RanAgain(calls) == SelectSeq(calls, LAMBDA t : t \in turn.tools)

\* A call that is not authorised, empty, or of a tool that was already called is
\* answered with an error. A call without arguments is empty, but for the tracker's.
Ran(calls) ==
  LET first(i) == calls[i] \in turn.tools /\ \A j \in 1..(i - 1) : calls[j] # calls[i]
      chosen == {i \in DOMAIN calls : first(i)} IN
  [k \in 1..Cardinality(chosen) |->
     calls[CHOOSE i \in chosen : Cardinality({j \in chosen : j <= i}) = k]]

\* The status tracker's script answers with facts, which are merged into the session's;
\* a script that fails or answers something else changes nothing.
Tracked(ran) == IF \E i \in DOMAIN ran : ran[i] = Track THEN Facts ELSE {state.facts}

\* execute_tool_call for each call that may run. After one round of tools the text is
\* written without tools.
CallTools ==
  /\ pc = "tools"
  /\ \E calls \in Calls : \E f \in Tracked(Ran(calls)) :
       /\ turn' = [turn EXCEPT !.ran = Ran(calls)]
       /\ state' = [state EXCEPT !.facts = f]
  /\ To("text")

\* _reply_progress_contract: after a successful script always, else by the message.
Risks == IF state.trace.outputs = "ok" THEN {TRUE} ELSE BOOLEAN

\* _stream_runtime_final_text: the text is held back and checked when it is at risk,
\* held back when scripts ran, and else streamed. An empty one is asked for again.
FinalText ==
  /\ pc = "text"
  /\ \E risk \in Risks, empty \in BOOLEAN :
       /\ turn' = [turn EXCEPT
            !.reply = "text", !.reported = state.evidence,
            !.live = @ \/ (~risk /\ ~empty /\ state.trace.outputs = "none")]
       /\ state' = [state EXCEPT !.evidence = None]
  /\ saved' = Aged(state') /\ pc' = "idle" /\ UNCHANGED mode

\* A model call fails, or the turn is cancelled: its flags are lost.
Fail ==
  /\ pc \in {"tools", "text"}
  /\ state' = saved /\ pc' = "idle"
  /\ turn' = [NoTurn EXCEPT !.live = turn.live]
  /\ UNCHANGED <<mode, saved>>

Next ==
  \/ \E s \in Skills : Begin(s)
  \/ Apologise \/ Recover \/ Plan \/ Check \/ Script \/ Review \/ Preflight
  \/ Route \/ AnswerWithoutTool \/ CallTools \/ FinalText \/ Fail

Spec == Init /\ [][Next]_vars

-----------------------------------------------------------------------------
(* Properties.                                                             *)

Replied == pc = "idle" /\ turn.reply \in {"draft", "text"}

\* The plan's draft is the reply only if the plan loaded nothing, no tool was enabled,
\* no reference was required and found, and neither the references nor what the user
\* already answered contradict it.
DraftStandsAlone ==
  Replied /\ turn.reply = "draft"
    => turn.loads = {} /\ turn.tools = {} /\ ~turn.need /\ ~turn.refuted

\* A reply that may present a script's result has one of this turn's Skill on the
\* facts of this turn, be it computed now or used again; never that of another Skill,
\* of facts that changed or of a turn whose plan asked for no script.
ResultsAreCurrent ==
  Replied /\ state.trace.outputs # "none"
    => /\ state.trace.current /\ "scripts" \in turn.loads
       /\ state.trace.skill = turn.skill /\ state.trace.inputs = turn.inputs

\* A reply that rests on a script is not shown while it is written.
ScriptRepliesHeld ==
  Replied /\ state.trace.outputs # "none" => ~turn.live

\* A reply that is reported as evidenced was written after a preflight of the same
\* turn, with the references it required in the prompt; it is never the draft.
EvidenceOfThisTurn ==
  Replied /\ turn.reported # None
    => /\ turn.reported = "this" /\ turn.need /\ turn.reply = "text"
       /\ state.refs = [skill |-> turn.skill, needed |-> TRUE, current |-> TRUE]

\* A tool runs at most once in a turn, and one that a valid plan did not name does not.
ToolsAsAuthorised ==
  /\ \A i, j \in DOMAIN turn.ran : turn.ran[i] = turn.ran[j] => i = j
  /\ mode # "standalone" /\ turn.routing # None
       => \A i \in DOMAIN turn.ran : turn.ran[i] \in turn.routing
=============================================================================
