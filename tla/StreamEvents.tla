---------------------------- MODULE StreamEvents ----------------------------
(***************************************************************************)
(* What the client of one streamed run sees: SseEnvelopeBuilder of          *)
(* core/sse_protocol.py folds the runtime's events into one state and sends *)
(* the whole state as a numbered frame whenever an event changed it.        *)
(*                                                                          *)
(* The events come from four places of core/streaming_runner.py: the head   *)
(* of stream_message, the worker, the thread that simulates progress and    *)
(* the finalizer of a stopped run.  Entering a Skill is a run with one more *)
(* opening event; leaving one is a run of three frames without worker or    *)
(* queue.                                                                   *)
(*                                                                          *)
(* Texts are sequences of parts; a form, path options and Skill rooms are   *)
(* kept by their presence, a timeline by its steps and its end.  The        *)
(* number of a frame counts the changes of the view and is left out; the    *)
(* queue to the client may at any push turn out to be full.                 *)
(***************************************************************************)
EXTENDS Naturals, Sequences

CONSTANTS
  MaxParts,    \* bound: parts of the answer that are streamed
  LabelOf      \* the runtime's own progress stages, and the label of each

VARIABLES
  kind,        \* "chat", "enter" or "exit"
  view,        \* SseEnvelopeBuilder.state
  wpc, ppc, ipc, spc,      \* worker, progress thread, iterator, stop request
  summary,     \* how far emit_summary_before_body has come
  quiet,       \* progress_stop
  live,        \* active_stream_generation is this run
  current,     \* the coordinator's generation is this run
  cancelled,   \* the coordinator's cancellation mark is this run
  finalized,   \* cancelled_finalized
  streamed,    \* streamed_reply_parts
  message,     \* the turn's assistant message in the worker's copy
  stored,      \* ... and in the session row
  fresh        \* that copy has the row's version

threads == <<wpc, ppc, ipc, spc>>
progress == <<summary, quiet>>
owner == <<live, current, cancelled>>
turn == <<finalized, streamed, message>>
storage == <<stored, fresh>>
vars == <<kind, view, threads, progress, owner, turn, storage>>

-----------------------------------------------------------------------------
(* empty_message_state and the messages of the history *)

Blank == [status |-> "streaming", text |-> <<>>, thinking |-> "none", steps |-> {},
          cards |-> {}, handoff |-> FALSE, skill |-> "initial",
          risk |-> "idle", error |-> FALSE]

\* SseEnvelopeBuilder.presentation: what is stored with the message.
Presentation(v) == [text |-> v.text, cards |-> v.cards]
NoPresentation == Presentation(Blank)
NoMessage == [text |-> <<>>, partial |-> FALSE, cards |-> {}, presentation |-> NoPresentation]

\* presentation_from_message, for the latest message of a history.
Reload(m) == IF m.presentation # NoPresentation THEN m.presentation
             ELSE [text |-> m.text, cards |-> m.cards]

-----------------------------------------------------------------------------
(* SseEnvelopeBuilder._apply *)

Began(v) == [v EXCEPT !.status = "streaming", !.text = <<>>, !.risk = "checking",
                      !.error = FALSE]

\* A stage keeps the first label it was shown with; a label belongs to one.
Own == [intent |-> "intent", facts |-> "facts", materials |-> "materials", summary |-> "summary"]
Label(stage) == IF stage \in DOMAIN Own THEN Own[stage] ELSE LabelOf[stage]
Duplicate(steps, stage) == \E s \in steps \ {stage} : Label(s) = Label(stage)

\* Mutant: a status that comes late starts the finished timeline again.
ProgressedLate(v, stage) ==
  IF Duplicate(v.steps, stage) THEN v
  ELSE [v EXCEPT !.thinking = "streaming", !.steps = @ \cup {stage}]

\* synthetic_progress and skill_status
Progressed(v, stage) ==
  IF v.thinking = "completed" \/ Duplicate(v.steps, stage) THEN v
  ELSE [v EXCEPT !.thinking = "streaming", !.steps = @ \cup {stage}]

\* progress_completed
Thought(v) ==
  IF v.thinking = "none" THEN v ELSE [v EXCEPT !.thinking = "completed"]

\* final_text_delta; main_content_end
Spoken(v, part) == [v EXCEPT !.text = Append(@, part)]
Said(v, text) == [v EXCEPT !.text = IF text = <<>> THEN @ ELSE text]

\* skill_context, skill_intro and skill_transition
InSkill(v, skill) == [v EXCEPT !.skill = skill]
Farewell == <<"you have left">>
Left(v) == [v EXCEPT !.skill = "general", !.text = Farewell]

\* skill_action; final_message; team_handoff; security
Acted(v, cards, handoff) == [v EXCEPT !.cards = cards, !.handoff = handoff]
Delivered(v, text, cards, handoff) ==
  [Said(v, text) EXCEPT !.cards = (@ \ {"paths"}) \cup (cards \cap {"paths"}), !.handoff = handoff]
Offered(v) == [v EXCEPT !.handoff = TRUE]
Risk(v, status) == [v EXCEPT !.risk = status]

\* moderation_blocked
Advice == <<"advice">>
BlockedView(v) == [v EXCEPT !.status = "blocked", !.text = Advice, !.cards = {},
                            !.handoff = FALSE, !.risk = "blocked"]

\* Mutant: a stopped run takes back what had been streamed.
StoppedWithPartial(v) == [v EXCEPT !.status = "stopped", !.text = streamed]

\* run_cancelled
Stopped(v) == [v EXCEPT !.status = "stopped"]

\* model_error; run_failed; run_completed
Noted(v) == [v EXCEPT !.error = TRUE]
Failed(v) == [v EXCEPT !.error = TRUE, !.status = "failed"]
Closed(v, status) == [v EXCEPT !.status = status]

-----------------------------------------------------------------------------
Init ==
  /\ kind \in {"chat", "enter", "exit"}
  /\ view = Blank
  /\ wpc = "open" /\ ppc = "none" /\ ipc = "none" /\ spc = "none"
  /\ summary = "none" /\ quiet = FALSE
  /\ live = TRUE /\ current = TRUE /\ cancelled = FALSE /\ finalized = FALSE
  /\ streamed = <<>> /\ message = NoMessage /\ stored = NoMessage
  /\ fresh = TRUE

\* push and encode_with_metadata: nothing unless the stream is current, no
\* frame without a change.  A frame the queue has no room for within a second
\* is lost, and so is every later one.
IsCurrent == live /\ current

Push(new) ==
  IF ~IsCurrent THEN UNCHANGED <<view, live>>
  ELSE view' = new /\ live' \in {TRUE, new = view}

\* push_status
PushStatus(stage) == Push(Progressed(view, stage))

\* repository.save of the copy that worker and iterator share; a conflict
\* raises SessionVersionConflict.
Save(m) == fresh /\ stored' = m /\ UNCHANGED fresh
Conflict == ~fresh /\ UNCHANGED storage

-----------------------------------------------------------------------------
(* The head of stream_message, and the exit run. *)

\* profile_context, run_started, the placeholder step and, for a Skill that
\* is entered, its transition; the envelope is saved, then the threads start.
\* (A save that fails here is in ChatStream.)
Start ==
  LET entered == IF kind = "enter" THEN InSkill(Blank, "target") ELSE Blank IN
  /\ kind # "exit" /\ wpc = "open"
  /\ view' = Progressed(Began(entered), "intent")
  /\ wpc' = "screen" /\ ppc' = "sleep" /\ ipc' = "open"
  /\ UNCHANGED <<kind, spc, progress, owner, turn, storage>>

\* stream_skill_transition, exit: each frame is yielded as it is encoded.
Exit ==
  /\ kind = "exit"
  /\ \/ wpc = "open" /\ view' = Began(view) /\ wpc' = "leaving"
     \/ wpc = "leaving" /\ view' = Left(view) /\ wpc' = "left"
     \/ wpc = "left" /\ view' = Closed(view, "completed") /\ wpc' = "closing"
  /\ UNCHANGED <<kind, ppc, ipc, spc, progress, owner, turn, storage>>

\* ... the transition message gets the text and the presentation.  The row is
\* read just before; only a write in between makes the save fail.
ExitSave ==
  LET m == [NoMessage EXCEPT !.text = view.text, !.presentation = Presentation(view)] IN
  /\ wpc = "closing" /\ wpc' = "done"
  /\ stored' \in {stored, m}
  /\ UNCHANGED <<kind, view, ppc, ipc, spc, progress, owner, turn, fresh>>

-----------------------------------------------------------------------------
(* The worker *)

WGoto(stage) == wpc' = stage
Rest == <<kind, ppc, ipc, spc, current, cancelled>>

\* prune_stale_assistant_turn: a stopped run's partial text is not of a turn.
Pruned == IF message.partial THEN message ELSE NoMessage

\* Moderation of the user's message.
Screen ==
  /\ wpc = "screen"
  /\ \/ Push(Risk(view, "passed")) /\ WGoto("work")
     \/ Push(Risk(view, "blocked")) /\ WGoto("blocked")
  /\ UNCHANGED <<Rest, progress, turn, storage>>

\* What the runtime reports while it works.
Think ==
  /\ wpc = "work"
  /\ \E stage \in DOMAIN LabelOf : PushStatus(stage)
  /\ UNCHANGED <<Rest, wpc, summary, quiet, turn, storage>>

Report ==
  /\ wpc = "work"
  /\ Push(Offered(view)) \/ Push(Noted(view))
  /\ UNCHANGED <<Rest, wpc, progress, turn, storage>>

\* emit_summary_before_body: the last step of the timeline, then its end.
MaySpeak == IsCurrent /\ ~cancelled

Summarise ==
  /\ wpc \in {"work", "summing"} /\ summary = "none" /\ MaySpeak
  /\ PushStatus("summary")
  /\ summary' = "shown"
  /\ UNCHANGED <<Rest, wpc, quiet, turn, storage>>

FinishThinking ==
  /\ wpc \in {"work", "summing"} /\ summary = "shown"
  /\ Push(Thought(view))
  /\ summary' = "done" /\ quiet' = TRUE
  /\ UNCHANGED <<Rest, wpc, turn, storage>>

\* push_reply_delta
Speak ==
  /\ wpc = "work" /\ summary = "done" /\ Len(streamed) < MaxParts
  /\ MaySpeak
  /\ streamed' = Append(streamed, "part")
  /\ Push(Spoken(view, "part"))
  /\ UNCHANGED <<Rest, wpc, progress, finalized, message, storage>>

\* handle_message: the answer need not be the text that was streamed.
Work ==
  /\ wpc = "work" /\ summary # "shown"
  /\ \/ \E text \in {streamed, <<"reviewed">>} \ {<<>>} :
          /\ message' = IF message.partial THEN message ELSE [NoMessage EXCEPT !.text = text]
          /\ WGoto("returned")
          /\ UNCHANGED <<view, live>>
     \/ WGoto("error") /\ UNCHANGED <<view, live, message>>
  /\ UNCHANGED <<Rest, progress, finalized, streamed, storage>>

Returned ==
  /\ wpc = "returned"
  /\ \/ ~IsCurrent /\ message' = Pruned /\ WGoto("finish") /\ UNCHANGED <<view, live>>
     \/ IsCurrent /\ cancelled /\ WGoto("finalize") /\ UNCHANGED <<view, live, message>>
     \/ /\ IsCurrent /\ ~cancelled
        /\ Push(Risk(view, "checking")) /\ WGoto("moderate") /\ UNCHANGED message
  /\ UNCHANGED <<Rest, progress, finalized, streamed, storage>>

Moderate ==
  /\ wpc = "moderate"
  /\ \/ Push(Risk(view, "passed")) /\ WGoto("summing")
     \/ Push(Risk(view, "blocked")) /\ WGoto("blocked")
  /\ UNCHANGED <<Rest, progress, turn, storage>>

ContentEnd ==
  /\ wpc = "summing"
  /\ \/ ~MaySpeak /\ summary # "shown" /\ WGoto("finalize") /\ UNCHANGED <<view, live, quiet>>
     \/ /\ MaySpeak /\ summary = "done"
        /\ Push(Said(view, message.text)) /\ quiet' = TRUE /\ WGoto("posted")
  /\ UNCHANGED <<Rest, summary, turn, storage>>

\* _form_from_blocks, _path_options_from_blocks, _skill_rooms_from_suggestions:
\* what an answer's blocks and suggestions come to.
Projections == {{}, {"form"}, {"paths", "rooms"}}

\* Facts are persisted, the cards of the answer are built and attached.
PostProcess ==
  /\ wpc = "posted"
  /\ \/ ~IsCurrent /\ message' = Pruned /\ WGoto("finish") /\ UNCHANGED streamed
     \/ /\ IsCurrent
        /\ \E cards \in Projections :
             message' = [message EXCEPT !.cards = cards]
        /\ streamed' = <<>>
        /\ WGoto("attached")
  /\ UNCHANGED <<Rest, view, live, progress, finalized, storage>>

SaveAnswer ==
  /\ wpc \in {"attached", "presented"}
  /\ \/ ~IsCurrent /\ wpc = "attached" /\ message' = Pruned /\ WGoto("finish") /\ UNCHANGED storage
     \/ /\ IsCurrent \/ wpc = "presented"
        /\ \/ Save(message) /\ WGoto(IF wpc = "attached" THEN "act" ELSE "final")
           \/ Conflict /\ WGoto("complete")
        /\ UNCHANGED message
  /\ UNCHANGED <<Rest, view, live, progress, finalized, streamed>>

\* Mutant: the presentation is taken before the cards are pushed.
ActPresented ==
  /\ wpc = "act"
  /\ Push(Acted(view, message.cards, view.handoff))
  /\ message' = [message EXCEPT !.presentation = Presentation(view)]
  /\ WGoto("presented")
  /\ UNCHANGED <<Rest, progress, finalized, streamed, storage>>

\* skill_action, then the presentation for the history.
Act ==
  /\ wpc = "act"
  /\ Push(Acted(view, message.cards, view.handoff))
  /\ WGoto("present")
  /\ UNCHANGED <<Rest, progress, turn, storage>>

Present ==
  /\ wpc = "present"
  /\ message' = [message EXCEPT !.presentation = Presentation(view)]
  /\ WGoto("presented")
  /\ UNCHANGED <<Rest, view, live, progress, finalized, streamed, storage>>

FinalMessage ==
  /\ wpc = "final"
  /\ Push(Delivered(view, message.text, message.cards, view.handoff))
  /\ WGoto("complete")
  /\ UNCHANGED <<Rest, progress, turn, storage>>

Complete ==
  /\ wpc = "complete"
  /\ Push(Closed(view, "completed"))
  /\ WGoto("completed")
  /\ UNCHANGED <<Rest, progress, turn, storage>>

SaveCompleted ==
  /\ wpc = "completed"
  /\ \/ Save(message) /\ WGoto("finish")
     \/ Conflict /\ WGoto("error")
  /\ UNCHANGED <<Rest, view, live, progress, turn>>

\* The two exception handlers save before they report.
Error ==
  /\ wpc = "error" /\ WGoto("finish")
  /\ \/ Save(message) /\ Push(Failed(view))
     \/ Conflict /\ UNCHANGED <<view, live>>
  /\ UNCHANGED <<Rest, progress, turn>>

Blocked ==
  /\ wpc = "blocked" /\ WGoto("finish")
  /\ message' = Pruned
  /\ \/ Save(Pruned) /\ Push(BlockedView(view))
     \/ Conflict /\ UNCHANGED <<view, live>>
  /\ UNCHANGED <<Rest, progress, finalized, streamed>>

\* finally: the callbacks and what they collected go.
Finish ==
  /\ wpc = "finish" /\ WGoto("done")
  /\ quiet' = TRUE
  /\ streamed' = IF IsCurrent THEN <<>> ELSE streamed
  /\ UNCHANGED <<Rest, view, live, summary, finalized, message, storage>>

-----------------------------------------------------------------------------
(* finalize_cancelled_response: what had been streamed becomes the message. *)

Partial == IF streamed = <<>> THEN NoMessage
           ELSE [NoMessage EXCEPT !.text = streamed, !.partial = TRUE]

Finalize(done, failed) ==
  /\ finalized' = TRUE
  /\ IF finalized THEN done /\ UNCHANGED <<view, live, quiet, streamed, message, storage>>
     ELSE /\ quiet' = TRUE
          /\ message' = Partial
          /\ streamed' = IF IsCurrent THEN <<>> ELSE streamed
          /\ \/ Save(Partial) /\ Push(Stopped(view)) /\ done
             \/ Conflict /\ failed /\ UNCHANGED <<view, live>>
  /\ UNCHANGED <<summary>>

FinalizeByWorker ==
  /\ wpc = "finalize"
  /\ Finalize(WGoto("finish"), WGoto("error"))
  /\ UNCHANGED Rest

-----------------------------------------------------------------------------
(* emit_simulated_progress: it looks at progress_stop, then pushes. *)

Simulate ==
  /\ \/ /\ ppc \in {"sleep", "sleep2"}
        /\ ppc' = IF quiet \/ ~IsCurrent THEN "done" ELSE IF ppc = "sleep" THEN "push" ELSE "push2"
        /\ UNCHANGED <<view, live>>
     \/ ppc = "push" /\ PushStatus("facts") /\ ppc' = "sleep2"
     \/ ppc = "push2" /\ PushStatus("materials") /\ ppc' = "done"
  /\ UNCHANGED <<kind, wpc, ipc, spc, summary, quiet, current, cancelled, turn, storage>>

-----------------------------------------------------------------------------
(* The response iterator *)

IGoto(stage) == ipc' = stage
Others == <<kind, wpc, ppc, spc, current, cancelled>>

\* The stop request's marker in the queue, or an idle quarter of a second.
Notice ==
  /\ ipc = "open" /\ cancelled /\ ~finalized
  /\ \/ Finalize(IGoto("closing"), IGoto("closing"))
     \/ Finalize(UNCHANGED ipc, IGoto("closing"))
  /\ UNCHANGED Others

\* The end marker, or a client that leaves.
StopReading ==
  /\ ipc = "open" /\ IGoto("closing")
  /\ UNCHANGED <<Others, view, live, progress, turn, storage>>

\* finally: the copy is disowned; closing a ledger entry that is still running
\* writes the row.
Close ==
  /\ ipc = "closing" /\ IGoto("closed")
  /\ live' = FALSE
  /\ fresh' \in {fresh, FALSE}
  /\ UNCHANGED <<Others, view, progress, turn, stored>>

-----------------------------------------------------------------------------
(* A newer turn; the stop request. *)

Displace ==
  /\ ipc = "open" /\ current
  /\ current' = FALSE /\ fresh' = FALSE
  /\ UNCHANGED <<kind, view, threads, progress, live, cancelled, turn, stored>>

\* cancel_run
StopCancel ==
  /\ spc = "none" /\ ipc # "none" /\ current
  /\ cancelled' = TRUE /\ spc' = "answer"
  /\ UNCHANGED <<kind, view, wpc, ppc, ipc, progress, live, current, turn, storage>>

\* stream_stop: the row is read and written back, if nobody wrote it meanwhile.
StopAnswer ==
  /\ spc = "answer" /\ spc' = "done"
  /\ fresh' \in {fresh, FALSE}
  /\ UNCHANGED <<kind, view, wpc, ppc, ipc, progress, owner, turn, stored>>

-----------------------------------------------------------------------------
Worker ==
  \/ Screen \/ Think \/ Report \/ Summarise \/ FinishThinking \/ Speak \/ Work \/ Returned
  \/ Moderate \/ ContentEnd \/ PostProcess \/ SaveAnswer \/ Act \/ Present
  \/ FinalMessage \/ Complete \/ SaveCompleted \/ Error \/ Blocked \/ Finish
  \/ FinalizeByWorker

Next ==
  \/ Start \/ Exit \/ ExitSave \/ Worker \/ Simulate
  \/ Notice \/ StopReading \/ Close
  \/ Displace \/ StopCancel \/ StopAnswer

Spec == Init /\ [][Next]_vars

-----------------------------------------------------------------------------
(* Properties *)

\* Once the answer's text is shown, the timeline of the run stays finished:
\* the progress thread and status events that were under way do not start it
\* again (SseEnvelopeBuilder._apply, skill_status).
ThinkingEnds ==
  kind # "exit" /\ view.text \notin {<<>>, Advice} => view.thinking = "completed"

\* A blocked answer is not shown again: neither the finalizer of a stop that
\* comes late nor the events that close the run bring its text or cards back.
BlockedStays ==
  view.text = Advice => view'.text = Advice /\ view'.cards = {} /\ ~view'.handoff

\* What the history serves of an answer that was shown complete is what the
\* frames had shown, whichever save was the last to succeed.
ReloadedAsShown ==
  view.status = "completed" /\ ~finalized /\ stored # NoMessage =>
    LET m == Reload(stored) IN m.text = view.text /\ m.cards = view.cards

=============================================================================
