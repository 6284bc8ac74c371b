----------------------------- MODULE ChatStream -----------------------------
(***************************************************************************)
(* One session's chat turns, from the POST to the last event of the stream: *)
(* the request handler of api/routes/chat_stream.py, the worker and the     *)
(* response iterator of core/streaming_runner.py, and the stop request,     *)
(* running in any of the API processes over the session row of the          *)
(* PostgreSQL repository and over TurnCoordinator.                          *)
(*                                                                          *)
(* Every actor works on a copy of the row and writes the whole row back;    *)
(* the repository accepts a write only against the version that was read.   *)
(* The worker and the iterator of one run share one copy.  Of the row, the  *)
(* module keeps what the turns contend for: the active child profile, the   *)
(* claimed run ids, the run ledger and what is stored of each answer.       *)
(***************************************************************************)
EXTENDS Naturals, FiniteSets

CONSTANTS
  Procs, Runs, session, user,
  Requests,      \* non-stop POSTs; a redelivered POST is another request
  RunOf,         \* [Requests -> Runs]: the BFF's run id
  Switching,     \* requests whose context_data selects the other child profile
  Stoppable,     \* bound: runs a user may stop, once each
  Disconnecting, \* bound: runs whose client may close the connection
  Failing,       \* bound: runs whose model call may raise
  Moderated,     \* bound: runs whose text moderation may block
  MaxStreams, PerUser, RedisEnabled, MaxCrashes, None

ASSUME RequestsAssumption ==
  /\ IsFiniteSet(Runs) /\ None \notin Runs \cup Procs
  /\ MaxStreams \in Nat /\ PerUser \in Nat /\ RedisEnabled \in BOOLEAN /\ MaxCrashes \in Nat
  /\ RunOf \in [Requests -> Runs]
  /\ Switching \subseteq Requests
  /\ Stoppable \subseteq Runs /\ Disconnecting \subseteq Runs
  /\ Failing \subseteq Runs /\ Moderated \subseteq Runs

VARIABLES
  \* TurnCoordinator's
  permits, userPermits, localGen, localCancelled, redisActive, redisUser,
  redisGen, redisCancelled, pc, proc, cancelling, acked, rejected, faults, crashes,
  \* storage
  row,        \* advisor_sessions: the session row
  index,      \* the run index: record_run, update_run_status
  \* one request handler per POST
  hpc, hproc, copy, tries, victim,
  \* worker and iterator of a run
  wpc, ipc, ctx, live, finalized, wake, shown,
  \* the stop request of a run
  spc, sproc, scopy

coordinator == <<permits, userPermits, localGen, localCancelled, redisActive,
                 redisUser, redisGen, redisCancelled, pc, proc, cancelling,
                 acked, rejected, faults, crashes>>
storage == <<row, index>>
handler == <<hpc, hproc, copy, tries, victim>>
stream  == <<wpc, ipc, ctx, live, finalized, wake, shown>>
stopping == <<spc, sproc, scopy>>
vars == <<coordinator, storage, handler, stream, stopping>>

TC == INSTANCE TurnCoordinator
        WITH Sessions <- {session}, Users <- {user},
             SessionOf <- [r \in Runs |-> session], UserOf <- [r \in Runs |-> user],
             LeasesOutliveTTL <- FALSE, MaxFaults <- 0

Terminal == {"completed", "stopped", "cancelled", "failed", "superseded", "blocked"}
Statuses == {"none", "running"} \cup Terminal
Replies == {"none", "partial", "full"}

RowType == [ver : Nat, profile : {"own", "other"}, used : SUBSET Runs,
            ledger : [Runs -> Statuses], reply : [Runs -> Replies]]

FirstRow == [ver |-> 1, profile |-> "own", used |-> {},
             ledger |-> [r \in Runs |-> "none"], reply |-> [r \in Runs |-> "none"]]

Init ==
  /\ TC!Init
  /\ row = FirstRow
  /\ index = [r \in Runs |-> "none"]
  /\ hpc = [q \in Requests |-> "new"]
  /\ hproc = [q \in Requests |-> None]
  /\ copy = [q \in Requests |-> FirstRow]
  /\ tries = [q \in Requests |-> 0]
  /\ victim = [q \in Requests |-> None]
  /\ wpc = [r \in Runs |-> "none"]
  /\ ipc = [r \in Runs |-> "none"]
  /\ ctx = [r \in Runs |-> FirstRow]
  /\ live = [r \in Runs |-> FALSE]
  /\ finalized = [r \in Runs |-> FALSE]
  /\ wake = [r \in Runs |-> FALSE]
  /\ shown = [r \in Runs |-> {}]
  /\ spc = [r \in Runs |-> "none"]
  /\ sproc = [r \in Runs |-> None]
  /\ scopy = [r \in Runs |-> FirstRow]

-----------------------------------------------------------------------------
(* PostgresSessionRepository.save: the version the copy was read at must    *)
(* still be the row's; the saved copy moves on to the new version.          *)

\* Mutant: the row is overwritten whatever its version.
AnyVersion(c) == TRUE

Fresh(c) == c.ver = row.ver
Bump(c) == [c EXCEPT !.ver = @ + 1]

\* Mutant: the row keeps its version, the saved copy moves on.
SaveUnbumped(c) == Fresh(c) /\ row' = c

Save(c) == Fresh(c) /\ row' = Bump(c)
VersionConflict(c) == ~Fresh(c) /\ UNCHANGED row

SetLedger(c, r, status) == [c EXCEPT !.ledger[r] = status]

RunningBut(c, r) == {x \in Runs \ {r} : c.ledger[x] = "running"}

-----------------------------------------------------------------------------
(* post_chat_stream *)

Goto(q, stage) == hpc' = [hpc EXCEPT ![q] = stage]

\* The handler is done with its copy of the session.
Forget(q) == copy' = [copy EXCEPT ![q] = FirstRow]

\* The first read: a request for the other child is refused while the ledger
\* of this copy has another run in progress.  Other requests do not use it.
Load(p, q) ==
  /\ hpc[q] = "new"
  /\ hproc' = [hproc EXCEPT ![q] = p]
  /\ \/ /\ q \in Switching /\ row.profile = "own"
        /\ Goto(q, IF RunningBut(row, RunOf[q]) = {} THEN "loaded" ELSE "must_stop")
        /\ UNCHANGED copy
     \/ /\ q \notin Switching \/ row.profile = "other"
        /\ copy' = [copy EXCEPT ![q] = row]
        /\ Goto(q, "opened")
  /\ UNCHANGED <<coordinator, storage, tries, victim, stream, stopping>>

\* open_or_resume_session reads the session again and activates the branch.
Open(q) ==
  /\ hpc[q] = "loaded"
  /\ copy' = [copy EXCEPT ![q] = [row EXCEPT !.profile = "other"]]
  /\ Goto(q, "opened")
  /\ UNCHANGED <<coordinator, storage, hproc, tries, victim, stream, stopping>>

\* The handler's writes before the claim; they are not retried.
Prepare(q) ==
  /\ hpc[q] = "opened"
  /\ \/ /\ Save(copy[q])
        /\ copy' = [copy EXCEPT ![q] = Bump(@)]
        /\ Goto(q, "prepared")
     \/ VersionConflict(copy[q]) /\ Goto(q, "conflict") /\ Forget(q)
  /\ UNCHANGED <<coordinator, index, hproc, tries, victim, stream, stopping>>

\* supersede_active_run, first half; a profile switch skips it.
SupersedeRun(q) ==
  LET p == hproc[q]
      current == localGen[p][session]
  IN /\ hpc[q] = "prepared"
     /\ \/ /\ q \notin Switching
           /\ TC!Supersede(p, RunOf[q])
           /\ victim' = [victim EXCEPT ![q] = current]
           /\ Goto(q, "superseding")
        \/ /\ q \in Switching \/ current \in {None, RunOf[q]}
           /\ Goto(q, "claim")
           /\ UNCHANGED <<coordinator, victim>>
     /\ UNCHANGED <<storage, hproc, copy, tries, stream, stopping>>

\* ... second half: the retry loop that writes the victim's ledger entry, as
\* one read-modify-write of the row.
RecordSuperseded(q) ==
  LET v == victim[q] IN
  /\ hpc[q] = "superseding"
  /\ row' = Bump(IF row.ledger[v] = "none" THEN row ELSE SetLedger(row, v, "superseded"))
  /\ victim' = [victim EXCEPT ![q] = None]
  /\ Goto(q, "claim")
  /\ UNCHANGED <<coordinator, index, hproc, copy, tries, stream, stopping>>

LastTry(q) == tries[q] = 2

\* Mutant: the retry keeps the stale payload and takes the new version only.
RereadVersion(q) == copy' = [copy EXCEPT ![q].ver = row.ver]

Reread(q) == copy' = [copy EXCEPT ![q] = row]

\* _commit_run_action, _claim_external_run: three tries, re-reading on conflict.
Claim(q) ==
  LET r == RunOf[q]
      claimed == [copy[q] EXCEPT !.used = @ \cup {r}, !.ledger[r] = "running"]
  IN /\ hpc[q] = "claim"
     /\ \/ /\ r \in copy[q].used
           /\ Goto(q, "run_id_conflict") /\ Forget(q)
           /\ UNCHANGED <<storage, tries>>
        \/ /\ r \notin copy[q].used
           /\ Save(claimed)
           /\ index' = [index EXCEPT ![r] = IF @ = "none" THEN "running" ELSE @]
           /\ Goto(q, "reserve") /\ Forget(q)
           /\ UNCHANGED tries
        \/ /\ r \notin copy[q].used
           /\ VersionConflict(claimed)
           /\ tries' = [tries EXCEPT ![q] = @ + 1]
           /\ IF LastTry(q) THEN Goto(q, "conflict") /\ Forget(q)
              ELSE Reread(q) /\ UNCHANGED hpc
           /\ UNCHANGED index
     /\ UNCHANGED <<coordinator, hproc, victim, stream, stopping>>

\* reserve_turn
Reserve(q) ==
  /\ hpc[q] = "reserve"
  /\ TC!Arrive(hproc[q], RunOf[q])
  /\ Goto(q, "reserving")
  /\ UNCHANGED <<storage, hproc, copy, tries, victim, stream, stopping>>

\* CapacityExceededError becomes a 429; the claim stays as it was written.
Refused(q) ==
  /\ hpc[q] = "reserving"
  /\ pc[RunOf[q]] = "refused"
  /\ Goto(q, "too_many")
  /\ UNCHANGED <<coordinator, storage, hproc, copy, tries, victim, stream, stopping>>

\* The head of stream_message: read the row, bind the run to this copy.
Setup(q) ==
  LET r == RunOf[q] IN
  /\ hpc[q] = "reserving"
  /\ TC!Held(r)
  /\ ctx' = [ctx EXCEPT ![r] = row]
  /\ live' = [live EXCEPT ![r] = TRUE]
  /\ Goto(q, "setup")
  /\ UNCHANGED <<coordinator, storage, hproc, copy, tries, victim, wpc, ipc,
                 finalized, wake, shown, stopping>>

\* ... its tail: save the first envelope, submit the worker, start iterating.
\* A version conflict here leaves the generator before any finally block.
Start(q) ==
  LET r == RunOf[q] IN
  /\ hpc[q] = "setup"
  /\ \/ /\ Save(ctx[r])
        /\ ctx' = [ctx EXCEPT ![r] = Bump(@)]
        /\ wpc' = [wpc EXCEPT ![r] = "work"]
        /\ ipc' = [ipc EXCEPT ![r] = "open"]
        /\ Goto(q, "streaming")
     \/ VersionConflict(ctx[r]) /\ Goto(q, "broken") /\ UNCHANGED <<ctx, wpc, ipc>>
  /\ UNCHANGED <<coordinator, index, hproc, copy, tries, victim, live, finalized,
                 wake, shown, stopping>>

-----------------------------------------------------------------------------
(* The worker: run() inside stream_message. *)

WGoto(r, stage) == wpc' = [wpc EXCEPT ![r] = stage]

StreamIsCurrent(r) == live[r] /\ TC!IsCurrent(r)

WithReply(r, reply) == ctx' = [ctx EXCEPT ![r].reply[r] = reply]

\* push of a terminal event: dropped unless the stream is current; otherwise
\* it is shown and the ledger of the copy and the run index take its status.
PushTerminal(r, status, envelope) ==
  IF StreamIsCurrent(r)
    THEN /\ shown' = [shown EXCEPT ![r] = @ \cup {envelope}]
         /\ index' = [index EXCEPT ![r] = status]
    ELSE UNCHANGED <<shown, index>>

PushedLedger(r, c, status) == IF StreamIsCurrent(r) THEN SetLedger(c, r, status) ELSE c

\* handle_message returns an answer, raises, or moderation blocks the text.
Work(r) ==
  /\ wpc[r] = "work"
  /\ \/ WithReply(r, "full") /\ WGoto(r, "check")
     \/ r \in Failing /\ WGoto(r, "error") /\ UNCHANGED ctx
     \/ r \in Moderated /\ WithReply(r, "none") /\ WGoto(r, "blocked")
  /\ UNCHANGED <<coordinator, storage, handler, ipc, live, finalized, wake, shown,
                 stopping>>

\* Mutant: the answer of a run that was stopped while it worked is kept.
CheckCancelledSkipped(r) ==
  /\ wpc[r] = "check"
  /\ IF ~StreamIsCurrent(r) THEN WithReply(r, "none") /\ WGoto(r, "finish")
     ELSE WGoto(r, "recheck") /\ UNCHANGED ctx
  /\ UNCHANGED <<coordinator, storage, handler, ipc, live, finalized, wake, shown,
                 stopping>>

\* The checks between the model's answer and the first write.
CheckCancelled(r) ==
  /\ wpc[r] = "check"
  /\ IF ~StreamIsCurrent(r) THEN WithReply(r, "none") /\ WGoto(r, "finish")
     ELSE /\ WGoto(r, IF TC!IsCancelled(r) THEN "finalize" ELSE "recheck")
          /\ UNCHANGED ctx
  /\ UNCHANGED <<coordinator, storage, handler, ipc, live, finalized, wake, shown,
                 stopping>>

\* Mutant: a displaced worker returns past its finally block.
CheckCurrentReturns(r) ==
  /\ wpc[r] = "recheck"
  /\ IF StreamIsCurrent(r) THEN WGoto(r, "save_reply") /\ UNCHANGED ctx
     ELSE WithReply(r, "none") /\ WGoto(r, "ended")
  /\ UNCHANGED <<coordinator, storage, handler, ipc, live, finalized, wake, shown,
                 stopping>>

\* The last is_current_stream before the answer is saved.
CheckCurrent(r) ==
  /\ wpc[r] = "recheck"
  /\ IF StreamIsCurrent(r) THEN WGoto(r, "save_reply") /\ UNCHANGED ctx
     ELSE WithReply(r, "none") /\ WGoto(r, "finish")
  /\ UNCHANGED <<coordinator, storage, handler, ipc, live, finalized, wake, shown,
                 stopping>>

\* session.snapshot.persist and the save that follows it; an exception of
\* either is swallowed by the post-processing safety net.
SaveReply(r) ==
  /\ wpc[r] \in {"save_reply", "save_presentation"}
  /\ \/ /\ Save(ctx[r])
        /\ ctx' = [ctx EXCEPT ![r] = Bump(@)]
        /\ WGoto(r, IF wpc[r] = "save_reply" THEN "save_presentation" ELSE "complete")
     \/ VersionConflict(ctx[r]) /\ WGoto(r, "complete") /\ UNCHANGED ctx
  /\ UNCHANGED <<coordinator, index, handler, ipc, live, finalized, wake, shown,
                 stopping>>

Complete(r) ==
  /\ wpc[r] = "complete"
  /\ PushTerminal(r, "completed", "completed")
  /\ ctx' = [ctx EXCEPT ![r] = PushedLedger(r, @, "completed")]
  /\ WGoto(r, "save_completed")
  /\ UNCHANGED <<coordinator, row, handler, ipc, live, finalized, wake, stopping>>

SaveCompleted(r) ==
  /\ wpc[r] = "save_completed"
  /\ \/ Save(ctx[r]) /\ ctx' = [ctx EXCEPT ![r] = Bump(@)] /\ WGoto(r, "finish")
     \/ VersionConflict(ctx[r]) /\ WGoto(r, "error") /\ UNCHANGED ctx
  /\ UNCHANGED <<coordinator, index, handler, ipc, live, finalized, wake, shown,
                 stopping>>

\* except Exception: the save is unguarded, its conflict leaves the handler.
Error(r) ==
  /\ wpc[r] = "error"
  /\ \/ /\ Save(ctx[r])
        /\ PushTerminal(r, "failed", "failed")
        /\ ctx' = [ctx EXCEPT ![r] = PushedLedger(r, Bump(@), "failed")]
        /\ WGoto(r, "record_failed")
     \/ VersionConflict(ctx[r]) /\ WGoto(r, "finish") /\ UNCHANGED <<ctx, shown, index>>
  /\ UNCHANGED <<coordinator, handler, ipc, live, finalized, wake, stopping>>

\* except ModerationBlockedError: saved before the blocked status is pushed.
Blocked(r) ==
  /\ wpc[r] = "blocked"
  /\ \/ /\ Save(ctx[r])
        /\ PushTerminal(r, "blocked", "blocked")
        /\ ctx' = [ctx EXCEPT ![r] = PushedLedger(r, Bump(@), "blocked")]
     \/ VersionConflict(ctx[r]) /\ UNCHANGED <<ctx, shown, index>>
  /\ WGoto(r, "finish")
  /\ UNCHANGED <<coordinator, handler, ipc, live, finalized, wake, stopping>>

\* Mutant: the ledger is left to the turn's own saves.
PersistNothing(r) == UNCHANGED storage

\* _persist_terminal_run_status: the retry loop as one read-modify-write; it
\* touches only an entry that is still running.
PersistFailed(r) ==
  IF row.ledger[r] = "running"
    THEN /\ row' = Bump(SetLedger(row, r, "failed"))
         /\ index' = [index EXCEPT ![r] = "failed"]
    ELSE UNCHANGED storage

RecordFailed(r) ==
  /\ wpc[r] = "record_failed"
  /\ PersistFailed(r)
  /\ WGoto(r, "finish")
  /\ UNCHANGED <<coordinator, handler, ipc, ctx, live, finalized, wake, shown, stopping>>

\* finally: release the lease, queue the end marker.
Finish(r) ==
  /\ wpc[r] = "finish"
  /\ TC!Release(r)
  /\ WGoto(r, "ended")
  /\ UNCHANGED <<storage, handler, ipc, ctx, live, finalized, wake, shown, stopping>>

-----------------------------------------------------------------------------
(* finalize_cancelled_response, run by the worker or by the iterator: the   *)
(* flag makes it happen once; the partial text, if any, replaces the        *)
(* answer; there is no check of ownership before the save.                  *)

Finalized(r, stored, failed) ==
  /\ finalized' = [finalized EXCEPT ![r] = TRUE]
  /\ IF finalized[r] THEN stored /\ UNCHANGED <<storage, ctx, shown>>
     ELSE \E partial \in {"none", "partial"} :
            LET c == [ctx[r] EXCEPT !.reply[r] = partial] IN
            \/ /\ Save(c)
               /\ PushTerminal(r, "cancelled", "stopped")
               /\ ctx' = [ctx EXCEPT ![r] = PushedLedger(r, Bump(c), "cancelled")]
               /\ stored
            \/ /\ VersionConflict(c)
               /\ ctx' = [ctx EXCEPT ![r] = c]
               /\ failed
               /\ UNCHANGED <<shown, index>>

FinalizeByWorker(r) ==
  /\ wpc[r] = "finalize"
  /\ Finalized(r, WGoto(r, "finish"), WGoto(r, "error"))
  /\ UNCHANGED <<coordinator, handler, ipc, live, wake, stopping>>

-----------------------------------------------------------------------------
(* The response iterator. *)

IGoto(r, stage) == ipc' = [ipc EXCEPT ![r] = stage]

\* The stop request's wake-up reaches the head of the queue.
WakeUp(r) ==
  /\ ipc[r] = "open" /\ wake[r]
  /\ Finalized(r, IGoto(r, "closing"), IGoto(r, "closing"))
  /\ UNCHANGED <<coordinator, handler, wpc, live, wake, stopping>>

\* An empty queue for 250 ms and a cancellation mark.
HeartbeatCancelled(r) ==
  /\ ipc[r] = "open" /\ ~wake[r] /\ ~finalized[r]
  /\ TC!IsCancelled(r)
  /\ Finalized(r, UNCHANGED ipc, IGoto(r, "closing"))
  /\ UNCHANGED <<coordinator, handler, wpc, live, wake, stopping>>

\* The worker's end marker, or the client's disconnection.
EndOfStream(r) ==
  /\ ipc[r] = "open"
  /\ wpc[r] = "ended" \/ r \in Disconnecting
  /\ IGoto(r, "closing")
  /\ UNCHANGED <<coordinator, storage, handler, wpc, ctx, live, finalized, wake, shown,
                 stopping>>

\* finally: the copy is disowned, then a ledger entry still running is closed.
Close(r) ==
  /\ ipc[r] = "closing"
  /\ IF live[r] THEN /\ live' = [live EXCEPT ![r] = FALSE]
                     /\ UNCHANGED <<storage, ipc>>
     ELSE PersistFailed(r) /\ IGoto(r, "closed") /\ UNCHANGED live
  /\ UNCHANGED <<coordinator, handler, wpc, ctx, finalized, wake, shown, stopping>>

-----------------------------------------------------------------------------
(* The stop action: cancel_run before the response, stream_stop inside it.  *)

SGoto(r, stage) == spc' = [spc EXCEPT ![r] = stage]

StopCancel(p, r) ==
  /\ r \in Stoppable /\ spc[r] = "none"
  /\ TC!CancelLocal(p, r)
  /\ sproc' = [sproc EXCEPT ![r] = p]
  /\ SGoto(r, "cancelling")
  /\ UNCHANGED <<storage, handler, stream, scopy>>

\* cancel returned: wake the iterator if it runs in this process, or answer 409.
StopAnswer(r) ==
  /\ spc[r] = "cancelling"
  /\ <<sproc[r], r>> \notin cancelling
  /\ IF r \in acked
       THEN /\ SGoto(r, "acked")
            /\ wake' = [wake EXCEPT ![r] = ipc[r] = "open" /\ proc[r] = sproc[r]]
       ELSE SGoto(r, "refused") /\ UNCHANGED wake
  /\ UNCHANGED <<coordinator, storage, handler, wpc, ipc, ctx, live, finalized, shown,
                 sproc, scopy>>

StopLoad(r) ==
  /\ spc[r] = "acked"
  /\ scopy' = [scopy EXCEPT ![r] = row]
  /\ SGoto(r, "loaded")
  /\ UNCHANGED <<coordinator, storage, handler, stream, sproc>>

StopSave(r) ==
  /\ spc[r] = "loaded"
  /\ \/ Save(SetLedger(scopy[r], r, "stopped")) /\ SGoto(r, "stopped")
     \/ VersionConflict(scopy[r]) /\ SGoto(r, "conflict")
  /\ scopy' = [scopy EXCEPT ![r] = FirstRow]
  /\ UNCHANGED <<coordinator, index, handler, stream, sproc>>

-----------------------------------------------------------------------------
(* The steps TurnCoordinator takes on its own, and the death of a process.  *)

CoordinatorStep ==
  /\ \/ \E r \in Runs : TC!Acquire(r) \/ TC!ReleaseRedis(r)
     \/ \E p \in Procs, r \in Runs : TC!CancelRedis(p, r)
  /\ UNCHANGED <<storage, handler, stream, stopping>>

AnswersSent == {"must_stop", "conflict", "run_id_conflict", "too_many", "broken"}

Crash(p) ==
  /\ TC!Crash(p)
  /\ hpc' = [q \in Requests |->
       IF hproc[q] = p /\ hpc[q] \notin AnswersSent THEN "dead" ELSE hpc[q]]
  /\ wpc' = [r \in Runs |-> IF proc[r] = p /\ wpc[r] # "none" THEN "dead" ELSE wpc[r]]
  /\ ipc' = [r \in Runs |-> IF proc[r] = p /\ ipc[r] # "none" THEN "dead" ELSE ipc[r]]
  /\ spc' = [r \in Runs |-> IF sproc[r] = p /\ spc[r] \in {"cancelling", "acked", "loaded"}
                              THEN "dead" ELSE spc[r]]
  /\ UNCHANGED <<storage, hproc, copy, tries, victim, ctx, live, finalized, wake, shown,
                 sproc, scopy>>

-----------------------------------------------------------------------------

HandlerStep(q) ==
  \/ Open(q) \/ Prepare(q) \/ SupersedeRun(q) \/ RecordSuperseded(q) \/ Claim(q)
  \/ Reserve(q) \/ Refused(q) \/ Setup(q) \/ Start(q)

WorkerStep(r) ==
  \/ Work(r) \/ CheckCancelled(r) \/ CheckCurrent(r) \/ SaveReply(r) \/ Complete(r)
  \/ SaveCompleted(r) \/ Error(r) \/ Blocked(r) \/ RecordFailed(r)
  \/ FinalizeByWorker(r) \/ Finish(r)

IteratorStep(r) == WakeUp(r) \/ HeartbeatCancelled(r) \/ EndOfStream(r) \/ Close(r)

StopStep(r) == StopAnswer(r) \/ StopLoad(r) \/ StopSave(r)

Next ==
  \/ \E p \in Procs, q \in Requests : Load(p, q)
  \/ \E q \in Requests : HandlerStep(q)
  \/ \E r \in Runs : WorkerStep(r) \/ IteratorStep(r) \/ StopStep(r)
  \/ \E p \in Procs, r \in Runs : StopCancel(p, r)
  \/ CoordinatorStep
  \/ \E p \in Procs : Crash(p)

Spec == Init /\ [][Next]_vars

\* Threads run on; requests, stops, disconnections and crashes are not owed.
Fairness ==
  /\ \A q \in Requests : WF_vars(HandlerStep(q))
  /\ \A r \in Runs : WF_vars(WorkerStep(r)) /\ WF_vars(IteratorStep(r)) /\ WF_vars(StopStep(r))
  /\ WF_vars(CoordinatorStep)

FairSpec == Spec /\ Fairness

-----------------------------------------------------------------------------
(* Properties *)

\* The row, its copies and the counters keep their shapes, and a copy is never
\* newer than the row.
TypeOK ==
  /\ row \in RowType
  /\ index \in [Runs -> Statuses]
  /\ \A q \in Requests : copy[q] \in RowType /\ hproc[q] \in Procs \cup {None}
  /\ tries \in [Requests -> 0..3]
  /\ victim \in [Requests -> Runs \cup {None}]
  /\ \A r \in Runs : ctx[r] \in RowType /\ scopy[r] \in RowType
  /\ \A q \in Requests : copy[q].ver <= row.ver
  /\ \A r \in Runs : ctx[r].ver <= row.ver /\ scopy[r].ver <= row.ver
  /\ live \in [Runs -> BOOLEAN] /\ finalized \in [Runs -> BOOLEAN] /\ wake \in [Runs -> BOOLEAN]
  /\ shown \in [Runs -> SUBSET Terminal]

PastClaim(q) ==
  hpc[q] \in {"reserve", "reserving", "setup", "streaming", "broken", "too_many"}

\* However often the BFF delivers a POST, at most one delivery of a run id is
\* ever executed, whichever processes the deliveries reach.
OneExecutionPerRun ==
  \A q1, q2 \in Requests :
    RunOf[q1] = RunOf[q2] /\ PastClaim(q1) /\ PastClaim(q2) => q1 = q2

\* No write of the row undoes another turn's claim or answer: a stale copy of
\* the handler, worker, iterator or stop request never wins.
NoTurnErased ==
  [][/\ row.used \subseteq row'.used
     /\ \A r \in Runs :
          /\ r \in row.used /\ row.ledger[r] # "running" => row'.ledger[r] \in Terminal
          /\ row.reply[r] = "full" /\ row'.reply[r] # "full" => finalized'[r]]_vars

\* The stored answer of a cancelled run is never the unreviewed full text once
\* its cancellation has been finalized and saved.
StoppedKeepsPartial ==
  [][\A r \in Runs : finalized[r] /\ row.reply[r] # "full" => row'.reply[r] # "full"]_vars

\* A run whose stream was opened does not stay "running" in the ledger: the
\* worker and the iterator's finally block close it on every path.
StreamedRunCloses ==
  \A q \in Requests : hpc[q] = "streaming" ~> row.ledger[RunOf[q]] \in Terminal

\* A claimed run that is refused for lack of capacity is closed in the ledger too.
\* The code does not: see the run cs_refused.
RefusedRunCloses ==
  \A q \in Requests : hpc[q] = "too_many" ~> row.ledger[RunOf[q]] \in Terminal

\* Every lease that a stream was opened with is given back.
StreamedLeaseReturns ==
  \A q \in Requests : hpc[q] = "streaming" ~> pc[RunOf[q]] = "done"
=============================================================================
