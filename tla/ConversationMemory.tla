------------------------- MODULE ConversationMemory -------------------------
(***************************************************************************)
(* Prompt memory of one conversation: a raw tail of completed turns and a  *)
(* rolling summary of the turns before it, kept in one checkpoint row per  *)
(* session and child (runtime_bridge/conversation_memory.py).  A turn      *)
(* prepares the memory before it asks the model and appends itself         *)
(* afterwards; a long tail is summarised by a background job or, past a    *)
(* second threshold, by the turn itself; leaving a skill schedules a job   *)
(* too.  Summarised turns are cut off the front of the tail.               *)
(*                                                                         *)
(* A tail counts complete user/assistant pairs; a summary is the set of    *)
(* turns that went into it.  Status fields, which nothing reads back, the  *)
(* facts ledger and failures of the database are left out.                 *)
(***************************************************************************)
EXTENDS Naturals, Sequences, FiniteSets

CONSTANTS
  Procs,      \* worker processes; jobs and locks are per process
  Script,     \* what the user does, in order: a sequence of "turn" and "exit"
  Window,     \* active_window_messages, in turns
  AsyncAt,    \* unsummarised turns that reach the asynchronous threshold
  SyncAt,     \* unsummarised turns that reach the synchronous threshold
  Bound,      \* whether the session has a child
  Displaced,  \* requests that may still run when the next one starts
  Crashes     \* how many processes may die

\* What the constants are; the instances assume it.
MemoryAssumption ==
  /\ Script \in Seq({"turn", "exit"})
  /\ {Window, AsyncAt, SyncAt, Crashes} \subseteq Nat
  /\ AsyncAt <= SyncAt
  /\ Bound \in BOOLEAN
  /\ Displaced \subseteq DOMAIN Script

Steps == DOMAIN Script
Scopes == {"turn", "exit"}

\* The checkpoint row each scope id names: a turn uses session and child, a
\* skill exit the bare session id, which reads as the child "unscoped".
Row(s) == IF s = "turn" /\ Bound THEN "child" ELSE "unscoped"
Rows == {"child", "unscoped"}

Memory == [tail : Seq(Steps), summary : SUBSET Steps, upto : Nat]
Empty == [tail |-> <<>>, summary |-> {}, upto |-> 0]

VARIABLES
  store,     \* the checkpoint rows
  at,        \* where each request stands
  on,        \* the process that serves it
  copy,      \* the memory it has read
  read,      \* the row as it was when read
  jobs,      \* background job of a process and scope
  spoken,    \* turns appended so far
  overtaken, \* history: some write was based on a row that had moved on
  crashes

vars == <<store, at, on, copy, read, jobs, spoken, overtaken, crashes>>

NoJob == [at |-> "none", base |-> Empty, target |-> 0, seen |-> Empty]
Jobs == [at : {"none", "asking", "holding"}, base : Memory, target : Nat, seen : Memory]

Least(i, j) == IF i <= j THEN i ELSE j
Most(i, j) == IF i <= j THEN j ELSE i
Front(q, n) == SubSeq(q, 1, Least(n, Len(q)))
Elements(q) == {q[i] : i \in DOMAIN q}

\* _summary_target_message_count, and the context size its thresholds compare.
Target(m) == Most(Len(m.tail), Window) - Window
Unsummarised(m) == Len(m.tail) - Least(m.upto, Len(m.tail))
Pending(m, n) == {m.tail[i] : i \in (m.upto + 1)..Least(n, Len(m.tail))}

\* Mutant: offsets are not made relative to the tail that is left.
PrunedKeepsOffset(m) ==
  IF m.upto = 0 \/ m.tail = <<>> THEN m
  ELSE [m EXCEPT !.tail = SubSeq(m.tail, Least(m.upto, Len(m.tail)) + 1, Len(m.tail))]

\* _prune_summarized_messages: an empty tail keeps its offset.
Pruned(m) ==
  IF m.upto = 0 \/ m.tail = <<>> THEN m
  ELSE [m EXCEPT !.tail = SubSeq(m.tail, Least(m.upto, Len(m.tail)) + 1, Len(m.tail)),
                 !.upto = 0]

\* The turns a memory still carries, in its raw tail or in its summary.
Kept(m) == m.summary \cup Elements(m.tail)

Running(r) == at[r] \notin {"new", "done"}

\* _memory_lock: one holder per process and scope.
LockFree(p, s) ==
  /\ jobs[<<p, s>>].at # "holding"
  /\ \A r \in Steps : at[r] = "appending" => ~(on[r] = p /\ s = "turn")

\* What a request has read is gone when the call that read it returns.
Forget(r) ==
  /\ copy' = [copy EXCEPT ![r] = Empty]
  /\ read' = [read EXCEPT ![r] = Empty]

Write(s, m, basis) ==
  /\ store' = [store EXCEPT ![Row(s)] = m]
  /\ overtaken' = (overtaken \/ store[Row(s)] # basis)

Init ==
  /\ store = [w \in Rows |-> Empty]
  /\ at = [r \in Steps |-> "new"]
  /\ on \in [Steps -> Procs]
  /\ copy = [r \in Steps |-> Empty]
  /\ read = [r \in Steps |-> Empty]
  /\ jobs = [k \in Procs \X Scopes |-> NoJob]
  /\ spoken = {}
  /\ overtaken = FALSE
  /\ crashes = 0

\* The steps of a session come one after the other; a displaced one may run on.
Turn(r) ==
  /\ at[r] = "new"
  /\ \A q \in 1..(r - 1) : IF q \in Displaced THEN at[q] # "new" ELSE at[q] = "done"

-----------------------------------------------------------------------------
(* prepare_for_turn: no lock is held from its load to its save.            *)

Load(r) ==
  /\ Turn(r)
  /\ LET m == store[Row(Script[r])]
     IN copy' = [copy EXCEPT ![r] = m] /\ read' = [read EXCEPT ![r] = m]
  /\ at' = [at EXCEPT ![r] = "loaded"]
  /\ UNCHANGED <<store, on, jobs, spoken, overtaken, crashes>>

Due(m) == Unsummarised(m) >= AsyncAt /\ Target(m) > m.upto
Hard(m) == Unsummarised(m) >= SyncAt

\* Below the threshold, nothing to summarise, or no model client: the memory
\* that was read is saved again.
SaveIdle(r) ==
  /\ Script[r] = "turn" /\ at[r] = "loaded"
  /\ Due(copy[r]) => ~Hard(copy[r])
  /\ Write("turn", copy[r], read[r])
  /\ at' = [at EXCEPT ![r] = "prepared"]
  /\ Forget(r)
  /\ UNCHANGED <<on, jobs, spoken, crashes>>

\* Hard threshold: the turn summarises, with "running" saved first ...
StartCompression(r) ==
  /\ Script[r] = "turn" /\ at[r] = "loaded"
  /\ Due(copy[r]) /\ Hard(copy[r])
  /\ Write("turn", copy[r], read[r])
  /\ at' = [at EXCEPT ![r] = "compressing"]
  /\ read' = [read EXCEPT ![r] = copy[r]]
  /\ UNCHANGED <<on, copy, jobs, spoken, crashes>>

\* ... and the summary saved once the model has answered.  A failed or missing
\* model is replaced by an extract of the same turns.
Compressed(m) ==
  Pruned([m EXCEPT !.summary = @ \cup Pending(m, Target(m)), !.upto = Target(m)])

Compress(r) ==
  /\ Script[r] = "turn"
  /\ at[r] \in {"loaded", "compressing"}
  /\ Due(copy[r]) /\ Hard(copy[r])
  /\ Write("turn", Compressed(copy[r]), read[r])
  /\ at' = [at EXCEPT ![r] = "prepared"]
  /\ Forget(r)
  /\ UNCHANGED <<on, jobs, spoken, crashes>>

-----------------------------------------------------------------------------
(* _schedule_memory_update: one job per process and scope.                 *)

Scheduled(p, s, m, target) ==
  jobs' = [jobs EXCEPT ![<<p, s>>] =
             [at |-> "asking", base |-> m, target |-> target, seen |-> Empty]]

Schedule(r) ==
  /\ Script[r] = "turn" /\ at[r] = "loaded"
  /\ Due(copy[r]) /\ ~Hard(copy[r])
  /\ jobs[<<on[r], "turn">>] = NoJob /\ LockFree(on[r], "turn")
  /\ Scheduled(on[r], "turn", copy[r], Target(copy[r]))
  /\ Write("turn", copy[r], read[r])
  /\ at' = [at EXCEPT ![r] = "prepared"]
  /\ Forget(r)
  /\ UNCHANGED <<on, spoken, crashes>>

\* A job is already under way: nothing is saved.
AlreadyScheduled(r) ==
  /\ at[r] = "loaded"
  /\ jobs[<<on[r], Script[r]>>] # NoJob
  /\ IF Script[r] = "turn" THEN Due(copy[r]) /\ ~Hard(copy[r])
                           ELSE Len(copy[r].tail) > copy[r].upto
  /\ at' = [at EXCEPT ![r] = IF Script[r] = "turn" THEN "prepared" ELSE "done"]
  /\ Forget(r)
  /\ UNCHANGED <<store, on, jobs, spoken, overtaken, crashes>>

\* finalize_for_skill_exit: everything raw is to be summarised.
ScheduleExit(r) ==
  /\ Script[r] = "exit" /\ at[r] = "loaded"
  /\ Len(copy[r].tail) > copy[r].upto
  /\ jobs[<<on[r], "exit">>] = NoJob
  /\ Scheduled(on[r], "exit", copy[r], Len(copy[r].tail))
  /\ Write("exit", copy[r], read[r])
  /\ at' = [at EXCEPT ![r] = "done"]
  /\ Forget(r)
  /\ UNCHANGED <<on, spoken, crashes>>

\* Nothing raw, or no model client.
SaveExit(r) ==
  /\ Script[r] = "exit" /\ at[r] = "loaded"
  /\ Write("exit", copy[r], read[r])
  /\ at' = [at EXCEPT ![r] = "done"]
  /\ Forget(r)
  /\ UNCHANGED <<on, jobs, spoken, crashes>>

-----------------------------------------------------------------------------
(* run_update: the model works on what was read when the job was           *)
(* scheduled, the result goes into the row as it is now, under the lock.   *)

JobLoad(p, s) ==
  /\ jobs[<<p, s>>].at = "asking" /\ LockFree(p, s)
  /\ jobs' = [jobs EXCEPT ![<<p, s>>] = [@ EXCEPT !.at = "holding", !.seen = store[Row(s)]]]
  /\ UNCHANGED <<store, at, on, copy, read, spoken, overtaken, crashes>>

Updated(m, j) ==
  Pruned([m EXCEPT !.summary = j.base.summary \cup Pending(j.base, j.target),
                   !.upto = Most(m.upto, j.target)])

\* The turns the job has summarised are no longer the front of the tail.
Stale(m, j) ==
  \/ m.summary # j.base.summary
  \/ m.upto # j.base.upto
  \/ Front(m.tail, j.target) # Front(j.base.tail, j.target)

JobSave(p, s) ==
  LET j == jobs[<<p, s>>]
  IN /\ j.at = "holding"
     /\ store' = [store EXCEPT ![Row(s)] = Updated(j.seen, j)]
     /\ overtaken' = (overtaken \/ store[Row(s)] # j.seen \/ Stale(j.seen, j))
     /\ jobs' = [jobs EXCEPT ![<<p, s>>] = NoJob]
     /\ UNCHANGED <<at, on, copy, read, spoken, crashes>>

\* The model failed: the row is saved with the error and its content as read.
JobFail(p, s) ==
  /\ jobs[<<p, s>>].at = "holding"
  /\ Write(s, jobs[<<p, s>>].seen, jobs[<<p, s>>].seen)
  /\ jobs' = [jobs EXCEPT ![<<p, s>>] = NoJob]
  /\ UNCHANGED <<at, on, copy, read, spoken, crashes>>

-----------------------------------------------------------------------------
(* append_turn, under the lock of its process.                             *)

AppendLoad(r) ==
  /\ at[r] = "prepared" /\ LockFree(on[r], "turn")
  /\ copy' = [copy EXCEPT ![r] = store[Row("turn")]]
  /\ read' = [read EXCEPT ![r] = store[Row("turn")]]
  /\ at' = [at EXCEPT ![r] = "appending"]
  /\ UNCHANGED <<store, on, jobs, spoken, overtaken, crashes>>

AppendSave(r) ==
  /\ at[r] = "appending"
  /\ Write("turn", [copy[r] EXCEPT !.tail = Append(@, r)], read[r])
  /\ spoken' = spoken \cup {r}
  /\ at' = [at EXCEPT ![r] = "done"]
  /\ Forget(r)
  /\ UNCHANGED <<on, jobs, crashes>>

\* A rejected reply, or a turn that failed, is not remembered.
Forgo(r) ==
  /\ at[r] \in {"prepared", "compressing"}
  /\ at' = [at EXCEPT ![r] = "done"]
  /\ Forget(r)
  /\ UNCHANGED <<store, on, jobs, spoken, overtaken, crashes>>

\* A process dies with its threads.
Crash(p) ==
  /\ crashes < Crashes
  /\ crashes' = crashes + 1
  /\ at' = [r \in Steps |-> IF on[r] = p /\ Running(r) THEN "done" ELSE at[r]]
  /\ jobs' = [k \in Procs \X Scopes |-> IF k[1] = p THEN NoJob ELSE jobs[k]]
  /\ copy' = [r \in Steps |-> IF on[r] = p THEN Empty ELSE copy[r]]
  /\ read' = [r \in Steps |-> IF on[r] = p THEN Empty ELSE read[r]]
  /\ UNCHANGED <<store, on, spoken, overtaken>>

Request(r) ==
  \/ Load(r) \/ SaveIdle(r) \/ StartCompression(r) \/ Compress(r)
  \/ Schedule(r) \/ AlreadyScheduled(r) \/ ScheduleExit(r) \/ SaveExit(r)
  \/ AppendLoad(r) \/ AppendSave(r) \/ Forgo(r)

Next ==
  \/ \E r \in Steps : Request(r)
  \/ \E p \in Procs, s \in Scopes : JobLoad(p, s) \/ JobSave(p, s) \/ JobFail(p, s)
  \/ \E p \in Procs : Crash(p)

Spec == Init /\ [][Next]_vars

-----------------------------------------------------------------------------
(* Properties.                                                             *)

\* Rows, copies, jobs and requests keep their shapes.
TypeOK ==
  /\ store \in [Rows -> Memory]
  /\ at \in [Steps -> {"new", "loaded", "compressing", "prepared", "appending", "done"}]
  /\ on \in [Steps -> Procs]
  /\ copy \in [Steps -> Memory] /\ read \in [Steps -> Memory]
  /\ jobs \in [Procs \X Scopes -> Jobs]
  /\ spoken \subseteq Steps
  /\ overtaken \in BOOLEAN
  /\ crashes \in 0..Crashes

\* Every turn that was appended is still in the tail or in the summary, and a
\* turn the prompt skips as summarised is in the summary: what "Keep only the
\* active raw window after a durable summary succeeds" promises.
Complete ==
  LET m == store[Row("turn")]
  IN /\ spoken \subseteq Kept(m)
     /\ Elements(Front(m.tail, m.upto)) \subseteq m.summary

\* Whatever fails, dies or is displaced, the memory is complete as long as no
\* read-modify-write of the row was overtaken by another: crashes, failed
\* summaries and reappearing tails never lose a turn by themselves.
CompleteUnlessOvertaken == ~overtaken => Complete
=============================================================================
