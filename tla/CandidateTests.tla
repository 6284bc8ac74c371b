----------------------------- MODULE CandidateTests -----------------------------
(***************************************************************************)
(* Tests of unpublished revisions (workbench/service.py,                   *)
(* api/routes/workbench.py): a turn of a test mounts the Skills of its     *)
(* immutable snapshot over the registry that all conversations of the      *)
(* process share, runs there, restores what it found and stores the        *)
(* exchange.  Meanwhile users stop turns and send the next one, close      *)
(* tests, and publish and delete Skills.                                   *)
(***************************************************************************)
EXTENDS Naturals, FiniteSets

CONSTANTS
  Skills,
  Enabled,      \* Skills not switched off by skill_management
  Tests,        \* debug sessions
  Snapshot,     \* the Skills of each test's snapshot
  Root,         \* the Skill a test is about; None for an expert or a team
  Turns, TestOf,
  Evaluations,  \* turns of an evaluation run, which stores its own results
  MaxVersion,   \* bound on the publications of a Skill
  None

\* What the constants are; the instances assume it.
CandidateAssumption ==
  /\ Enabled \subseteq Skills
  /\ Snapshot \in [Tests -> SUBSET Skills]
  /\ Root \in [Tests -> Skills \cup {None}]
  /\ \A s \in Tests : Root[s] # None => Root[s] \in Snapshot[s]
  /\ TestOf \in [Turns -> Tests]
  /\ Evaluations \subseteq Turns
  /\ \A t \in Evaluations : Root[TestOf[t]] # None
  /\ MaxVersion \in Nat
  /\ None \notin Skills \cup Tests \cup Turns
  /\ \A s \in Tests : s \notin Nat

VARIABLES
  registry,   \* what the process serves for a Skill: a version, 0 if there is none,
              \* or the overlay of a test
  installed,  \* the version that was installed last
  lock,       \* _candidate_runtime_mount_lock: its owner and how often it is held
  active,     \* _active_candidate_streams: the live stream of each test
  cancelled,  \* turns whose context has a cancelled_stream_generation
  row,        \* the stored test: is it open, the turns in its transcript and context
  pc,         \* where each turn is
  seen,       \* the row as a turn has read it
  previous,   \* the bundles a turn found when it mounted
  overtaken,  \* history: Skills installed while a test occupied them,
  met         \* and turns that met another turn of their test

Free == [owner |-> None, held |-> 0]
Held(n) == [owner |-> lock.owner, held |-> n]
Blank == [open |-> TRUE, transcript |-> {}, context |-> {}]

vars == <<registry, installed, lock, active, cancelled, row, pc, seen, previous, overtaken, met>>

Init ==
  /\ installed \in [Skills -> {0, 1}] /\ registry = installed
  /\ lock = Free
  /\ active = [s \in Tests |-> None]
  /\ cancelled = {}
  /\ row = [s \in Tests |-> Blank]
  /\ pc = [t \in Turns |-> "idle"]
  /\ seen = [t \in Turns |-> Blank]
  /\ previous = [t \in Turns |-> <<>>]
  /\ overtaken = {} /\ met = {}

Goto(t, p) == pc' = [pc EXCEPT ![t] = p]
StoreStays == UNCHANGED <<cancelled, row, seen, met>>
RegistryStays == UNCHANGED <<registry, installed, lock, previous, overtaken>>

-----------------------------------------------------------------------------
(* Publishing and deleting: the registry is changed in place.              *)

Occupied(k) == lock.owner # None /\ k \in DOMAIN previous[lock.owner]

Install(k, v) ==
  /\ registry' = [registry EXCEPT ![k] = v]
  /\ installed' = [installed EXCEPT ![k] = v]
  /\ overtaken' = IF Occupied(k) THEN overtaken \cup {k} ELSE overtaken \ {k}
  /\ UNCHANGED <<lock, active, pc, previous>> /\ StoreStays

Publish(k) == installed[k] < MaxVersion /\ Install(k, installed[k] + 1)

Delete(k) == installed[k] # 0 /\ Install(k, 0)

-----------------------------------------------------------------------------
(* A turn of a test.                                                       *)

Underway(t) ==
  {u \in Turns : TestOf[u] = TestOf[t] /\ pc[u] \notin {"idle", "done", "stored"}}

\* The row is read once, at the start; a closed test takes no more turns.  Only turns
\* of the streaming route are registered.
Begin(t) ==
  /\ t \notin Evaluations /\ pc[t] = "idle" /\ row[TestOf[t]].open
  /\ seen' = [seen EXCEPT ![t] = row[TestOf[t]]]
  /\ met' = IF Underway(t) = {} THEN met ELSE met \cup Underway(t) \cup {t}
  /\ \E p \in {"register", "mount"} : Goto(t, p)
  /\ UNCHANGED <<active, cancelled, row>> /\ RegistryStays

\* Nothing was written, or the form or card it answers is not active any more.
Reject(t) ==
  /\ pc[t] = "register"
  /\ Goto(t, "done")
  /\ UNCHANGED active /\ StoreStays /\ RegistryStays

\* A later stream takes the place of an earlier one.
Register(t) ==
  /\ pc[t] = "register"
  /\ active' = [active EXCEPT ![TestOf[t]] = t]
  /\ Goto(t, "mount")
  /\ StoreStays /\ RegistryStays

\* The Skills a turn occupies.
Mounts(t) == Snapshot[TestOf[t]]

\* An overlay of the turn's test over Skills K.
Overlay(t, K) ==
  /\ lock = Free
  /\ lock' = [owner |-> t, held |-> 1]
  /\ previous' = [previous EXCEPT ![t] = [k \in K |-> registry[k]]]
  /\ registry' = [k \in Skills |-> IF k \in K THEN TestOf[t] ELSE registry[k]]

\* A snapshot without Skills mounts nothing.
Mount(t) ==
  /\ t \notin Evaluations /\ pc[t] = "mount"
  /\ IF Mounts(t) = {} THEN UNCHANGED <<registry, lock, previous>> ELSE Overlay(t, Mounts(t))
  /\ Goto(t, "run")
  /\ UNCHANGED <<installed, active, overtaken>> /\ StoreStays

\* Mutant: a mount that fails half-way keeps the lock.
MountFailsLocked(t) ==
  /\ t \notin Evaluations /\ pc[t] = "mount" /\ Mounts(t) # {} /\ lock = Free
  /\ Goto(t, "done")
  /\ lock' = [owner |-> t, held |-> 1]
  /\ UNCHANGED <<active, registry, installed, previous, overtaken>> /\ StoreStays

\* A file of the snapshot cannot be written: what was mounted is restored, the
\* stream stays registered.
MountFails(t) ==
  /\ t \notin Evaluations /\ pc[t] = "mount" /\ Mounts(t) # {} /\ lock = Free
  /\ Goto(t, "done")
  /\ UNCHANGED active /\ StoreStays /\ RegistryStays

\* A Skill that is switched off is not found after its own mount either: it is
\* mounted once more, previewed without the Runtime, and the lock is not given back.
Nested(t) == LET k == Root[TestOf[t]] IN k # None /\ k \notin Enabled

Ran(t) == lock' = IF Nested(t) THEN Held(lock.held + 1) ELSE lock

Succeed(t) ==
  /\ pc[t] = "run"
  /\ Ran(t)
  /\ Goto(t, IF previous[t] = <<>> THEN "judge" ELSE "restore")
  /\ UNCHANGED <<registry, installed, active, previous, overtaken>> /\ StoreStays

Unregistered(t) ==
  IF active[TestOf[t]] = t THEN [active EXCEPT ![TestOf[t]] = None] ELSE active

\* Mutant: a failed turn starts the context anew.
FailAnew(t) ==
  /\ pc[t] = "run" /\ t \notin Evaluations
  /\ Ran(t)
  /\ row' = [row EXCEPT ![TestOf[t]].context = {t}]
  /\ active' = Unregistered(t)
  /\ Goto(t, IF previous[t] = <<>> THEN "done" ELSE "abandon")
  /\ UNCHANGED <<registry, installed, cancelled, seen, previous, overtaken, met>>

\* An exception is kept as evidence: the context with the turn, not its exchange.
Fail(t) ==
  /\ pc[t] = "run" /\ t \notin Evaluations
  /\ Ran(t)
  /\ row' = [row EXCEPT ![TestOf[t]].context = seen[t].context \cup {t}]
  /\ active' = Unregistered(t)
  /\ Goto(t, IF previous[t] = <<>> THEN "done" ELSE "abandon")
  /\ UNCHANGED <<registry, installed, cancelled, seen, previous, overtaken, met>>

\* Mutant: the overlay stays when the turn has failed.
RestoreSucceeded(t) ==
  /\ pc[t] \in {"restore", "abandon"}
  /\ registry' = IF pc[t] = "abandon" THEN registry
                 ELSE [k \in Skills |-> IF k \in DOMAIN previous[t] THEN previous[t][k] ELSE registry[k]]
  /\ lock' = IF lock.held = 1 THEN Free ELSE Held(lock.held - 1)
  /\ previous' = [previous EXCEPT ![t] = <<>>]
  /\ Goto(t, IF pc[t] = "restore" THEN "judge" ELSE "done")
  /\ UNCHANGED <<installed, active, overtaken>> /\ StoreStays

\* Mutant: what was mounted is removed instead of being put back.
RestoreNothing(t) ==
  /\ pc[t] \in {"restore", "abandon"}
  /\ registry' = [k \in Skills |-> IF k \in DOMAIN previous[t] THEN 0 ELSE registry[k]]
  /\ lock' = IF lock.held = 1 THEN Free ELSE Held(lock.held - 1)
  /\ previous' = [previous EXCEPT ![t] = <<>>]
  /\ Goto(t, IF pc[t] = "restore" THEN "judge" ELSE "done")
  /\ UNCHANGED <<installed, active, overtaken>> /\ StoreStays

Restore(t) ==
  /\ pc[t] \in {"restore", "abandon"}
  /\ registry' = [k \in Skills |-> IF k \in DOMAIN previous[t] THEN previous[t][k] ELSE registry[k]]
  /\ lock' = IF lock.held = 1 THEN Free ELSE Held(lock.held - 1)
  /\ previous' = [previous EXCEPT ![t] = <<>>]
  /\ Goto(t, IF pc[t] = "restore" THEN "judge" ELSE "done")
  /\ UNCHANGED <<installed, active, overtaken>> /\ StoreStays

\* A stopped turn yields to a stream that has taken its place.
Judge(t) ==
  /\ pc[t] = "judge"
  /\ Goto(t, IF t \in Evaluations \/ (t \in cancelled /\ active[TestOf[t]] # t)
             THEN "done" ELSE "commit")
  /\ UNCHANGED active /\ StoreStays /\ RegistryStays

\* Transcript and context are written whole, from what was read at the start.
Commit(t) ==
  /\ pc[t] = "commit"
  /\ row' = [row EXCEPT ![TestOf[t]].transcript = seen[t].transcript \cup {t},
                        ![TestOf[t]].context = seen[t].context \cup {t}]
  /\ Goto(t, "leave")
  /\ UNCHANGED <<active, cancelled, seen, met>> /\ RegistryStays

Leave(t) ==
  /\ pc[t] = "leave"
  /\ active' = Unregistered(t)
  /\ Goto(t, "stored")
  /\ StoreStays /\ RegistryStays

-----------------------------------------------------------------------------
(* Evaluations, stops, the end of a test.                                  *)

\* An evaluation mounts its Skill only if the registry has none.
Evaluate(t) ==
  /\ t \in Evaluations /\ pc[t] = "idle"
  /\ LET k == Root[TestOf[t]] IN
     Goto(t, IF k \in Enabled /\ registry[k] # 0 THEN "run" ELSE "mount")
  /\ UNCHANGED active /\ StoreStays /\ RegistryStays

\* The lock is not given back if the mounted Skill is not found: it is switched off.
EvaluationMount(t) ==
  /\ t \in Evaluations /\ pc[t] = "mount"
  /\ Overlay(t, {Root[TestOf[t]]})
  /\ Goto(t, IF Nested(t) THEN "done" ELSE "restore")
  /\ UNCHANGED <<installed, active, overtaken>> /\ StoreStays

\* By the user, or by the route when the whole turn has taken too long.
Stop(t) ==
  /\ active[TestOf[t]] = t /\ t \notin cancelled
  /\ cancelled' = cancelled \cup {t}
  /\ UNCHANGED <<active, row, pc, seen, met>> /\ RegistryStays

\* The revision an evaluation is about has no test that could be closed.
Close(s) ==
  /\ row[s].open /\ \E t \in Turns \ Evaluations : TestOf[t] = s
  /\ row' = [row EXCEPT ![s].open = FALSE]
  /\ UNCHANGED <<active, cancelled, pc, seen, met>> /\ RegistryStays

Step(t) ==
  \/ Register(t) \/ Mount(t) \/ MountFails(t)
  \/ Succeed(t) \/ Fail(t) \/ Restore(t) \/ Judge(t) \/ Commit(t) \/ Leave(t)
  \/ EvaluationMount(t)

Next ==
  \/ \E t \in Turns : Begin(t) \/ Reject(t) \/ Step(t) \/ Evaluate(t) \/ Stop(t)
  \/ \E s \in Tests : Close(s)
  \/ \E k \in Skills : Publish(k) \/ Delete(k)

Spec == Init /\ [][Next]_vars

\* A worker goes on; the models it calls answer or time out; it gets the lock in the
\* end, as no more than the other turns take it.
FairSpec == Spec /\ \A t \in Turns : WF_vars(Step(t))

-----------------------------------------------------------------------------
(* Properties.                                                             *)

\* The registry serves the overlay of a test only while a turn of that very test holds
\* the lock and is mounted: turns do not observe or restore the bundles of each other,
\* whether they fail, cannot mount or are stopped.  (Unless it is the evaluation of a
\* Skill that is switched off, which leaves its overlay and keeps the lock.)
LeftBehind(t) == t \in Evaluations /\ Nested(t) /\ pc[t] = "done"

OverlayOfTheOwner ==
  \A k \in Skills : registry[k] \in Tests =>
    /\ lock.owner # None /\ registry[k] = TestOf[lock.owner]
    /\ pc[lock.owner] \in {"run", "restore", "abandon"} \/ LeftBehind(lock.owner)

\* Once no turn is mounted every Skill is served as it was installed last, unless the
\* installation fell into a turn that occupied the Skill: that one is undone.
InstalledIsServed ==
  lock.owner = None => \A k \in Skills \ overtaken : registry[k] = installed[k]

\* A turn that met no other turn of its test is never lost again: not from the
\* transcript, and not from the context that the next turn goes on from.
LoneTurnsKept ==
  \A t \in Turns \ met : pc[t] \in {"leave", "stored"} =>
    t \in row[TestOf[t]].transcript \cap row[TestOf[t]].context

\* What is mounted is mounted "for the duration of this call" (service.py, the docstring of
\* _execute_candidate_skill): a turn that has ended keeps no mount.
MountedForTheCall == \A t \in Turns : pc[t] \in {"done", "stored"} => lock.owner # t

\* A turn that has been accepted ends, whatever the other turns do.
TurnsEnd == \A t \in Turns : (pc[t] = "mount") ~> (pc[t] \in {"done", "stored"})
=============================================================================
