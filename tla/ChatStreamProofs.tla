--------------------------- MODULE ChatStreamProofs ---------------------------
(***************************************************************************)
(* What ChatStream promises for any processes, runs, requests and           *)
(* interleaving of handlers, workers, iterators, stops and crashes.         *)
(***************************************************************************)
EXTENDS ChatStream, TLAPS

-----------------------------------------------------------------------------
(* The inductive invariant. *)

HandlerStages ==
  {"new", "loaded", "opened", "prepared", "superseding", "claim", "reserve", "reserving",
   "setup", "streaming", "dead"} \cup AnswersSent

WorkerStages ==
  {"none", "work", "check", "finalize", "recheck", "save_reply", "save_presentation",
   "complete", "save_completed", "error", "blocked", "record_failed", "finish", "ended", "dead"}

Types ==
  /\ row \in RowType /\ index \in [Runs -> Statuses]
  /\ copy \in [Requests -> RowType] /\ ctx \in [Runs -> RowType] /\ scopy \in [Runs -> RowType]
  /\ hproc \in [Requests -> Procs \cup {None}] /\ tries \in [Requests -> 0..3]
  /\ victim \in [Requests -> Runs \cup {None}]
  /\ live \in [Runs -> BOOLEAN] /\ finalized \in [Runs -> BOOLEAN] /\ wake \in [Runs -> BOOLEAN]
  /\ shown \in [Runs -> SUBSET Terminal]
  /\ hpc \in [Requests -> HandlerStages] /\ wpc \in [Runs -> WorkerStages]
  /\ ipc \in [Runs -> {"none", "open", "closing", "closed", "dead"}]
  /\ spc \in [Runs -> {"none", "cancelling", "acked", "loaded", "stopped", "refused",
                       "conflict", "dead"}]
  /\ localGen \in [Procs -> [{session} -> Runs \cup {None}]]

\* A run id that is claimed has a ledger entry.
Sound(c) == \A x \in c.used : c.ledger[x] # "none"

\* What the turns contend for is the same in both.
Like(c, d) == c.used = d.used /\ c.ledger = d.ledger /\ c.reply = d.reply

\* The same but for run r's own entries, and r's ledger entry is not reopened.
OwnLike(c, d, r) ==
  /\ c.used = d.used
  /\ \A x \in Runs \ {r} : c.ledger[x] = d.ledger[x] /\ c.reply[x] = d.reply[x]
  /\ d.ledger[r] \in Terminal => c.ledger[r] \in Terminal

\* A copy is no newer than the row, and one of the row's version knows the row.
Known(c) == Sound(c) /\ c.ver <= row.ver /\ (c.ver = row.ver => Like(c, row))
OwnKnown(c, r) == Sound(c) /\ c.ver <= row.ver /\ (c.ver = row.ver => OwnLike(c, row, r))

Copies ==
  /\ Sound(row) /\ row.ver >= 1 /\ (row.ver = 1 => Like(FirstRow, row))
  /\ \A q \in Requests : Known(copy[q])
  /\ \A r \in Runs : OwnKnown(ctx[r], r) /\ Known(scopy[r])

\* Claimed run ids are in the row, and one request's alone.
Claims ==
  /\ \A q \in Requests : PastClaim(q) => RunOf[q] \in row.used
  /\ OneExecutionPerRun
  /\ \A r \in Runs : wpc[r] # "none" => r \in row.used
  /\ \A r \in Runs : ipc[r] = "none" <=> wpc[r] = "none"
  /\ \A q \in Requests :
       /\ hpc[q] \in {"reserve", "reserving", "setup"} => wpc[RunOf[q]] = "none"
       /\ hpc[q] # "conflict" => tries[q] <= 2
       /\ hpc[q] # "new" => hproc[q] \in Procs
       /\ hpc[q] = "superseding" => victim[q] \in Runs

\* The answer of a run is stored by its worker's saves only; from then on the run's
\* copy has it too, unless its cancellation has replaced it.
Answered ==
  \A r \in Runs :
    /\ wpc[r] \in {"none", "work", "check", "recheck"} => row.reply[r] # "full"
    /\ wpc[r] \in {"none", "work"} => ctx[r].reply[r] # "full"
    /\ row.reply[r] = "full" => ctx[r].reply[r] = "full" \/ finalized[r]

Inv == Types /\ Copies /\ Claims /\ Answered

\* Every POST is delivered once.
DeliveredOnce == \A q1, q2 \in Requests : RunOf[q1] = RunOf[q2] => q1 = q2

Early == {"loaded", "opened", "prepared", "superseding", "claim", "reserve"}
Working == WorkerStages \ {"none", "ended", "dead"}

\* Where a request is in acquire, and that a stream under way holds its lease.
Leases ==
  /\ pc \in [Runs -> TC!Stages] /\ proc \in [Runs -> Procs \cup {None}]
  /\ \A r \in Runs : pc[r] = "idle" => proc[r] = None
  /\ \A q \in Requests :
       /\ hpc[q] \in Early \cup {"new"} => pc[RunOf[q]] = "idle"
       /\ hpc[q] \in {"reserving", "setup"} => proc[RunOf[q]] = hproc[q]
       /\ hpc[q] = "setup" => TC!Held(RunOf[q])
  /\ \A r \in Runs : wpc[r] \in Working => TC!Held(r)

\* The worker will not get past its checks.
Lost(r) == TC!IsCancelled(r) \/ ~TC!IsCurrent(r)

-----------------------------------------------------------------------------
(* What the operators on rows do. *)

LEMMA RowParts ==
  ASSUME NEW c \in RowType
  PROVE  /\ c.ver \in Nat /\ c.profile \in {"own", "other"} /\ c.used \in SUBSET Runs
         /\ c.ledger \in [Runs -> Statuses] /\ c.reply \in [Runs -> Replies]
BY DEF RowType

LEMMA FirstRowType ==
  /\ FirstRow \in RowType /\ FirstRow.ver = 1 /\ FirstRow.used = {} /\ Sound(FirstRow)
  /\ \A r \in Runs : FirstRow.ledger[r] = "none" /\ FirstRow.reply[r] = "none"
BY DEF FirstRow, RowType, Statuses, Replies, Sound

LEMMA BumpOf ==
  ASSUME NEW c \in RowType
  PROVE  /\ Bump(c) \in RowType /\ Bump(c).ver = c.ver + 1 /\ Bump(c).profile = c.profile
         /\ Bump(c).used = c.used /\ Bump(c).ledger = c.ledger /\ Bump(c).reply = c.reply
BY DEF Bump, RowType

LEMMA LedgerOf ==
  ASSUME NEW c \in RowType, NEW r \in Runs, NEW status \in Statuses
  PROVE  /\ SetLedger(c, r, status) \in RowType
         /\ SetLedger(c, r, status).ver = c.ver /\ SetLedger(c, r, status).used = c.used
         /\ SetLedger(c, r, status).reply = c.reply
         /\ SetLedger(c, r, status).ledger = [c.ledger EXCEPT ![r] = status]
<1> DEFINE l == [c.ledger EXCEPT ![r] = status]
<1>1. l \in [Runs -> Statuses]
  BY RowParts
<1>2. SetLedger(c, r, status) = [c EXCEPT !.ledger = l]
  BY DEF SetLedger
<1>3. SetLedger(c, r, status).ledger = l
  BY <1>2 DEF RowType
<1>4. LET d == SetLedger(c, r, status) IN
      d \in RowType /\ d.ver = c.ver /\ d.used = c.used /\ d.reply = c.reply
  <2> HIDE DEF l
  <2> QED BY <1>1, <1>2 DEF RowType
<1> QED BY <1>3, <1>4

LEMMA ReplyOf ==
  ASSUME NEW c \in RowType, NEW r \in Runs, NEW x \in Replies
  PROVE  LET d == [c EXCEPT !.reply[r] = x] IN
         /\ d \in RowType /\ d.ver = c.ver /\ d.used = c.used /\ d.ledger = c.ledger
         /\ d.reply = [c.reply EXCEPT ![r] = x]
<1> DEFINE l == [c.reply EXCEPT ![r] = x]
<1>1. l \in [Runs -> Replies]
  BY RowParts
<1>2. [c EXCEPT !.reply[r] = x] = [c EXCEPT !.reply = l]
  OBVIOUS
<1> HIDE DEF l
<1> QED BY <1>1, <1>2 DEF RowType

\* A row of run r that differs from another in r's own entries only.
OwnEdit(d, c, r) ==
  /\ d \in RowType /\ OwnLike(d, c, r)
  /\ Sound(c) => Sound(d)

LEMMA OwnEditTrans ==
  ASSUME NEW c \in RowType, NEW d, NEW e, NEW r \in Runs, OwnEdit(d, c, r), OwnEdit(e, d, r)
  PROVE  OwnEdit(e, c, r)
BY DEF OwnEdit, OwnLike

LEMMA BumpEdit ==
  ASSUME NEW c \in RowType, NEW r \in Runs
  PROVE  OwnEdit(c, c, r) /\ OwnEdit(Bump(c), c, r)
BY BumpOf DEF OwnEdit, OwnLike, Sound

LEMMA LedgerEdit ==
  ASSUME NEW c \in RowType, NEW r \in Runs, NEW status \in Terminal
  PROVE  OwnEdit(SetLedger(c, r, status), c, r)
<1> DEFINE d == SetLedger(c, r, status)
<1>1. /\ d \in RowType /\ d.used = c.used /\ d.reply = c.reply
      /\ d.ledger = [c.ledger EXCEPT ![r] = status]
  BY LedgerOf DEF Statuses
<1>2. status # "none"
  BY DEF Terminal
<1> HIDE DEF d
<1>3. OwnLike(d, c, r)
  BY <1>1, RowParts DEF OwnLike
<1>4. Sound(c) => Sound(d)
  BY <1>1, <1>2, RowParts DEF Sound
<1> QED BY <1>1, <1>3, <1>4 DEF OwnEdit, d

LEMMA ReplyEdit ==
  ASSUME NEW c \in RowType, NEW r \in Runs, NEW x \in Replies
  PROVE  OwnEdit([c EXCEPT !.reply[r] = x], c, r)
<1> DEFINE d == [c EXCEPT !.reply[r] = x]
<1>1. /\ d \in RowType /\ d.used = c.used /\ d.ledger = c.ledger
      /\ d.reply = [c.reply EXCEPT ![r] = x]
  BY ReplyOf
<1> HIDE DEF d
<1> QED BY <1>1, RowParts DEF OwnEdit, OwnLike, Sound, d

LEMMA PushedEdit ==
  ASSUME NEW c \in RowType, NEW r \in Runs, NEW status \in Terminal
  PROVE  /\ OwnEdit(PushedLedger(r, c, status), c, r)
         /\ PushedLedger(r, c, status).ver = c.ver /\ PushedLedger(r, c, status).reply = c.reply
<1>1. CASE StreamIsCurrent(r)
  BY <1>1, LedgerEdit, LedgerOf DEF PushedLedger, Statuses
<1>2. CASE ~StreamIsCurrent(r)
  BY <1>2, BumpEdit DEF PushedLedger
<1> QED BY <1>1, <1>2

-----------------------------------------------------------------------------
(* Copies of the row, whoever writes it. *)

LEMMA CopiesKeep ==
  ASSUME Types, Copies, row' \in RowType,
         UNCHANGED row \/ (row'.ver = row.ver + 1 /\ Sound(row')),
         \A q \in Requests :
           \/ copy'[q] = copy[q] \/ copy'[q] = FirstRow
           \/ copy'[q].ver = row'.ver /\ Like(copy'[q], row'),
         \A r \in Runs :
           \/ scopy'[r] = scopy[r] \/ scopy'[r] = FirstRow
           \/ scopy'[r].ver = row'.ver /\ Like(scopy'[r], row'),
         \A r \in Runs :
           \/ ctx'[r] = ctx[r]
           \/ ctx'[r].ver = row'.ver /\ OwnEdit(ctx'[r], row', r)
           \/ UNCHANGED row /\ ctx'[r].ver = ctx[r].ver /\ OwnEdit(ctx'[r], ctx[r], r)
  PROVE  Copies'
<1>1. /\ Sound(row') /\ row'.ver >= 1 /\ row.ver \in Nat /\ row'.ver \in Nat
      /\ row'.ver = 1 => Like(FirstRow, row')
  BY RowParts DEF Copies, Types
<1>2. ASSUME NEW c \in RowType, Known(c) PROVE Known(c)'
  BY <1>1, <1>2, RowParts DEF Known
<1>3. Known(FirstRow)'
  BY <1>1, FirstRowType DEF Known
<1>4. ASSUME NEW c, c.ver = row'.ver, Like(c, row') PROVE Known(c)'
  BY <1>1, <1>4 DEF Known, Like, Sound
<1>5. ASSUME NEW r \in Runs PROVE OwnKnown(ctx[r], r)' \/ ctx'[r] # ctx[r]
  BY <1>1, RowParts DEF OwnKnown, Copies, Types
<1>6. ASSUME NEW r \in Runs, ctx'[r].ver = row'.ver, OwnEdit(ctx'[r], row', r)
      PROVE  OwnKnown(ctx[r], r)'
  BY <1>1, <1>6 DEF OwnKnown, OwnEdit
<1>7. ASSUME NEW r \in Runs, UNCHANGED row, ctx'[r].ver = ctx[r].ver, OwnEdit(ctx'[r], ctx[r], r)
      PROVE  OwnKnown(ctx[r], r)'
  BY <1>7 DEF OwnKnown, OwnEdit, OwnLike, Copies
<1>8. \A q \in Requests : Known(copy[q])'
  BY <1>2, <1>3, <1>4 DEF Copies, Types
<1>9. \A r \in Runs : Known(scopy[r])'
  BY <1>2, <1>3, <1>4 DEF Copies, Types
<1>10. \A r \in Runs : OwnKnown(ctx[r], r)'
  BY <1>5, <1>6, <1>7
<1> QED BY <1>1, <1>8, <1>9, <1>10 DEF Copies

-----------------------------------------------------------------------------
(* Types. *)

LEMMA OneSession == \A r \in Runs : TC!At(r) = session
BY DEF TC!At

\* The local generations, which the handler reads, are the coordinator's business.
LEMMA CoordinatorTypes ==
  ASSUME localGen \in [Procs -> [{session} -> Runs \cup {None}]], NEW r \in Runs, NEW p \in Procs,
         \/ TC!Supersede(p, r) \/ TC!Arrive(p, r) \/ TC!Acquire(r) \/ TC!Release(r)
         \/ TC!ReleaseRedis(r) \/ TC!CancelLocal(p, r) \/ TC!CancelRedis(p, r) \/ TC!Crash(p)
  PROVE  localGen' \in [Procs -> [{session} -> Runs \cup {None}]]
<1>1. CASE TC!Supersede(p, r)
  BY <1>1, OneSession DEF TC!Supersede
<1>2. CASE TC!Crash(p)
  BY <1>2 DEF TC!Crash
<1>3. CASE TC!SetGeneration(r)
  BY <1>3, OneSession DEF TC!SetGeneration
<1>4. CASE \/ TC!AcquireGlobal(r) \/ TC!GlobalTimeout(r) \/ TC!AcquireUser(r) \/ TC!UserTimeout(r)
           \/ TC!ReserveRedis(r) \/ TC!ReserveRefused(r) \/ TC!ReserveFault(r)
           \/ TC!PublishGeneration(r) \/ TC!PublishFault(r)
           \/ TC!Arrive(p, r) \/ TC!Release(r) \/ TC!ReleaseRedis(r)
           \/ TC!CancelLocal(p, r) \/ TC!CancelRedis(p, r)
  BY <1>4 DEF TC!AcquireGlobal, TC!GlobalTimeout, TC!AcquireUser, TC!UserTimeout,
     TC!ReserveRedis, TC!ReserveRefused, TC!ReserveFault, TC!PublishGeneration, TC!PublishFault,
     TC!Arrive, TC!Release, TC!ReleaseRedis, TC!CancelLocal, TC!CancelRedis,
     TC!local, TC!redis, TC!stops, TC!env
<1> QED BY <1>1, <1>2, <1>3, <1>4 DEF TC!Acquire

LEMMA HandlerTypes ==
  ASSUME Types, Claims, NEW q \in Requests, HandlerStep(q)
  PROVE  Types'
<1> USE DEF storage, handler, stream, stopping
<1>1. /\ RunOf[q] \in Runs /\ row \in RowType /\ copy[q] \in RowType /\ FirstRow \in RowType
      /\ Bump(copy[q]) \in RowType /\ Bump(row) \in RowType
  BY RequestsAssumption, FirstRowType, BumpOf DEF Types
<1>2. CASE Open(q)
  <2>1. [row EXCEPT !.profile = "other"] \in RowType
    BY <1>1 DEF RowType
  <2> QED BY <1>1, <1>2, <2>1 DEF Open, Goto, Types, HandlerStages, coordinator
<1>3. CASE Prepare(q)
  BY <1>1, <1>3 DEF Prepare, Save, VersionConflict, Forget, Goto, Types, HandlerStages, AnswersSent,
     coordinator
<1>4. CASE SupersedeRun(q)
  <2>0. hproc[q] \in Procs
    BY <1>4 DEF SupersedeRun, Claims
  <2>1. CASE /\ TC!Supersede(hproc[q], RunOf[q])
             /\ victim' = [victim EXCEPT ![q] = localGen[hproc[q]][session]]
             /\ Goto(q, "superseding")
    <3>1. localGen' \in [Procs -> [{session} -> Runs \cup {None}]]
      BY <1>1, <2>0, <2>1, CoordinatorTypes DEF Types
    <3>2. victim' \in [Requests -> Runs \cup {None}]
      BY <1>1, <2>0, <2>1 DEF Types
    <3> QED BY <1>1, <1>4, <2>1, <3>1, <3>2 DEF SupersedeRun, Types, Goto, HandlerStages
  <2>2. CASE Goto(q, "claim") /\ UNCHANGED <<coordinator, victim>>
    BY <1>1, <1>4, <2>2 DEF SupersedeRun, Goto, Types, HandlerStages, coordinator
  <2> QED BY <1>4, <2>1, <2>2 DEF SupersedeRun
<1>5. CASE RecordSuperseded(q)
  <2> DEFINE c == IF row.ledger[victim[q]] = "none" THEN row
                  ELSE SetLedger(row, victim[q], "superseded")
  <2>1. c \in RowType
    BY <1>1, <1>5, LedgerOf DEF RecordSuperseded, Claims, Types, Statuses, Terminal
  <2> QED BY <1>1, <1>5, <2>1, BumpOf DEF RecordSuperseded, Goto, Types, HandlerStages, coordinator
<1>6. CASE Claim(q)
  <2> DEFINE claimed == [copy[q] EXCEPT !.used = @ \cup {RunOf[q]}, !.ledger[RunOf[q]] = "running"]
  <2>1. claimed \in RowType
    BY <1>1 DEF RowType, Statuses
  <2>2. tries[q] \in 0..2
    BY <1>6 DEF Claim, Claims, Types
  <2> HIDE DEF claimed
  <2>3. /\ row' \in RowType /\ copy' \in [Requests -> RowType]
        /\ index' \in [Runs -> Statuses] /\ tries' \in [Requests -> 0..3]
        /\ hpc' \in [Requests -> HandlerStages]
    <3>1. CASE Save(claimed) /\ UNCHANGED tries /\ Forget(q) /\ Goto(q, "reserve")
               /\ index' = [index EXCEPT ![RunOf[q]] = IF @ = "none" THEN "running" ELSE @]
      BY <1>1, <2>1, <3>1, BumpOf DEF Save, Forget, Goto, Types, HandlerStages, Statuses
    <3>2. CASE \/ Goto(q, "run_id_conflict") /\ Forget(q) /\ UNCHANGED <<storage, tries>>
               \/ /\ UNCHANGED <<row, index>> /\ tries' = [tries EXCEPT ![q] = @ + 1]
                  /\ IF LastTry(q) THEN Goto(q, "conflict") /\ Forget(q)
                     ELSE Reread(q) /\ UNCHANGED hpc
      BY <1>1, <2>2, <3>2 DEF Forget, Goto, Types, HandlerStages, AnswersSent, Reread
    <3> QED BY <1>6, <3>1, <3>2 DEF Claim, VersionConflict, claimed
  <2> QED BY <1>6, <2>3 DEF Claim, Types, coordinator
<1>7. CASE Reserve(q)
  <2>1. UNCHANGED localGen
    BY <1>7 DEF Reserve, TC!Arrive, TC!local
  <2> QED BY <1>7, <2>1 DEF Reserve, Goto, Types, HandlerStages
<1>8. CASE Refused(q)
  BY <1>8 DEF Refused, Goto, Types, HandlerStages, AnswersSent, coordinator
<1>9. CASE Setup(q)
  BY <1>1, <1>9 DEF Setup, Goto, Types, HandlerStages, coordinator
<1>10. CASE Start(q)
  <2> DEFINE r == RunOf[q]
  <2>1. ctx[r] \in RowType /\ Bump(ctx[r]) \in RowType
    BY <1>1, BumpOf DEF Types
  <2>2. /\ row' \in RowType /\ ctx' \in [Runs -> RowType]
        /\ wpc' \in [Runs -> WorkerStages]
        /\ ipc' \in [Runs -> {"none", "open", "closing", "closed", "dead"}]
        /\ hpc' \in [Requests -> HandlerStages]
    <3>1. CASE /\ Save(ctx[r]) /\ ctx' = [ctx EXCEPT ![r] = Bump(@)]
               /\ wpc' = [wpc EXCEPT ![r] = "work"] /\ ipc' = [ipc EXCEPT ![r] = "open"]
               /\ Goto(q, "streaming")
      BY <1>1, <2>1, <3>1 DEF Save, Goto, Types, HandlerStages, WorkerStages
    <3>2. CASE VersionConflict(ctx[r]) /\ Goto(q, "broken") /\ UNCHANGED <<ctx, wpc, ipc>>
      BY <3>2 DEF VersionConflict, Goto, Types, HandlerStages, AnswersSent
    <3> QED BY <1>10, <3>1, <3>2 DEF Start
  <2> QED BY <1>10, <2>2 DEF Start, Types, coordinator
<1> QED BY <1>2, <1>3, <1>4, <1>5, <1>6, <1>7, <1>8, <1>9, <1>10 DEF HandlerStep

-----------------------------------------------------------------------------
(* The worker and the iterator of a run: they write the row from the run's   *)
(* copy, or close its ledger entry, and change the run's own entries alone.  *)

BeforeSave == {"none", "work", "check", "recheck"}

\* The run's copy becomes d.
Edited(r, d) ==
  /\ ctx' = [ctx EXCEPT ![r] = d]
  /\ UNCHANGED row /\ d.ver = ctx[r].ver /\ OwnEdit(d, ctx[r], r)

\* ... after it was saved.
SavedAs(r, d) ==
  /\ ctx' = [ctx EXCEPT ![r] = d]
  /\ Fresh(ctx[r]) /\ row'.ver = row.ver + 1 /\ OwnEdit(row', ctx[r], r)
  /\ d.ver = row'.ver /\ OwnEdit(d, row', r) /\ d.reply = row'.reply

\* The ledger entry is closed in the row alone.
ClosedEntry(r) ==
  /\ UNCHANGED ctx
  /\ row'.ver = row.ver + 1 /\ OwnEdit(row', row, r) /\ row'.reply = row.reply

\* The stored and the running answer: replaced by the finalized partial one, or set
\* and dropped by the worker before it saves anything.
TurnEffect(r) ==
  /\ wpc'[r] \in BeforeSave => wpc[r] \in BeforeSave
  /\ wpc'[r] \in {"none", "work"} => wpc'[r] = wpc[r]
  /\ \A x \in Runs \ {r} : finalized'[x] = finalized[x]
  /\ finalized[r] => finalized'[r]
  /\ \/ ClosedEntry(r)
     \/ \E d \in RowType :
          /\ \/ Edited(r, d)
             \/ SavedAs(r, d) /\ (wpc[r] \in BeforeSave => d.reply[r] # "full")
          /\ \/ d.reply[r] = ctx[r].reply[r]
             \/ finalized'[r] /\ d.reply[r] # "full"
             \/ /\ wpc[r] \in BeforeSave /\ UNCHANGED row
                /\ wpc'[r] \notin {"none", "work"}

LEMMA SavedPushed ==
  ASSUME Types, NEW r \in Runs, NEW c, OwnEdit(c, ctx[r], r), c.ver = ctx[r].ver, Save(c),
         NEW d, ctx' = [ctx EXCEPT ![r] = d],
         \/ d = Bump(c)
         \/ \E status \in Terminal : d = PushedLedger(r, Bump(c), status)
  PROVE  SavedAs(r, d) /\ d \in RowType /\ d.reply = c.reply
<1> DEFINE b == Bump(c)
<1>1. ctx[r] \in RowType /\ c \in RowType
  BY DEF Types, OwnEdit
<1>2. b \in RowType /\ b.ver = c.ver + 1 /\ b.reply = c.reply /\ OwnEdit(b, c, r)
  BY <1>1, BumpOf, BumpEdit
<1> HIDE DEF b
<1>3. OwnEdit(d, b, r) /\ d.ver = b.ver /\ d.reply = b.reply /\ d \in RowType
  <2>1. CASE d = b
    BY <1>2, <2>1, BumpEdit
  <2>2. ASSUME NEW status \in Terminal, d = PushedLedger(r, b, status)
        PROVE  OwnEdit(d, b, r) /\ d.ver = b.ver /\ d.reply = b.reply /\ d \in RowType
    BY <1>2, <2>2, PushedEdit DEF OwnEdit
  <2> QED BY <2>1, <2>2 DEF b
<1>4. OwnEdit(b, ctx[r], r)
  BY <1>1, <1>2, OwnEditTrans
<1>5. Fresh(ctx[r]) /\ row' = b /\ b.ver = row.ver + 1
  BY <1>2 DEF Save, Fresh, b
<1> QED BY <1>2, <1>3, <1>4, <1>5 DEF SavedAs

LEMMA ClosedOf ==
  ASSUME Types, NEW r \in Runs, PersistFailed(r), UNCHANGED ctx
  PROVE  /\ ClosedEntry(r) \/ Edited(r, ctx[r])
         /\ row' \in RowType /\ index' \in [Runs -> Statuses]
<1>1. row \in RowType /\ ctx[r] \in RowType /\ ctx = [ctx EXCEPT ![r] = ctx[r]]
  BY DEF Types
<1>2. CASE row.ledger[r] = "running"
  <2> DEFINE c == SetLedger(row, r, "failed")
  <2>1. row' = Bump(c) /\ index' = [index EXCEPT ![r] = "failed"]
    BY <1>2 DEF PersistFailed
  <2>2. c \in RowType /\ c.ver = row.ver /\ c.reply = row.reply /\ OwnEdit(c, row, r)
    <3>1. "failed" \in Terminal /\ "failed" \in Statuses
      BY DEF Statuses, Terminal
    <3>2. /\ SetLedger(row, r, "failed") \in RowType
          /\ SetLedger(row, r, "failed").ver = row.ver
          /\ SetLedger(row, r, "failed").reply = row.reply
      <4>1. row \in RowType /\ r \in Runs /\ "failed" \in Statuses
        BY <1>1, <3>1
      <4> HIDE DEF c
      <4>2. SetLedger(row, r, "failed") \in RowType
        BY <4>1, LedgerOf
      <4>3. SetLedger(row, r, "failed").ver = row.ver
        BY <4>1, LedgerOf
      <4> QED BY <4>1, <4>2, <4>3, LedgerOf
    <3> QED BY <1>1, <3>1, <3>2, LedgerEdit
  <2> HIDE DEF c
  <2>3. /\ Bump(c) \in RowType /\ Bump(c).ver = row.ver + 1 /\ Bump(c).reply = row.reply
        /\ OwnEdit(Bump(c), row, r)
    BY <1>1, <2>2, BumpOf, BumpEdit, OwnEditTrans
  <2> QED BY <2>1, <2>3 DEF ClosedEntry, Types, Statuses, Terminal
<1>3. CASE row.ledger[r] # "running"
  <2>1. UNCHANGED storage
    BY <1>3 DEF PersistFailed
  <2>2. Edited(r, ctx[r])
    BY <1>1, <2>1, BumpEdit DEF Edited, storage
  <2> QED BY <2>1, <2>2 DEF storage, Types
<1> QED BY <1>2, <1>3

\* finalize_cancelled_response
LEMMA FinalizedOf ==
  ASSUME Types, NEW r \in Runs, NEW stored, NEW failed, Finalized(r, stored, failed)
  PROVE  /\ finalized' = [finalized EXCEPT ![r] = TRUE]
         /\ stored \/ (failed /\ ~finalized[r])
         /\ \E d \in RowType :
              /\ Edited(r, d) \/ (SavedAs(r, d) /\ d.reply[r] # "full")
              /\ d.reply[r] = ctx[r].reply[r] \/ d.reply[r] # "full"
              /\ finalized[r] \/ d.reply[r] # "full"
         /\ index' \in [Runs -> Statuses] /\ shown' \in [Runs -> SUBSET Terminal]
<1>1. ctx[r] \in RowType /\ ctx = [ctx EXCEPT ![r] = ctx[r]]
  BY DEF Types
<1>2. CASE finalized[r]
  <2>1. Edited(r, ctx[r])
    BY <1>1, <1>2, BumpEdit DEF Finalized, Edited, storage
  <2> QED BY <1>1, <1>2, <2>1 DEF Finalized, storage, Types
<1>3. CASE ~finalized[r]
  <2>1. PICK partial \in {"none", "partial"} :
          LET c == [ctx[r] EXCEPT !.reply[r] = partial] IN
            \/ /\ Save(c)
               /\ PushTerminal(r, "cancelled", "stopped")
               /\ ctx' = [ctx EXCEPT ![r] = PushedLedger(r, Bump(c), "cancelled")]
               /\ stored
            \/ /\ VersionConflict(c)
               /\ ctx' = [ctx EXCEPT ![r] = c]
               /\ failed
               /\ UNCHANGED <<shown, index>>
    BY <1>3 DEF Finalized
  <2> DEFINE c == [ctx[r] EXCEPT !.reply[r] = partial]
             d == PushedLedger(r, Bump(c), "cancelled")
  <2>2. c \in RowType /\ c.ver = ctx[r].ver /\ c.reply[r] # "full" /\ OwnEdit(c, ctx[r], r)
    <3>1. partial \in Replies
      BY DEF Replies
    <3>2. /\ c \in RowType /\ c.ver = ctx[r].ver
          /\ c.reply = [ctx[r].reply EXCEPT ![r] = partial]
      BY <1>1, <3>1, ReplyOf
    <3>3. OwnEdit(c, ctx[r], r)
      BY <1>1, <3>1, ReplyEdit
    <3> QED BY <1>1, <3>2, <3>3, RowParts
  <2> HIDE DEF c
  <2>3. CASE Save(c) /\ ctx' = [ctx EXCEPT ![r] = d] /\ stored
             /\ PushTerminal(r, "cancelled", "stopped")
    <3>1. SavedAs(r, d) /\ d \in RowType /\ d.reply = c.reply
      BY <2>2, <2>3, SavedPushed DEF Terminal
    <3>2. index' \in [Runs -> Statuses] /\ shown' \in [Runs -> SUBSET Terminal]
      BY <2>3 DEF PushTerminal, Types, Statuses, Terminal
    <3> HIDE DEF d
    <3> QED BY <1>3, <2>2, <2>3, <3>1, <3>2 DEF Finalized
  <2>4. CASE VersionConflict(c) /\ ctx' = [ctx EXCEPT ![r] = c] /\ failed
             /\ UNCHANGED <<shown, index>>
    BY <1>3, <2>2, <2>4 DEF Finalized, VersionConflict, Edited, Types
  <2> QED BY <2>1, <2>3, <2>4 DEF c
<1> QED BY <1>2, <1>3

TurnTypes(r) ==
  /\ index' \in [Runs -> Statuses] /\ shown' \in [Runs -> SUBSET Terminal]
  /\ wpc' \in [Runs -> WorkerStages]
  /\ ipc' \in [Runs -> {"none", "open", "closing", "closed", "dead"}]
  /\ live' \in [Runs -> BOOLEAN] /\ finalized' \in [Runs -> BOOLEAN]
  /\ localGen' \in [Procs -> [{session} -> Runs \cup {None}]]
  /\ \A x \in Runs \ {r} : wpc'[x] = wpc[x] /\ ipc'[x] = ipc[x]
  /\ (wpc'[r] = "none") <=> (wpc[r] = "none")
  /\ (ipc'[r] = "none") <=> (ipc[r] = "none")
  /\ UNCHANGED <<handler, wake, stopping>>

LEMMA PushTypes ==
  ASSUME Types, NEW r \in Runs, NEW status \in Terminal, NEW envelope \in Terminal,
         PushTerminal(r, status, envelope)
  PROVE  index' \in [Runs -> Statuses] /\ shown' \in [Runs -> SUBSET Terminal]
BY DEF PushTerminal, Types, Statuses

LEMMA WorkerEffect ==
  ASSUME Types, NEW r \in Runs, WorkerStep(r)
  PROVE  TurnEffect(r) /\ TurnTypes(r)
<1> USE DEF storage, stream
<1>1. /\ ctx[r] \in RowType /\ Bump(ctx[r]) \in RowType /\ row \in RowType
      /\ wpc \in [Runs -> WorkerStages] /\ finalized \in [Runs -> BOOLEAN]
      /\ ctx = [ctx EXCEPT ![r] = ctx[r]] /\ OwnEdit(ctx[r], ctx[r], r)
      /\ Bump(ctx[r]).reply = ctx[r].reply
  BY BumpOf, BumpEdit DEF Types
<1>2. \A x \in Replies : LET d == [ctx[r] EXCEPT !.reply[r] = x] IN
        /\ d \in RowType /\ d.ver = ctx[r].ver /\ d.reply[r] = x
        /\ OwnEdit(d, ctx[r], r)
  <2> SUFFICES ASSUME NEW x \in Replies
               PROVE  LET d == [ctx[r] EXCEPT !.reply[r] = x] IN
                        /\ d \in RowType /\ d.ver = ctx[r].ver /\ d.reply[r] = x
                        /\ OwnEdit(d, ctx[r], r)
    OBVIOUS
  <2>1. OwnEdit([ctx[r] EXCEPT !.reply[r] = x], ctx[r], r)
    BY <1>1, ReplyEdit
  <2> QED BY <1>1, <2>1, ReplyOf, RowParts
\* The worker moves and nothing happens to the run's copy or the row.
<1>3. ASSUME UNCHANGED <<row, ctx, finalized>>, NEW stage \in WorkerStages, WGoto(r, stage),
             wpc[r] # "none", stage \notin {"none", "work"},
             stage \in BeforeSave => wpc[r] \in BeforeSave
      PROVE  TurnEffect(r)
  <2>1. Edited(r, ctx[r])
    BY <1>1, <1>3 DEF Edited
  <2> QED BY <1>1, <1>3, <2>1 DEF TurnEffect, WGoto
\* It replaces the answer of its copy before it has saved one.
<1>4. ASSUME UNCHANGED <<row, finalized>>, NEW x \in Replies, WithReply(r, x),
             NEW stage \in WorkerStages, WGoto(r, stage),
             wpc[r] \in {"work", "check", "recheck"}, stage \notin {"none", "work"}
      PROVE  TurnEffect(r)
  <2> DEFINE d == [ctx[r] EXCEPT !.reply[r] = x]
  <2>1. d \in RowType /\ d.ver = ctx[r].ver /\ OwnEdit(d, ctx[r], r)
    BY <1>2, <1>4
  <2>2. ctx' = [ctx EXCEPT ![r] = d]
    BY <1>4 DEF WithReply
  <2> HIDE DEF d
  <2>3. Edited(r, d)
    BY <1>4, <2>1, <2>2 DEF Edited
  <2> QED BY <1>1, <1>4, <2>1, <2>3 DEF TurnEffect, WGoto, BeforeSave
\* It saves the copy.
<1>5. ASSUME Save(ctx[r]), UNCHANGED finalized, NEW d \in RowType, ctx' = [ctx EXCEPT ![r] = d],
             \/ d = Bump(ctx[r])
             \/ \E status \in Terminal : d = PushedLedger(r, Bump(ctx[r]), status),
             NEW stage \in WorkerStages, WGoto(r, stage),
             wpc[r] \notin BeforeSave, stage \notin BeforeSave
      PROVE  TurnEffect(r)
  <2>1. SavedAs(r, d) /\ d.reply = ctx[r].reply
    BY <1>1, <1>5, SavedPushed
  <2> QED BY <1>1, <1>5, <2>1 DEF TurnEffect, WGoto, BeforeSave
<1>6. ASSUME NEW stage \in WorkerStages, WGoto(r, stage), wpc[r] # "none", stage # "none",
             UNCHANGED <<handler, ipc, wake, stopping>>,
             index' \in [Runs -> Statuses] /\ shown' \in [Runs -> SUBSET Terminal],
             live' \in [Runs -> BOOLEAN], finalized' \in [Runs -> BOOLEAN],
             localGen' \in [Procs -> [{session} -> Runs \cup {None}]]
      PROVE  TurnTypes(r)
  BY <1>1, <1>6 DEF TurnTypes, WGoto, Types
<1> USE DEF coordinator, WorkerStages
<1>7. CASE Work(r)
  <2>1. PICK stage \in {"check", "error", "blocked"} : WGoto(r, stage)
    BY <1>7 DEF Work
  <2>2. TurnEffect(r)
    BY <1>3, <1>4, <1>7 DEF Work, Replies, BeforeSave
  <2> QED BY <1>6, <1>7, <2>1, <2>2 DEF Work, Types
<1>8. CASE CheckCancelled(r)
  <2>1. PICK stage \in {"finish", "finalize", "recheck"} : WGoto(r, stage)
    BY <1>8 DEF CheckCancelled
  <2>2. TurnEffect(r)
    BY <1>3, <1>4, <1>8 DEF CheckCancelled, Replies, BeforeSave
  <2> QED BY <1>6, <1>8, <2>1, <2>2 DEF CheckCancelled, Types
<1>9. CASE CheckCurrent(r)
  <2>1. PICK stage \in {"finish", "save_reply"} : WGoto(r, stage)
    BY <1>9 DEF CheckCurrent
  <2>2. TurnEffect(r)
    BY <1>3, <1>4, <1>9 DEF CheckCurrent, Replies, BeforeSave
  <2> QED BY <1>6, <1>9, <2>1, <2>2 DEF CheckCurrent, Types
<1>10. CASE SaveReply(r)
  <2>1. PICK stage \in {"save_presentation", "complete"} : WGoto(r, stage)
    BY <1>10 DEF SaveReply
  <2>2. TurnEffect(r)
    <3>1. CASE Save(ctx[r]) /\ ctx' = [ctx EXCEPT ![r] = Bump(@)]
      BY <1>1, <1>5, <1>10, <2>1, <3>1 DEF SaveReply, BeforeSave
    <3>2. CASE VersionConflict(ctx[r]) /\ UNCHANGED ctx
      BY <1>3, <1>10, <2>1, <3>2 DEF SaveReply, VersionConflict, BeforeSave
    <3> QED BY <1>10, <3>1, <3>2 DEF SaveReply
  <2> QED BY <1>6, <1>10, <2>1, <2>2 DEF SaveReply, Types
<1>11. CASE Complete(r)
  <2> DEFINE d == PushedLedger(r, ctx[r], "completed")
  <2>1. d \in RowType /\ d.ver = ctx[r].ver /\ d.reply = ctx[r].reply /\ OwnEdit(d, ctx[r], r)
    BY <1>1, PushedEdit DEF OwnEdit, Terminal
  <2> HIDE DEF d
  <2>2. /\ ctx' = [ctx EXCEPT ![r] = d] /\ WGoto(r, "save_completed") /\ wpc[r] = "complete"
        /\ UNCHANGED <<row, finalized>>
    BY <1>11 DEF Complete, d
  <2>3. Edited(r, d)
    BY <2>1, <2>2 DEF Edited
  <2>4. TurnEffect(r)
    BY <1>1, <2>1, <2>2, <2>3 DEF TurnEffect, WGoto, BeforeSave
  <2>5. index' \in [Runs -> Statuses] /\ shown' \in [Runs -> SUBSET Terminal]
    BY <1>11, PushTypes DEF Complete, Terminal
  <2> QED BY <1>6, <1>11, <2>4, <2>5 DEF Complete, Types
<1>12. CASE SaveCompleted(r)
  <2>1. PICK stage \in {"finish", "error"} : WGoto(r, stage)
    BY <1>12 DEF SaveCompleted
  <2>2. TurnEffect(r)
    <3>1. CASE Save(ctx[r]) /\ ctx' = [ctx EXCEPT ![r] = Bump(@)]
      BY <1>1, <1>5, <1>12, <2>1, <3>1 DEF SaveCompleted, BeforeSave
    <3>2. CASE VersionConflict(ctx[r]) /\ UNCHANGED ctx
      BY <1>3, <1>12, <2>1, <3>2 DEF SaveCompleted, VersionConflict, BeforeSave
    <3> QED BY <1>12, <3>1, <3>2 DEF SaveCompleted
  <2> QED BY <1>6, <1>12, <2>1, <2>2 DEF SaveCompleted, Types
<1>13. ASSUME NEW status \in {"failed", "blocked"}, PushTerminal(r, status, status),
              Save(ctx[r]), ctx' = [ctx EXCEPT ![r] = PushedLedger(r, Bump(@), status)],
              UNCHANGED finalized, NEW stage \in {"finish", "record_failed"}, WGoto(r, stage),
              wpc[r] \notin BeforeSave
       PROVE  /\ TurnEffect(r)
              /\ index' \in [Runs -> Statuses] /\ shown' \in [Runs -> SUBSET Terminal]
  <2>1. status \in Terminal
    BY DEF Terminal
  <2>2. PushedLedger(r, Bump(ctx[r]), status) \in RowType
    BY <1>1, <2>1, PushedEdit DEF OwnEdit
  <2> QED BY <1>5, <1>13, <2>1, <2>2, PushTypes DEF BeforeSave
<1>14. CASE Error(r)
  <2>1. CASE VersionConflict(ctx[r]) /\ WGoto(r, "finish") /\ UNCHANGED <<ctx, shown, index>>
    <3>1. TurnEffect(r)
      BY <1>3, <1>14, <2>1 DEF Error, VersionConflict, BeforeSave
    <3> QED BY <1>6, <1>14, <2>1, <3>1 DEF Error, Types
  <2>2. CASE /\ Save(ctx[r]) /\ PushTerminal(r, "failed", "failed")
             /\ ctx' = [ctx EXCEPT ![r] = PushedLedger(r, Bump(@), "failed")]
             /\ WGoto(r, "record_failed")
    <3>1. /\ TurnEffect(r)
          /\ index' \in [Runs -> Statuses] /\ shown' \in [Runs -> SUBSET Terminal]
      BY <1>13, <1>14, <2>2 DEF Error, BeforeSave
    <3> QED BY <1>6, <1>14, <2>2, <3>1 DEF Error, Types
  <2> QED BY <1>14, <2>1, <2>2 DEF Error
<1>15. CASE Blocked(r)
  <2>1. CASE VersionConflict(ctx[r]) /\ UNCHANGED <<ctx, shown, index>>
    <3>1. TurnEffect(r)
      BY <1>3, <1>15, <2>1 DEF Blocked, VersionConflict, BeforeSave
    <3> QED BY <1>6, <1>15, <2>1, <3>1 DEF Blocked, Types
  <2>2. CASE /\ Save(ctx[r]) /\ PushTerminal(r, "blocked", "blocked")
             /\ ctx' = [ctx EXCEPT ![r] = PushedLedger(r, Bump(@), "blocked")]
    <3>1. /\ TurnEffect(r)
          /\ index' \in [Runs -> Statuses] /\ shown' \in [Runs -> SUBSET Terminal]
      BY <1>13, <1>15, <2>2 DEF Blocked, BeforeSave
    <3> QED BY <1>6, <1>15, <2>2, <3>1 DEF Blocked, Types
  <2> QED BY <1>15, <2>1, <2>2 DEF Blocked
<1>16. CASE RecordFailed(r)
  <2>1. /\ ClosedEntry(r) \/ Edited(r, ctx[r])
        /\ index' \in [Runs -> Statuses]
    BY <1>16, ClosedOf DEF RecordFailed
  <2>2. TurnEffect(r)
    BY <1>1, <1>16, <2>1 DEF RecordFailed, TurnEffect, WGoto, BeforeSave
  <2> QED BY <1>6, <1>16, <2>1, <2>2 DEF RecordFailed, Types
<1>17. CASE FinalizeByWorker(r)
  <2>1. /\ finalized' = [finalized EXCEPT ![r] = TRUE]
        /\ \E stage \in {"finish", "error"} : WGoto(r, stage)
        /\ \E d \in RowType :
              /\ Edited(r, d) \/ (SavedAs(r, d) /\ d.reply[r] # "full")
              /\ d.reply[r] = ctx[r].reply[r] \/ d.reply[r] # "full"
        /\ index' \in [Runs -> Statuses] /\ shown' \in [Runs -> SUBSET Terminal]
    BY <1>17, FinalizedOf DEF FinalizeByWorker
  <2>2. TurnEffect(r)
    BY <1>1, <1>17, <2>1 DEF FinalizeByWorker, TurnEffect, WGoto, BeforeSave
  <2> QED BY <1>1, <1>6, <1>17, <2>1, <2>2 DEF FinalizeByWorker, Types
<1>18. CASE Finish(r)
  <2>1. UNCHANGED localGen
    BY <1>18 DEF Finish, TC!Release
  <2>2. TurnEffect(r)
    BY <1>3, <1>18 DEF Finish, BeforeSave
  <2> QED BY <1>6, <1>18, <2>1, <2>2 DEF Finish, Types
<1> QED BY <1>7, <1>8, <1>9, <1>10, <1>11, <1>12, <1>14, <1>15, <1>16, <1>17, <1>18 DEF WorkerStep

LEMMA IteratorEffect ==
  ASSUME Types, NEW r \in Runs, IteratorStep(r)
  PROVE  TurnEffect(r) /\ TurnTypes(r)
<1> USE DEF storage, stream, coordinator
<1>1. /\ wpc \in [Runs -> WorkerStages] /\ finalized \in [Runs -> BOOLEAN]
      /\ ipc \in [Runs -> {"none", "open", "closing", "closed", "dead"}]
      /\ live \in [Runs -> BOOLEAN] /\ ctx[r] \in RowType
      /\ ctx = [ctx EXCEPT ![r] = ctx[r]] /\ OwnEdit(ctx[r], ctx[r], r)
  BY BumpEdit DEF Types
<1>2. ASSUME NEW stored, NEW failed, Finalized(r, stored, failed), UNCHANGED <<wpc, live>>,
             NEW stage \in {"open", "closing"}, ipc[r] = "open", ipc' = [ipc EXCEPT ![r] = stage],
             UNCHANGED <<handler, wake, stopping, localGen>>
      PROVE  TurnEffect(r) /\ TurnTypes(r)
  <2>1. /\ finalized' = [finalized EXCEPT ![r] = TRUE]
        /\ \E d \in RowType :
             /\ Edited(r, d) \/ (SavedAs(r, d) /\ d.reply[r] # "full")
             /\ d.reply[r] = ctx[r].reply[r] \/ d.reply[r] # "full"
        /\ index' \in [Runs -> Statuses] /\ shown' \in [Runs -> SUBSET Terminal]
    BY <1>2, FinalizedOf
  <2>2. TurnEffect(r)
    BY <1>1, <1>2, <2>1 DEF TurnEffect
  <2> QED BY <1>1, <1>2, <2>1, <2>2 DEF TurnTypes, Types
<1>3. CASE WakeUp(r)
  BY <1>1, <1>2, <1>3, FinalizedOf DEF WakeUp, IGoto
<1>4. CASE HeartbeatCancelled(r)
  <2>1. PICK stage \in {"open", "closing"} : ipc' = [ipc EXCEPT ![r] = stage]
    <3>1. UNCHANGED ipc \/ IGoto(r, "closing")
      BY <1>4 DEF HeartbeatCancelled, Finalized
    <3>2. UNCHANGED ipc => ipc' = [ipc EXCEPT ![r] = "open"]
      BY <1>1, <1>4 DEF HeartbeatCancelled
    <3> QED BY <3>1, <3>2 DEF IGoto
  <2> QED BY <1>2, <1>4, <2>1 DEF HeartbeatCancelled
<1>5. CASE EndOfStream(r)
  <2>1. Edited(r, ctx[r])
    BY <1>1, <1>5 DEF EndOfStream, Edited
  <2>2. TurnEffect(r)
    BY <1>1, <1>5, <2>1 DEF EndOfStream, TurnEffect
  <2> QED BY <1>1, <1>5, <2>2 DEF EndOfStream, IGoto, TurnTypes, Types
<1>6. CASE Close(r)
  <2>1. CASE live[r]
    <3>1. Edited(r, ctx[r])
      BY <1>1, <1>6, <2>1 DEF Close, Edited
    <3>2. TurnEffect(r)
      BY <1>1, <1>6, <3>1 DEF Close, TurnEffect
    <3> QED BY <1>1, <1>6, <2>1, <3>2 DEF Close, TurnTypes, Types
  <2>2. CASE ~live[r]
    <3>1. /\ ClosedEntry(r) \/ Edited(r, ctx[r])
          /\ index' \in [Runs -> Statuses]
      BY <1>6, <2>2, ClosedOf DEF Close
    <3>2. TurnEffect(r)
      BY <1>1, <1>6, <3>1 DEF Close, TurnEffect
    <3> QED BY <1>1, <1>6, <2>2, <3>1, <3>2 DEF Close, IGoto, TurnTypes, Types
  <2> QED BY <2>1, <2>2
<1> QED BY <1>3, <1>4, <1>5, <1>6 DEF IteratorStep

\* Whatever a run's worker or iterator does keeps the invariant, and of the stored
\* session it changes the entries of its own run alone.
LEMMA TurnKeeps ==
  ASSUME Inv, NEW r \in Runs, TurnEffect(r), TurnTypes(r)
  PROVE  /\ Inv'
         /\ row.used \subseteq row'.used
         /\ \A x \in Runs : row.ledger[x] \in Terminal => row'.ledger[x] \in Terminal
         /\ \A x \in Runs \ {r} : row'.reply[x] = row.reply[x]
         /\ row.reply[r] = "full" /\ row'.reply[r] # "full" => finalized'[r]
<1> DEFINE rowOK == /\ row' \in RowType /\ OwnLike(row', row, r)
                    /\ UNCHANGED row \/ (row'.ver = row.ver + 1 /\ Sound(row'))
<1>1. /\ row \in RowType /\ ctx \in [Runs -> RowType] /\ Sound(row)
      /\ OwnKnown(ctx[r], r) /\ ctx[r] \in RowType
  BY DEF Inv, Types, Copies
<1>2. rowOK
  <2>1. CASE ClosedEntry(r)
    BY <1>1, <2>1 DEF ClosedEntry, OwnEdit
  <2>2. ASSUME NEW d, SavedAs(r, d) PROVE rowOK
    <3>1. OwnLike(ctx[r], row, r) /\ Sound(ctx[r])
      BY <1>1, <2>2 DEF SavedAs, Fresh, OwnKnown
    <3> QED BY <2>2, <3>1 DEF SavedAs, OwnEdit, OwnLike
  <2>3. ASSUME NEW d, Edited(r, d) PROVE rowOK
    BY <1>1, <2>3 DEF Edited, OwnLike
  <2> QED BY <2>1, <2>2, <2>3 DEF TurnEffect
<1>3. ctx' \in [Runs -> RowType]
      /\ \A x \in Runs :
           \/ ctx'[x] = ctx[x]
           \/ ctx'[x].ver = row'.ver /\ OwnEdit(ctx'[x], row', x)
           \/ UNCHANGED row /\ ctx'[x].ver = ctx[x].ver /\ OwnEdit(ctx'[x], ctx[x], x)
  <2>1. CASE ClosedEntry(r)
    BY <1>1, <2>1 DEF ClosedEntry
  <2>2. ASSUME NEW d \in RowType, SavedAs(r, d) \/ Edited(r, d)
        PROVE  /\ ctx' \in [Runs -> RowType] /\ ctx'[r] = d
               /\ \A x \in Runs \ {r} : ctx'[x] = ctx[x]
    BY <1>1, <2>2 DEF SavedAs, Edited
  <2> QED BY <2>1, <2>2 DEF TurnEffect, SavedAs, Edited
<1>4. Types'
  BY <1>2, <1>3 DEF Inv, Types, TurnTypes, handler, stopping
<1>5. Copies'
  BY <1>2, <1>3, CopiesKeep DEF Inv, TurnTypes, handler, stopping
<1>6. row.used = row'.used
  BY <1>2 DEF OwnLike
<1>7. Claims'
  <2>1. \A x \in Runs : (wpc'[x] = "none" <=> wpc[x] = "none") /\ (ipc'[x] = "none" <=> ipc[x] = "none")
    BY DEF TurnTypes
  <2>2. \A q \in Requests : RunOf[q] \in Runs
    BY RequestsAssumption
  <2>3. UNCHANGED <<hpc, hproc, tries, victim>>
    BY DEF TurnTypes, handler
  <2> QED BY <1>6, <2>1, <2>2, <2>3 DEF Inv, Claims, PastClaim, OneExecutionPerRun
<1> DEFINE Stored == /\ row.reply[r] = "full" /\ row'.reply[r] # "full" => finalized'[r]
                     /\ wpc'[r] \in BeforeSave => row'.reply[r] # "full"
                     /\ wpc'[r] \in {"none", "work"} => ctx'[r].reply[r] # "full"
                     /\ row'.reply[r] = "full" => ctx'[r].reply[r] = "full" \/ finalized'[r]
<1>8. Stored
  <2>1. /\ wpc[r] \in BeforeSave => row.reply[r] # "full"
        /\ wpc[r] \in {"none", "work"} => ctx[r].reply[r] # "full"
        /\ row.reply[r] = "full" => ctx[r].reply[r] = "full" \/ finalized[r]
    BY DEF Inv, Answered, BeforeSave
  <2>2. CASE ClosedEntry(r)
    BY <2>1, <2>2 DEF ClosedEntry, TurnEffect
  <2>3. ASSUME NEW d \in RowType, Edited(r, d),
               \/ d.reply[r] = ctx[r].reply[r]
               \/ finalized'[r] /\ d.reply[r] # "full"
               \/ wpc[r] \in BeforeSave /\ wpc'[r] \notin {"none", "work"}
        PROVE  Stored
    BY <1>1, <2>1, <2>3 DEF Edited, TurnEffect
  <2>4. ASSUME NEW d \in RowType, SavedAs(r, d), wpc[r] \in BeforeSave => d.reply[r] # "full",
               \/ d.reply[r] = ctx[r].reply[r]
               \/ finalized'[r] /\ d.reply[r] # "full"
               \/ wpc[r] \in BeforeSave /\ UNCHANGED row
        PROVE  Stored
    BY <1>1, <2>1, <2>4 DEF SavedAs, TurnEffect
  <2> QED BY <2>2, <2>3, <2>4 DEF TurnEffect
<1>9. Answered'
  <2> SUFFICES ASSUME NEW x \in Runs \ {r}
               PROVE  /\ wpc'[x] \in {"none", "work", "check", "recheck"} => row'.reply[x] # "full"
                      /\ wpc'[x] \in {"none", "work"} => ctx'[x].reply[x] # "full"
                      /\ row'.reply[x] = "full" => ctx'[x].reply[x] = "full" \/ finalized'[x]
    BY <1>8 DEF Answered, BeforeSave
  <2>1. row'.reply[x] = row.reply[x] /\ wpc'[x] = wpc[x] /\ finalized'[x] = finalized[x]
    BY <1>2 DEF OwnLike, TurnTypes, TurnEffect
  <2>2. ctx'[x] = ctx[x]
    BY <1>1 DEF TurnEffect, ClosedEntry, Edited, SavedAs
  <2> QED BY <2>1, <2>2 DEF Inv, Answered
<1> QED BY <1>2, <1>4, <1>5, <1>6, <1>7, <1>8, <1>9 DEF Inv, OwnLike

-----------------------------------------------------------------------------
(* The handler of a request: it writes the row from a copy that is the row's,*)
(* claims a run id that nobody has claimed, and never touches an answer.      *)

\* A row that has all the claims, ended entries and answers of the last one.
Keeps ==
  /\ row' \in RowType /\ Sound(row') /\ (UNCHANGED row \/ row'.ver = row.ver + 1)
  /\ row.used \subseteq row'.used
  /\ \A x \in Runs : row'.reply[x] = "full" <=> row.reply[x] = "full"
  /\ \A x \in row.used : row.ledger[x] \in Terminal => row'.ledger[x] \in Terminal

LEMMA SavedKeeps ==
  ASSUME NEW c \in RowType, row \in RowType, Known(c), Save(c)
  PROVE  Keeps /\ row'.used = row.used /\ row'.ver = row.ver + 1 /\ row' = Bump(c)
<1>1. Like(c, row) /\ Sound(c) /\ c.ver = row.ver
  BY DEF Known, Save, Fresh
<1>2. row' = Bump(c)
  BY DEF Save
<1> QED BY <1>1, <1>2, BumpOf DEF Keeps, Like, Sound

LEMMA UnchangedKeeps == ASSUME Inv, UNCHANGED row PROVE Keeps /\ row'.used = row.used
BY DEF Inv, Types, Copies, Keeps

\* What remains to be shown once the row is kept.
LEMMA KeepsCopies ==
  ASSUME Inv, Keeps, NEW q \in Requests,
         \A x \in Requests \ {q} : copy'[x] = copy[x],
         \/ copy'[q] = copy[q] \/ copy'[q] = FirstRow
         \/ copy'[q].ver = row'.ver /\ Like(copy'[q], row'),
         UNCHANGED scopy,
         \/ UNCHANGED ctx
         \/ \E r \in Runs : ctx' = [ctx EXCEPT ![r] = row']
  PROVE  Copies'
<1>1. \A r \in Runs : ctx'[r] = ctx[r] \/ (ctx'[r].ver = row'.ver /\ OwnEdit(ctx'[r], row', r))
  BY BumpEdit DEF Inv, Types, Keeps
<1> QED BY <1>1, CopiesKeep DEF Inv, Keeps

LEMMA KeepsClaims ==
  ASSUME Inv, Keeps, NEW q \in Requests, UNCHANGED <<wpc, ipc>>,
         NEW stage, Goto(q, stage), stage \notin {"reserve", "reserving", "setup", "streaming",
                                                  "broken", "too_many"} \/ PastClaim(q),
         stage \in {"reserve", "reserving", "setup"} => hpc[q] \in {"reserve", "reserving", "setup"},
         \A x \in Requests \ {q} : tries'[x] = tries[x] /\ hproc'[x] = hproc[x]
                                   /\ victim'[x] = victim[x],
         stage # "conflict" => tries'[q] <= 2, hproc'[q] \in Procs,
         stage = "superseding" => victim'[q] \in Runs
  PROVE  Claims'
<1>1. hpc'[q] = stage /\ \A x \in Requests \ {q} : hpc'[x] = hpc[x]
  BY DEF Goto, Inv, Types
<1>2. \A x \in Requests : PastClaim(x)' => PastClaim(x)
  BY <1>1 DEF PastClaim
<1>3. OneExecutionPerRun'
  BY <1>2 DEF Inv, Claims, OneExecutionPerRun
<1>4. \A x \in Requests : PastClaim(x)' => RunOf[x] \in row'.used
  BY <1>2 DEF Inv, Claims, Keeps
<1>5. \A r \in Runs : (wpc'[r] # "none" => r \in row'.used) /\ (ipc'[r] = "none" <=> wpc'[r] = "none")
  BY DEF Inv, Claims, Keeps
<1>6. \A x \in Requests :
        /\ hpc'[x] \in {"reserve", "reserving", "setup"} => wpc'[RunOf[x]] = "none"
        /\ hpc'[x] # "conflict" => tries'[x] <= 2
        /\ hpc'[x] # "new" => hproc'[x] \in Procs
        /\ hpc'[x] = "superseding" => victim'[x] \in Runs
  BY <1>1 DEF Inv, Claims
<1> QED BY <1>3, <1>4, <1>5, <1>6 DEF Claims

LEMMA KeepsAnswered ==
  ASSUME Inv, Keeps, UNCHANGED <<wpc, ctx, finalized>>
  PROVE  Answered'
BY DEF Inv, Answered, Keeps

LEMMA HandlerKeeps ==
  ASSUME Inv, NEW q \in Requests, HandlerStep(q)
  PROVE  Inv' /\ Keeps /\ UNCHANGED finalized
<1> USE DEF storage, handler, stream, stopping, Goto
<1> DEFINE r == RunOf[q]
<1>1. /\ r \in Runs /\ row \in RowType /\ copy[q] \in RowType /\ Known(copy[q])
      /\ ctx[r] \in RowType /\ OwnKnown(ctx[r], r) /\ Sound(row) /\ Bump(row) \in RowType
      /\ copy \in [Requests -> RowType] /\ hpc \in [Requests -> HandlerStages]
      /\ ctx \in [Runs -> RowType] /\ tries \in [Requests -> 0..3]
      /\ victim \in [Requests -> Runs \cup {None}] /\ hproc \in [Requests -> Procs \cup {None}]
  BY RequestsAssumption, BumpOf DEF Inv, Types, Copies
<1>2. Types'
  BY HandlerTypes DEF Inv
<1>3. UNCHANGED finalized /\ hpc[q] # "new" /\ hproc[q] \in Procs
  BY DEF HandlerStep, Open, Prepare, SupersedeRun, RecordSuperseded, Claim, Reserve, Refused,
         Setup, Start, Inv, Claims
<1>4. /\ \A x \in Requests : hpc[x] \in {"reserve", "reserving", "setup"} => wpc[RunOf[x]] = "none"
      /\ hpc[q] # "conflict" => tries[q] <= 2
  BY DEF Inv, Claims
<1>5. CASE Open(q)
  <2>1. Keeps /\ hpc[q] = "loaded" /\ Goto(q, "opened")
    BY <1>5, UnchangedKeeps DEF Open
  <2>2. LET c == [row EXCEPT !.profile = "other"] IN c.ver = row.ver /\ Like(c, row)
    BY <1>1 DEF Like, RowType
  <2>3. Copies'
    BY <1>1, <1>5, <2>1, <2>2, KeepsCopies DEF Open
  <2>4. Claims'
    BY <1>3, <1>4, <1>5, <2>1, KeepsClaims DEF Open
  <2>5. Answered'
    BY <1>5, <2>1, KeepsAnswered DEF Open
  <2> QED BY <1>2, <1>3, <2>1, <2>3, <2>4, <2>5 DEF Inv
<1>6. CASE Prepare(q)
  <2>1. /\ Keeps /\ copy' = [copy EXCEPT ![q] = copy'[q]]
        /\ copy'[q] = FirstRow \/ (copy'[q].ver = row'.ver /\ Like(copy'[q], row'))
        /\ \E stage \in {"prepared", "conflict"} : Goto(q, stage)
    <3>1. CASE Save(copy[q]) /\ copy' = [copy EXCEPT ![q] = Bump(@)] /\ Goto(q, "prepared")
      <4>1. Keeps /\ row' = Bump(copy[q])
        BY <1>1, <3>1, SavedKeeps
      <4> QED BY <1>1, <3>1, <4>1 DEF Like
    <3>2. CASE VersionConflict(copy[q]) /\ Goto(q, "conflict") /\ Forget(q)
      BY <1>1, <3>2, UnchangedKeeps DEF VersionConflict, Forget
    <3> QED BY <1>6, <3>1, <3>2 DEF Prepare
  <2>2. Copies'
    BY <1>1, <1>6, <2>1, KeepsCopies DEF Prepare
  <2>3. Claims'
    BY <1>3, <1>4, <1>6, <2>1, KeepsClaims DEF Prepare
  <2>4. Answered'
    BY <1>6, <2>1, KeepsAnswered DEF Prepare
  <2> QED BY <1>2, <1>3, <2>1, <2>2, <2>3, <2>4 DEF Inv
<1>7. CASE SupersedeRun(q)
  <2>1. Keeps
    BY <1>7, UnchangedKeeps DEF SupersedeRun
  <2>2. Copies'
    BY <1>7, <2>1, KeepsCopies DEF SupersedeRun
  <2>3. Claims'
    <3>1. CASE Goto(q, "claim") /\ UNCHANGED victim
      <4>1. tries'[q] <= 2
        BY <1>7 DEF SupersedeRun, Inv, Claims
      <4> QED BY <1>3, <1>4, <1>7, <2>1, <3>1, <4>1, KeepsClaims DEF SupersedeRun
    <3>2. CASE /\ TC!Supersede(hproc[q], r) /\ Goto(q, "superseding")
               /\ victim' = [victim EXCEPT ![q] = localGen[hproc[q]][session]]
      <4>1. victim'[q] \in Runs
        BY <1>1, <1>3, <3>2, OneSession DEF TC!Supersede, Inv, Types
      <4> QED BY <1>1, <1>3, <1>4, <1>7, <2>1, <3>2, <4>1, KeepsClaims DEF SupersedeRun
    <3> QED BY <1>7, <3>1, <3>2 DEF SupersedeRun
  <2>4. Answered'
    BY <1>7, <2>1, KeepsAnswered DEF SupersedeRun
  <2> QED BY <1>2, <1>3, <2>1, <2>2, <2>3, <2>4 DEF Inv
<1>8. CASE RecordSuperseded(q)
  <2> DEFINE v == victim[q]
             c == IF row.ledger[v] = "none" THEN row ELSE SetLedger(row, v, "superseded")
  <2>1. v \in Runs /\ hpc[q] = "superseding" /\ row' = Bump(c)
    BY <1>8 DEF RecordSuperseded, Inv, Claims
  <2>2. /\ c \in RowType /\ c.ver = row.ver /\ c.used = row.used /\ c.reply = row.reply
        /\ \A x \in Runs : /\ row.ledger[x] \in Terminal => c.ledger[x] \in Terminal
                           /\ row.ledger[x] # "none" => c.ledger[x] # "none"
    <3>1. CASE row.ledger[v] = "none"
      BY <1>1, <3>1
    <3>2. CASE row.ledger[v] # "none"
      <4>1. c = SetLedger(row, v, "superseded") /\ "superseded" \in Statuses
            /\ "superseded" \in Terminal /\ row.ledger \in [Runs -> Statuses]
        BY <1>1, <3>2, RowParts DEF Statuses, Terminal
      <4>2. /\ c \in RowType /\ c.ver = row.ver /\ c.used = row.used /\ c.reply = row.reply
            /\ c.ledger = [row.ledger EXCEPT ![v] = "superseded"]
        BY <1>1, <2>1, <4>1, LedgerOf
      <4> HIDE DEF c
      <4> QED BY <2>1, <4>1, <4>2
    <3> QED BY <3>1, <3>2
  <2> HIDE DEF c
  <2>3. Keeps
    BY <1>1, <2>1, <2>2, BumpOf, RowParts DEF Keeps, Sound
  <2>4. Copies'
    BY <1>8, <2>3, KeepsCopies DEF RecordSuperseded
  <2>5. Claims'
    <3>1. /\ Goto(q, "claim") /\ hpc[q] = "superseding"
          /\ \A x \in Requests \ {q} : victim'[x] = victim[x]
          /\ UNCHANGED <<wpc, ipc, tries, hproc>>
      BY <1>1, <1>8 DEF RecordSuperseded
    <3> QED BY <1>3, <1>4, <2>3, <3>1, KeepsClaims
  <2>6. Answered'
    BY <1>8, <2>3, KeepsAnswered DEF RecordSuperseded
  <2> QED BY <1>2, <1>3, <2>3, <2>4, <2>5, <2>6 DEF Inv
<1>9. CASE Claim(q)
  <2> DEFINE claimed == [copy[q] EXCEPT !.used = @ \cup {r}, !.ledger[r] = "running"]
  <2>1. CASE /\ r \notin copy[q].used /\ Save(claimed) /\ Forget(q) /\ Goto(q, "reserve")
             /\ UNCHANGED tries
    <3>1. /\ claimed \in RowType /\ claimed.ver = copy[q].ver /\ claimed.reply = copy[q].reply
          /\ claimed.used = copy[q].used \cup {r}
          /\ claimed.ledger = [copy[q].ledger EXCEPT ![r] = "running"]
      BY <1>1 DEF RowType, Statuses
    <3> HIDE DEF claimed
    <3>2. Like(copy[q], row) /\ Sound(copy[q]) /\ row' = Bump(claimed) /\ claimed.ver = row.ver
      BY <1>1, <2>1, <3>1 DEF Save, Fresh, Known
    <3>3. r \notin row.used /\ row'.used = row.used \cup {r}
      BY <2>1, <3>1, <3>2, BumpOf DEF Like
    <3>4. /\ row.ledger \in [Runs -> Statuses]
          /\ row'.ledger = [row.ledger EXCEPT ![r] = "running"]
      BY <1>1, <3>1, <3>2, BumpOf, RowParts DEF Like
    <3>5. Keeps
      <4>1. row' \in RowType /\ row'.ver = row.ver + 1 /\ row'.reply = row.reply
        BY <1>1, <3>1, <3>2, BumpOf DEF Like
      <4>2. Sound(row')
        BY <1>1, <3>3, <3>4 DEF Sound
      <4> QED BY <3>3, <3>4, <4>1, <4>2 DEF Keeps
    <3>6. Copies'
      BY <1>1, <1>9, <2>1, <3>5, KeepsCopies DEF Claim, Forget
    <3>7. Claims'
      <4>1. hpc[q] = "claim" /\ hpc'[q] = "reserve" /\ \A x \in Requests \ {q} : hpc'[x] = hpc[x]
        BY <1>1, <1>9, <2>1 DEF Claim
      <4>2. UNCHANGED <<wpc, ipc, tries, hproc, victim>>
        BY <1>9, <2>1 DEF Claim
      <4>3. \A x \in Requests : PastClaim(x)' => x = q \/ (PastClaim(x) /\ RunOf[x] # r)
        BY <3>3, <4>1 DEF PastClaim, Inv, Claims
      <4>4. wpc[r] = "none"
        BY <1>1, <3>3 DEF Inv, Claims
      <4>5. OneExecutionPerRun'
        BY <4>3 DEF Inv, Claims, OneExecutionPerRun
      <4>6. \A x \in Requests : PastClaim(x)' => RunOf[x] \in row'.used
        BY <3>3, <4>3 DEF Inv, Claims
      <4>7. \A x \in Runs : wpc'[x] # "none" => x \in row'.used
        BY <3>3, <4>2 DEF Inv, Claims
      <4>8. \A x \in Requests :
              /\ hpc'[x] \in {"reserve", "reserving", "setup"} => wpc'[RunOf[x]] = "none"
              /\ hpc'[x] # "conflict" => tries'[x] <= 2
              /\ hpc'[x] # "new" => hproc'[x] \in Procs
              /\ hpc'[x] = "superseding" => victim'[x] \in Runs
        BY <1>3, <1>4, <4>1, <4>2, <4>4 DEF Inv, Claims
      <4> QED BY <4>2, <4>5, <4>6, <4>7, <4>8 DEF Inv, Claims
    <3>8. Answered'
      BY <1>9, <3>5, KeepsAnswered DEF Claim
    <3> QED BY <1>2, <1>3, <3>5, <3>6, <3>7, <3>8 DEF Inv
  <2>2. CASE /\ UNCHANGED row
             /\ \/ Goto(q, "run_id_conflict") /\ Forget(q) /\ UNCHANGED tries
                \/ /\ tries' = [tries EXCEPT ![q] = @ + 1]
                   /\ IF LastTry(q) THEN Goto(q, "conflict") /\ Forget(q)
                      ELSE Reread(q) /\ UNCHANGED hpc
    <3>1. Keeps
      BY <2>2, UnchangedKeeps
    <3>2. /\ copy' = [copy EXCEPT ![q] = copy'[q]]
          /\ copy'[q] = FirstRow \/ copy'[q] = row'
      BY <1>1, <2>2 DEF Forget, Reread
    <3>3. Copies'
      BY <1>1, <1>9, <3>1, <3>2, KeepsCopies DEF Claim, Like
    <3>4. tries[q] \in 0..2
      BY <1>1, <1>4, <1>9 DEF Claim
    <3>5. \E stage \in {"run_id_conflict", "conflict", "claim"} :
            /\ Goto(q, stage) /\ (stage # "conflict" => tries'[q] <= 2)
            /\ \A x \in Requests \ {q} : tries'[x] = tries[x]
      <4>1. hpc[q] = "claim" /\ (UNCHANGED hpc => Goto(q, "claim"))
        BY <1>1, <1>9 DEF Claim
      <4> QED BY <1>1, <2>2, <3>4, <4>1 DEF LastTry
    <3>6. Claims'
      BY <1>3, <1>9, <3>1, <3>5, KeepsClaims DEF Claim
    <3>7. Answered'
      BY <1>9, <3>1, KeepsAnswered DEF Claim
    <3> QED BY <1>2, <1>3, <3>1, <3>3, <3>6, <3>7 DEF Inv
  <2> QED BY <1>9, <2>1, <2>2 DEF Claim, VersionConflict
<1>10. CASE Reserve(q) \/ Refused(q)
  <2>1. Keeps
    BY <1>10, UnchangedKeeps DEF Reserve, Refused
  <2>2. Copies'
    BY <1>10, <2>1, KeepsCopies DEF Reserve, Refused
  <2>3. \E stage \in {"reserving", "too_many"} :
          /\ Goto(q, stage) /\ PastClaim(q) /\ hpc[q] \in {"reserve", "reserving"}
          /\ UNCHANGED <<wpc, ipc, tries, hproc, victim>>
    BY <1>10 DEF Reserve, Refused, PastClaim
  <2>4. Claims'
    BY <1>3, <1>4, <2>1, <2>3, KeepsClaims
  <2>5. Answered'
    BY <1>10, <2>1, KeepsAnswered DEF Reserve, Refused
  <2> QED BY <1>2, <1>3, <2>1, <2>2, <2>4, <2>5 DEF Inv
<1>11. CASE Setup(q)
  <2>1. Keeps
    BY <1>11, UnchangedKeeps DEF Setup
  <2>2. Copies'
    <3>1. ctx' = [ctx EXCEPT ![r] = row'] /\ UNCHANGED <<copy, scopy>>
      BY <1>11 DEF Setup
    <3> QED BY <1>1, <2>1, <3>1, KeepsCopies
  <2>3. Claims'
    <3>1. /\ Goto(q, "setup") /\ PastClaim(q) /\ hpc[q] = "reserving"
          /\ UNCHANGED <<wpc, ipc, tries, hproc, victim>>
      BY <1>11 DEF Setup, PastClaim
    <3> QED BY <1>3, <1>4, <2>1, <3>1, KeepsClaims
  <2>4. Answered'
    <3>1. wpc[r] = "none" /\ ctx' = [ctx EXCEPT ![r] = row] /\ UNCHANGED <<row, wpc, finalized>>
      BY <1>4, <1>11 DEF Setup
    <3> QED BY <1>1, <3>1 DEF Inv, Answered
  <2> QED BY <1>2, <1>3, <2>1, <2>2, <2>3, <2>4 DEF Inv
<1>12. CASE Start(q)
  <2>1. hpc[q] = "setup" /\ PastClaim(q) /\ wpc[r] = "none"
    BY <1>4, <1>12 DEF Start, PastClaim
  <2>2. CASE VersionConflict(ctx[r]) /\ Goto(q, "broken") /\ UNCHANGED <<ctx, wpc, ipc>>
    <3>1. Keeps
      BY <2>2, UnchangedKeeps DEF VersionConflict
    <3>2. Copies'
      BY <1>12, <2>2, <3>1, KeepsCopies DEF Start
    <3>3. Claims'
      BY <1>3, <1>4, <1>12, <2>1, <2>2, <3>1, KeepsClaims DEF Start
    <3>4. Answered'
      BY <1>12, <2>2, <3>1, KeepsAnswered DEF Start
    <3> QED BY <1>2, <1>3, <3>1, <3>2, <3>3, <3>4 DEF Inv
  <2>3. CASE /\ Save(ctx[r]) /\ ctx' = [ctx EXCEPT ![r] = Bump(@)]
             /\ wpc' = [wpc EXCEPT ![r] = "work"] /\ ipc' = [ipc EXCEPT ![r] = "open"]
             /\ Goto(q, "streaming")
    <3>1. OwnLike(ctx[r], row, r) /\ Sound(ctx[r]) /\ row' = Bump(ctx[r]) /\ ctx[r].ver = row.ver
      BY <1>1, <2>3 DEF Save, Fresh, OwnKnown
    <3>2. /\ row' \in RowType /\ row'.ver = row.ver + 1 /\ Sound(row')
          /\ OwnLike(row', row, r) /\ row'.reply = ctx[r].reply
      BY <1>1, <3>1, BumpOf DEF OwnLike, Sound
    <3>3. row.reply[r] # "full" /\ ctx[r].reply[r] # "full"
      BY <1>1, <2>1 DEF Inv, Answered
    <3>4. Keeps
      BY <1>1, <3>2, <3>3, RowParts DEF Keeps, OwnLike
    <3>5. ctx' = [ctx EXCEPT ![r] = row']
      BY <2>3, <3>1
    <3>6. Copies'
      BY <1>1, <1>12, <3>4, <3>5, KeepsCopies DEF Start
    <3>7. /\ hpc'[q] = "streaming" /\ \A x \in Requests \ {q} : hpc'[x] = hpc[x]
          /\ wpc'[r] = "work" /\ ipc'[r] = "open"
          /\ \A x \in Runs \ {r} : wpc'[x] = wpc[x] /\ ipc'[x] = ipc[x]
          /\ UNCHANGED <<tries, hproc, victim>>
      BY <1>1, <1>12, <2>3 DEF Start, Inv, Types
    <3>8. r \in row.used /\ row.used \subseteq row'.used
      BY <2>1, <3>4 DEF Keeps, Inv, Claims
    <3>9. Claims'
      <4>1. \A x \in Requests : PastClaim(x)' => PastClaim(x)
        BY <2>1, <3>7 DEF PastClaim
      <4>2. OneExecutionPerRun'
        BY <4>1 DEF Inv, Claims, OneExecutionPerRun
      <4>3. \A x \in Requests : PastClaim(x)' => RunOf[x] \in row'.used
        BY <3>8, <4>1 DEF Inv, Claims
      <4>4. \A x \in Runs : /\ wpc'[x] # "none" => x \in row'.used
                            /\ ipc'[x] = "none" <=> wpc'[x] = "none"
        BY <3>7, <3>8 DEF Inv, Claims
      <4>5. \A x \in Requests \ {q} :
              hpc[x] \in {"reserve", "reserving", "setup"} => RunOf[x] # r
        BY <2>1 DEF PastClaim, OneExecutionPerRun, Inv, Claims
      <4>6. \A x \in Requests :
              /\ hpc'[x] \in {"reserve", "reserving", "setup"} => wpc'[RunOf[x]] = "none"
              /\ hpc'[x] # "conflict" => tries'[x] <= 2
              /\ hpc'[x] # "new" => hproc'[x] \in Procs
              /\ hpc'[x] = "superseding" => victim'[x] \in Runs
        BY <1>3, <1>4, <2>1, <3>7, <4>5, RequestsAssumption DEF Inv, Claims
      <4> QED BY <4>2, <4>3, <4>4, <4>6 DEF Inv, Claims
    <3>10. Answered'
      <4>1. \A x \in Runs \ {r} : ctx'[x] = ctx[x] /\ wpc'[x] = wpc[x]
        BY <1>1, <2>3, <3>7
      <4>2. ctx'[r] = row' /\ row'.reply[r] # "full"
        BY <1>1, <3>2, <3>3, <3>5
      <4> QED BY <1>3, <3>4, <4>1, <4>2 DEF Keeps, Inv, Answered
    <3> QED BY <1>2, <1>3, <3>4, <3>6, <3>9, <3>10 DEF Inv
  <2> QED BY <1>12, <2>2, <2>3 DEF Start
<1> QED BY <1>5, <1>6, <1>7, <1>8, <1>9, <1>10, <1>11, <1>12 DEF HandlerStep

-----------------------------------------------------------------------------
(* The other steps: a request arrives, a run is stopped, the coordinator's   *)
(* own, a process dies.                                                      *)

LEMMA ElsewhereKeeps ==
  ASSUME Inv, Keeps, UNCHANGED <<handler, wpc, ipc>>
  PROVE  Claims'
<1>1. \A q \in Requests : PastClaim(q)' <=> PastClaim(q)
  BY DEF PastClaim, handler
<1>2. OneExecutionPerRun'
  BY <1>1 DEF Inv, Claims, OneExecutionPerRun
<1> QED BY <1>1, <1>2 DEF Inv, Claims, Keeps, handler

LEMMA LoadKeeps ==
  ASSUME Inv, NEW p \in Procs, NEW q \in Requests, Load(p, q)
  PROVE  Inv' /\ Keeps
<1> USE DEF storage, stream, stopping
<1>1. /\ copy \in [Requests -> RowType] /\ hpc \in [Requests -> HandlerStages]
      /\ hproc \in [Requests -> Procs \cup {None}] /\ row \in RowType
      /\ hpc[q] = "new" /\ UNCHANGED <<row, ctx, scopy, wpc, ipc, finalized, tries, victim>>
  BY DEF Load, Inv, Types
<1>2. Keeps
  BY <1>1, UnchangedKeeps
<1>3. \A x \in Requests \ {q} : copy'[x] = copy[x] /\ hproc'[x] = hproc[x]
  BY <1>1 DEF Load
<1>4. /\ copy' \in [Requests -> RowType] /\ (copy'[q] = copy[q] \/ copy'[q] = row')
      /\ hproc' \in [Requests -> Procs \cup {None}] /\ hproc'[q] \in Procs
  BY <1>1 DEF Load
<1>5. \E stage \in {"loaded", "must_stop", "opened"} : Goto(q, stage)
  BY DEF Load
<1>6. Types'
  <2>1. hpc' \in [Requests -> HandlerStages]
    BY <1>1, <1>5 DEF Goto, HandlerStages, AnswersSent
  <2>2. UNCHANGED <<localGen, index, live, wake, shown, spc>>
    BY DEF Load, coordinator
  <2> QED BY <1>1, <1>4, <2>1, <2>2 DEF Inv, Types
<1>7. Copies'
  BY <1>1, <1>2, <1>3, <1>4, KeepsCopies DEF Like
<1>8. Claims'
  <2>1. tries'[q] <= 2
    BY <1>1 DEF Inv, Claims
  <2> QED BY <1>1, <1>2, <1>3, <1>4, <1>5, <2>1, KeepsClaims
<1>9. Answered'
  BY <1>1, <1>2, KeepsAnswered
<1> QED BY <1>2, <1>6, <1>7, <1>8, <1>9 DEF Inv

LEMMA StopKeeps ==
  ASSUME Inv, NEW r \in Runs, StopStep(r) \/ \E p \in Procs : StopCancel(p, r)
  PROVE  Inv' /\ Keeps
<1> USE DEF storage, handler, stream
<1>1. /\ row \in RowType /\ scopy \in [Runs -> RowType] /\ Known(scopy[r])
      /\ UNCHANGED <<hpc, hproc, copy, tries, victim, wpc, ipc, ctx, live, finalized, shown, index>>
  BY DEF StopStep, StopCancel, StopAnswer, StopLoad, StopSave, Inv, Types, Copies
<1>2. /\ localGen' \in [Procs -> [{session} -> Runs \cup {None}]]
      /\ wake' \in [Runs -> BOOLEAN]
      /\ spc' \in [Runs -> {"none", "cancelling", "acked", "loaded", "stopped", "refused",
                            "conflict", "dead"}]
  <2>1. CASE StopAnswer(r) \/ StopLoad(r) \/ StopSave(r)
    BY <2>1 DEF StopAnswer, StopLoad, StopSave, SGoto, coordinator, Inv, Types
  <2>2. ASSUME NEW p \in Procs, StopCancel(p, r) PROVE <1>2!:
    <3>1. localGen' \in [Procs -> [{session} -> Runs \cup {None}]]
      BY <2>2, CoordinatorTypes DEF StopCancel, Inv, Types
    <3> QED BY <2>2, <3>1 DEF StopCancel, SGoto, Inv, Types
  <2> QED BY <2>1, <2>2 DEF StopStep
<1>3. /\ Keeps /\ scopy' \in [Runs -> RowType]
      /\ \A x \in Runs : \/ scopy'[x] = scopy[x] \/ scopy'[x] = FirstRow
                         \/ scopy'[x].ver = row'.ver /\ Like(scopy'[x], row')
  <2>1. CASE StopLoad(r)
    BY <1>1, <2>1, UnchangedKeeps DEF StopLoad, Like
  <2>2. CASE StopSave(r)
    <3> DEFINE c == SetLedger(scopy[r], r, "stopped")
    <3>1. scopy' \in [Runs -> RowType] /\ \A x \in Runs : scopy'[x] = scopy[x] \/ scopy'[x] = FirstRow
      BY <1>1, <2>2, FirstRowType DEF StopSave
    <3>2. CASE Save(c)
      <4>1. scopy[r] \in RowType /\ "stopped" \in Statuses /\ "stopped" \in Terminal
        BY <1>1 DEF Statuses, Terminal
      <4> HIDE DEF c
      <4>2. /\ c \in RowType /\ c.ver = scopy[r].ver /\ c.used = scopy[r].used
            /\ c.reply = scopy[r].reply
            /\ c.ledger = [scopy[r].ledger EXCEPT ![r] = "stopped"]
        BY <4>1, LedgerOf DEF c
      <4>3. row' = Bump(c) /\ c.ver = row.ver /\ Like(scopy[r], row) /\ Sound(scopy[r])
        BY <1>1, <3>2, <4>2 DEF Save, Fresh, Known
      <4>4. /\ row' \in RowType /\ row'.ver = row.ver + 1 /\ row'.used = row.used
            /\ row'.reply = row.reply /\ row'.ledger = [row.ledger EXCEPT ![r] = "stopped"]
        BY <4>2, <4>3, BumpOf DEF Like
      <4>5. row.ledger \in [Runs -> Statuses] /\ Sound(row) /\ row.used \subseteq Runs
        BY <1>1, RowParts DEF Inv, Copies
      <4>6. Keeps
        BY <4>1, <4>4, <4>5 DEF Keeps, Sound
      <4> QED BY <3>1, <4>6
    <3>3. CASE VersionConflict(scopy[r])
      BY <3>1, <3>3, UnchangedKeeps DEF VersionConflict
    <3> QED BY <2>2, <3>2, <3>3 DEF StopSave
  <2>3. CASE StopAnswer(r) \/ \E p \in Procs : StopCancel(p, r)
    BY <1>1, <2>3, UnchangedKeeps DEF StopAnswer, StopCancel
  <2> QED BY <2>1, <2>2, <2>3 DEF StopStep
<1>4. Types'
  BY <1>1, <1>2, <1>3 DEF Inv, Types, Keeps
<1>5. Copies'
  BY <1>1, <1>3, CopiesKeep DEF Inv, Keeps
<1>6. Claims'
  BY <1>1, <1>3, ElsewhereKeeps
<1>7. Answered'
  BY <1>1, <1>3, KeepsAnswered
<1> QED BY <1>3, <1>4, <1>5, <1>6, <1>7 DEF Inv

LEMMA CoordinatorKeeps == ASSUME Inv, CoordinatorStep PROVE Inv' /\ Keeps
<1> USE DEF storage, handler, stream, stopping
<1>1. UNCHANGED <<storage, handler, stream, stopping>>
  BY DEF CoordinatorStep
<1>2. localGen' \in [Procs -> [{session} -> Runs \cup {None}]]
  <2>1. ASSUME NEW r \in Runs, TC!Acquire(r) \/ TC!ReleaseRedis(r)
        PROVE  localGen' \in [Procs -> [{session} -> Runs \cup {None}]]
    <3>1. CASE TC!SetGeneration(r)
      BY <3>1, OneSession DEF TC!SetGeneration, Inv, Types
    <3>2. CASE \/ TC!AcquireGlobal(r) \/ TC!GlobalTimeout(r) \/ TC!AcquireUser(r) \/ TC!UserTimeout(r)
               \/ TC!ReserveRedis(r) \/ TC!ReserveRefused(r) \/ TC!ReserveFault(r)
               \/ TC!PublishGeneration(r) \/ TC!PublishFault(r) \/ TC!ReleaseRedis(r)
      BY <3>2 DEF TC!AcquireGlobal, TC!GlobalTimeout, TC!AcquireUser, TC!UserTimeout,
         TC!ReserveRedis, TC!ReserveRefused, TC!ReserveFault, TC!PublishGeneration,
         TC!PublishFault, TC!ReleaseRedis, TC!local, TC!redis, TC!stops, TC!env, Inv, Types
    <3> QED BY <2>1, <3>1, <3>2 DEF TC!Acquire
  <2>2. ASSUME NEW p \in Procs, NEW r \in Runs, TC!CancelRedis(p, r)
        PROVE  localGen' \in [Procs -> [{session} -> Runs \cup {None}]]
    BY <2>2, CoordinatorTypes DEF Inv, Types
  <2> QED BY <2>1, <2>2 DEF CoordinatorStep
<1>3. Keeps
  BY <1>1, UnchangedKeeps
<1>4. Types'
  BY <1>1, <1>2 DEF Inv, Types
<1>5. Copies'
  BY <1>1, <1>3, CopiesKeep DEF Inv, Keeps
<1>6. Claims' /\ Answered'
  BY <1>1, <1>3, ElsewhereKeeps, KeepsAnswered
<1> QED BY <1>3, <1>4, <1>5, <1>6 DEF Inv

LEMMA CrashKeeps == ASSUME Inv, NEW p \in Procs, Crash(p) PROVE Inv' /\ Keeps
<1> USE DEF storage
<1>1. UNCHANGED <<row, index, hproc, copy, tries, victim, ctx, live, finalized, wake, shown, scopy>>
  BY DEF Crash
<1>2. \A q \in Requests :
        \/ hpc'[q] = hpc[q]
        \/ hpc'[q] = "dead" /\ hproc[q] = p /\ hpc[q] \notin AnswersSent
  BY DEF Crash
<1>3. \A r \in Runs :
        /\ wpc'[r] = wpc[r] \/ (wpc'[r] = "dead" /\ wpc[r] # "none")
        /\ ipc'[r] = ipc[r] \/ (ipc'[r] = "dead" /\ ipc[r] # "none")
  BY DEF Crash
<1>4. Keeps
  BY <1>1, UnchangedKeeps
<1>5. Types'
  <2>1. localGen' \in [Procs -> [{session} -> Runs \cup {None}]]
    BY DEF Crash, TC!Crash, Inv, Types
  <2>2. hpc' \in [Requests -> HandlerStages]
    BY DEF Crash, Inv, Types, HandlerStages
  <2>3. wpc' \in [Runs -> WorkerStages]
    BY DEF Crash, Inv, Types, WorkerStages
  <2>4. ipc' \in [Runs -> {"none", "open", "closing", "closed", "dead"}]
    BY DEF Crash, Inv, Types
  <2>5. spc' \in [Runs -> {"none", "cancelling", "acked", "loaded", "stopped", "refused",
                          "conflict", "dead"}]
    BY DEF Crash, Inv, Types
  <2> QED BY <1>1, <2>1, <2>2, <2>3, <2>4, <2>5 DEF Inv, Types
<1>6. Copies'
  BY <1>1, <1>4, CopiesKeep DEF Inv, Keeps
<1>7. Claims'
  <2>1. \A q \in Requests : PastClaim(q)' => PastClaim(q)
    BY <1>2 DEF PastClaim
  <2>2. OneExecutionPerRun'
    BY <2>1 DEF Inv, Claims, OneExecutionPerRun
  <2>3. /\ \A q \in Requests : PastClaim(q)' => RunOf[q] \in row'.used
        /\ \A r \in Runs : wpc'[r] # "none" => r \in row'.used
    BY <1>1, <1>3, <2>1 DEF Inv, Claims
  <2>4. \A r \in Runs : ipc'[r] = "none" <=> wpc'[r] = "none"
    BY <1>3 DEF Inv, Claims
  <2>5. \A q \in Requests :
          /\ hpc'[q] \in {"reserve", "reserving", "setup"} => wpc'[RunOf[q]] = "none"
          /\ hpc'[q] # "conflict" => tries'[q] <= 2
          /\ hpc'[q] # "new" => hproc'[q] \in Procs
          /\ hpc'[q] = "superseding" => victim'[q] \in Runs
    BY <1>1, <1>2, <1>3, RequestsAssumption DEF Inv, Claims, AnswersSent
  <2> QED BY <2>2, <2>3, <2>4, <2>5 DEF Claims
<1>8. Answered'
  BY <1>1, <1>3 DEF Inv, Answered
<1> QED BY <1>4, <1>5, <1>6, <1>7, <1>8 DEF Inv

-----------------------------------------------------------------------------
(* The theorems. *)

LEMMA InitInv == Init => Inv
<1> SUFFICES ASSUME Init PROVE Inv
  OBVIOUS
<1>1. FirstRow \in RowType /\ FirstRow.ver = 1 /\ Sound(FirstRow)
      /\ \A r \in Runs : FirstRow.reply[r] = "none"
  BY FirstRowType
<1>2. Types
  BY <1>1 DEF Init, TC!Init, Types, Statuses, Terminal, HandlerStages, WorkerStages
<1>3. Copies
  BY <1>1 DEF Init, Copies, Known, OwnKnown, Like, OwnLike
<1>4. Claims
  BY RequestsAssumption DEF Init, Claims, PastClaim, OneExecutionPerRun
<1>5. Answered
  BY <1>1 DEF Init, Answered
<1> QED BY <1>2, <1>3, <1>4, <1>5 DEF Inv

\* What every step leaves in the row.
Erases(r) == row.reply[r] = "full" /\ row'.reply[r] # "full"

StepKeeps ==
  /\ row.used \subseteq row'.used
  /\ \A r \in row.used : row.ledger[r] \in Terminal => row'.ledger[r] \in Terminal
  /\ \A r \in Runs : Erases(r) => finalized'[r]

LEMMA NextKeeps == ASSUME Inv, [Next]_vars PROVE Inv' /\ StepKeeps
<1>1. CASE UNCHANGED vars
  <2>1. UNCHANGED <<storage, handler, stream, stopping, localGen>>
    BY <1>1 DEF vars, coordinator
  <2>2. UNCHANGED <<row, ctx, wpc, ipc, finalized, copy, scopy>>
    BY <2>1 DEF storage, handler, stream, stopping
  <2>3. Keeps
    BY <2>2, UnchangedKeeps
  <2>4. Types'
    BY <2>1 DEF storage, handler, stream, stopping, Inv, Types
  <2>5. Copies'
    BY <2>2, <2>3, CopiesKeep DEF Inv, Keeps
  <2> QED BY <2>1, <2>2, <2>3, <2>4, <2>5, ElsewhereKeeps, KeepsAnswered
          DEF Inv, Keeps, StepKeeps, Erases
<1>2. ASSUME NEW r \in Runs, WorkerStep(r) \/ IteratorStep(r) PROVE Inv' /\ StepKeeps
  <2>1. TurnEffect(r) /\ TurnTypes(r)
    BY <1>2, WorkerEffect, IteratorEffect DEF Inv
  <2>2. row.used \subseteq Runs
    BY RowParts DEF Inv, Types
  <2> QED BY <2>1, <2>2, TurnKeeps DEF StepKeeps, Erases
<1>3. ASSUME Inv' /\ Keeps PROVE Inv' /\ StepKeeps
  BY <1>3 DEF Keeps, StepKeeps, Erases
<1>4. CASE \E p \in Procs, q \in Requests : Load(p, q)
  BY <1>3, <1>4, LoadKeeps
<1>5. CASE \E q \in Requests : HandlerStep(q)
  BY <1>3, <1>5, HandlerKeeps
<1>6. CASE \E r \in Runs : StopStep(r) \/ \E p \in Procs : StopCancel(p, r)
  BY <1>3, <1>6, StopKeeps
<1>7. CASE CoordinatorStep
  BY <1>3, <1>7, CoordinatorKeeps
<1>8. CASE \E p \in Procs : Crash(p)
  BY <1>3, <1>8, CrashKeeps
<1> QED BY <1>1, <1>2, <1>4, <1>5, <1>6, <1>7, <1>8 DEF Next

\* Whatever the processes, requests and runs, the invariant above holds in every state.
THEOREM InvTheorem == Spec => []Inv
<1>1. Inv /\ [Next]_vars => Inv'
  BY NextKeeps
<1> QED BY InitInv, <1>1, PTL DEF Spec

\* The row, its copies and the counters keep their shapes, and no handler, worker,
\* iterator or stop request ever holds a copy newer than the row.
THEOREM TypeTheorem == Spec => []TypeOK
<1>1. Inv => TypeOK
  BY DEF Inv, Types, Copies, Known, OwnKnown, TypeOK
<1> QED BY <1>1, InvTheorem, PTL

\* However often and to however many processes the BFF delivers a POST, at most one
\* delivery of a run id gets past the claim in _commit_run_action.
THEOREM OnceTheorem == Spec => []OneExecutionPerRun
<1>1. Inv => OneExecutionPerRun
  BY DEF Inv, Claims
<1> QED BY <1>1, InvTheorem, PTL

\* No save of the session row, by whichever of its concurrent writers, drops another
\* turn's claim, reopens an ended ledger entry or loses a stored answer: the version
\* check of PostgresSessionRepository.save is enough.
THEOREM ErasedTheorem == Spec => NoTurnErased
<1> DEFINE A == /\ row.used \subseteq row'.used
                /\ \A r \in Runs :
                     /\ r \in row.used /\ row.ledger[r] # "running" => row'.ledger[r] \in Terminal
                     /\ row.reply[r] = "full" /\ row'.reply[r] # "full" => finalized'[r]
<1>1. Inv /\ [Next]_vars => [A]_vars
  <2> SUFFICES ASSUME Inv, [Next]_vars PROVE A
    OBVIOUS
  <2>1. StepKeeps
    BY NextKeeps
  <2>2. \A r \in row.used : row.ledger[r] # "running" => row.ledger[r] \in Terminal
    BY RowParts DEF Inv, Types, Copies, Sound, Statuses
  <2> QED BY <2>1, <2>2 DEF StepKeeps, Erases
<1>2. Spec => [][A]_vars
  BY InvTheorem, <1>1, PTL DEF Spec
<1> QED BY <1>2 DEF NoTurnErased
-----------------------------------------------------------------------------
(* Every POST delivered once, the stream uses the coordinator as             *)
(* TurnCoordinator allows.                                                   *)

\* The coordinator stands still: what the handlers and workers may do meanwhile.
LEMMA LeasesKeep ==
  ASSUME Leases, UNCHANGED <<pc, proc>>,
         \A q \in Requests :
           /\ hpc'[q] \in Early \cup {"new"} => hpc[q] \in Early \cup {"new"}
           /\ hpc'[q] \in {"reserving", "setup"} =>
                hpc[q] \in {"reserving", "setup"} /\ hproc'[q] = hproc[q]
           /\ hpc'[q] = "setup" => hpc[q] = "setup" \/ TC!Held(RunOf[q]),
         \A r \in Runs : wpc'[r] \in Working => wpc[r] \in Working \/ TC!Held(r)
  PROVE  Leases'
BY DEF Leases, TC!Held

LEMMA InitLeases == Init => Leases
BY RequestsAssumption DEF Init, TC!Init, Leases, Early, Working, WorkerStages, TC!Stages

\* Of the coordinator, TurnCoordinator's step and what Leases reads.
Idle == TC!Next \/ UNCHANGED coordinator

LEMMA HandlerLeases ==
  ASSUME Inv, Leases, DeliveredOnce, NEW q \in Requests,
         HandlerStep(q) \/ \E p \in Procs : Load(p, q)
  PROVE  Leases' /\ Idle
<1> USE DEF Goto, handler, stream
<1> DEFINE r == RunOf[q]
<1>1. /\ r \in Runs /\ hpc \in [Requests -> HandlerStages] /\ pc \in [Runs -> TC!Stages]
      /\ proc \in [Runs -> Procs \cup {None}] /\ wpc \in [Runs -> WorkerStages]
      /\ hpc[q] # "new" => hproc[q] \in Procs
  BY RequestsAssumption DEF Inv, Types, Claims, Leases
<1>2. CASE Reserve(q)
  <2>1. /\ hpc[q] = "reserve" /\ hpc' = [hpc EXCEPT ![q] = "reserving"]
        /\ pc[r] = "idle" /\ pc' = [pc EXCEPT ![r] = "arrived"]
        /\ proc' = [proc EXCEPT ![r] = hproc[q]]
        /\ UNCHANGED <<hproc, wpc>> /\ hproc[q] \in Procs
    BY <1>1, <1>2 DEF Reserve, TC!Arrive
  <2>2. \A x \in Requests \ {q} : RunOf[x] # r
    BY DEF DeliveredOnce
  <2>3. wpc[r] \notin Working
    BY <1>1, <2>1 DEF Leases, TC!Held
  <2>4. Leases'
    <3>1. pc' \in [Runs -> TC!Stages] /\ proc' \in [Runs -> Procs \cup {None}]
      BY <1>1, <2>1 DEF TC!Stages, TC!WaitsGlobal
    <3>2. \A x \in Requests \ {q} : /\ hpc'[x] = hpc[x] /\ hproc'[x] = hproc[x]
                                    /\ pc'[RunOf[x]] = pc[RunOf[x]]
                                    /\ proc'[RunOf[x]] = proc[RunOf[x]]
      BY <1>1, <2>1, <2>2, RequestsAssumption
    <3>3. /\ hpc'[q] = "reserving" /\ proc'[r] = hproc'[q] /\ pc'[r] = "arrived"
          /\ "reserving" \notin Early \cup {"new", "setup"}
      BY <1>1, <2>1 DEF Early
    <3>4. \A x \in Runs \ {r} : pc'[x] = pc[x] /\ proc'[x] = proc[x] /\ wpc'[x] = wpc[x]
      BY <1>1, <2>1
    <3>5. wpc'[r] = wpc[r]
      BY <2>1
    <3>6. \A x \in Requests :
            /\ hpc'[x] \in Early \cup {"new"} => pc'[RunOf[x]] = "idle"
            /\ hpc'[x] \in {"reserving", "setup"} => proc'[RunOf[x]] = hproc'[x]
            /\ hpc'[x] = "setup" => pc'[RunOf[x]] = "held"
      BY <3>2, <3>3 DEF Leases, TC!Held
    <3>7. \A x \in Runs : /\ pc'[x] = "idle" => proc'[x] = None
                          /\ wpc'[x] \in Working => pc'[x] = "held"
      BY <2>3, <3>3, <3>4, <3>5 DEF Leases, TC!Held
    <3> QED BY <3>1, <3>6, <3>7 DEF Leases, TC!Held
  <2>5. TC!Next
    BY <1>1, <1>2, <2>1 DEF Reserve, TC!Next
  <2> QED BY <2>4, <2>5 DEF Idle
<1>3. CASE SupersedeRun(q)
  <2>1. pc[r] = "idle" /\ hpc[q] = "prepared" /\ hproc[q] \in Procs
    BY <1>1, <1>3 DEF SupersedeRun, Leases, Early
  <2>2. Idle /\ UNCHANGED <<pc, proc>>
    BY <1>1, <1>3, <2>1 DEF SupersedeRun, Idle, TC!Next, TC!Supersede, coordinator
  <2>3. /\ \E stage \in {"superseding", "claim"} : hpc' = [hpc EXCEPT ![q] = stage]
        /\ UNCHANGED <<hproc, wpc>>
    BY <1>3 DEF SupersedeRun
  <2> QED BY <1>1, <2>1, <2>2, <2>3, LeasesKeep DEF Early
<1>4. CASE (\E p \in Procs : Load(p, q)) \/ Open(q) \/ Prepare(q) \/ RecordSuperseded(q) \/ Claim(q)
  <2>1. /\ hpc[q] \in Early \cup {"new"} /\ UNCHANGED <<coordinator, wpc>>
        /\ \/ UNCHANGED hpc
           \/ \E stage \in {"loaded", "must_stop", "opened", "prepared", "conflict", "claim",
                            "run_id_conflict", "reserve"} : hpc' = [hpc EXCEPT ![q] = stage]
        /\ UNCHANGED hproc \/ \E p : hproc' = [hproc EXCEPT ![q] = p]
    BY <1>4 DEF Load, Open, Prepare, RecordSuperseded, Claim, Early, coordinator
  <2>2. \A x \in Requests \ {q} : hpc'[x] = hpc[x] /\ hproc'[x] = hproc[x]
    BY <1>1, <2>1 DEF Inv, Types
  <2>3. hpc'[q] \notin {"reserving", "setup"}
    BY <1>1, <2>1 DEF Early
  <2>4. Leases'
    BY <2>1, <2>2, <2>3, LeasesKeep DEF coordinator
  <2> QED BY <2>1, <2>4 DEF Idle
<1>5. CASE Refused(q) \/ Setup(q)
  <2>1. /\ hpc[q] = "reserving" /\ UNCHANGED <<coordinator, hproc, wpc>>
        /\ \/ hpc' = [hpc EXCEPT ![q] = "too_many"]
           \/ hpc' = [hpc EXCEPT ![q] = "setup"] /\ TC!Held(r)
    BY <1>5 DEF Refused, Setup, coordinator
  <2>2. Leases'
    BY <1>1, <2>1, LeasesKeep DEF coordinator, Early
  <2> QED BY <2>1, <2>2 DEF Idle
<1>6. CASE Start(q)
  <2>1. /\ hpc[q] = "setup" /\ UNCHANGED <<coordinator, hproc>> /\ TC!Held(r)
        /\ \E stage \in {"streaming", "broken"} : hpc' = [hpc EXCEPT ![q] = stage]
        /\ UNCHANGED wpc \/ wpc' = [wpc EXCEPT ![r] = "work"]
    BY <1>6 DEF Start, coordinator, Leases
  <2>2. Leases'
    BY <1>1, <2>1, LeasesKeep DEF coordinator, Early
  <2> QED BY <2>1, <2>2 DEF Idle
<1> QED BY <1>2, <1>3, <1>4, <1>5, <1>6 DEF HandlerStep

LEMMA WorkerLeases ==
  ASSUME Inv, Leases, NEW r \in Runs, WorkerStep(r) \/ IteratorStep(r)
  PROVE  Leases' /\ Idle
<1> USE DEF handler, stream
<1>1. CASE Finish(r)
  <2>1. /\ wpc[r] = "finish" /\ wpc' = [wpc EXCEPT ![r] = "ended"] /\ UNCHANGED <<hpc, hproc, proc>>
        /\ pc[r] = "held" /\ \E st \in {"closing", "done"} : pc' = [pc EXCEPT ![r] = st]
    BY <1>1 DEF Finish, WGoto, TC!Release, TC!Held
  <2>2. \A q \in Requests : hpc[q] \in Early \cup {"new", "setup"} => RunOf[q] # r
    BY <2>1 DEF Inv, Claims, Leases
  <2>3. /\ \A x \in Runs \ {r} : pc'[x] = pc[x] /\ wpc'[x] = wpc[x]
        /\ pc'[r] # "idle" /\ wpc'[r] \notin Working /\ pc' \in [Runs -> TC!Stages]
    BY <2>1 DEF Inv, Types, Leases, Working, TC!Stages, TC!Counted, TC!Settled
  <2>4. Leases'
    BY <2>1, <2>2, <2>3, RequestsAssumption DEF Leases, TC!Held
  <2> QED BY <1>1, <2>4 DEF Idle, Finish, TC!Next, TC!ReleaseStep
<1>2. CASE WorkerStep(r) /\ ~Finish(r)
  <2>1. /\ wpc[r] \in Working /\ UNCHANGED <<coordinator, hpc, hproc>>
        /\ \A x \in Runs \ {r} : wpc'[x] = wpc[x]
    BY <1>2 DEF WorkerStep, Work, CheckCancelled, CheckCurrent, SaveReply, Complete, SaveCompleted,
       Error, Blocked, RecordFailed, FinalizeByWorker, Finalized, WGoto, Working, WorkerStages,
       coordinator, Inv, Types
  <2> QED BY <2>1, LeasesKeep DEF Idle, coordinator
<1>3. CASE IteratorStep(r)
  <2>1. UNCHANGED <<coordinator, hpc, hproc, wpc>>
    BY <1>3 DEF IteratorStep, WakeUp, HeartbeatCancelled, EndOfStream, Close, coordinator
  <2> QED BY <2>1, LeasesKeep DEF Idle, coordinator
<1> QED BY <1>1, <1>2, <1>3

LEMMA OtherLeases ==
  ASSUME Inv, Leases,
         \/ CoordinatorStep
         \/ \E r \in Runs : StopStep(r) \/ \E p \in Procs : StopCancel(p, r)
         \/ \E p \in Procs : Crash(p)
  PROVE  Leases' /\ Idle
<1> USE DEF handler, stream
<1>1. ASSUME NEW r \in Runs, TC!Acquire(r) \/ TC!ReleaseRedis(r), UNCHANGED <<handler, stream>>
      PROVE  Leases' /\ Idle
  <2>1. /\ pc[r] \notin {"idle", "held"} /\ UNCHANGED proc
        /\ \E st \in TC!Stages \ {"idle"} : pc' = [pc EXCEPT ![r] = st]
    BY <1>1 DEF TC!Acquire, TC!AcquireGlobal, TC!GlobalTimeout, TC!AcquireUser, TC!UserTimeout,
       TC!SetGeneration, TC!ReserveRedis, TC!ReserveRefused, TC!ReserveFault,
       TC!PublishGeneration, TC!PublishFault, TC!ReleaseRedis, TC!Stages, TC!WaitsGlobal,
       TC!HasGlobal, TC!HasBoth, TC!Counted, TC!Settled
  <2>2. /\ \A x \in Runs \ {r} : pc'[x] = pc[x]
        /\ pc'[r] # "idle" /\ pc' \in [Runs -> TC!Stages]
    BY <2>1 DEF Leases
  <2>3. Leases'
    BY <1>1, <2>1, <2>2, RequestsAssumption DEF Leases, TC!Held
  <2> QED BY <1>1, <2>3 DEF Idle, TC!Next, TC!ReleaseStep
<1>2. ASSUME NEW p \in Procs, NEW r \in Runs, TC!CancelRedis(p, r) \/ TC!CancelLocal(p, r),
             UNCHANGED <<handler, stream>>
      PROVE  Leases' /\ Idle
  <2>1. UNCHANGED <<pc, proc>>
    BY <1>2 DEF TC!CancelRedis, TC!CancelLocal
  <2> QED BY <1>2, <2>1, LeasesKeep DEF Idle, TC!Next, TC!CancelStep
<1>3. CASE CoordinatorStep
  BY <1>1, <1>2, <1>3 DEF CoordinatorStep
<1>4. ASSUME NEW r \in Runs, StopStep(r) PROVE Leases' /\ Idle
  <2>1. UNCHANGED <<coordinator, hpc, hproc, wpc>>
    BY <1>4 DEF StopStep, StopAnswer, StopLoad, StopSave, coordinator
  <2> QED BY <2>1, LeasesKeep DEF Idle, coordinator
<1>5. ASSUME NEW r \in Runs, NEW p \in Procs, StopCancel(p, r) PROVE Leases' /\ Idle
  BY <1>2, <1>5 DEF StopCancel
<1>6. ASSUME NEW p \in Procs, Crash(p) PROVE Leases' /\ Idle
  <2>1. /\ TC!Crash(p) /\ UNCHANGED <<hproc, proc>>
        /\ pc' = [x \in Runs |-> IF proc[x] = p THEN "done" ELSE pc[x]]
    BY <1>6 DEF Crash, TC!Crash
  <2>2. \A q \in Requests :
          \/ hpc'[q] = "dead"
          \/ hpc'[q] = hpc[q] /\ (hproc[q] = p => hpc[q] \in AnswersSent)
    BY <1>6 DEF Crash
  <2>3. \A x \in Runs : wpc'[x] = "dead" \/ (wpc'[x] = wpc[x] /\ (proc[x] = p => wpc[x] = "none"))
    BY <1>6 DEF Crash
  <2>4. /\ \A x \in Runs : proc[x] # p => pc'[x] = pc[x]
        /\ \A x \in Runs : pc[x] = "idle" => proc[x] # p
        /\ \A x \in Runs : pc'[x] = "idle" => pc[x] = "idle"
        /\ pc' \in [Runs -> TC!Stages]
    BY <2>1, RequestsAssumption DEF Leases, TC!Stages, TC!Settled
  <2>5. \A q \in Requests :
          /\ hpc'[q] \in Early \cup {"new"} => pc'[RunOf[q]] = "idle"
          /\ hpc'[q] \in {"reserving", "setup"} => proc'[RunOf[q]] = hproc'[q]
          /\ hpc'[q] = "setup" => pc'[RunOf[q]] = "held"
    BY <2>1, <2>2, <2>4, RequestsAssumption DEF Leases, TC!Held, Early, AnswersSent
  <2>6. \A x \in Runs : wpc'[x] \in Working => pc'[x] = "held"
    BY <2>3, <2>4 DEF Leases, TC!Held, Working
  <2>7. Leases'
    BY <2>1, <2>4, <2>5, <2>6 DEF Leases, TC!Held
  <2> QED BY <2>1, <2>7 DEF Idle, TC!Next
<1> QED BY <1>3, <1>4, <1>5, <1>6

LEMMA LeasesStep ==
  ASSUME Inv, Leases, DeliveredOnce, [Next]_vars
  PROVE  Leases' /\ [TC!Next]_(TC!vars)
<1>1. Leases' /\ Idle
  <2>1. CASE UNCHANGED vars
    <3>1. UNCHANGED <<coordinator, hpc, hproc, wpc>>
      BY <2>1 DEF vars, handler, stream
    <3> QED BY <3>1, LeasesKeep DEF Idle, coordinator
  <2> QED BY <2>1, HandlerLeases, WorkerLeases, OtherLeases DEF Next
<1> QED BY <1>1 DEF Idle, coordinator, TC!vars, TC!local, TC!redis, TC!stops, TC!env

\* As long as the BFF delivers no POST twice, the handlers, workers and stop requests of a
\* session call supersede, acquire, release and cancel as TurnCoordinator says they are
\* called: what is proved of the coordinator holds under the stream.
THEOREM CoordinatorTheorem ==
  ASSUME DeliveredOnce
  PROVE  Spec => TC!Spec
<1>1. Init => TC!Init /\ Leases
  BY InitLeases DEF Init
<1>2. Inv /\ Leases /\ [Next]_vars => Leases' /\ [TC!Next]_(TC!vars)
  BY LeasesStep
<1> QED BY <1>1, <1>2, InvTheorem, PTL DEF Spec, TC!Spec

-----------------------------------------------------------------------------
(* The coordinator under the stream, with what TurnCoordinatorProofs knows   *)
(* of it.                                                                    *)

TCP == INSTANCE TurnCoordinatorProofs
         WITH Sessions <- {session}, Users <- {user},
              SessionOf <- [r \in Runs |-> session], UserOf <- [r \in Runs |-> user],
              LeasesOutliveTTL <- FALSE, MaxFaults <- 0

\* ConstantsAssumption of that instance.
LEMMA ConstantsOf ==
  /\ [r \in Runs |-> session] \in [Runs -> {session}]
  /\ [r \in Runs |-> user] \in [Runs -> {user}]
  /\ TCP!IsFiniteSet(Runs)
  /\ MaxStreams \in Nat /\ PerUser \in Nat
  /\ RedisEnabled \in BOOLEAN /\ FALSE \in BOOLEAN
  /\ Stoppable \subseteq Runs
  /\ 0 \in Nat /\ MaxCrashes \in Nat
  /\ None \notin Runs \cup Procs
<1>1. FALSE \in BOOLEAN /\ RedisEnabled \in BOOLEAN
  BY RequestsAssumption
<1>2. TCP!IsFiniteSet(Runs)
  BY RequestsAssumption DEF IsFiniteSet, TCP!IsFiniteSet
<1> QED BY <1>1, <1>2, RequestsAssumption

\* The two instances of TurnCoordinator are one.
LEMMA SameState ==
  /\ TC!Init = TCP!Init /\ TC!vars = TCP!vars
  /\ \A r : /\ TC!Held(r) = TCP!Held(r) /\ TC!IsCurrent(r) = TCP!IsCurrent(r)
            /\ TC!IsCancelled(r) = TCP!IsCancelled(r)
BY DEF TC!Init, TC!vars, TC!local, TC!redis, TC!stops, TC!env, TC!Held, TC!IsCurrent,
       TC!IsCancelled, TC!At,
       TCP!Init, TCP!vars, TCP!local, TCP!redis, TCP!stops, TCP!env, TCP!Held, TCP!IsCurrent,
       TCP!IsCancelled, TCP!At

LEMMA SameNext == TC!Next = TCP!Next
<1> USE DEF TC!local, TC!redis, TC!stops, TC!env, TC!At, TC!Own, TC!Held, TC!ReturnPermits,
        TC!IncrementCounters, TC!DecrementCounters, TC!CapReached, TC!PopCancelled,
        TC!CountedRuns, TC!Counted, TC!CountedOf, TC!IsCurrent,
        TCP!local, TCP!redis, TCP!stops, TCP!env, TCP!At, TCP!Own, TCP!Held, TCP!ReturnPermits,
        TCP!IncrementCounters, TCP!DecrementCounters, TCP!CapReached, TCP!PopCancelled,
        TCP!CountedRuns, TCP!Counted, TCP!CountedOf, TCP!IsCurrent
<1>1. \A r : TC!Acquire(r) = TCP!Acquire(r)
  BY DEF TC!Acquire, TC!AcquireGlobal, TC!GlobalTimeout, TC!AcquireUser, TC!UserTimeout,
     TC!SetGeneration, TC!ReserveRedis, TC!ReserveRefused, TC!ReserveFault,
     TC!PublishGeneration, TC!PublishFault,
     TCP!Acquire, TCP!AcquireGlobal, TCP!GlobalTimeout, TCP!AcquireUser, TCP!UserTimeout,
     TCP!SetGeneration, TCP!ReserveRedis, TCP!ReserveRefused, TCP!ReserveFault,
     TCP!PublishGeneration, TCP!PublishFault
<1>2. \A r : TC!ReleaseStep(r) = TCP!ReleaseStep(r)
  BY DEF TC!ReleaseStep, TC!Release, TC!ReleaseRedis, TC!ReleaseFault,
     TCP!ReleaseStep, TCP!Release, TCP!ReleaseRedis, TCP!ReleaseFault
<1>3. \A p, r : TC!CancelStep(p, r) = TCP!CancelStep(p, r)
  BY DEF TC!CancelStep, TC!CancelLocal, TC!CancelRejected, TC!CancelRedis, TC!CancelFault,
     TCP!CancelStep, TCP!CancelLocal, TCP!CancelRejected, TCP!CancelRedis, TCP!CancelFault
<1>4. \A p, r : TC!Arrive(p, r) = TCP!Arrive(p, r) /\ TC!Supersede(p, r) = TCP!Supersede(p, r)
  BY DEF TC!Arrive, TCP!Arrive, TC!Supersede, TCP!Supersede
<1>5. TC!Expire = TCP!Expire
  BY DEF TC!Expire, TC!ExpireActive, TC!ExpireUser, TC!ExpireGeneration, TC!ExpireCancelled,
     TCP!Expire, TCP!ExpireActive, TCP!ExpireUser, TCP!ExpireGeneration, TCP!ExpireCancelled
<1>6. \A p : TC!Crash(p) = TCP!Crash(p)
  BY DEF TC!Crash, TCP!Crash
<1> QED BY <1>1, <1>2, <1>3, <1>4, <1>5, <1>6 DEF TC!Next, TCP!Next

LEMMA SameSpec == TC!Spec => TCP!Spec
<1>1. TC!Init => TCP!Init
  BY SameState
<1>2. [TC!Next]_(TC!vars) => [TCP!Next]_(TCP!vars)
  <2>1. CASE TC!Next
    BY <2>1, SameNext
  <2>2. CASE UNCHANGED (TC!vars)
    BY <2>2 DEF TC!vars, TC!local, TC!redis, TC!stops, TC!env,
                TCP!vars, TCP!local, TCP!redis, TCP!stops, TCP!env
  <2> QED BY <2>1, <2>2
<1> QED BY <1>1, <1>2, PTL DEF TC!Spec, TCP!Spec
-----------------------------------------------------------------------------
(* A finalized cancellation: the worker that still runs will not get past    *)
(* its checks, and what it holds to save is the partial answer.              *)

Over == {"check", "finalize", "finish", "ended", "dead"}

FinalAt(r) ==
  /\ wake[r] => r \in acked
  /\ wpc[r] = "none" => ~finalized[r]
  /\ finalized[r] =>
       /\ wpc[r] \in {"work", "check"} => Lost(r)
       /\ wpc[r] \notin Over => ctx[r].reply[r] # "full"

Finalizations == \A r \in Runs : FinalAt(r)

\* An acknowledged stop is seen by the run's worker.
Sticks == \A r \in acked : TC!Held(r) /\ TC!IsCurrent(r) => TC!IsCancelled(r)

LEMMA LostSame == ASSUME UNCHANGED coordinator, NEW r PROVE Lost(r)' = Lost(r)
BY DEF coordinator, Lost, TC!IsCancelled, TC!IsCurrent, TC!At

LEMMA LostStays ==
  ASSUME RedisEnabled, TCP!TypeOK, [TC!Next]_(TC!vars), NEW r \in Runs,
         TC!Held(r), TC!Held(r)', Lost(r)
  PROVE  Lost(r)'
<1>1. /\ TC!Held(r)' = TCP!Held(r)' /\ TC!IsCurrent(r)' = TCP!IsCurrent(r)'
      /\ TC!IsCancelled(r)' = TCP!IsCancelled(r)'
  BY DEF TC!Held, TC!IsCurrent, TC!IsCancelled, TC!At,
         TCP!Held, TCP!IsCurrent, TCP!IsCancelled, TCP!At
<1>2. CASE UNCHANGED (TC!vars)
  <2>1. UNCHANGED coordinator
    BY <1>2 DEF coordinator, TC!vars, TC!local, TC!redis, TC!stops, TC!env
  <2> QED BY <2>1, LostSame
<1>3. CASE TC!Next /\ ~TC!IsCurrent(r)
  <2>1. TCP!Next /\ TCP!Held(r)' /\ TCP!Displaced(r)
    BY <1>1, <1>3, SameNext, SameState DEF TCP!Displaced, TCP!IsCurrent
  <2>2. ~TCP!IsCurrent(r)'
    BY <2>1, ConstantsOf, TCP!DisplacedStays
  <2> QED BY <1>1, <2>2 DEF Lost
<1>4. CASE TC!Next /\ TC!IsCurrent(r)
  <2>1. /\ TCP!Next /\ TCP!Held(r) /\ TCP!Held(r)' /\ TCP!IsCurrent(r) /\ TCP!IsCancelled(r)
    BY <1>1, <1>4, SameNext, SameState DEF Lost
  <2>2. TCP!IsCurrent(r)' => TCP!IsCancelled(r)'
    BY <2>1, ConstantsOf, TCP!CancelledStays
  <2> QED BY <1>1, <2>2 DEF Lost
<1> QED BY <1>2, <1>3, <1>4

LEMMA AckedGrows == [TC!Next]_(TC!vars) => acked \subseteq acked'
<1> USE DEF TC!stops
<1>1. ASSUME NEW r \in Runs, TC!Acquire(r) \/ TC!ReleaseStep(r) PROVE UNCHANGED acked
  BY <1>1 DEF TC!Acquire, TC!AcquireGlobal, TC!GlobalTimeout, TC!AcquireUser, TC!UserTimeout,
     TC!SetGeneration, TC!ReserveRedis, TC!ReserveRefused, TC!ReserveFault,
     TC!PublishGeneration, TC!PublishFault,
     TC!ReleaseStep, TC!Release, TC!ReleaseRedis, TC!ReleaseFault
<1>2. ASSUME NEW p \in Procs, NEW r \in Runs,
             TC!Arrive(p, r) \/ TC!Supersede(p, r) \/ TC!CancelStep(p, r)
      PROVE  acked \subseteq acked'
  BY <1>2 DEF TC!Arrive, TC!Supersede, TC!CancelStep, TC!CancelLocal, TC!CancelRejected,
     TC!CancelRedis, TC!CancelFault
<1>3. TC!Expire => UNCHANGED acked
  BY DEF TC!Expire, TC!ExpireActive, TC!ExpireUser, TC!ExpireGeneration, TC!ExpireCancelled
<1>4. \A p : TC!Crash(p) => UNCHANGED acked
  BY DEF TC!Crash
<1> QED BY <1>1, <1>2, <1>3, <1>4 DEF TC!Next, TC!vars

\* Someone else's step, or the run's first.
LEMMA FinalKeeps ==
  ASSUME NEW r \in Runs, FinalAt(r), wake'[r] => r \in acked', finalized'[r] = finalized[r],
         wpc[r] = "none" \/ (ctx'[r] = ctx[r] /\ wpc'[r] \in {wpc[r], "dead"}),
         wpc'[r] = "none" => wpc[r] = "none",
         wpc[r] \in {"work", "check"} /\ wpc'[r] = wpc[r] /\ Lost(r) => Lost(r)'
  PROVE  FinalAt(r)'
BY DEF FinalAt, Over

LEMMA WorkerFinal ==
  ASSUME Inv, NEW r \in Runs, FinalAt(r), WorkerStep(r)
  PROVE  FinalAt(r)'
<1> USE DEF stream, WGoto
<1>1. /\ wpc \in [Runs -> WorkerStages] /\ ctx \in [Runs -> RowType] /\ ctx[r] \in RowType
      /\ finalized \in [Runs -> BOOLEAN] /\ UNCHANGED wake /\ r \in Runs
      /\ Bump(ctx[r]) \in RowType /\ Bump(ctx[r]).reply = ctx[r].reply
  BY BumpOf DEF Inv, Types, WorkerStep, Work, CheckCancelled, CheckCurrent, SaveReply, Complete,
     SaveCompleted, Error, Blocked, RecordFailed, FinalizeByWorker, Finish
<1>2. wake'[r] => r \in acked'
  BY <1>1 DEF FinalAt, WorkerStep, Work, CheckCancelled, CheckCurrent, SaveReply, Complete,
     SaveCompleted, Error, Blocked, RecordFailed, FinalizeByWorker, Finish, TC!Release, TC!stops,
     coordinator
\* The answer it holds is the one it held.
<1>3. ASSUME UNCHANGED finalized, ctx'[r].reply = ctx[r].reply,
             wpc[r] \notin Over \cup {"none"}, wpc'[r] \notin {"none", "work", "check"}
      PROVE  FinalAt(r)'
  BY <1>2, <1>3 DEF FinalAt
<1>4. ASSUME wpc'[r] \in {"finalize", "finish", "ended"} PROVE FinalAt(r)'
  BY <1>2, <1>4 DEF FinalAt, Over
<1>5. CASE Work(r)
  <2>1. Lost(r)' = Lost(r) /\ UNCHANGED finalized /\ wpc[r] = "work"
    BY <1>5, LostSame DEF Work
  <2>2. CASE WGoto(r, "check")
    BY <1>1, <1>2, <2>1, <2>2 DEF FinalAt, Over
  <2>3. CASE WGoto(r, "error") /\ UNCHANGED ctx
    BY <1>1, <1>3, <2>1, <2>3 DEF Over
  <2>4. CASE WithReply(r, "none") /\ WGoto(r, "blocked")
    <3>1. ctx'[r].reply = [ctx[r].reply EXCEPT ![r] = "none"]
      BY <1>1, <2>4, ReplyOf DEF WithReply, Replies
    <3>2. ctx'[r].reply[r] = "none" /\ wpc'[r] = "blocked"
      BY <1>1, <2>4, <3>1, RowParts
    <3> QED BY <1>2, <2>1, <3>2 DEF FinalAt
  <2> QED BY <1>5, <2>2, <2>3, <2>4 DEF Work
<1>6. CASE CheckCancelled(r)
  <2>1. CASE wpc'[r] \in {"finish", "finalize"}
    BY <1>4, <2>1
  <2>2. CASE wpc'[r] = "recheck"
    <3>1. wpc[r] = "check" /\ ~Lost(r) /\ UNCHANGED finalized
      BY <1>1, <1>6, <2>2 DEF CheckCancelled, StreamIsCurrent, Lost
    <3> QED BY <1>2, <2>2, <3>1 DEF FinalAt
  <2> QED BY <1>1, <1>6, <2>1, <2>2 DEF CheckCancelled
<1>7. CASE CheckCurrent(r)
  BY <1>1, <1>3, <1>4, <1>7 DEF CheckCurrent, Over
<1>8. CASE SaveReply(r)
  BY <1>1, <1>3, <1>8 DEF SaveReply, Over
<1>9. CASE Complete(r)
  <2>1. PushedLedger(r, ctx[r], "completed").reply = ctx[r].reply
    BY <1>1, PushedEdit DEF Terminal
  <2> QED BY <1>1, <1>3, <1>9, <2>1 DEF Complete, Over
<1>10. CASE SaveCompleted(r)
  BY <1>1, <1>3, <1>4, <1>10 DEF SaveCompleted, Over
<1>11. CASE Error(r)
  <2>1. PushedLedger(r, Bump(ctx[r]), "failed").reply = ctx[r].reply
    BY <1>1, PushedEdit DEF Terminal
  <2> QED BY <1>1, <1>3, <1>4, <1>11, <2>1 DEF Error, Over
<1>12. CASE Blocked(r) \/ RecordFailed(r) \/ Finish(r)
  BY <1>1, <1>4, <1>12 DEF Blocked, RecordFailed, Finish
<1>13. CASE FinalizeByWorker(r)
  <2>1. CASE WGoto(r, "finish")
    BY <1>1, <1>4, <2>1
  <2>2. CASE WGoto(r, "error") /\ ~finalized[r]
    <3>1. \E d \in RowType : (Edited(r, d) \/ SavedAs(r, d)) /\ d.reply[r] # "full"
      BY <1>13, <2>2, FinalizedOf DEF FinalizeByWorker, Inv
    <3>2. ctx'[r].reply[r] # "full" /\ wpc'[r] = "error"
      BY <1>1, <2>2, <3>1 DEF Edited, SavedAs
    <3> QED BY <1>2, <3>2 DEF FinalAt
  <2> QED BY <1>13, <2>1, <2>2, FinalizedOf DEF FinalizeByWorker, Inv
<1> QED BY <1>5, <1>6, <1>7, <1>8, <1>9, <1>10, <1>11, <1>12, <1>13 DEF WorkerStep

LEMMA IteratorFinal ==
  ASSUME Inv, Leases, Sticks, NEW r \in Runs, FinalAt(r), IteratorStep(r)
  PROVE  FinalAt(r)'
<1> USE DEF stream
<1>1. /\ UNCHANGED <<coordinator, wake, wpc>> /\ Lost(r)' = Lost(r)
  BY LostSame DEF IteratorStep, WakeUp, HeartbeatCancelled, EndOfStream, Close
<1>2. wake'[r] => r \in acked'
  BY <1>1 DEF FinalAt, coordinator
<1>3. CASE EndOfStream(r) \/ Close(r)
  <2>1. UNCHANGED <<ctx, finalized>>
    BY <1>3 DEF EndOfStream, Close
  <2> QED BY <1>1, <1>2, <2>1, FinalKeeps
<1>4. CASE WakeUp(r) \/ HeartbeatCancelled(r)
  <2>1. \E stored, failed : Finalized(r, stored, failed)
    BY <1>4 DEF WakeUp, HeartbeatCancelled
  <2>2. \E d \in RowType :
          /\ Edited(r, d) \/ SavedAs(r, d)
          /\ d.reply[r] = ctx[r].reply[r] \/ d.reply[r] # "full"
          /\ finalized[r] \/ d.reply[r] # "full"
    <3>1. CASE WakeUp(r)
      BY <3>1, FinalizedOf DEF WakeUp, Inv
    <3>2. CASE HeartbeatCancelled(r)
      BY <3>2, FinalizedOf DEF HeartbeatCancelled, Inv
    <3> QED BY <1>4, <3>1, <3>2
  <2>3. wpc[r] \notin Over => ctx'[r].reply[r] # "full"
    BY <2>2 DEF Edited, SavedAs, FinalAt, Inv, Types
  <2>4. wpc[r] # "none"
    BY <1>4 DEF WakeUp, HeartbeatCancelled, Inv, Claims
  <2>5. wpc[r] \in {"work", "check"} => Lost(r)
    BY <1>4 DEF WakeUp, HeartbeatCancelled, Lost, Sticks, FinalAt, Leases, Working, WorkerStages
  <2> QED BY <1>1, <1>2, <2>3, <2>4, <2>5 DEF FinalAt
<1> QED BY <1>3, <1>4 DEF IteratorStep

LEMMA FinalStep ==
  ASSUME RedisEnabled, Inv, Leases, Leases', TCP!TypeOK, Sticks, Finalizations,
         [Next]_vars, [TC!Next]_(TC!vars)
  PROVE  Finalizations'
<1> USE DEF handler, stream
<1> SUFFICES ASSUME NEW r \in Runs PROVE FinalAt(r)'
  BY DEF Finalizations
<1>1. FinalAt(r) /\ acked \subseteq acked'
  BY AckedGrows DEF Finalizations
<1>2. wpc[r] \in {"work", "check"} /\ wpc'[r] = wpc[r] /\ Lost(r) => Lost(r)'
  BY LostStays DEF Leases, Working, WorkerStages
\* What keeps the run's own variables.
<1>3. ASSUME UNCHANGED <<ctx, finalized>>, wake'[r] => wake[r] \/ r \in acked,
             wpc'[r] = wpc[r] \/ (wpc'[r] = "dead" /\ wpc[r] # "none")
      PROVE  FinalAt(r)'
  BY <1>1, <1>2, <1>3, FinalKeeps DEF FinalAt
<1>4. CASE UNCHANGED vars
  BY <1>3, <1>4 DEF vars
<1>5. ASSUME NEW q \in Requests, HandlerStep(q) PROVE FinalAt(r)'
  <2>1. CASE Setup(q) \/ Start(q)
    <3>1. /\ UNCHANGED <<finalized, wake>> /\ wpc[RunOf[q]] = "none"
          /\ RunOf[q] # r => ctx'[r] = ctx[r] /\ wpc'[r] = wpc[r]
          /\ wpc'[r] = "none" => wpc[r] = "none"
      BY <2>1, RequestsAssumption DEF Setup, Start, Inv, Types, Claims
    <3> QED BY <1>1, <1>2, <3>1, FinalKeeps DEF FinalAt
  <2>2. CASE ~(Setup(q) \/ Start(q))
    <3>1. UNCHANGED stream
      BY <1>5, <2>2 DEF HandlerStep, Open, Prepare, SupersedeRun, RecordSuperseded, Claim,
         Reserve, Refused
    <3> QED BY <1>3, <3>1
  <2> QED BY <2>1, <2>2
<1>6. ASSUME NEW r1 \in Runs, WorkerStep(r1) \/ IteratorStep(r1) PROVE FinalAt(r)'
  <2>1. CASE r1 = r
    BY <1>1, <1>6, <2>1, WorkerFinal, IteratorFinal
  <2>2. CASE r1 # r
    <3>1. TurnEffect(r1) /\ TurnTypes(r1)
      BY <1>6, WorkerEffect, IteratorEffect DEF Inv
    <3>2. /\ finalized'[r] = finalized[r] /\ wpc'[r] = wpc[r] /\ UNCHANGED wake
      BY <2>2, <3>1 DEF TurnEffect, TurnTypes
    <3>3. ctx'[r] = ctx[r]
      BY <2>2, <3>1 DEF TurnEffect, ClosedEntry, Edited, SavedAs, Inv, Types
    <3> QED BY <1>1, <1>2, <3>2, <3>3, FinalKeeps DEF FinalAt
  <2> QED BY <2>1, <2>2
<1>7. ASSUME NEW r1 \in Runs, StopStep(r1) PROVE FinalAt(r)'
  <2>1. CASE StopAnswer(r1)
    <3>1. UNCHANGED <<ctx, finalized, wpc>> /\ (wake'[r] => wake[r] \/ r \in acked)
      BY <2>1 DEF StopAnswer, Inv, Types
    <3> QED BY <1>3, <3>1
  <2>2. CASE StopLoad(r1) \/ StopSave(r1)
    BY <1>3, <2>2 DEF StopLoad, StopSave
  <2> QED BY <1>7, <2>1, <2>2 DEF StopStep
<1>8. CASE \/ \E p \in Procs, q \in Requests : Load(p, q)
           \/ \E p \in Procs, r1 \in Runs : StopCancel(p, r1)
           \/ CoordinatorStep
  BY <1>3, <1>8 DEF Load, StopCancel, CoordinatorStep
<1>9. ASSUME NEW p \in Procs, Crash(p) PROVE FinalAt(r)'
  BY <1>3, <1>9 DEF Crash
<1> QED BY <1>4, <1>5, <1>6, <1>7, <1>8, <1>9 DEF Next

\* The saves of a run whose cancellation was finalized store no full answer.
LEMMA PartialStep ==
  ASSUME Inv, Finalizations, [Next]_vars, NEW r \in Runs, finalized[r], row.reply[r] # "full"
  PROVE  row'.reply[r] # "full"
<1> USE DEF storage
<1>1. ASSUME Keeps PROVE row'.reply[r] # "full"
  BY <1>1 DEF Keeps
<1>2. CASE UNCHANGED vars
  BY <1>2 DEF vars
<1>3. ASSUME NEW r1 \in Runs, r1 # r, WorkerStep(r1) \/ IteratorStep(r1)
      PROVE  row'.reply[r] # "full"
  <2>1. TurnEffect(r1) /\ TurnTypes(r1)
    BY <1>3, WorkerEffect, IteratorEffect DEF Inv
  <2>2. \A x \in Runs \ {r1} : row'.reply[x] = row.reply[x]
    BY <2>1, TurnKeeps
  <2> QED BY <1>3, <2>2
<1>4. ASSUME WorkerStep(r) \/ IteratorStep(r) PROVE row'.reply[r] # "full"
  <2>1. TurnEffect(r) /\ TurnTypes(r) /\ FinalAt(r)
    BY <1>4, WorkerEffect, IteratorEffect DEF Inv, Finalizations
  <2>2. CASE wpc[r] \notin Over
    <3>1. ctx[r].reply[r] # "full"
      BY <2>1, <2>2 DEF FinalAt
    <3> QED BY <2>1, <3>1 DEF TurnEffect, ClosedEntry, Edited, SavedAs
  <2>3. CASE wpc[r] \in Over /\ WorkerStep(r)
    <3>1. UNCHANGED row
      BY <2>3 DEF Over, WorkerStep, Work, CheckCancelled, CheckCurrent, SaveReply, Complete,
         SaveCompleted, Error, Blocked, RecordFailed, FinalizeByWorker, Finalized, Finish
    <3> QED BY <3>1
  <2>4. CASE IteratorStep(r)
    <3>1. CASE Close(r) /\ ~live[r]
      <4>1. ClosedEntry(r) \/ Edited(r, ctx[r])
        BY <3>1, ClosedOf DEF Close, Inv
      <4> QED BY <4>1 DEF ClosedEntry, Edited
    <3>2. CASE ~(Close(r) /\ ~live[r])
      BY <2>4, <3>2 DEF IteratorStep, WakeUp, HeartbeatCancelled, Finalized, EndOfStream, Close
    <3> QED BY <3>1, <3>2
  <2> QED BY <1>4, <2>2, <2>3, <2>4
<1>5. CASE \E p \in Procs, q \in Requests : Load(p, q)
  BY <1>1, <1>5, LoadKeeps
<1>6. CASE \E q \in Requests : HandlerStep(q)
  BY <1>1, <1>6, HandlerKeeps
<1>7. CASE \E r1 \in Runs : StopStep(r1) \/ \E p \in Procs : StopCancel(p, r1)
  BY <1>1, <1>7, StopKeeps
<1>8. CASE CoordinatorStep \/ \E p \in Procs : Crash(p)
  BY <1>1, <1>8, CoordinatorKeeps, CrashKeeps
<1> QED BY <1>2, <1>3, <1>4, <1>5, <1>6, <1>7, <1>8 DEF Next

\* Over Redis, and every POST delivered once: when a stop's cancellation was finalized and
\* the partial answer is what is stored, neither the worker that was still computing nor
\* the iterator ever stores the full text over it.  The stop was acknowledged, so the
\* worker's last checks see it (StopTheorem of TurnCoordinatorProofs).
THEOREM PartialTheorem ==
  ASSUME RedisEnabled, DeliveredOnce
  PROVE  Spec => StoppedKeepsPartial
<1>1. Spec => [][TC!Next]_(TC!vars) /\ []Leases
  <2>1. Init => Leases
    BY InitLeases
  <2>2. Inv /\ Leases /\ [Next]_vars => Leases' /\ [TC!Next]_(TC!vars)
    BY LeasesStep
  <2> QED BY <2>1, <2>2, InvTheorem, PTL DEF Spec
<1>2. Spec => TCP!Spec
  BY CoordinatorTheorem, SameSpec, PTL
<1>3. TCP!Spec => []TCP!TypeOK
  BY ConstantsOf, TCP!TypeTheorem
<1>4. TCP!Spec => []TCP!AckedStopSticks
  BY ConstantsOf, TCP!StopTheorem
<1>5. TCP!TypeOK /\ TCP!AckedStopSticks => Sticks
  BY SameState DEF TCP!TypeOK, TCP!AckedStopSticks, Sticks
<1>6. Init => Finalizations
  BY DEF Init, Finalizations, FinalAt
<1>7. Inv /\ Leases /\ Leases' /\ TCP!TypeOK /\ Sticks /\ Finalizations
        /\ [Next]_vars /\ [TC!Next]_(TC!vars) => Finalizations'
  BY FinalStep
<1>8. Spec => []Finalizations
  BY <1>1, <1>2, <1>3, <1>4, <1>5, <1>6, <1>7, InvTheorem, PTL DEF Spec
<1> DEFINE A == \A r \in Runs : finalized[r] /\ row.reply[r] # "full" => row'.reply[r] # "full"
<1>9. Inv /\ Finalizations /\ [Next]_vars => [A]_vars
  BY PartialStep
<1>10. Spec => [][A]_vars
  BY <1>8, <1>9, InvTheorem, PTL DEF Spec
<1> QED BY <1>10 DEF StoppedKeepsPartial
=============================================================================
