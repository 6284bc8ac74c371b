------------------------------ MODULE SessionRecord ------------------------------
(***************************************************************************)
(* The stored session and the requests that change it without a stream     *)
(* (api/routes/chat.py, storage/repositories/postgres_repo.py,             *)
(* core/context.py, core/message_interactions.py).                         *)
(*                                                                         *)
(* A session is stored in three places: the row with the branch in use, a  *)
(* row per branch, and a row per item of the timeline.  Every request      *)
(* reads the three one after the other, works on its copy, and writes the  *)
(* whole copy back against the version of the row; none takes the lease    *)
(* that the streamed turns take.                                           *)
(***************************************************************************)
EXTENDS Naturals, Sequences, FiniteSets

CONSTANTS
  Requests,    \* each is made once
  Branches, First,
  Unbound,     \* the branch without a child
  Gone, None

\* A message: who wrote it (the request that made it), the state of its form, its feedback.
Messages == [by : Requests \cup {None}, role : {"user", "assistant"},
             form : {"none", "active", "submitted", "expired"}, mark : Requests \cup {None}]
Rows == [version : Nat, active : Branches, messages : Seq(Messages), title : Requests \cup {None}]

\* What the constants are; an instance assumes it.
SessionAssumption == First \in Branches /\ Gone \notin Rows

VARIABLES
  row,        \* the version, the branch in use and its messages, the title; or Gone
  branch,     \* the messages of every branch when it was last in use
  items,      \* the messages on the timeline
  log,        \* the requests whose event is in the event table
  facts,      \* the requests whose facts are stored for the child
  req         \* per request: where it is, what it asks, and its copy

vars == <<row, branch, items, log, facts, req>>

Message(by, role, form) == [by |-> by, role |-> role, form |-> form, mark |-> None]
Opening == Message(None, "assistant", "active")
Id(m) == <<m.by, m.role>>
Ids(s) == {Id(s[i]) : i \in DOMAIN s}

Init ==
  /\ row = [version |-> 1, active |-> First, messages |-> <<Opening>>, title |-> None]
  /\ branch = [b \in Branches |-> IF b = First THEN <<Opening>> ELSE <<>>]
  /\ items = {Id(Opening)}
  /\ log = {} /\ facts = {}
  /\ req = [r \in Requests |-> [pc |-> "new"]]

-----------------------------------------------------------------------------
(* What a request does to a session: [active, messages, title, branches,   *)
(* timeline].                                                              *)

\* expire_active_interactions.
Expire(s) == [i \in DOMAIN s |-> IF s[i].form = "active" THEN [s[i] EXCEPT !.form = "expired"] ELSE s[i]]

\* Mutant: the forms shown before stay open.
PostedBeside(r, form, blocked, s) ==
  LET asked == Append(s.messages, Message(r, "user", "none"))
      answered == Append(asked, Message(r, "assistant", form))
  IN [s EXCEPT !.messages = IF blocked THEN asked ELSE answered,
               !.timeline = @ \cup Ids(answered)]

\* A message and its reply, perhaps with a form.  A blocked reply leaves the messages; it
\* is on the timeline already.
Posted(r, form, blocked, s) ==
  LET asked == Append(Expire(s.messages), Message(r, "user", "none"))
      answered == Append(asked, Message(r, "assistant", form))
  IN [s EXCEPT !.messages = IF blocked THEN asked ELSE answered,
               !.timeline = @ \cup Ids(answered)]

\* Only replies of the branch in use, only forms that are open or were submitted.
Replies(s) == {i \in DOMAIN s.messages : s.messages[i].role = "assistant"}
Open(s) == {i \in Replies(s) : s.messages[i].form \in {"active", "submitted"}}

Edited(s, i, field, value) == [s EXCEPT !.messages[i][field] = value]

\* The child in use changes: the branch is put away, a child's with its forms ended, and
\* the other is taken up.
Switched(b, s) ==
  [s EXCEPT !.active = b, !.messages = s.branches[b],
            !.branches = [@ EXCEPT ![s.active] =
                            IF s.active = Unbound THEN s.messages ELSE Expire(s.messages)]]

\* The message that a feedback or a submission names, by its place in the copy.
At(s, id) == CHOOSE i \in DOMAIN s.messages : Id(s.messages[i]) = id

Effect(r, ask, s) ==
  CASE ask.kind = "post" -> Posted(r, ask.form, ask.blocked, s)
    [] ask.kind = "refused" -> s
    [] ask.kind = "mark" -> Edited(s, At(s, ask.id), "mark", r)
    [] ask.kind = "submit" -> Edited(s, At(s, ask.id), "form", "submitted")
    [] ask.kind = "title" -> [s EXCEPT !.title = r]
    [] ask.kind = "switch" -> Switched(ask.to, s)

-----------------------------------------------------------------------------
(* Reading.                                                                *)

Step(r, next) == req' = [req EXCEPT ![r] = next]
Same == UNCHANGED <<row, branch, items>>

\* Mutant: the branches and the timeline are read before the row.
ReadRowLast(r) ==
  /\ Same /\ UNCHANGED <<log, facts>>
  /\ \/ /\ req[r].pc = "new" /\ row # Gone
        /\ Step(r, [pc |-> "row", row |-> [branches |-> branch, timeline |-> items]])
     \/ /\ req[r].pc = "row" /\ row # Gone
        /\ Step(r, [pc |-> "work", version |-> row.version,
                    copy |-> [active |-> row.active, messages |-> row.messages, title |-> row.title,
                              branches |-> req[r].row.branches, timeline |-> req[r].row.timeline]])

\* PostgresSessionRepository.get: one statement for the row, others for the rest.
Read(r) ==
  /\ Same /\ UNCHANGED <<log, facts>>
  /\ \/ /\ req[r].pc = "new" /\ row # Gone
        /\ Step(r, [pc |-> "row", row |-> row])
     \/ /\ req[r].pc = "row"
        /\ Step(r, [pc |-> "work", version |-> req[r].row.version,
                    copy |-> [active |-> req[r].row.active, messages |-> req[r].row.messages,
                              title |-> req[r].row.title, branches |-> branch, timeline |-> items]])

Missing(r) ==
  /\ req[r].pc = "new" /\ row = Gone
  /\ Step(r, [pc |-> "refused"])
  /\ Same /\ UNCHANGED <<log, facts>>

-----------------------------------------------------------------------------
(* The requests.                                                           *)

\* The copy is changed; what is stored elsewhere is stored at once.
Work(r, ask) ==
  /\ req[r].pc = "work"
  /\ Step(r, [pc |-> "save", version |-> req[r].version, ask |-> ask,
              copy |-> Effect(r, ask, req[r].copy)])
  /\ log' = IF ask.kind \in {"mark", "submit", "switch"} THEN log \cup {r} ELSE log
  /\ facts' = IF ask.kind = "post" /\ ~ask.blocked THEN facts \cup {r} ELSE facts
  /\ Same

\* post_message; the moderation may refuse the message, or block the reply.
Post(r) ==
  \/ Work(r, [kind |-> "refused"])
  \/ \E form \in {"none", "active"}, blocked \in BOOLEAN :
       Work(r, [kind |-> "post", form |-> form, blocked |-> blocked])

Feedback(r) ==
  /\ req[r].pc = "work"
  /\ \E i \in Replies(req[r].copy) :
       Work(r, [kind |-> "mark", id |-> Id(req[r].copy.messages[i])])

Submit(r) ==
  /\ req[r].pc = "work"
  /\ \E i \in Open(req[r].copy) :
       Work(r, [kind |-> "submit", id |-> Id(req[r].copy.messages[i])])

Rename(r) == Work(r, [kind |-> "title"])

SwitchChild(r) ==
  /\ req[r].pc = "work"
  /\ \E b \in Branches \ {req[r].copy.active} : Work(r, [kind |-> "switch", to |-> b])

\* sync_active_branch: the branch in use is put with the others.
Synced(s) == [s.branches EXCEPT ![s.active] = s.messages]

\* Mutant: a row that is gone is made again.
SaveAnew(r) ==
  /\ req[r].pc = "save"
  /\ row # Gone => row.version = req[r].version
  /\ LET s == req[r].copy IN
     /\ row' = [version |-> req[r].version + 1, active |-> s.active, messages |-> s.messages,
                title |-> s.title]
     /\ branch' = Synced(s)
     /\ items' = items \cup s.timeline \cup Ids(s.messages)
  /\ Step(r, [req[r] EXCEPT !.pc = "ok"])
  /\ UNCHANGED <<log, facts>>

\* PostgresSessionRepository.save: the row, its branches and its items, if the version is
\* still the one that was read.  Items are never taken away.
Save(r) ==
  /\ req[r].pc = "save"
  /\ row # Gone /\ row.version = req[r].version
  /\ LET s == req[r].copy IN
     /\ row' = [version |-> row.version + 1, active |-> s.active, messages |-> s.messages,
                title |-> s.title]
     /\ branch' = Synced(s)
     /\ items' = items \cup s.timeline \cup Ids(s.messages)
  /\ Step(r, [req[r] EXCEPT !.pc = "ok"])
  /\ UNCHANGED <<log, facts>>

Current(r) == row # Gone /\ row.version = req[r].version

\* SESSION_UPDATE_CONFLICT; the events and facts of the request stay.
Conflict(r) ==
  /\ req[r].pc = "save"
  /\ ~Current(r)
  /\ Step(r, [pc |-> "refused"])
  /\ Same /\ UNCHANGED <<log, facts>>

\* The row goes with its branches and items, its events in the same transaction.
Delete ==
  /\ row # Gone
  /\ row' = Gone /\ branch' = [b \in Branches |-> <<>>] /\ items' = {} /\ log' = {}
  /\ UNCHANGED <<facts, req>>

Next ==
  \/ \E r \in Requests :
       \/ Read(r) \/ Missing(r) \/ Post(r) \/ Feedback(r) \/ Submit(r) \/ Rename(r)
       \/ SwitchChild(r) \/ Save(r) \/ Conflict(r)
  \/ Delete

Spec == Init /\ [][Next]_vars

-----------------------------------------------------------------------------
(* Properties.                                                             *)

\* The stored session as one value.
Session == [active |-> row.active, messages |-> row.messages, title |-> row.title,
            branches |-> branch, timeline |-> items]

Stored(s) == [s EXCEPT !.branches = Synced(s)]

\* A request that is answered with success has changed the session that was stored, and
\* nothing in it but what it asked for, as if it had been alone: what other requests stored
\* while it worked, in this branch or in another one, is not overwritten.
AsIfAlone ==
  \A r \in Requests :
    req[r].pc = "save" /\ req'[r].pc = "ok" =>
      row # Gone /\ Session' = Stored(Effect(r, req[r].ask, Session))

\* Only the last reply of a branch may have an open form: whoever answers an older one is
\* refused, also when the newer message was stored while the answer was on its way.
OnlyLastFormOpen ==
  \A b \in Branches : \A i \in DOMAIN branch[b] :
    branch[b][i].form = "active" => i = Len(branch[b])

\* A deleted session does not come back, whatever requests are under way.
DeletedStaysDeleted == row = Gone => row' = Gone /\ items' = {}
=================================================================================
