-------------------------- MODULE StoredSessionProofs --------------------------
(***************************************************************************)
(* What requests leave in the database.  Of the session (SessionRecord),   *)
(* for any requests and branches: a request that is answered with success  *)
(* has changed the stored session as if it had been alone, only the last   *)
(* reply of a branch has an open form, and a deleted session stays away.   *)
(* Of its prompt memory (ConversationMemory, second part), for any script  *)
(* and thresholds: nothing is lost while no write is overtaken.  Of the    *)
(* frames of a run (StreamEvents, third part), for any progress stages and *)
(* any length of the answer: the timeline ends before the answer, a block  *)
(* is the last thing shown, and the history serves what the frames showed. *)
(*                                                                         *)
(* The version of the row is all that orders the requests, and a request   *)
(* reads the row first.  So the invariant says of every request in terms   *)
(* of the version: none has read a newer row than there is, and one that   *)
(* has read this very row has read the branches and the timeline that      *)
(* belong to it (Known), whatever was stored between its three reads.      *)
(***************************************************************************)
EXTENDS StreamedSession, Sequences, TLAPS, SequenceTheorems

MessageIds == (PlainRequests \cup {Nobody}) \X {"user", "assistant"}

\* A session as a request works on it.
Sessions ==
  [active : Branches, messages : Seq(SD!Messages), title : PlainRequests \cup {Nobody},
   branches : [Branches -> Seq(SD!Messages)], timeline : SUBSET MessageIds]

\* Only the last message of a list has an open form.
LastOpen(q) == \A i \in DOMAIN q : q[i].form = "active" => i = Len(q)

\* What holds of a session as it is stored: its branch in use is up to date, all its
\* messages are on the timeline, and older forms are closed.
Sound(s) ==
  /\ s.branches[s.active] = s.messages
  /\ \A b \in Branches : SD!Ids(s.branches[b]) \subseteq s.timeline /\ LastOpen(s.branches[b])

\* What a request may ask of the session.
Asked(ask) ==
  \/ ask.kind \in {"refused", "mark", "submit", "title"}
  \/ ask.kind = "post" /\ ask.form \in {"none", "active"} /\ ask.blocked \in BOOLEAN
  \/ ask.kind = "switch" /\ ask.to \in Branches

Types ==
  /\ sRow \in SD!Rows \cup {Nobody}
  /\ sBranch \in [Branches -> Seq(SD!Messages)]
  /\ sItems \subseteq MessageIds
  /\ sReq = [r \in PlainRequests |-> sReq[r]]

\* The row is the one whose version a request has read, or a later one.
Since(version) == version \in Nat /\ version <= sRow.version

KnownTo(q) ==
  /\ q.pc \in {"new", "row", "work", "save", "ok", "refused"}
  /\ q.pc = "row" => q.row \in SD!Rows /\ (sRow # Nobody => Since(q.row.version))
  /\ q.pc = "row" /\ sRow # Nobody /\ q.row.version = sRow.version => q.row = sRow
  /\ q.pc \in {"work", "save"} /\ sRow # Nobody => Since(q.version)
  /\ q.pc = "work" /\ sRow # Nobody /\ q.version = sRow.version => q.copy = SD!Session
  /\ q.pc = "save" => Asked(q.ask)

\* What is saved is what the request makes of the session that is stored.
Meant(r) ==
  sReq[r].pc = "save" /\ sRow # Nobody /\ sReq[r].version = sRow.version
    => sReq[r].copy = SD!Effect(r, sReq[r].ask, SD!Session)

Known == \A r \in PlainRequests : KnownTo(sReq[r]) /\ Meant(r)

Kept == IF sRow = Nobody THEN sItems = {} /\ \A b \in Branches : sBranch[b] = <<>>
        ELSE Sound(SD!Session)

Inv == Types /\ Known /\ Kept

-----------------------------------------------------------------------------
(* Messages and lists of them.                                             *)

LEMMA MessageOf ==
  ASSUME NEW r \in PlainRequests \cup {Nobody}, NEW role \in {"user", "assistant"},
         NEW form \in {"none", "active"}
  PROVE  /\ SD!Message(r, role, form) \in SD!Messages
         /\ SD!Message(r, role, form).form = form /\ SD!Id(SD!Message(r, role, form)) \in MessageIds
BY DEF SD!Message, SD!Messages, SD!Id, MessageIds

LEMMA IdsOf ==
  ASSUME NEW q \in Seq(SD!Messages)
  PROVE  SD!Ids(q) \subseteq MessageIds
<1>1. \A i \in DOMAIN q : q[i] \in SD!Messages
  OBVIOUS
<1>2. \A m \in SD!Messages : SD!Id(m) \in MessageIds
  BY DEF SD!Messages, SD!Id, MessageIds
<1> QED BY <1>1, <1>2 DEF SD!Ids

\* A list of the same length whose messages differ in the state of their form at most.
LEMMA SameIds ==
  ASSUME NEW q \in Seq(SD!Messages), NEW p, DOMAIN p = DOMAIN q,
         p = [i \in DOMAIN q |-> p[i]],
         \A i \in DOMAIN q : p[i] \in SD!Messages /\ SD!Id(p[i]) = SD!Id(q[i])
  PROVE  p \in Seq(SD!Messages) /\ Len(p) = Len(q) /\ SD!Ids(p) = SD!Ids(q)
<1>1. p \in Seq(SD!Messages) /\ Len(p) = Len(q)
  <2>1. DOMAIN q = 1..Len(q) /\ Len(q) \in Nat
    OBVIOUS
  <2>2. p \in [1..Len(q) -> SD!Messages]
    BY <2>1
  <2> QED BY <2>1, <2>2, SeqDef
<1>2. SD!Ids(p) = SD!Ids(q)
  BY DEF SD!Ids
<1> QED BY <1>1, <1>2

LEMMA ExpireOf ==
  ASSUME NEW q \in Seq(SD!Messages)
  PROVE  /\ SD!Expire(q) \in Seq(SD!Messages) /\ Len(SD!Expire(q)) = Len(q)
         /\ SD!Ids(SD!Expire(q)) = SD!Ids(q)
         /\ \A i \in DOMAIN SD!Expire(q) : SD!Expire(q)[i].form # "active"
<1> DEFINE m(i) == IF q[i].form = "active" THEN [q[i] EXCEPT !.form = "expired"] ELSE q[i]
<1>1. ASSUME NEW i \in DOMAIN q
      PROVE  m(i) \in SD!Messages /\ SD!Id(m(i)) = SD!Id(q[i]) /\ m(i).form # "active"
  <2>1. q[i] \in SD!Messages
    OBVIOUS
  <2> QED BY <2>1 DEF SD!Messages, SD!Id
<1>2. SD!Expire(q) = [i \in DOMAIN q |-> m(i)]
  BY DEF SD!Expire
<1> HIDE DEF m
<1>3. DOMAIN SD!Expire(q) = DOMAIN q /\ \A i \in DOMAIN q : SD!Expire(q)[i] = m(i)
  BY <1>2
<1>4. SD!Expire(q) = [i \in DOMAIN q |-> SD!Expire(q)[i]]
  BY <1>2, <1>3
<1> QED BY <1>1, <1>3, <1>4, SameIds

LEMMA AppendOf ==
  ASSUME NEW q \in Seq(SD!Messages), NEW m \in SD!Messages
  PROVE  /\ Append(q, m) \in Seq(SD!Messages)
         /\ SD!Ids(Append(q, m)) = SD!Ids(q) \cup {SD!Id(m)}
         /\ (\A i \in DOMAIN q : q[i].form # "active") => LastOpen(Append(q, m))
         /\ (\A i \in DOMAIN q : q[i].form # "active") /\ m.form # "active"
               => \A i \in DOMAIN Append(q, m) : Append(q, m)[i].form # "active"
<1>1. /\ Append(q, m) \in Seq(SD!Messages) /\ Len(Append(q, m)) = Len(q) + 1
      /\ DOMAIN Append(q, m) = 1..Len(q) + 1 /\ DOMAIN q = 1..Len(q) /\ Len(q) \in Nat
      /\ \A i \in 1..Len(q) : Append(q, m)[i] = q[i]
      /\ Append(q, m)[Len(q) + 1] = m
  OBVIOUS
<1>2. 1..Len(q) + 1 = (1..Len(q)) \cup {Len(q) + 1}
  BY <1>1
<1>3. SD!Ids(Append(q, m)) = SD!Ids(q) \cup {SD!Id(m)}
  <2> DEFINE n == Len(q)
             a == Append(q, m)
  <2> HIDE DEF n, a
  <2>1. {SD!Id(a[i]) : i \in (1..n) \cup {n + 1}}
          = {SD!Id(a[i]) : i \in 1..n} \cup {SD!Id(a[n + 1])}
    OBVIOUS
  <2> QED BY <2>1, <1>1, <1>2 DEF SD!Ids, n, a
<1> QED BY <1>1, <1>2, <1>3 DEF LastOpen

-----------------------------------------------------------------------------
(* What a request makes of a session.                                      *)

\* A session that may be stored, once its branch in use is put with the others.
Storable(e) ==
  /\ e \in Sessions
  /\ SD!Ids(e.messages) \subseteq e.timeline /\ LastOpen(e.messages)
  /\ \A b \in Branches \ {e.active} :
        SD!Ids(e.branches[b]) \subseteq e.timeline /\ LastOpen(e.branches[b])

LEMMA PostedOf ==
  ASSUME NEW s \in Sessions, Sound(s), NEW r \in PlainRequests,
         NEW form \in {"none", "active"}, NEW blocked \in BOOLEAN
  PROVE  LET e == SD!Posted(r, form, blocked, s)
         IN  Storable(e) /\ s.timeline \subseteq e.timeline
<1> DEFINE x == SD!Expire(s.messages)
           u == SD!Message(r, "user", "none")
           v == SD!Message(r, "assistant", form)
           asked == Append(x, u)
           answered == Append(asked, v)
           q == IF blocked THEN asked ELSE answered
           line == s.timeline \cup SD!Ids(answered)
           e == [s EXCEPT !.messages = q, !.timeline = line]
<1>1. /\ s.messages \in Seq(SD!Messages) /\ s.active \in Branches /\ s.timeline \subseteq MessageIds
      /\ SD!Ids(s.messages) \subseteq s.timeline
  BY DEF Sessions, Sound
<1>2. /\ x \in Seq(SD!Messages) /\ SD!Ids(x) = SD!Ids(s.messages)
      /\ \A i \in DOMAIN x : x[i].form # "active"
  BY <1>1, ExpireOf
<1>3. u \in SD!Messages /\ u.form = "none" /\ v \in SD!Messages
  BY MessageOf
<1> HIDE DEF x, u, v
<1>4. /\ asked \in Seq(SD!Messages) /\ SD!Ids(asked) = SD!Ids(x) \cup {SD!Id(u)}
      /\ \A i \in DOMAIN asked : asked[i].form # "active"
  BY <1>2, <1>3, AppendOf
<1> HIDE DEF asked
<1>5. /\ answered \in Seq(SD!Messages) /\ SD!Ids(answered) = SD!Ids(asked) \cup {SD!Id(v)}
      /\ LastOpen(answered)
  BY <1>3, <1>4, AppendOf
<1> HIDE DEF answered
<1>6. /\ q \in Seq(SD!Messages) /\ SD!Ids(q) \subseteq line /\ LastOpen(q)
      /\ line \subseteq MessageIds
  BY <1>1, <1>4, <1>5, IdsOf DEF LastOpen
<1>7. SD!Posted(r, form, blocked, s) = e
  BY DEF SD!Posted, x, u, v, asked, answered
<1> HIDE DEF q, line
<1>8. /\ e \in Sessions /\ e.messages = q /\ e.timeline = line
      /\ e.active = s.active /\ e.branches = s.branches
  BY <1>6 DEF Sessions
<1>9. s.timeline \subseteq line
  BY DEF line
<1> HIDE DEF e
<1> QED BY <1>6, <1>7, <1>8, <1>9 DEF Storable, Sound

\* A feedback or a submission, wherever it points.
LEMMA EditedOf ==
  ASSUME NEW s \in Sessions, Sound(s), NEW i, NEW r \in PlainRequests
  PROVE  /\ Storable(SD!Edited(s, i, "mark", r)) /\ SD!Edited(s, i, "mark", r).timeline = s.timeline
         /\ Storable(SD!Edited(s, i, "form", "submitted"))
         /\ SD!Edited(s, i, "form", "submitted").timeline = s.timeline
<1> DEFINE q == s.messages
           With(p) == [s EXCEPT !.messages = p]
<1>1. q \in Seq(SD!Messages) /\ SD!Ids(q) \subseteq s.timeline /\ LastOpen(q)
  BY DEF Sessions, Sound
<1>2. ASSUME NEW p, DOMAIN p = DOMAIN q, p = [j \in DOMAIN q |-> p[j]],
             \A j \in DOMAIN q : /\ p[j] \in SD!Messages /\ SD!Id(p[j]) = SD!Id(q[j])
                                 /\ p[j].form = "active" => q[j].form = "active"
      PROVE  Storable(With(p)) /\ With(p).timeline = s.timeline
  <2>1. p \in Seq(SD!Messages) /\ Len(p) = Len(q) /\ SD!Ids(p) = SD!Ids(q)
    <3> HIDE DEF q
    <3> QED BY <1>1, <1>2, SameIds
  <2>2. LastOpen(p)
    BY <1>1, <1>2, <2>1 DEF LastOpen
  <2>3. /\ With(p) \in Sessions /\ With(p).messages = p /\ With(p).timeline = s.timeline
        /\ With(p).active = s.active /\ With(p).branches = s.branches
    BY <2>1 DEF Sessions
  <2> HIDE DEF With
  <2> QED BY <1>1, <2>1, <2>2, <2>3 DEF Storable, Sound
<1>3. Storable(SD!Edited(s, i, "mark", r)) /\ SD!Edited(s, i, "mark", r).timeline = s.timeline
  <2> DEFINE p == [q EXCEPT ![i] = [q[i] EXCEPT !["mark"] = r]]
  <2>1. \A j \in DOMAIN q : q[j] \in SD!Messages
    BY <1>1
  <2>2. /\ DOMAIN p = DOMAIN q /\ p = [j \in DOMAIN q |-> p[j]]
        /\ \A j \in DOMAIN q : p[j] = IF j = i THEN [q[i] EXCEPT !["mark"] = r] ELSE q[j]
    BY <1>1
  <2>3. ASSUME NEW m \in SD!Messages
        PROVE  LET n == [m EXCEPT !["mark"] = r]
               IN  n \in SD!Messages /\ SD!Id(n) = SD!Id(m) /\ n.form = m.form
    BY DEF SD!Messages, SD!Id
  <2>4. \A j \in DOMAIN q : /\ p[j] \in SD!Messages /\ SD!Id(p[j]) = SD!Id(q[j])
                            /\ p[j].form = "active" => q[j].form = "active"
    BY <2>1, <2>2, <2>3
  <2>5. SD!Edited(s, i, "mark", r) = With(p)
    BY DEF SD!Edited
  <2> HIDE DEF p, With
  <2> QED BY <1>2, <2>2, <2>4, <2>5
<1>4. /\ Storable(SD!Edited(s, i, "form", "submitted"))
      /\ SD!Edited(s, i, "form", "submitted").timeline = s.timeline
  <2> DEFINE p == [q EXCEPT ![i] = [q[i] EXCEPT !["form"] = "submitted"]]
  <2>1. \A j \in DOMAIN q : q[j] \in SD!Messages
    BY <1>1
  <2>2. /\ DOMAIN p = DOMAIN q /\ p = [j \in DOMAIN q |-> p[j]]
        /\ \A j \in DOMAIN q : p[j] = IF j = i THEN [q[i] EXCEPT !["form"] = "submitted"] ELSE q[j]
    BY <1>1
  <2>3. ASSUME NEW m \in SD!Messages
        PROVE  LET n == [m EXCEPT !["form"] = "submitted"]
               IN  n \in SD!Messages /\ SD!Id(n) = SD!Id(m) /\ n.form = "submitted"
    BY DEF SD!Messages, SD!Id
  <2>4. \A j \in DOMAIN q : /\ p[j] \in SD!Messages /\ SD!Id(p[j]) = SD!Id(q[j])
                            /\ p[j].form = "active" => q[j].form = "active"
    BY <2>1, <2>2, <2>3
  <2>5. SD!Edited(s, i, "form", "submitted") = With(p)
    BY DEF SD!Edited
  <2> HIDE DEF p, With
  <2> QED BY <1>2, <2>2, <2>4, <2>5
<1> QED BY <1>3, <1>4

LEMMA SwitchedOf ==
  ASSUME NEW s \in Sessions, Sound(s), NEW b \in Branches
  PROVE  Storable(SD!Switched(b, s)) /\ SD!Switched(b, s).timeline = s.timeline
<1> DEFINE q == IF s.active = Unbound THEN s.messages ELSE SD!Expire(s.messages)
           away == [s.branches EXCEPT ![s.active] = q]
           e == [s EXCEPT !.active = b, !.messages = s.branches[b], !.branches = away]
<1>1. /\ s.messages \in Seq(SD!Messages) /\ s.active \in Branches
      /\ s.branches \in [Branches -> Seq(SD!Messages)]
      /\ SD!Ids(s.messages) \subseteq s.timeline /\ LastOpen(s.messages)
  BY DEF Sessions, Sound
<1>2. q \in Seq(SD!Messages) /\ SD!Ids(q) = SD!Ids(s.messages) /\ LastOpen(q)
  BY <1>1, ExpireOf DEF LastOpen
<1> HIDE DEF q
<1>3. /\ away \in [Branches -> Seq(SD!Messages)]
      /\ \A c \in Branches : away[c] = IF c = s.active THEN q ELSE s.branches[c]
  BY <1>1, <1>2
<1>4. SD!Switched(b, s) = e
  BY DEF SD!Switched, q
<1> HIDE DEF away
<1>5. /\ e \in Sessions /\ e.messages = s.branches[b] /\ e.timeline = s.timeline
      /\ e.active = b /\ e.branches = away
  BY <1>1, <1>3 DEF Sessions
<1> HIDE DEF e
<1> QED BY <1>1, <1>2, <1>3, <1>4, <1>5 DEF Storable, Sound

LEMMA EffectOf ==
  ASSUME NEW s \in Sessions, Sound(s), NEW r \in PlainRequests, NEW ask, Asked(ask)
  PROVE  Storable(SD!Effect(r, ask, s)) /\ s.timeline \subseteq SD!Effect(r, ask, s).timeline
<1>1. CASE ask.kind = "post" /\ ask.form \in {"none", "active"} /\ ask.blocked \in BOOLEAN
  <2>1. SD!Effect(r, ask, s) = SD!Posted(r, ask.form, ask.blocked, s)
    BY <1>1 DEF SD!Effect
  <2> QED BY <1>1, <2>1, PostedOf
<1>2. CASE ask.kind = "refused"
  <2>1. SD!Effect(r, ask, s) = s
    BY <1>2 DEF SD!Effect
  <2> QED BY <2>1 DEF Storable, Sound, Sessions
<1>3. CASE ask.kind = "mark"
  <2>1. SD!Effect(r, ask, s) = SD!Edited(s, SD!At(s, ask.id), "mark", r)
    BY <1>3 DEF SD!Effect
  <2> QED BY <2>1, EditedOf
<1>4. CASE ask.kind = "submit"
  <2>1. SD!Effect(r, ask, s) = SD!Edited(s, SD!At(s, ask.id), "form", "submitted")
    BY <1>4 DEF SD!Effect
  <2> QED BY <2>1, EditedOf
<1>5. CASE ask.kind = "title"
  <2> DEFINE e == [s EXCEPT !.title = r]
  <2>1. SD!Effect(r, ask, s) = e
    BY <1>5 DEF SD!Effect
  <2>2. /\ e \in Sessions /\ e.messages = s.messages /\ e.timeline = s.timeline
        /\ e.active = s.active /\ e.branches = s.branches
    BY DEF Sessions
  <2> HIDE DEF e
  <2> QED BY <2>1, <2>2 DEF Storable, Sound, Sessions
<1>6. CASE ask.kind = "switch" /\ ask.to \in Branches
  <2>1. SD!Effect(r, ask, s) = SD!Switched(ask.to, s)
    BY <1>6 DEF SD!Effect
  <2> QED BY <1>6, <2>1, SwitchedOf
<1> QED BY <1>1, <1>2, <1>3, <1>4, <1>5, <1>6 DEF Asked

-----------------------------------------------------------------------------
(* The invariant.                                                          *)

LEMMA SessionOf ==
  ASSUME Types, Kept, sRow # Nobody
  PROVE  /\ sRow \in SD!Rows /\ SD!Session \in Sessions /\ Sound(SD!Session)
         /\ SD!Session.branches = sBranch /\ SD!Session.timeline = sItems
         /\ SD!Session.active = sRow.active /\ SD!Session.messages = sRow.messages
BY DEF Types, Kept, SD!Session, Sessions, SD!Rows

LEMMA Started ==
  ASSUME SD!SessionAssumption, SD!Init
  PROVE  Inv
<1>1. SD!Opening \in SD!Messages /\ SD!Id(SD!Opening) \in MessageIds
  <2>1. Nobody \in PlainRequests \cup {Nobody} /\ "assistant" \in {"user", "assistant"}
        /\ "active" \in {"none", "active", "submitted", "expired"}
    OBVIOUS
  <2> QED BY <2>1 DEF SD!Opening, SD!Message, SD!Messages, SD!Id, MessageIds
<1> DEFINE q == <<SD!Opening>>
<1>2. q \in Seq(SD!Messages) /\ SD!Ids(q) = {SD!Id(SD!Opening)} /\ LastOpen(q)
  <2> HIDE DEF SD!Opening
  <2>1. q \in Seq(SD!Messages) /\ Len(q) = 1 /\ DOMAIN q = {1} /\ q[1] = SD!Opening
    BY <1>1
  <2>2. SD!Ids(q) = {SD!Id(q[1])}
    BY <2>1 DEF SD!Ids
  <2> QED BY <2>1, <2>2 DEF LastOpen
<1>3. << >> \in Seq(SD!Messages) /\ SD!Ids(<< >>) = {} /\ LastOpen(<< >>)
  BY DEF SD!Ids, LastOpen
<1>4. /\ sRow = [version |-> 1, active |-> First, messages |-> q, title |-> Nobody]
      /\ sBranch = [b \in Branches |-> IF b = First THEN q ELSE <<>>]
      /\ sItems = {SD!Id(SD!Opening)} /\ sReq = [r \in PlainRequests |-> [pc |-> "new"]]
  BY DEF SD!Init
<1> HIDE DEF q, SD!Opening
<1>5. sRow \in SD!Rows /\ sRow # Nobody /\ sBranch \in [Branches -> Seq(SD!Messages)]
  BY <1>2, <1>3, <1>4 DEF SD!Rows, SD!SessionAssumption
<1>6. Types
  BY <1>1, <1>4, <1>5 DEF Types
<1>7. Known
  BY <1>4 DEF Known, KnownTo, Meant
<1>8. Kept
  <2>1. SD!Session.branches = sBranch /\ SD!Session.timeline = sItems /\ SD!Session.active = First
        /\ SD!Session.messages = q
    BY <1>4 DEF SD!Session
  <2>2. Sound(SD!Session)
    BY <2>1, <1>2, <1>3, <1>4 DEF Sound, SD!SessionAssumption
  <2> QED BY <2>2, <1>5 DEF Kept
<1> QED BY <1>6, <1>7, <1>8 DEF Inv

\* A step of one request that leaves the stored session alone.
LEMMA OwnStep ==
  ASSUME Inv, NEW r \in PlainRequests, SD!Same, sReq' = [sReq EXCEPT ![r] = sReq'[r]],
         KnownTo(sReq'[r]), Meant(r)'
  PROVE  Inv'
<1>1. sRow' = sRow /\ sBranch' = sBranch /\ sItems' = sItems /\ SD!Session' = SD!Session
  BY DEF SD!Same, SD!Session
<1>2. \A q \in PlainRequests \ {r} : sReq'[q] = sReq[q]
  BY DEF Inv, Types
<1>3. Types'
  BY <1>1 DEF Inv, Types
<1>4. ASSUME NEW q PROVE KnownTo(q)' <=> KnownTo(q)
  BY <1>1 DEF KnownTo, Since
<1>5. ASSUME NEW q \in PlainRequests PROVE KnownTo(sReq[q])' /\ Meant(q)'
  <2>1. CASE q = r
    BY <1>1, <2>1 DEF KnownTo, Since
  <2>2. CASE q # r
    BY <1>1, <1>2, <2>2 DEF KnownTo, Since, Inv, Known, Meant
  <2> QED BY <2>1, <2>2
<1>6. Known'
  BY <1>5 DEF Known
<1>7. Kept'
  BY <1>1 DEF Inv, Kept
<1> QED BY <1>3, <1>6, <1>7 DEF Inv

LEMMA ReadStep ==
  ASSUME Inv, NEW r \in PlainRequests, SD!Read(r)
  PROVE  Inv'
<1>1. SD!Same /\ sReq' = [sReq EXCEPT ![r] = sReq'[r]]
  BY DEF SD!Read, SD!Step, Inv, Types
<1>2. CASE sReq[r].pc = "new" /\ sRow # Nobody /\ SD!Step(r, [pc |-> "row", row |-> sRow])
  <2> DEFINE n == [pc |-> "row", row |-> sRow]
  <2>1. sReq'[r] = n /\ n.pc = "row" /\ n.row = sRow
    BY <1>2 DEF SD!Step, Inv, Types
  <2>2. sRow \in SD!Rows /\ sRow.version \in Nat
    BY <1>2 DEF Inv, Types, SD!Rows
  <2> HIDE DEF n
  <2>3. KnownTo(sReq'[r]) /\ Meant(r)'
    BY <2>1, <2>2 DEF KnownTo, Since, Meant
  <2> QED BY <1>1, <2>3, OwnStep
<1> DEFINE c == [active |-> sReq[r].row.active, messages |-> sReq[r].row.messages,
                 title |-> sReq[r].row.title, branches |-> sBranch, timeline |-> sItems]
           n == [pc |-> "work", version |-> sReq[r].row.version, copy |-> c]
<1>3. CASE sReq[r].pc = "row" /\ SD!Step(r, n)
  <2>1. sReq'[r] = n /\ n.pc = "work" /\ n.version = sReq[r].row.version /\ n.copy = c
    BY <1>3 DEF SD!Step, Inv, Types
  <2>2. KnownTo(sReq[r])
    BY DEF Inv, Known
  <2>3. ASSUME sReq[r].row = sRow PROVE c = SD!Session
    BY <2>3 DEF SD!Session
  <2> HIDE DEF n, c
  <2>4. KnownTo(sReq'[r]) /\ Meant(r)'
    BY <1>3, <2>1, <2>2, <2>3 DEF KnownTo, Since, Meant
  <2> QED BY <1>1, <2>4, OwnStep
<1> QED BY <1>2, <1>3 DEF SD!Read

LEMMA RefusedStep ==
  ASSUME Inv, NEW r \in PlainRequests, SD!Missing(r) \/ SD!Conflict(r)
  PROVE  Inv'
<1>1. SD!Same /\ SD!Step(r, [pc |-> "refused"])
  BY DEF SD!Missing, SD!Conflict
<1>2. sReq' = [sReq EXCEPT ![r] = sReq'[r]] /\ sReq'[r].pc = "refused"
  BY <1>1 DEF SD!Step, Inv, Types
<1>3. KnownTo(sReq'[r]) /\ Meant(r)'
  BY <1>2 DEF KnownTo, Meant
<1> QED BY <1>1, <1>2, <1>3, OwnStep

LEMMA WorkStep ==
  ASSUME Inv, NEW r \in PlainRequests, NEW ask, Asked(ask), SD!Work(r, ask)
  PROVE  Inv'
<1> DEFINE e == SD!Effect(r, ask, sReq[r].copy)
           n == [pc |-> "save", version |-> sReq[r].version, ask |-> ask, copy |-> e]
<1>1. SD!Same /\ SD!Step(r, n) /\ sReq[r].pc = "work"
  BY DEF SD!Work
<1>2. sReq' = [sReq EXCEPT ![r] = sReq'[r]] /\ sReq'[r] = n
  BY <1>1 DEF SD!Step, Inv, Types
<1>3. n.pc = "save" /\ n.version = sReq[r].version /\ n.ask = ask /\ n.copy = e
  OBVIOUS
<1>4. KnownTo(sReq[r]) /\ SD!Session' = SD!Session /\ sRow' = sRow
  BY <1>1 DEF Inv, Known, SD!Same, SD!Session
<1>5. ASSUME sRow # Nobody, n.version = sRow.version
      PROVE  n.copy = SD!Effect(r, ask, SD!Session)
  BY <1>1, <1>3, <1>4, <1>5 DEF KnownTo
<1> HIDE DEF n, e
<1>6. KnownTo(sReq'[r])
  BY <1>1, <1>2, <1>3, <1>4 DEF KnownTo, Since
<1>7. Meant(r)'
  BY <1>2, <1>3, <1>4, <1>5 DEF Meant
<1> QED BY <1>1, <1>2, <1>6, <1>7, OwnStep

\* What a request asks is one of the kinds there are.
LEMMA AskStep ==
  ASSUME Inv, NEW r \in PlainRequests,
         SD!Post(r) \/ SD!Feedback(r) \/ SD!Submit(r) \/ SD!Rename(r) \/ SD!SwitchChild(r)
  PROVE  \E ask : Asked(ask) /\ SD!Work(r, ask)
<1>1. ASSUME NEW form \in {"none", "active"}, NEW blocked \in BOOLEAN
      PROVE  Asked([kind |-> "post", form |-> form, blocked |-> blocked])
  BY DEF Asked
<1>2. Asked([kind |-> "refused"]) /\ Asked([kind |-> "title"])
  BY DEF Asked
<1>3. ASSUME NEW id
      PROVE  Asked([kind |-> "mark", id |-> id]) /\ Asked([kind |-> "submit", id |-> id])
  BY DEF Asked
<1>4. ASSUME NEW b \in Branches PROVE Asked([kind |-> "switch", to |-> b])
  BY DEF Asked
<1>5. CASE SD!Post(r)
  BY <1>1, <1>2, <1>5 DEF SD!Post
<1>6. CASE SD!Feedback(r) \/ SD!Submit(r)
  BY <1>3, <1>6 DEF SD!Feedback, SD!Submit
<1>7. CASE SD!Rename(r)
  BY <1>2, <1>7 DEF SD!Rename
<1>8. CASE SD!SwitchChild(r)
  BY <1>4, <1>8 DEF SD!SwitchChild
<1> QED BY <1>5, <1>6, <1>7, <1>8

\* A save, of what the request makes of the session that is stored: the session after it,
\* and what all other requests have read is older.
LEMMA Saved ==
  ASSUME SD!SessionAssumption, Inv, NEW r \in PlainRequests, SD!Save(r)
  PROVE  LET e == SD!Effect(r, sReq[r].ask, SD!Session)
         IN  /\ SD!Session' = SD!Stored(e) /\ SD!Session' \in Sessions /\ Sound(SD!Session')
             /\ sRow' \in SD!Rows /\ sRow'.version = sRow.version + 1
             /\ sBranch' \in [Branches -> Seq(SD!Messages)] /\ sItems' \subseteq MessageIds
<1> DEFINE e == SD!Effect(r, sReq[r].ask, SD!Session)
<1>1. sReq[r].copy = e /\ Asked(sReq[r].ask)
  BY DEF SD!Save, Inv, Known, KnownTo, Meant
<1>2. /\ sRow \in SD!Rows /\ SD!Session \in Sessions /\ Sound(SD!Session)
      /\ SD!Session.timeline = sItems
  BY SessionOf DEF SD!Save, Inv
<1>3. Storable(e) /\ sItems \subseteq e.timeline
  <2> HIDE DEF SD!Session
  <2> QED BY <1>1, <1>2, EffectOf
<1> HIDE DEF e
<1>4. /\ sRow' = [version |-> sRow.version + 1, active |-> e.active, messages |-> e.messages,
                 title |-> e.title]
      /\ sBranch' = SD!Synced(e)
      /\ sItems' = sItems \cup e.timeline \cup SD!Ids(e.messages)
  BY <1>1 DEF SD!Save
<1>5. /\ e \in Sessions /\ e.active \in Branches /\ e.messages \in Seq(SD!Messages)
      /\ e.branches \in [Branches -> Seq(SD!Messages)] /\ e.title \in PlainRequests \cup {Nobody}
      /\ e.timeline \subseteq MessageIds
  BY <1>3 DEF Storable, Sessions
<1>6. sItems' = e.timeline
  BY <1>3, <1>4 DEF Storable
<1>7. /\ sBranch' \in [Branches -> Seq(SD!Messages)]
      /\ \A b \in Branches : sBranch'[b] = IF b = e.active THEN e.messages ELSE e.branches[b]
  BY <1>4, <1>5 DEF SD!Synced
<1>8. SD!Session' = [active |-> e.active, messages |-> e.messages, title |-> e.title,
                  branches |-> sBranch', timeline |-> e.timeline]
  BY <1>4, <1>6 DEF SD!Session
<1>9. SD!Session' = SD!Stored(e)
  <2>1. SD!Stored(e) = [e EXCEPT !.branches = sBranch']
    BY <1>4 DEF SD!Stored
  <2> QED BY <1>5, <1>8, <2>1 DEF Sessions
<1>10. SD!Session' \in Sessions
  BY <1>5, <1>7, <1>8 DEF Sessions
<1>11. Sound(SD!Session')
  BY <1>3, <1>5, <1>7, <1>8 DEF Sound, Storable
<1>12. sRow' \in SD!Rows /\ sRow'.version = sRow.version + 1
  BY <1>2, <1>4, <1>5 DEF SD!Rows
<1> QED BY <1>5, <1>6, <1>7, <1>9, <1>10, <1>11, <1>12 DEF e

LEMMA SaveStep ==
  ASSUME SD!SessionAssumption, Inv, NEW r \in PlainRequests, SD!Save(r)
  PROVE  Inv'
<1>1. /\ Sound(SD!Session') /\ sRow' \in SD!Rows /\ sRow'.version = sRow.version + 1
      /\ sBranch' \in [Branches -> Seq(SD!Messages)] /\ sItems' \subseteq MessageIds
  BY Saved
<1>2. sRow # Nobody /\ sRow \in SD!Rows /\ sRow.version \in Nat /\ sRow' # Nobody
  BY <1>1 DEF SD!Save, Inv, Types, SD!Rows, SD!SessionAssumption
<1>3. sReq' = [sReq EXCEPT ![r] = [sReq[r] EXCEPT !.pc = "ok"]] /\ sReq[r].pc = "save"
  BY DEF SD!Save, SD!Step
<1>4. /\ sReq' = [q \in PlainRequests |-> sReq'[q]] /\ sReq'[r] = [sReq[r] EXCEPT !.pc = "ok"]
      /\ \A q \in PlainRequests \ {r} : sReq'[q] = sReq[q]
  BY <1>3 DEF Inv, Types
<1>5. Types'
  BY <1>1, <1>4 DEF Types
<1>6. ASSUME NEW q \in PlainRequests PROVE KnownTo(sReq[q])' /\ Meant(q)'
  <2>1. CASE q = r
    <3>1. sReq'[r].pc \notin {"new", "row", "work", "save", "refused"}
          /\ sReq'[r].pc \in {"ok", sReq[r].pc}
      BY <1>4
    <3> QED BY <2>1, <1>3, <3>1 DEF KnownTo, Meant
  <2>2. CASE q # r
    <3>1. KnownTo(sReq[q]) /\ sReq'[q] = sReq[q]
      BY <1>4, <2>2 DEF Inv, Known
    <3> QED BY <1>1, <1>2, <3>1 DEF KnownTo, Since, Meant, SD!Rows
  <2> QED BY <2>1, <2>2
<1>7. Known' /\ Kept'
  BY <1>1, <1>2, <1>6 DEF Known, Kept
<1> QED BY <1>5, <1>7 DEF Inv

LEMMA DeleteStep ==
  ASSUME Inv, SD!Delete
  PROVE  Inv'
<1>1. sRow' = Nobody /\ sBranch' = [b \in Branches |-> <<>>] /\ sItems' = {} /\ sReq' = sReq
  BY DEF SD!Delete
<1>2. Types' /\ Kept'
  BY <1>1 DEF Inv, Types, Kept
<1>3. Known'
  BY <1>1 DEF Inv, Known, KnownTo, Meant
<1> QED BY <1>2, <1>3 DEF Inv

LEMMA InvStep ==
  ASSUME SD!SessionAssumption, Inv, [SD!Next]_(SD!vars)
  PROVE  Inv'
<1>1. CASE UNCHANGED SD!vars
  BY <1>1 DEF SD!vars, Inv, Types, Known, KnownTo, Since, Meant, Kept, SD!Session
<1>2. ASSUME NEW r \in PlainRequests,
             SD!Post(r) \/ SD!Feedback(r) \/ SD!Submit(r) \/ SD!Rename(r) \/ SD!SwitchChild(r)
      PROVE  Inv'
  BY <1>2, AskStep, WorkStep
<1> QED BY <1>1, <1>2, ReadStep, RefusedStep, SaveStep, DeleteStep DEF SD!Next

LEMMA Invariant ==
  ASSUME SD!SessionAssumption
  PROVE  SD!Spec => []Inv
<1>1. SD!Init => Inv
  BY Started
<1>2. Inv /\ [SD!Next]_(SD!vars) => Inv'
  BY InvStep
<1> QED BY <1>1, <1>2, PTL DEF SD!Spec

-----------------------------------------------------------------------------
(* The theorems.                                                           *)

\* Only the last reply of a branch may have an open form, whatever was stored while an
\* answer was on its way (core/context.py, message_interactions.py).
THEOREM FormsTheorem == SD!Spec => []OnlyLastFormOpen
<1>1. Inv => OnlyLastFormOpen
  BY SessionOf DEF Inv, Kept, Sound, LastOpen, SD!OnlyLastFormOpen, OnlyLastFormOpen
<1>2. SD!SessionAssumption
  BY StreamedAssumption
<1> QED BY <1>1, <1>2, Invariant, PTL

\* The version check of PostgresSessionRepository.save covers all three tables because each
\* request reads the row first: a save that succeeds saves what the request made of it.
LEMMA AloneStep == Inv /\ [SD!Next]_(SD!vars) => [SD!AsIfAlone]_(SD!vars)
<1> SUFFICES ASSUME Inv, SD!Next,
                    NEW r \in PlainRequests, sReq[r].pc = "save", sReq'[r].pc = "ok"
             PROVE  /\ sRow # Nobody
                    /\ SD!Session' = SD!Stored(SD!Effect(r, sReq[r].ask, SD!Session))
  BY DEF SD!AsIfAlone
<1>1. ASSUME NEW q \in PlainRequests, NEW n, SD!Step(q, n), n.pc # "ok" PROVE FALSE
  BY <1>1 DEF SD!Step, Inv, Types
<1>2. ASSUME NEW q \in PlainRequests, SD!Read(q) \/ SD!Missing(q) \/ SD!Conflict(q) PROVE FALSE
  BY <1>1, <1>2 DEF SD!Read, SD!Missing, SD!Conflict
<1>3. ASSUME NEW q \in PlainRequests, NEW ask, SD!Work(q, ask) PROVE FALSE
  BY <1>1, <1>3 DEF SD!Work
<1>4. ASSUME NEW q \in PlainRequests,
             SD!Post(q) \/ SD!Feedback(q) \/ SD!Submit(q) \/ SD!Rename(q) \/ SD!SwitchChild(q)
      PROVE  FALSE
  BY <1>3, <1>4, AskStep
<1>5. ASSUME NEW q \in PlainRequests, q # r, SD!Save(q) PROVE FALSE
  BY <1>5 DEF SD!Save, SD!Step, Inv, Types
<1>6. ~SD!Delete
  BY DEF SD!Delete
<1>7. SD!Save(r)
  BY <1>2, <1>4, <1>5, <1>6 DEF SD!Next
<1> QED BY <1>7, Saved, StreamedAssumption DEF SD!Save

\* A deleted session does not come back, whatever requests are under way (postgres_repo.py,
\* delete and save).
LEMMA DeletedStep == Inv /\ [SD!Next]_(SD!vars) => [SD!DeletedStaysDeleted]_(SD!vars)
BY DEF Inv, Kept, SD!DeletedStaysDeleted, SD!Next, SD!Read, SD!Missing, SD!Post,
       SD!Feedback, SD!Submit, SD!Rename,
       SD!SwitchChild, SD!Work, SD!Save, SD!Conflict, SD!Delete, SD!Same

\* A request that is answered with success has changed the stored session as if it had
\* been alone, and a deleted session does not come back (postgres_repo.py, save, delete).
THEOREM AloneTheorem == SD!Spec => AsIfAlone
<1>1. Inv /\ [SD!Next]_(SD!vars) => [SD!AsIfAlone /\ SD!DeletedStaysDeleted]_sVars
  <2>1. UNCHANGED SD!vars => UNCHANGED sVars
    BY DEF sVars, SD!vars
  <2> QED BY <2>1, AloneStep, DeletedStep DEF sVars, SD!vars
<1>2. SD!SessionAssumption
  BY StreamedAssumption
<1> QED BY <1>1, <1>2, Invariant, PTL DEF SD!Spec, AsIfAlone

-----------------------------------------------------------------------------
(* The memory of a conversation (ConversationMemory): the checkpoint row   *)
(* has no version.  As long as no write is based on a row that had moved   *)
(* on, all offsets rest at 0 and no write drops a turn: a turn leaves the  *)
(* tail only for the summary.                                              *)


\* No write was overtaken so far: what is stored and held starts with its tail, and all
\* turns that were appended are remembered.
InOrder ==
  /\ \A w \in CM!Rows : mStore[w].upto = 0
  /\ \A r \in CM!Steps : mCopy[r].upto = 0
  /\ \A k \in MemoryProcs \X CM!Scopes : mJobs[k].base.upto = 0 /\ mJobs[k].seen.upto = 0
  /\ mSpoken \subseteq CM!Kept(mStore[CM!Row("turn")])

MemoryInv ==
  /\ CM!TypeOK
  /\ \A r \in CM!Steps : mCopy[r] = mRead[r]
  /\ \A k \in MemoryProcs \X CM!Scopes : mJobs[k].target <= Len(mJobs[k].base.tail)
  /\ ~mOvertaken => InOrder

LEMMA EmptyOf ==
  /\ CM!Empty \in CM!Memory /\ CM!Empty.upto = 0 /\ CM!NoJob \in CM!Jobs
  /\ CM!NoJob.base = CM!Empty /\ CM!NoJob.seen = CM!Empty /\ CM!NoJob.target = 0
  /\ Len(CM!Empty.tail) = 0
<1>1. << >> \in Seq(CM!Steps) /\ Len(<< >>) = 0 /\ {} \in SUBSET CM!Steps
  OBVIOUS
<1>2. CM!Empty \in CM!Memory /\ CM!Empty.upto = 0 /\ CM!Empty.tail = << >>
  BY <1>1 DEF CM!Empty, CM!Memory
<1>3. CM!NoJob = [at |-> "none", base |-> CM!Empty, target |-> 0, seen |-> CM!Empty]
  BY DEF CM!NoJob
<1> QED BY <1>1, <1>2, <1>3 DEF CM!Jobs

\* The turns of a tail, the first n and the others.
LEMMA TailOf ==
  ASSUME NEW q \in Seq(CM!Steps), NEW n \in Nat, n <= Len(q)
  PROVE  /\ CM!Elements(q) \subseteq CM!Steps
         /\ SubSeq(q, n + 1, Len(q)) \in Seq(CM!Steps)
         /\ CM!Elements(q) \subseteq {q[i] : i \in 1..n} \cup CM!Elements(SubSeq(q, n + 1, Len(q)))
<1> DEFINE t == SubSeq(q, n + 1, Len(q))
<1>1. Len(q) \in Nat /\ DOMAIN q = 1..Len(q) /\ \A i \in 1..Len(q) : q[i] \in CM!Steps
  OBVIOUS
<1>2. /\ t \in Seq(CM!Steps) /\ Len(t) = Len(q) - n /\ DOMAIN t = 1..(Len(q) - n)
      /\ \A i \in 1..(Len(q) - n) : t[i] = q[n + i]
  <2>1. n + 1 \in Int /\ Len(q) \in Int /\ \A i \in (n + 1)..Len(q) : q[i] \in CM!Steps
    BY <1>1
  <2>2. /\ t \in Seq(CM!Steps)
        /\ Len(t) = IF n + 1 <= Len(q) THEN Len(q) - (n + 1) + 1 ELSE 0
        /\ \A i \in 1..(Len(q) - (n + 1) + 1) : t[i] = q[n + 1 + i - 1]
    BY <2>1, SubSeqProperties
  <2> HIDE DEF t
  <2>3. Len(t) = Len(q) - n
    <3>1. Len(t) = IF n + 1 <= Len(q) THEN Len(q) - (n + 1) + 1 ELSE 0
      BY <2>2
    <3>2. Len(q) \in Nat /\ n \in Nat /\ n <= Len(q)
      BY <1>1
    <3>3. Len(q) - n = IF n + 1 <= Len(q) THEN Len(q) - (n + 1) + 1 ELSE 0
      BY <3>2
    <3> QED BY <3>1, <3>3
  <2>4. t \in Seq(CM!Steps) /\ DOMAIN t = 1..(Len(q) - n)
    BY <2>2, <2>3
  <2>5. ASSUME NEW i \in 1..(Len(q) - n)
        PROVE  t[i] = q[n + i]
    <3>1. i \in 1..(Len(q) - (n + 1) + 1) /\ n + 1 + i - 1 = n + i
      BY <1>1
    <3> QED BY <2>2, <3>1
  <2> QED BY <2>3, <2>4, <2>5
<1> HIDE DEF t
<1>3. ASSUME NEW i \in 1..Len(q), i \notin 1..n
      PROVE  i - n \in DOMAIN t /\ t[i - n] = q[i]
  <2>1. i - n \in 1..(Len(q) - n) /\ n + (i - n) = i
    BY <1>1, <1>3
  <2>2. t[i - n] = q[n + (i - n)]
    BY <1>2, <2>1
  <2> QED BY <1>2, <2>1, <2>2
<1>4. CM!Elements(q) \subseteq {q[i] : i \in 1..n} \cup CM!Elements(t)
  BY <1>1, <1>3 DEF CM!Elements
<1> QED BY <1>1, <1>2, <1>4 DEF CM!Elements, t

LEMMA PrunedOf ==
  ASSUME NEW m \in CM!Memory
  PROVE  LET p == CM!Pruned(m)
         IN  /\ p \in CM!Memory /\ p.summary = m.summary
             /\ m.upto <= Len(m.tail) =>
                  /\ p.upto = 0
                  /\ CM!Elements(m.tail) \subseteq
                       {m.tail[i] : i \in 1..m.upto} \cup CM!Elements(p.tail)
<1>1. m.tail \in Seq(CM!Steps) /\ Len(m.tail) \in Nat /\ m.upto \in Nat
  BY DEF CM!Memory
<1>2. CASE m.upto = 0 \/ m.tail = << >>
  <2>1. CM!Pruned(m) = m
    BY <1>2 DEF CM!Pruned
  <2>2. m.upto <= Len(m.tail) => m.upto = 0
    BY <1>1, <1>2
  <2> QED BY <2>1, <2>2
<1>3. CASE m.upto # 0 /\ m.tail # << >>
  <2> DEFINE n == CM!Least(m.upto, Len(m.tail))
             t == SubSeq(m.tail, n + 1, Len(m.tail))
             p == [m EXCEPT !.tail = t, !.upto = 0]
  <2>1. n \in Nat /\ n <= Len(m.tail) /\ (m.upto <= Len(m.tail) => n = m.upto)
    BY <1>1 DEF CM!Least
  <2>2. CM!Pruned(m) = p
    BY <1>3 DEF CM!Pruned
  <2> HIDE DEF n
  <2>3. /\ t \in Seq(CM!Steps)
        /\ CM!Elements(m.tail) \subseteq {m.tail[i] : i \in 1..n} \cup CM!Elements(t)
    BY <1>1, <2>1, TailOf
  <2> HIDE DEF t
  <2>4. p \in CM!Memory /\ p.summary = m.summary /\ p.upto = 0 /\ p.tail = t
    BY <2>3 DEF CM!Memory
  <2> HIDE DEF p
  <2> QED BY <2>1, <2>2, <2>3, <2>4
<1> QED BY <1>2, <1>3

LEMMA TargetOf ==
  ASSUME CM!MemoryAssumption, NEW m \in CM!Memory
  PROVE  CM!Target(m) \in Nat /\ CM!Target(m) <= Len(m.tail)
<1>1. Len(m.tail) \in Nat /\ Window \in Nat
  BY DEF CM!Memory, CM!MemoryAssumption
<1> QED BY <1>1 DEF CM!Target, CM!Most

LEMMA PendingOf ==
  ASSUME NEW m \in CM!Memory, NEW n \in Nat
  PROVE  /\ CM!Pending(m, n) \subseteq CM!Steps
         /\ m.upto = 0 /\ n <= Len(m.tail) => CM!Pending(m, n) = {m.tail[i] : i \in 1..n}
<1>1. /\ m.tail \in Seq(CM!Steps) /\ Len(m.tail) \in Nat /\ m.upto \in Nat
      /\ \A i \in 1..Len(m.tail) : m.tail[i] \in CM!Steps
  BY DEF CM!Memory
<1>2. CM!Least(n, Len(m.tail)) \in Nat /\ CM!Least(n, Len(m.tail)) <= Len(m.tail)
      /\ (n <= Len(m.tail) => CM!Least(n, Len(m.tail)) = n)
  BY <1>1 DEF CM!Least
<1>3. (m.upto + 1)..CM!Least(n, Len(m.tail)) \subseteq 1..Len(m.tail)
  BY <1>1, <1>2
<1>4. m.upto = 0 /\ n <= Len(m.tail) => (m.upto + 1)..CM!Least(n, Len(m.tail)) = 1..n
  BY <1>1, <1>2
<1> QED BY <1>1, <1>3, <1>4 DEF CM!Pending

\* A memory whose summary takes up more turns, and more of the tail.
LEMMA SummarisedOf ==
  ASSUME NEW m \in CM!Memory, NEW S \in SUBSET CM!Steps, NEW n \in Nat
  PROVE  LET x == [m EXCEPT !.summary = S, !.upto = n]
             p == CM!Pruned(x)
         IN  /\ p \in CM!Memory
             /\ n <= Len(m.tail) /\ m.summary \cup {m.tail[i] : i \in 1..n} \subseteq S
                  => p.upto = 0 /\ CM!Kept(m) \subseteq CM!Kept(p)
<1> DEFINE x == [m EXCEPT !.summary = S, !.upto = n]
           p == CM!Pruned(x)
<1>1. x \in CM!Memory /\ x.summary = S /\ x.upto = n /\ x.tail = m.tail
  BY DEF CM!Memory
<1> HIDE DEF x
<1>2. /\ p \in CM!Memory /\ p.summary = x.summary
      /\ x.upto <= Len(x.tail) =>
           /\ p.upto = 0
           /\ CM!Elements(x.tail) \subseteq {x.tail[i] : i \in 1..x.upto} \cup CM!Elements(p.tail)
  BY <1>1, PrunedOf
<1> HIDE DEF p
<1>3. /\ p \in CM!Memory
      /\ n <= Len(m.tail) /\ m.summary \cup {m.tail[i] : i \in 1..n} \subseteq S
           => p.upto = 0 /\ CM!Kept(m) \subseteq CM!Kept(p)
  BY <1>1, <1>2 DEF CM!Kept
<1> QED BY <1>3 DEF p, x

LEMMA CompressedOf ==
  ASSUME CM!MemoryAssumption, NEW m \in CM!Memory
  PROVE  /\ CM!Compressed(m) \in CM!Memory
         /\ m.upto = 0 => /\ CM!Compressed(m).upto = 0
                          /\ CM!Kept(m) \subseteq CM!Kept(CM!Compressed(m))
<1> DEFINE n == CM!Target(m)
           S == m.summary \cup CM!Pending(m, n)
<1>1. n \in Nat /\ n <= Len(m.tail) /\ m.summary \subseteq CM!Steps
  BY TargetOf DEF CM!Memory
<1>2. CM!Compressed(m) = CM!Pruned([m EXCEPT !.summary = S, !.upto = n])
  BY DEF CM!Compressed
<1> HIDE DEF n
<1>3. S \in SUBSET CM!Steps
      /\ (m.upto = 0 => m.summary \cup {m.tail[i] : i \in 1..n} \subseteq S)
  BY <1>1, PendingOf
<1> HIDE DEF S
<1> QED BY <1>1, <1>2, <1>3, SummarisedOf

LEMMA UpdatedOf ==
  ASSUME NEW m \in CM!Memory, NEW j \in CM!Jobs
  PROVE  /\ CM!Updated(m, j) \in CM!Memory
         /\ /\ ~CM!Stale(m, j) /\ m.upto = 0 /\ j.base.upto = 0
            /\ j.target <= Len(j.base.tail)
            => /\ CM!Updated(m, j).upto = 0
               /\ CM!Kept(m) \subseteq CM!Kept(CM!Updated(m, j))
<1> DEFINE n == CM!Most(m.upto, j.target)
           S == j.base.summary \cup CM!Pending(j.base, j.target)
<1>1. /\ j.base \in CM!Memory /\ j.target \in Nat /\ m.upto \in Nat
      /\ j.base.summary \subseteq CM!Steps /\ n \in Nat
      /\ m.upto = 0 => n = j.target
      /\ m.tail \in Seq(CM!Steps) /\ j.base.tail \in Seq(CM!Steps)
  BY DEF CM!Jobs, CM!Memory, CM!Most
<1>2. CM!Updated(m, j) = CM!Pruned([m EXCEPT !.summary = S, !.upto = n])
  BY DEF CM!Updated
<1>3. S \in SUBSET CM!Steps
  BY <1>1, PendingOf
<1>4. ASSUME ~CM!Stale(m, j), m.upto = 0, j.base.upto = 0, j.target <= Len(j.base.tail)
      PROVE  n <= Len(m.tail) /\ m.summary \cup {m.tail[i] : i \in 1..n} \subseteq S
  <2> DEFINE b == j.base.tail
             k == j.target
  <2>1. m.summary = j.base.summary /\ CM!Front(m.tail, k) = CM!Front(b, k)
    BY <1>4 DEF CM!Stale
  <2>2. /\ Len(m.tail) \in Nat /\ Len(b) \in Nat /\ k \in Nat /\ k <= Len(b)
        /\ m.tail \in Seq(CM!Steps) /\ b \in Seq(CM!Steps)
    BY <1>1, <1>4
  <2> HIDE DEF b, k
  <2>3. ASSUME NEW q \in Seq(CM!Steps)
        PROVE  LET f == CM!Front(q, k)
                   l == CM!Least(k, Len(q))
               IN  /\ Len(f) = l /\ l \in Nat /\ l <= Len(q) /\ l <= k
                   /\ \A i \in 1..l : f[i] = q[i]
    <3>1. CM!Least(k, Len(q)) \in Nat /\ CM!Least(k, Len(q)) <= Len(q) /\ CM!Least(k, Len(q)) <= k
      BY <2>2 DEF CM!Least
    <3> QED BY <3>1 DEF CM!Front
  <2>4. CM!Least(k, Len(b)) = k
    BY <2>2 DEF CM!Least
  <2>5. CM!Least(k, Len(m.tail)) = k /\ k <= Len(m.tail) /\ \A i \in 1..k : m.tail[i] = b[i]
    BY <2>1, <2>2, <2>3, <2>4
  <2>6. CM!Pending(j.base, k) = {b[i] : i \in 1..k}
    BY <1>1, <1>4, <2>2, PendingOf DEF b, k
  <2> QED BY <1>1, <1>4, <2>1, <2>2, <2>5, <2>6 DEF k
<1> HIDE DEF n, S
<1>5. /\ CM!Updated(m, j) \in CM!Memory
      /\ n <= Len(m.tail) /\ m.summary \cup {m.tail[i] : i \in 1..n} \subseteq S
           => /\ CM!Updated(m, j).upto = 0
              /\ CM!Kept(m) \subseteq CM!Kept(CM!Updated(m, j))
  BY <1>1, <1>2, <1>3, SummarisedOf
<1> QED BY <1>4, <1>5

LEMMA RememberedOf ==
  ASSUME NEW m \in CM!Memory, NEW r \in CM!Steps
  PROVE  LET x == [m EXCEPT !.tail = Append(@, r)]
         IN  x \in CM!Memory /\ x.upto = m.upto /\ CM!Kept(m) \cup {r} \subseteq CM!Kept(x)
<1> DEFINE q == Append(m.tail, r)
           x == [m EXCEPT !.tail = q]
<1>1. m.tail \in Seq(CM!Steps)
  BY DEF CM!Memory
<1>2. /\ q \in Seq(CM!Steps) /\ DOMAIN m.tail \subseteq DOMAIN q
      /\ Len(m.tail) + 1 \in DOMAIN q /\ q[Len(m.tail) + 1] = r
      /\ \A i \in DOMAIN m.tail : q[i] = m.tail[i]
  BY <1>1
<1> HIDE DEF q
<1>3. x \in CM!Memory /\ x.upto = m.upto /\ x.tail = q /\ x.summary = m.summary
  BY <1>2 DEF CM!Memory
<1> HIDE DEF x
<1>4. CM!Kept(m) \cup {r} \subseteq CM!Kept(x)
  BY <1>2, <1>3 DEF CM!Kept, CM!Elements
<1> QED BY <1>3, <1>4 DEF x, q
-----------------------------------------------------------------------------
(* What the steps of the memory share: a row, a copy or a job is replaced. *)

LEMMA MemoryTypes ==
  ASSUME MemoryInv
  PROVE  /\ mStore \in [CM!Rows -> CM!Memory]
         /\ mAt \in [CM!Steps -> {"new", "loaded", "compressing", "prepared", "appending", "done"}]
         /\ mOn \in [CM!Steps -> MemoryProcs] /\ mCopy \in [CM!Steps -> CM!Memory]
         /\ mRead \in [CM!Steps -> CM!Memory] /\ mJobs \in [MemoryProcs \X CM!Scopes -> CM!Jobs]
         /\ mSpoken \subseteq CM!Steps /\ mOvertaken \in BOOLEAN /\ mCrashes \in 0..MemoryCrashes
         /\ \A r \in CM!Steps : mCopy[r] = mRead[r]
         /\ \A s : CM!Row(s) \in CM!Rows
BY DEF MemoryInv, CM!TypeOK, CM!Row, CM!Rows

LEMMA Written ==
  ASSUME MemoryInv, NEW s \in CM!Scopes, NEW m \in CM!Memory, NEW basis \in CM!Memory,
         CM!Write(s, m, basis),
         basis.upto = 0 => m.upto = 0 /\ CM!Kept(basis) \subseteq CM!Kept(m)
  PROVE  /\ mStore' \in [CM!Rows -> CM!Memory] /\ mOvertaken' \in BOOLEAN
         /\ mStore'[CM!Row(s)] = m
         /\ ~mOvertaken' => /\ ~mOvertaken /\ basis.upto = 0
                            /\ \A w \in CM!Rows : mStore'[w].upto = 0
                            /\ mSpoken \subseteq CM!Kept(mStore'[CM!Row("turn")])
<1>1. /\ mStore' = [mStore EXCEPT ![CM!Row(s)] = m]
      /\ mOvertaken' = (mOvertaken \/ mStore[CM!Row(s)] # basis)
  BY DEF CM!Write
<1>2. /\ CM!Row(s) \in CM!Rows /\ CM!Row("turn") \in CM!Rows /\ mOvertaken \in BOOLEAN
      /\ mStore \in [CM!Rows -> CM!Memory]
  BY MemoryTypes
<1>3. /\ mStore' \in [CM!Rows -> CM!Memory] /\ mOvertaken' \in BOOLEAN /\ mStore'[CM!Row(s)] = m
      /\ \A w \in CM!Rows : w # CM!Row(s) => mStore'[w] = mStore[w]
  BY <1>1, <1>2
<1>4. CASE mOvertaken'
  BY <1>3, <1>4
<1>5. CASE ~mOvertaken'
  <2>1. ~mOvertaken /\ mStore[CM!Row(s)] = basis
    BY <1>1, <1>2, <1>5
  <2>2. /\ \A w \in CM!Rows : mStore[w].upto = 0
        /\ mSpoken \subseteq CM!Kept(mStore[CM!Row("turn")])
    BY <2>1 DEF MemoryInv, InOrder
  <2>3. basis.upto = 0 /\ m.upto = 0 /\ CM!Kept(basis) \subseteq CM!Kept(m)
    BY <1>2, <2>1, <2>2
  <2>4. mSpoken \subseteq CM!Kept(mStore'[CM!Row("turn")])
    <3>1. CASE CM!Row("turn") = CM!Row(s)
      BY <1>3, <2>1, <2>2, <2>3, <3>1
    <3>2. CASE CM!Row("turn") # CM!Row(s)
      BY <1>2, <1>3, <2>2, <3>2
    <3> QED BY <3>1, <3>2
  <2> QED BY <1>3, <2>1, <2>2, <2>3, <2>4
<1> QED BY <1>3, <1>4, <1>5

LEMMA Copied ==
  ASSUME MemoryInv, NEW r \in CM!Steps, NEW m \in CM!Memory,
         mCopy' = [mCopy EXCEPT ![r] = m], mRead' = [mRead EXCEPT ![r] = m]
  PROVE  /\ mCopy' \in [CM!Steps -> CM!Memory] /\ mRead' \in [CM!Steps -> CM!Memory]
         /\ \A q \in CM!Steps : mCopy'[q] = mRead'[q]
         /\ ~mOvertaken /\ m.upto = 0 => \A q \in CM!Steps : mCopy'[q].upto = 0
<1>1. /\ mCopy \in [CM!Steps -> CM!Memory] /\ mRead \in [CM!Steps -> CM!Memory]
      /\ \A q \in CM!Steps : mCopy[q] = mRead[q]
  BY MemoryTypes
<1>2. ~mOvertaken => \A q \in CM!Steps : mCopy[q].upto = 0
  BY DEF MemoryInv, InOrder
<1>3. \A q \in CM!Steps : /\ mCopy'[q] = IF q = r THEN m ELSE mCopy[q]
                          /\ mRead'[q] = IF q = r THEN m ELSE mRead[q]
  BY <1>1
<1>4. ~mOvertaken /\ m.upto = 0 => \A q \in CM!Steps : mCopy'[q].upto = 0
  BY <1>2, <1>3
<1> QED BY <1>1, <1>3, <1>4

LEMMA Forgotten ==
  ASSUME MemoryInv, NEW r \in CM!Steps, CM!Forget(r)
  PROVE  /\ mCopy' \in [CM!Steps -> CM!Memory] /\ mRead' \in [CM!Steps -> CM!Memory]
         /\ \A q \in CM!Steps : mCopy'[q] = mRead'[q]
         /\ ~mOvertaken => \A q \in CM!Steps : mCopy'[q].upto = 0
<1>1. CM!Empty \in CM!Memory /\ CM!Empty.upto = 0
  BY EmptyOf
<1>2. mCopy' = [mCopy EXCEPT ![r] = CM!Empty] /\ mRead' = [mRead EXCEPT ![r] = CM!Empty]
  BY DEF CM!Forget
<1> QED BY <1>1, <1>2, Copied

LEMMA Assigned ==
  ASSUME MemoryInv, NEW k \in MemoryProcs \X CM!Scopes, NEW j \in CM!Jobs,
         j.target <= Len(j.base.tail), mJobs' = [mJobs EXCEPT ![k] = j]
  PROVE  /\ mJobs' \in [MemoryProcs \X CM!Scopes -> CM!Jobs]
         /\ \A i \in MemoryProcs \X CM!Scopes : mJobs'[i].target <= Len(mJobs'[i].base.tail)
         /\ ~mOvertaken /\ j.base.upto = 0 /\ j.seen.upto = 0 =>
              \A i \in MemoryProcs \X CM!Scopes : mJobs'[i].base.upto = 0 /\ mJobs'[i].seen.upto = 0
<1>1. /\ mJobs \in [MemoryProcs \X CM!Scopes -> CM!Jobs]
      /\ \A i \in MemoryProcs \X CM!Scopes : mJobs[i].target <= Len(mJobs[i].base.tail)
      /\ ~mOvertaken =>
           \A i \in MemoryProcs \X CM!Scopes : mJobs[i].base.upto = 0 /\ mJobs[i].seen.upto = 0
  BY MemoryTypes DEF MemoryInv, InOrder
<1>2. \A i \in MemoryProcs \X CM!Scopes : mJobs'[i] = IF i = k THEN j ELSE mJobs[i]
  BY <1>1
<1> QED BY <1>1, <1>2

LEMMA Unassigned ==
  ASSUME MemoryInv, NEW k \in MemoryProcs \X CM!Scopes, mJobs' = [mJobs EXCEPT ![k] = CM!NoJob]
  PROVE  /\ mJobs' \in [MemoryProcs \X CM!Scopes -> CM!Jobs]
         /\ \A i \in MemoryProcs \X CM!Scopes : mJobs'[i].target <= Len(mJobs'[i].base.tail)
         /\ ~mOvertaken =>
              \A i \in MemoryProcs \X CM!Scopes : mJobs'[i].base.upto = 0 /\ mJobs'[i].seen.upto = 0
<1>1. /\ CM!NoJob \in CM!Jobs /\ CM!NoJob.target <= Len(CM!NoJob.base.tail)
      /\ CM!NoJob.base.upto = 0 /\ CM!NoJob.seen.upto = 0
  BY EmptyOf
<1> QED BY <1>1, Assigned

\* What a step leaves alone keeps its part of the invariant.
LEMMA LeftAlone ==
  ASSUME MemoryInv
  PROVE  /\ UNCHANGED mStore => /\ mStore' \in [CM!Rows -> CM!Memory]
                                /\ ~mOvertaken => \A w \in CM!Rows : mStore'[w].upto = 0
                                /\ ~mOvertaken => mSpoken \subseteq CM!Kept(mStore'[CM!Row("turn")])
         /\ UNCHANGED mJobs =>
              /\ mJobs' \in [MemoryProcs \X CM!Scopes -> CM!Jobs]
              /\ \A i \in MemoryProcs \X CM!Scopes : mJobs'[i].target <= Len(mJobs'[i].base.tail)
              /\ ~mOvertaken =>
                   \A i \in MemoryProcs \X CM!Scopes :
                     mJobs'[i].base.upto = 0 /\ mJobs'[i].seen.upto = 0
         /\ UNCHANGED <<mCopy, mRead>> =>
              /\ mCopy' \in [CM!Steps -> CM!Memory] /\ mRead' \in [CM!Steps -> CM!Memory]
              /\ \A q \in CM!Steps : mCopy'[q] = mRead'[q]
              /\ ~mOvertaken => \A q \in CM!Steps : mCopy'[q].upto = 0
BY MemoryTypes DEF MemoryInv, InOrder
\* Where requests stand, typed.
Places == {"new", "loaded", "compressing", "prepared", "appending", "done"}

LEMMA RequestStep ==
  ASSUME CM!MemoryAssumption, MemoryInv, NEW r \in CM!Steps, CM!Request(r)
  PROVE  MemoryInv'
<1>1. /\ mStore \in [CM!Rows -> CM!Memory] /\ mAt \in [CM!Steps -> Places]
      /\ mOn \in [CM!Steps -> MemoryProcs] /\ mJobs \in [MemoryProcs \X CM!Scopes -> CM!Jobs]
      /\ mSpoken \subseteq CM!Steps /\ mOvertaken \in BOOLEAN /\ mCrashes \in 0..MemoryCrashes
      /\ mCopy[r] \in CM!Memory /\ mRead[r] = mCopy[r]
      /\ \A s : CM!Row(s) \in CM!Rows
  BY MemoryTypes DEF Places
<1>2. \A p \in Places : [mAt EXCEPT ![r] = p] \in [CM!Steps -> Places]
  BY <1>1
<1>3. CM!Scopes = {"turn", "exit"} /\ <<mOn[r], "turn">> \in MemoryProcs \X CM!Scopes
      /\ <<mOn[r], "exit">> \in MemoryProcs \X CM!Scopes
  BY <1>1 DEF CM!Scopes
<1>4. ASSUME NEW w \in CM!Rows, mCopy' = [mCopy EXCEPT ![r] = mStore[w]],
             mRead' = [mRead EXCEPT ![r] = mStore[w]]
      PROVE  /\ mCopy' \in [CM!Steps -> CM!Memory] /\ mRead' \in [CM!Steps -> CM!Memory]
             /\ \A q \in CM!Steps : mCopy'[q] = mRead'[q]
             /\ ~mOvertaken => \A q \in CM!Steps : mCopy'[q].upto = 0
  <2>1. mStore[w] \in CM!Memory /\ (~mOvertaken => mStore[w].upto = 0)
    BY <1>1 DEF MemoryInv, InOrder
  <2> QED BY <1>4, <2>1, Copied
<1>5. ASSUME NEW s \in CM!Scopes, CM!Write(s, mCopy[r], mRead[r])
      PROVE  /\ mStore' \in [CM!Rows -> CM!Memory] /\ mOvertaken' \in BOOLEAN
             /\ ~mOvertaken' => /\ ~mOvertaken /\ mCopy[r].upto = 0
                                /\ \A w \in CM!Rows : mStore'[w].upto = 0
                                /\ mSpoken \subseteq CM!Kept(mStore'[CM!Row("turn")])
  BY <1>1, <1>5, Written
<1>6. ASSUME NEW s \in CM!Scopes, NEW n \in Nat, n <= Len(mCopy[r].tail),
             CM!Scheduled(mOn[r], s, mCopy[r], n), ~mOvertaken => mCopy[r].upto = 0
      PROVE  /\ mJobs' \in [MemoryProcs \X CM!Scopes -> CM!Jobs]
             /\ \A i \in MemoryProcs \X CM!Scopes : mJobs'[i].target <= Len(mJobs'[i].base.tail)
             /\ ~mOvertaken =>
                  \A i \in MemoryProcs \X CM!Scopes :
                    mJobs'[i].base.upto = 0 /\ mJobs'[i].seen.upto = 0
  <2> DEFINE j == [at |-> "asking", base |-> mCopy[r], target |-> n, seen |-> CM!Empty]
  <2>1. /\ j \in CM!Jobs /\ j.base = mCopy[r] /\ j.target = n /\ j.seen.upto = 0
    BY <1>1, EmptyOf DEF CM!Jobs
  <2>2. mJobs' = [mJobs EXCEPT ![<<mOn[r], s>>] = j] /\ <<mOn[r], s>> \in MemoryProcs \X CM!Scopes
    BY <1>1, <1>6 DEF CM!Scheduled
  <2> HIDE DEF j
  <2> QED BY <1>6, <2>1, <2>2, Assigned
<1>7. CASE CM!Load(r)
  <2>1. /\ mCopy' = [mCopy EXCEPT ![r] = mStore[CM!Row(Script[r])]]
        /\ mRead' = [mRead EXCEPT ![r] = mStore[CM!Row(Script[r])]]
        /\ mAt' = [mAt EXCEPT ![r] = "loaded"]
        /\ UNCHANGED mStore /\ UNCHANGED mJobs /\ UNCHANGED <<mOn, mSpoken, mOvertaken, mCrashes>>
    BY <1>7 DEF CM!Load
  <2>2. mAt' \in [CM!Steps -> Places]
    BY <1>2, <2>1 DEF Places
  <2> QED BY <1>1, <1>4, <2>1, <2>2, LeftAlone DEF MemoryInv, InOrder, CM!TypeOK, Places
<1>8. CASE CM!SaveIdle(r)
  <2>1. /\ CM!Write("turn", mCopy[r], mRead[r]) /\ CM!Forget(r)
        /\ mAt' = [mAt EXCEPT ![r] = "prepared"]
        /\ UNCHANGED mJobs /\ UNCHANGED <<mOn, mSpoken, mCrashes>>
    BY <1>8 DEF CM!SaveIdle
  <2>2. mAt' \in [CM!Steps -> Places]
    BY <1>2, <2>1 DEF Places
  <2> QED BY <1>1, <1>3, <1>5, <2>1, <2>2, LeftAlone, Forgotten
          DEF MemoryInv, InOrder, CM!TypeOK, Places
<1>9. CASE CM!StartCompression(r)
  <2>1. /\ CM!Write("turn", mCopy[r], mRead[r])
        /\ mAt' = [mAt EXCEPT ![r] = "compressing"] /\ mRead' = [mRead EXCEPT ![r] = mCopy[r]]
        /\ UNCHANGED mJobs /\ UNCHANGED <<mOn, mCopy, mSpoken, mCrashes>>
    BY <1>9 DEF CM!StartCompression
  <2>2. mAt' \in [CM!Steps -> Places]
    BY <1>2, <2>1 DEF Places
  <2>3. mRead' = mRead
    BY <1>1, <2>1, MemoryTypes
  <2> QED BY <1>1, <1>3, <1>5, <2>1, <2>2, <2>3, LeftAlone
          DEF MemoryInv, InOrder, CM!TypeOK, Places
<1>10. CASE CM!Compress(r)
  <2>1. /\ CM!Write("turn", CM!Compressed(mCopy[r]), mRead[r]) /\ CM!Forget(r)
        /\ mAt' = [mAt EXCEPT ![r] = "prepared"]
        /\ UNCHANGED mJobs /\ UNCHANGED <<mOn, mSpoken, mCrashes>>
    BY <1>10 DEF CM!Compress
  <2>2. mAt' \in [CM!Steps -> Places]
    BY <1>2, <2>1 DEF Places
  <2>3. /\ mStore' \in [CM!Rows -> CM!Memory] /\ mOvertaken' \in BOOLEAN
        /\ ~mOvertaken' => /\ ~mOvertaken
                           /\ \A w \in CM!Rows : mStore'[w].upto = 0
                           /\ mSpoken \subseteq CM!Kept(mStore'[CM!Row("turn")])
    BY <1>1, <1>3, <2>1, CompressedOf, Written
  <2> QED BY <1>1, <2>1, <2>2, <2>3, LeftAlone, Forgotten
          DEF MemoryInv, InOrder, CM!TypeOK, Places
<1>11. CASE CM!Schedule(r)
  <2>1. /\ CM!Scheduled(mOn[r], "turn", mCopy[r], CM!Target(mCopy[r]))
        /\ CM!Write("turn", mCopy[r], mRead[r]) /\ CM!Forget(r)
        /\ mAt' = [mAt EXCEPT ![r] = "prepared"] /\ UNCHANGED <<mOn, mSpoken, mCrashes>>
    BY <1>11 DEF CM!Schedule
  <2>2. mAt' \in [CM!Steps -> Places]
    BY <1>2, <2>1 DEF Places
  <2>3. CM!Target(mCopy[r]) \in Nat /\ CM!Target(mCopy[r]) <= Len(mCopy[r].tail)
    BY <1>1, TargetOf
  <2>4. ~mOvertaken => mCopy[r].upto = 0
    BY DEF MemoryInv, InOrder
  <2> QED BY <1>1, <1>3, <1>5, <1>6, <2>1, <2>2, <2>3, <2>4, Forgotten
          DEF MemoryInv, InOrder, CM!TypeOK, Places
<1>12. CASE CM!AlreadyScheduled(r)
  <2>1. /\ CM!Forget(r)
        /\ mAt' = [mAt EXCEPT ![r] = IF Script[r] = "turn" THEN "prepared" ELSE "done"]
        /\ UNCHANGED mStore /\ UNCHANGED mJobs /\ UNCHANGED <<mOn, mSpoken, mOvertaken, mCrashes>>
    BY <1>12 DEF CM!AlreadyScheduled
  <2>2. mAt' \in [CM!Steps -> Places]
    BY <1>2, <2>1 DEF Places
  <2> QED BY <1>1, <2>1, <2>2, LeftAlone, Forgotten DEF MemoryInv, InOrder, CM!TypeOK, Places
<1>13. CASE CM!ScheduleExit(r)
  <2>1. /\ CM!Scheduled(mOn[r], "exit", mCopy[r], Len(mCopy[r].tail))
        /\ CM!Write("exit", mCopy[r], mRead[r]) /\ CM!Forget(r)
        /\ mAt' = [mAt EXCEPT ![r] = "done"] /\ UNCHANGED <<mOn, mSpoken, mCrashes>>
    BY <1>13 DEF CM!ScheduleExit
  <2>2. mAt' \in [CM!Steps -> Places]
    BY <1>2, <2>1 DEF Places
  <2>3. Len(mCopy[r].tail) \in Nat /\ Len(mCopy[r].tail) <= Len(mCopy[r].tail)
    BY <1>1 DEF CM!Memory
  <2>4. ~mOvertaken => mCopy[r].upto = 0
    BY DEF MemoryInv, InOrder
  <2> QED BY <1>1, <1>3, <1>5, <1>6, <2>1, <2>2, <2>3, <2>4, Forgotten
          DEF MemoryInv, InOrder, CM!TypeOK, Places
<1>14. CASE CM!SaveExit(r)
  <2>1. /\ CM!Write("exit", mCopy[r], mRead[r]) /\ CM!Forget(r)
        /\ mAt' = [mAt EXCEPT ![r] = "done"]
        /\ UNCHANGED mJobs /\ UNCHANGED <<mOn, mSpoken, mCrashes>>
    BY <1>14 DEF CM!SaveExit
  <2>2. mAt' \in [CM!Steps -> Places]
    BY <1>2, <2>1 DEF Places
  <2> QED BY <1>1, <1>3, <1>5, <2>1, <2>2, LeftAlone, Forgotten
          DEF MemoryInv, InOrder, CM!TypeOK, Places
<1>15. CASE CM!AppendLoad(r)
  <2>1. /\ mCopy' = [mCopy EXCEPT ![r] = mStore[CM!Row("turn")]]
        /\ mRead' = [mRead EXCEPT ![r] = mStore[CM!Row("turn")]]
        /\ mAt' = [mAt EXCEPT ![r] = "appending"]
        /\ UNCHANGED mStore /\ UNCHANGED mJobs /\ UNCHANGED <<mOn, mSpoken, mOvertaken, mCrashes>>
    BY <1>15 DEF CM!AppendLoad
  <2>2. mAt' \in [CM!Steps -> Places]
    BY <1>2, <2>1 DEF Places
  <2> QED BY <1>1, <1>4, <2>1, <2>2, LeftAlone DEF MemoryInv, InOrder, CM!TypeOK, Places
<1>16. CASE CM!AppendSave(r)
  <2> DEFINE x == [mCopy[r] EXCEPT !.tail = Append(@, r)]
  <2>1. /\ CM!Write("turn", x, mRead[r]) /\ CM!Forget(r)
        /\ mSpoken' = mSpoken \cup {r} /\ mAt' = [mAt EXCEPT ![r] = "done"]
        /\ UNCHANGED mJobs /\ UNCHANGED <<mOn, mCrashes>>
    BY <1>16 DEF CM!AppendSave
  <2>2. mAt' \in [CM!Steps -> Places]
    BY <1>2, <2>1 DEF Places
  <2>3. x \in CM!Memory /\ x.upto = mCopy[r].upto /\ CM!Kept(mCopy[r]) \cup {r} \subseteq CM!Kept(x)
    BY <1>1, RememberedOf
  <2> HIDE DEF x
  <2>4. /\ mStore' \in [CM!Rows -> CM!Memory] /\ mOvertaken' \in BOOLEAN
        /\ mStore'[CM!Row("turn")] = x
        /\ ~mOvertaken' => /\ ~mOvertaken
                           /\ \A w \in CM!Rows : mStore'[w].upto = 0
                           /\ mSpoken \subseteq CM!Kept(mStore'[CM!Row("turn")])
    BY <1>1, <1>3, <2>1, <2>3, Written
  <2>5. ~mOvertaken' => mSpoken' \subseteq CM!Kept(mStore'[CM!Row("turn")])
    BY <2>1, <2>3, <2>4
  <2> QED BY <1>1, <2>1, <2>2, <2>4, <2>5, LeftAlone, Forgotten
          DEF MemoryInv, InOrder, CM!TypeOK, Places
<1>17. CASE CM!Forgo(r)
  <2>1. /\ CM!Forget(r) /\ mAt' = [mAt EXCEPT ![r] = "done"]
        /\ UNCHANGED mStore /\ UNCHANGED mJobs /\ UNCHANGED <<mOn, mSpoken, mOvertaken, mCrashes>>
    BY <1>17 DEF CM!Forgo
  <2>2. mAt' \in [CM!Steps -> Places]
    BY <1>2, <2>1 DEF Places
  <2> QED BY <1>1, <2>1, <2>2, LeftAlone, Forgotten DEF MemoryInv, InOrder, CM!TypeOK, Places
<1> QED BY <1>7, <1>8, <1>9, <1>10, <1>11, <1>12, <1>13, <1>14, <1>15, <1>16, <1>17 DEF CM!Request

LEMMA JobStep ==
  ASSUME CM!MemoryAssumption, MemoryInv, NEW p \in MemoryProcs, NEW s \in CM!Scopes,
         CM!JobLoad(p, s) \/ CM!JobSave(p, s) \/ CM!JobFail(p, s)
  PROVE  MemoryInv'
<1> DEFINE k == <<p, s>>
           j == mJobs[<<p, s>>]
<1>1. /\ mStore \in [CM!Rows -> CM!Memory] /\ mSpoken \subseteq CM!Steps
      /\ mJobs \in [MemoryProcs \X CM!Scopes -> CM!Jobs] /\ k \in MemoryProcs \X CM!Scopes
      /\ j = mJobs[k] /\ j \in CM!Jobs /\ mOvertaken \in BOOLEAN
      /\ \A t : CM!Row(t) \in CM!Rows
  BY MemoryTypes
<1>2. /\ j.target <= Len(j.base.tail)
      /\ ~mOvertaken => /\ j.base.upto = 0 /\ j.seen.upto = 0
                        /\ \A w \in CM!Rows : mStore[w].upto = 0
  BY <1>1 DEF MemoryInv, InOrder
<1>3. j.seen \in CM!Memory /\ j.base \in CM!Memory
  BY <1>1 DEF CM!Jobs
<1>4. CASE CM!JobLoad(p, s)
  <2> DEFINE l == [j EXCEPT !.at = "holding", !.seen = mStore[CM!Row(s)]]
  <2>1. /\ mJobs' = [mJobs EXCEPT ![k] = l]
        /\ UNCHANGED mStore /\ UNCHANGED <<mCopy, mRead>>
        /\ UNCHANGED <<mAt, mOn, mSpoken, mOvertaken, mCrashes>>
    BY <1>4 DEF CM!JobLoad
  <2>2. /\ l \in CM!Jobs /\ l.base = j.base /\ l.target = j.target
        /\ l.seen = mStore[CM!Row(s)]
    BY <1>1 DEF CM!Jobs
  <2> HIDE DEF l, k, j
  <2>3. /\ mJobs' \in [MemoryProcs \X CM!Scopes -> CM!Jobs]
        /\ \A i \in MemoryProcs \X CM!Scopes : mJobs'[i].target <= Len(mJobs'[i].base.tail)
        /\ ~mOvertaken =>
             \A i \in MemoryProcs \X CM!Scopes : mJobs'[i].base.upto = 0 /\ mJobs'[i].seen.upto = 0
    BY <1>1, <1>2, <2>1, <2>2, Assigned
  <2> QED BY <2>1, <2>3, MemoryTypes, LeftAlone DEF MemoryInv, InOrder, CM!TypeOK
<1>5. CASE CM!JobSave(p, s)
  <2> DEFINE m == CM!Updated(j.seen, j)
  <2>1. /\ mStore' = [mStore EXCEPT ![CM!Row(s)] = m]
        /\ mOvertaken' = (mOvertaken \/ mStore[CM!Row(s)] # j.seen \/ CM!Stale(j.seen, j))
        /\ mJobs' = [mJobs EXCEPT ![k] = CM!NoJob]
        /\ UNCHANGED <<mCopy, mRead>> /\ UNCHANGED <<mAt, mOn, mSpoken, mCrashes>>
    BY <1>5 DEF CM!JobSave
  <2>2. /\ m \in CM!Memory
        /\ ~CM!Stale(j.seen, j) /\ j.seen.upto = 0 /\ j.base.upto = 0 =>
             m.upto = 0 /\ CM!Kept(j.seen) \subseteq CM!Kept(m)
    BY <1>1, <1>2, <1>3, UpdatedOf
  <2> HIDE DEF m, k, j
  <2>3. /\ mJobs' \in [MemoryProcs \X CM!Scopes -> CM!Jobs]
        /\ \A i \in MemoryProcs \X CM!Scopes : mJobs'[i].target <= Len(mJobs'[i].base.tail)
        /\ ~mOvertaken =>
             \A i \in MemoryProcs \X CM!Scopes : mJobs'[i].base.upto = 0 /\ mJobs'[i].seen.upto = 0
    BY <1>1, <2>1, Unassigned
  <2>4. /\ mStore' \in [CM!Rows -> CM!Memory] /\ mOvertaken' \in BOOLEAN
        /\ ~mOvertaken' => ~mOvertaken
    BY <1>1, <2>1, <2>2
  <2>5. ASSUME ~mOvertaken'
        PROVE  /\ \A w \in CM!Rows : mStore'[w].upto = 0
               /\ mSpoken \subseteq CM!Kept(mStore'[CM!Row("turn")])
    <3>1. ~mOvertaken /\ mStore[CM!Row(s)] = j.seen /\ ~CM!Stale(j.seen, j)
      BY <2>1, <2>5
    <3>2. m.upto = 0 /\ CM!Kept(mStore[CM!Row(s)]) \subseteq CM!Kept(m)
      BY <1>2, <2>2, <3>1
    <3>3. mSpoken \subseteq CM!Kept(mStore[CM!Row("turn")])
      BY <3>1 DEF MemoryInv, InOrder
    <3>4. \A w \in CM!Rows : mStore'[w] = IF w = CM!Row(s) THEN m ELSE mStore[w]
      BY <1>1, <2>1
    <3>5. mSpoken \subseteq CM!Kept(mStore'[CM!Row("turn")])
      <4>1. CASE CM!Row("turn") = CM!Row(s)
        <5>1. mStore'[CM!Row("turn")] = m /\ mSpoken \subseteq CM!Kept(mStore[CM!Row(s)])
          BY <1>1, <3>3, <3>4, <4>1
        <5> QED BY <3>2, <5>1
      <4>2. CASE CM!Row("turn") # CM!Row(s)
        BY <1>1, <3>3, <3>4, <4>2
      <4> QED BY <4>1, <4>2
    <3> QED BY <1>2, <3>1, <3>2, <3>4, <3>5
  <2>6. /\ ~mOvertaken' => \A w \in CM!Rows : mStore'[w].upto = 0
        /\ ~mOvertaken' => mSpoken \subseteq CM!Kept(mStore'[CM!Row("turn")])
    BY <2>5
  <2> QED BY <2>1, <2>3, <2>4, <2>6, MemoryTypes, LeftAlone DEF MemoryInv, InOrder, CM!TypeOK
<1>6. CASE CM!JobFail(p, s)
  <2>1. /\ CM!Write(s, j.seen, j.seen) /\ mJobs' = [mJobs EXCEPT ![k] = CM!NoJob]
        /\ UNCHANGED <<mCopy, mRead>> /\ UNCHANGED <<mAt, mOn, mSpoken, mCrashes>>
    BY <1>6 DEF CM!JobFail
  <2> HIDE DEF k, j
  <2>2. /\ mStore' \in [CM!Rows -> CM!Memory] /\ mOvertaken' \in BOOLEAN
        /\ ~mOvertaken' => /\ ~mOvertaken
                           /\ \A w \in CM!Rows : mStore'[w].upto = 0
                           /\ mSpoken \subseteq CM!Kept(mStore'[CM!Row("turn")])
    BY <1>3, <2>1, Written
  <2>3. /\ mJobs' \in [MemoryProcs \X CM!Scopes -> CM!Jobs]
        /\ \A i \in MemoryProcs \X CM!Scopes : mJobs'[i].target <= Len(mJobs'[i].base.tail)
        /\ ~mOvertaken =>
             \A i \in MemoryProcs \X CM!Scopes : mJobs'[i].base.upto = 0 /\ mJobs'[i].seen.upto = 0
    BY <1>1, <2>1, Unassigned
  <2> QED BY <2>1, <2>2, <2>3, MemoryTypes, LeftAlone DEF MemoryInv, InOrder, CM!TypeOK
<1> QED BY <1>4, <1>5, <1>6

LEMMA CrashStep ==
  ASSUME CM!MemoryAssumption, MemoryInv, NEW p \in MemoryProcs, CM!Crash(p)
  PROVE  MemoryInv'
<1>1. /\ mCrashes < MemoryCrashes /\ mCrashes' = mCrashes + 1
      /\ mAt' = [r \in CM!Steps |-> IF mOn[r] = p /\ CM!Running(r) THEN "done" ELSE mAt[r]]
      /\ mJobs' = [k \in MemoryProcs \X CM!Scopes |-> IF k[1] = p THEN CM!NoJob ELSE mJobs[k]]
      /\ mCopy' = [r \in CM!Steps |-> IF mOn[r] = p THEN CM!Empty ELSE mCopy[r]]
      /\ mRead' = [r \in CM!Steps |-> IF mOn[r] = p THEN CM!Empty ELSE mRead[r]]
      /\ UNCHANGED mStore /\ UNCHANGED <<mOn, mSpoken, mOvertaken>>
  BY DEF CM!Crash
<1>2. /\ CM!Empty \in CM!Memory /\ CM!Empty.upto = 0 /\ CM!NoJob \in CM!Jobs
      /\ CM!NoJob.target <= Len(CM!NoJob.base.tail)
      /\ CM!NoJob.base.upto = 0 /\ CM!NoJob.seen.upto = 0
  BY EmptyOf
<1>3. mCrashes' \in 0..MemoryCrashes
  BY <1>1, MemoryTypes DEF CM!MemoryAssumption
<1>4. mAt' \in [CM!Steps -> Places]
  BY <1>1, MemoryTypes DEF Places
<1>5. /\ mCopy' \in [CM!Steps -> CM!Memory] /\ mRead' \in [CM!Steps -> CM!Memory]
      /\ \A q \in CM!Steps : mCopy'[q] = mRead'[q]
      /\ ~mOvertaken => \A q \in CM!Steps : mCopy'[q].upto = 0
  <2>1. /\ mCopy \in [CM!Steps -> CM!Memory] /\ mRead \in [CM!Steps -> CM!Memory]
        /\ \A q \in CM!Steps : mCopy[q] = mRead[q]
        /\ ~mOvertaken => \A q \in CM!Steps : mCopy[q].upto = 0
    BY MemoryTypes DEF MemoryInv, InOrder
  <2> QED BY <1>1, <1>2, <2>1
<1>6. /\ mJobs' \in [MemoryProcs \X CM!Scopes -> CM!Jobs]
      /\ \A i \in MemoryProcs \X CM!Scopes : mJobs'[i].target <= Len(mJobs'[i].base.tail)
      /\ ~mOvertaken =>
           \A i \in MemoryProcs \X CM!Scopes : mJobs'[i].base.upto = 0 /\ mJobs'[i].seen.upto = 0
  <2>1. /\ mJobs \in [MemoryProcs \X CM!Scopes -> CM!Jobs]
        /\ \A i \in MemoryProcs \X CM!Scopes : mJobs[i].target <= Len(mJobs[i].base.tail)
        /\ ~mOvertaken =>
             \A i \in MemoryProcs \X CM!Scopes : mJobs[i].base.upto = 0 /\ mJobs[i].seen.upto = 0
    BY MemoryTypes DEF MemoryInv, InOrder
  <2>2. \A i \in MemoryProcs \X CM!Scopes : mJobs'[i] = IF i[1] = p THEN CM!NoJob ELSE mJobs[i]
    BY <1>1
  <2>3. mJobs' \in [MemoryProcs \X CM!Scopes -> CM!Jobs]
    BY <1>1, <1>2, <2>1
  <2> QED BY <1>2, <2>1, <2>2, <2>3
<1> QED BY <1>1, <1>3, <1>4, <1>5, <1>6, MemoryTypes, LeftAlone
        DEF MemoryInv, InOrder, CM!TypeOK, Places

LEMMA MemoryInvariant ==
  ASSUME CM!MemoryAssumption
  PROVE  CM!Spec => []MemoryInv
<1>1. CM!Init => MemoryInv
  <2> SUFFICES ASSUME CM!Init PROVE MemoryInv
    OBVIOUS
  <2>1. /\ CM!Empty \in CM!Memory /\ CM!Empty.upto = 0 /\ CM!NoJob \in CM!Jobs
        /\ CM!NoJob.target <= Len(CM!NoJob.base.tail)
        /\ CM!NoJob.base.upto = 0 /\ CM!NoJob.seen.upto = 0
    BY EmptyOf
  <2>2. CM!TypeOK
    <3>1. /\ mStore \in [CM!Rows -> CM!Memory] /\ mCopy \in [CM!Steps -> CM!Memory]
          /\ mRead \in [CM!Steps -> CM!Memory] /\ mJobs \in [MemoryProcs \X CM!Scopes -> CM!Jobs]
      BY <2>1 DEF CM!Init
    <3>2. /\ mAt \in [CM!Steps -> Places] /\ mOn \in [CM!Steps -> MemoryProcs]
          /\ mSpoken \subseteq CM!Steps /\ mOvertaken \in BOOLEAN
      BY DEF CM!Init, Places
    <3>3. mCrashes \in 0..MemoryCrashes
      BY DEF CM!Init, CM!MemoryAssumption
    <3> QED BY <3>1, <3>2, <3>3 DEF CM!TypeOK, Places
  <2>3. \A s : CM!Row(s) \in CM!Rows
    BY DEF CM!Row, CM!Rows
  <2> QED BY <2>1, <2>2, <2>3 DEF CM!Init, MemoryInv, InOrder
<1>2. MemoryInv /\ [CM!Next]_(CM!vars) => MemoryInv'
  <2> SUFFICES ASSUME MemoryInv, [CM!Next]_(CM!vars) PROVE MemoryInv'
    OBVIOUS
  <2>1. CASE CM!Next
    BY <2>1, RequestStep, JobStep, CrashStep DEF CM!Next
  <2>2. CASE UNCHANGED CM!vars
    BY <2>2 DEF CM!vars, MemoryInv, InOrder, CM!TypeOK
  <2> QED BY <2>1, <2>2
<1> QED BY <1>1, <1>2, PTL DEF CM!Spec

\* For any script, windows and thresholds, whatever fails, dies or is displaced: as long
\* as no read-modify-write of its row was overtaken by another, every turn that was
\* appended to a conversation's memory is still in its tail or its summary
\* (conversation_memory.py).
THEOREM MemoryTheorem == CM!Spec => []MemoryComplete
<1>1. MemoryInv => MemoryComplete
  <2> SUFFICES ASSUME MemoryInv, ~mOvertaken PROVE CM!Complete
    BY DEF MemoryComplete, MemoryInv, CM!CompleteUnlessOvertaken
  <2> DEFINE m == mStore[CM!Row("turn")]
  <2>1. m \in CM!Memory /\ m.upto = 0 /\ mSpoken \subseteq CM!Kept(m)
    BY MemoryTypes DEF MemoryInv, InOrder
  <2>2. CM!Complete = (mSpoken \subseteq CM!Kept(m)
                         /\ CM!Elements(CM!Front(m.tail, m.upto)) \subseteq m.summary)
    BY DEF CM!Complete
  <2> HIDE DEF m
  <2>3. CM!Front(m.tail, m.upto) = << >>
    BY <2>1 DEF CM!Front, CM!Least, CM!Memory
  <2>4. CM!Elements(<< >>) = {}
    BY DEF CM!Elements
  <2> QED BY <2>1, <2>2, <2>3, <2>4
<1>2. CM!MemoryAssumption
  BY StreamedAssumption
<1> QED BY <1>1, <1>2, MemoryInvariant, PTL

-----------------------------------------------------------------------------
(* The frames of a run (StreamEvents).                                     *)

Words == {"part", "reviewed", "advice", "you have left"}
Cards == {"form", "paths", "rooms"}
Stages == {"intent", "facts", "materials", "summary"} \cup DOMAIN LabelOf

Views ==
  [status : {"streaming", "blocked", "stopped", "failed", "completed"}, text : Seq(Words),
   thinking : {"none", "streaming", "completed"}, steps : SUBSET Stages, cards : SUBSET Cards,
   handoff : BOOLEAN, skill : {"initial", "target", "general"},
   risk : {"idle", "checking", "passed", "blocked"}, error : BOOLEAN]

Answers ==
  [text : Seq(Words), partial : BOOLEAN, cards : SUBSET Cards,
   presentation : [text : Seq(Words), cards : SUBSET Cards]]

\* What a message says when it is read again is what is shown.
Shown(m) == SE!Reload(m).text = eView.text /\ SE!Reload(m).cards = eView.cards

FrameTypes ==
  /\ eKind \in {"chat", "enter", "exit"}
  /\ eView \in Views /\ eMessage \in Answers /\ eStored \in Answers
  /\ eStreamed \in Seq({"part"}) /\ eMessage.text \in Seq({"part", "reviewed"})
  /\ eSummary \in {"none", "shown", "done"}
  /\ eLive \in BOOLEAN /\ eCurrent \in BOOLEAN /\ eCancelled \in BOOLEAN
  /\ eFinalized \in BOOLEAN /\ eFresh \in BOOLEAN /\ eQuiet \in BOOLEAN

\* Leaving a Skill is three frames and a save.
LeavingFrames ==
  eKind = "exit" =>
    /\ eW \in {"open", "leaving", "left", "closing", "done"}
    /\ eP = "none" /\ eI = "none" /\ eS = "none" /\ eView.cards = {}
    /\ eView.text # SE!Advice
    /\ eW \in {"open", "leaving", "left"} => eView.status # "completed"
    /\ eW # "done" => eStored = SE!NoMessage
    /\ eW \in {"left", "closing"} => eView.text = SE!Farewell
    /\ eW = "done" /\ eStored # SE!NoMessage => Shown(eStored)

Speaking == {"posted", "attached", "act", "present", "presented", "final"}

\* The timeline ends before the answer begins.
ThoughtFirst ==
  eKind # "exit" =>
    /\ eW \notin {"leaving", "left", "closing"}
    /\ eW = "open" => eSummary = "none" /\ eP = "none" /\ eI = "none" /\ eS = "none"
    /\ eW # "open" => eView.thinking # "none"
    /\ eSummary = "done" /\ SE!IsCurrent => eView.thinking = "completed"
    /\ eW \in Speaking => eSummary = "done"
    /\ eView.text \notin {<<>>, SE!Advice} => eView.thinking = "completed"

\* A block is the last thing a run shows.
BlockedLast ==
  eKind # "exit" /\ eView.text = SE!Advice =>
    eW \in {"finish", "done"} /\ eView.cards = {} /\ ~eView.handoff

Unsaved == {"open", "screen", "work", "returned", "moderate", "summing", "posted", "attached",
            "blocked", "finalize"}
Answered == {"returned", "moderate", "summing", "posted", "attached", "act", "present",
             "presented", "final", "complete"}

\* Unless a stop took the answer over: the message is what is said, and what is stored is
\* nothing, or the message without or with what was shown.
AnswerShown ==
  eKind # "exit" /\ ~eFinalized =>
    /\ ~eMessage.partial
    /\ eW \in Unsaved => eStored = SE!NoMessage
    /\ eW \in Answered => eMessage.text # <<>>
    /\ eW \in {"returned", "moderate", "summing", "posted", "attached", "act", "present"}
         => eMessage.presentation = SE!NoPresentation
    /\ eW \in Speaking \cup {"complete"} /\ SE!IsCurrent => eView.text = eMessage.text
    /\ eW \in {"present", "presented", "final"} /\ SE!IsCurrent => eView.cards = eMessage.cards
    /\ eW \in {"act", "present", "presented"} =>
         /\ eStored.text = eMessage.text /\ eStored.cards = eMessage.cards
         /\ eStored.presentation = SE!NoPresentation
    /\ eW \in {"presented", "final"} /\ SE!IsCurrent =>
         eMessage.presentation = [text |-> eView.text, cards |-> eView.cards]
    /\ eW = "final" => eStored = eMessage
    /\ eW = "complete" /\ SE!IsCurrent =>
         /\ eStored # SE!NoMessage => Shown(eStored)
         /\ eFresh => Shown(eMessage)
    /\ eView.status = "completed" =>
         /\ eW \in {"completed", "error", "finish", "done"}
         /\ eStored # SE!NoMessage => Shown(eStored)
         /\ eW = "completed" /\ eFresh => Shown(eMessage)
         /\ eW = "error" => ~eFresh

FramesInv == FrameTypes /\ LeavingFrames /\ ThoughtFirst /\ BlockedLast /\ AnswerShown

-----------------------------------------------------------------------------
(* What an event makes of the view.                                        *)

\* Neither text nor cards change, and the timeline goes forward.
Calm(v, w) ==
  /\ w \in Views /\ w.text = v.text /\ w.cards = v.cards
  /\ v.thinking # "none" => w.thinking # "none"
  /\ v.thinking = "completed" => w.thinking = "completed"
Steady(v, w) == Calm(v, w) /\ w.handoff = v.handoff

LEMMA WordsOf ==
  /\ SE!Advice \in Seq(Words) /\ SE!Farewell \in Seq(Words) /\ << >> \in Seq(Words)
  /\ SE!Advice # << >> /\ SE!Farewell # SE!Advice
  /\ SE!Advice \notin Seq({"part", "reviewed"})
  /\ Seq({"part"}) \subseteq Seq({"part", "reviewed"})
  /\ Seq({"part", "reviewed"}) \subseteq Seq(Words)
  /\ <<"reviewed">> \in Seq({"part", "reviewed"}) /\ <<"reviewed">> # << >>
<1>1. SE!Advice \in Seq(Words) /\ SE!Farewell \in Seq(Words)
  <2>1. "advice" \in Words /\ "you have left" \in Words
    BY DEF Words
  <2> HIDE DEF Words
  <2>2. ASSUME NEW x \in Words PROVE <<x>> \in Seq(Words)
    OBVIOUS
  <2>3. <<"advice">> \in Seq(Words) /\ <<"you have left">> \in Seq(Words)
    BY <2>1, <2>2
  <2> QED BY <2>3 DEF SE!Advice, SE!Farewell
<1>2. Len(SE!Advice) = 1 /\ SE!Advice[1] = "advice"
  BY DEF SE!Advice
<1>8. Len(SE!Farewell) = 1 /\ SE!Farewell[1] = "you have left"
  BY DEF SE!Farewell
<1>9. SE!Advice # << >> /\ SE!Farewell # SE!Advice
  <2>1. <<"advice">> # << >> /\ <<"you have left">> # <<"advice">>
    OBVIOUS
  <2> QED BY <2>1 DEF SE!Advice, SE!Farewell
<1>3. ASSUME NEW q \in Seq({"part", "reviewed"}) PROVE q # SE!Advice
  <2>1. CASE Len(q) = 1
    <3>1. q[1] \in {"part", "reviewed"}
      BY <2>1
    <3> QED BY <1>2, <3>1
  <2> QED BY <1>2, <2>1
<1>4. ASSUME NEW S, NEW T, S \subseteq T PROVE Seq(S) \subseteq Seq(T)
  <2>1. ASSUME NEW q \in Seq(S) PROVE q \in Seq(T)
    <3>1. Len(q) \in Nat /\ q \in [1..Len(q) -> S]
      OBVIOUS
    <3>2. q \in [1..Len(q) -> T]
      BY <1>4, <3>1
    <3> QED BY <3>1, <3>2, SeqDef
  <2> QED BY <2>1
<1>5. /\ Seq({"part"}) \subseteq Seq({"part", "reviewed"})
      /\ Seq({"part", "reviewed"}) \subseteq Seq(Words)
  <2>1. {"part"} \subseteq {"part", "reviewed"} /\ {"part", "reviewed"} \subseteq Words
    BY DEF Words
  <2> QED BY <1>4, <2>1
<1>6. << >> \in Seq(Words)
  OBVIOUS
<1>7. <<"reviewed">> \in Seq({"part", "reviewed"}) /\ <<"reviewed">> # << >>
  OBVIOUS
<1> QED BY <1>1, <1>9, <1>3, <1>5, <1>6, <1>7

LEMMA ProgressedOf ==
  ASSUME NEW v \in Views, NEW stage \in Stages
  PROVE  Steady(v, SE!Progressed(v, stage)) /\ SE!Progressed(v, stage).status = v.status
BY DEF SE!Progressed, Views, Steady, Calm, Stages

LEMMA ThoughtOf ==
  ASSUME NEW v \in Views
  PROVE  /\ Steady(v, SE!Thought(v)) /\ SE!Thought(v).status = v.status
         /\ v.thinking # "none" => SE!Thought(v).thinking = "completed"
BY DEF SE!Thought, Views, Steady, Calm

LEMMA NotedOf ==
  ASSUME NEW v \in Views, NEW status \in {"checking", "passed", "blocked"}
  PROVE  /\ Steady(v, SE!Noted(v)) /\ SE!Noted(v).status = v.status
         /\ Steady(v, SE!Risk(v, status)) /\ SE!Risk(v, status).status = v.status
         /\ Calm(v, SE!Offered(v)) /\ SE!Offered(v).status = v.status
BY DEF SE!Noted, SE!Risk, SE!Offered, Views, Steady, Calm

LEMMA EndOf ==
  ASSUME NEW v \in Views
  PROVE  /\ Steady(v, SE!Stopped(v)) /\ SE!Stopped(v).status = "stopped"
         /\ Steady(v, SE!Failed(v)) /\ SE!Failed(v).status = "failed"
         /\ Steady(v, SE!Closed(v, "completed")) /\ SE!Closed(v, "completed").status = "completed"
BY DEF SE!Stopped, SE!Failed, SE!Closed, Views, Steady, Calm

LEMMA BlockedOf ==
  ASSUME NEW v \in Views
  PROVE  LET w == SE!BlockedView(v)
         IN  /\ w \in Views /\ w.text = SE!Advice /\ w.cards = {} /\ ~w.handoff
             /\ w.thinking = v.thinking /\ w.status = "blocked"
BY WordsOf DEF SE!BlockedView, Views

LEMMA SpokenOf ==
  ASSUME NEW v \in Views
  PROVE  LET w == SE!Spoken(v, "part")
         IN  /\ w \in Views /\ w.text # SE!Advice /\ w.text # << >>
             /\ w.cards = v.cards /\ w.thinking = v.thinking /\ w.status = v.status
<1> DEFINE text == Append(v.text, "part")
<1>1. v.text \in Seq(Words) /\ "part" \in Words
  BY DEF Views, Words
<1>2. /\ text \in Seq(Words) /\ Len(text) = Len(v.text) + 1 /\ Len(v.text) \in Nat
      /\ text[Len(v.text) + 1] = "part"
  <2> HIDE DEF Words
  <2> QED BY <1>1
<1> HIDE DEF text
<1>3. text # << >> /\ text # SE!Advice
  <2>1. Len(text) # 0 /\ text[Len(text)] = "part"
    BY <1>2
  <2>2. Len(SE!Advice) = 1 /\ SE!Advice[1] = "advice" /\ Len(<< >>) = 0
    BY DEF SE!Advice
  <2> QED BY <2>1, <2>2
<1>4. SE!Spoken(v, "part") = [v EXCEPT !.text = text]
  BY DEF SE!Spoken, text
<1> QED BY <1>2, <1>3, <1>4 DEF Views

LEMMA SaidOf ==
  ASSUME NEW v \in Views, NEW text \in Seq(Words)
  PROVE  LET w == SE!Said(v, text)
         IN  /\ w \in Views /\ w.text = (IF text = << >> THEN v.text ELSE text)
             /\ w.cards = v.cards /\ w.thinking = v.thinking /\ w.status = v.status
BY DEF SE!Said, Views

LEMMA ActedOf ==
  ASSUME NEW v \in Views, NEW cards \in SUBSET Cards
  PROVE  LET w == SE!Acted(v, cards, v.handoff)
         IN  /\ w \in Views /\ w.text = v.text /\ w.cards = cards
             /\ w.thinking = v.thinking /\ w.status = v.status
BY DEF SE!Acted, Views

LEMMA DeliveredOf ==
  ASSUME NEW v \in Views, NEW text \in Seq(Words), NEW cards \in SUBSET Cards
  PROVE  LET w == SE!Delivered(v, text, cards, v.handoff)
         IN  /\ w \in Views /\ w.text = (IF text = << >> THEN v.text ELSE text)
             /\ w.cards = (v.cards \ {"paths"}) \cup (cards \cap {"paths"})
             /\ w.thinking = v.thinking /\ w.status = v.status
<1> DEFINE u == SE!Said(v, text)
<1>1. /\ u \in Views /\ u.text = (IF text = << >> THEN v.text ELSE text)
      /\ u.cards = v.cards /\ u.thinking = v.thinking /\ u.status = v.status
  BY SaidOf
<1>2. SE!Delivered(v, text, cards, v.handoff)
        = [u EXCEPT !.cards = (u.cards \ {"paths"}) \cup (cards \cap {"paths"}),
                    !.handoff = v.handoff]
  BY DEF SE!Delivered
<1> HIDE DEF u
<1>3. v.handoff \in BOOLEAN /\ (u.cards \ {"paths"}) \cup (cards \cap {"paths"}) \in SUBSET Cards
  BY <1>1 DEF Views
<1> QED BY <1>1, <1>2, <1>3 DEF Views

\* A frame is pushed while the stream is the current one.
LEMMA PushOf ==
  ASSUME NEW w \in Views, FrameTypes, SE!Push(w), eCurrent' = eCurrent
  PROVE  /\ eView' = IF SE!IsCurrent THEN w ELSE eView
         /\ eView' \in Views /\ eLive' \in BOOLEAN /\ (SE!IsCurrent' => SE!IsCurrent)
BY DEF SE!Push, SE!IsCurrent, FrameTypes

LEMMA NoMessageOf ==
  /\ SE!NoMessage \in Answers /\ SE!NoMessage.text = << >> /\ ~SE!NoMessage.partial
  /\ SE!NoMessage.text \in Seq({"part", "reviewed"})
  /\ SE!NoMessage.cards = {} /\ SE!NoMessage.presentation = SE!NoPresentation
  /\ SE!NoPresentation = [text |-> << >>, cards |-> {}]
  /\ \A m : SE!Reload(m) = IF m.presentation # SE!NoPresentation THEN m.presentation
                           ELSE [text |-> m.text, cards |-> m.cards]
<1>1. SE!NoPresentation = [text |-> << >>, cards |-> {}]
  BY DEF SE!NoPresentation, SE!Presentation, SE!Blank
<1>2. << >> \in Seq(Words) /\ << >> \in Seq({"part", "reviewed"})
  BY WordsOf
<1> QED BY <1>1, <1>2 DEF SE!NoMessage, Answers, SE!Reload

-----------------------------------------------------------------------------
(* The steps of a run.                                                      *)

\* Most steps leave the text and the cards alone, or the stream is no longer the current one.
Onward ==
  /\ Calm(eView, eView') /\ eView'.status = eView.status
  /\ eLive' \in BOOLEAN
  /\ SE!IsCurrent' => SE!IsCurrent

LEMMA StayOnward == ASSUME FrameTypes, UNCHANGED <<eView, eLive, eCurrent>> PROVE Onward
BY DEF FrameTypes, Onward, Calm, SE!IsCurrent

LEMMA PushOnward ==
  ASSUME FrameTypes, eCurrent' = eCurrent, NEW w, SE!Push(w), Calm(eView, w),
         w.status = eView.status
  PROVE  Onward
<1>1. w \in Views
  BY DEF Calm
<1>2. /\ eView' = IF SE!IsCurrent THEN w ELSE eView
      /\ eView' \in Views /\ eLive' \in BOOLEAN /\ (SE!IsCurrent' => SE!IsCurrent)
  BY <1>1, PushOf
<1> QED BY <1>2 DEF Onward, Calm

LEMMA ProgressOnward ==
  ASSUME FrameTypes, eCurrent' = eCurrent, NEW stage \in Stages, SE!PushStatus(stage)
  PROVE  Onward
<1> DEFINE w == SE!Progressed(eView, stage)
<1>1. Calm(eView, w) /\ w.status = eView.status
  BY ProgressedOf DEF FrameTypes, Steady
<1>2. SE!Push(w)
  BY DEF SE!PushStatus
<1> HIDE DEF w
<1> QED BY <1>1, <1>2, PushOnward

LEMMA RiskOnward ==
  ASSUME FrameTypes, eCurrent' = eCurrent, NEW status \in {"checking", "passed", "blocked"},
         SE!Push(SE!Risk(eView, status))
  PROVE  Onward
<1> DEFINE w == SE!Risk(eView, status)
<1>1. Calm(eView, w) /\ w.status = eView.status
  BY NotedOf DEF FrameTypes, Steady
<1> HIDE DEF w
<1> QED BY <1>1, PushOnward DEF w

LEMMA ScreenStep == ASSUME FramesInv, SE!Screen PROVE FramesInv'
<1> USE DEF FramesInv
<1>1. /\ eKind # "exit"
      /\ eW = "screen" /\ eW' \in {"work", "blocked"}
      /\ UNCHANGED <<eKind, eP, eI, eS, eSummary, eQuiet, eCurrent, eCancelled, eFinalized,
                     eStreamed, eMessage, eStored, eFresh>>
  BY DEF SE!Screen, LeavingFrames, SE!Rest, SE!progress, SE!turn, SE!storage, SE!WGoto
<1>2. Onward
  <2>1. PICK status \in {"checking", "passed", "blocked"} : SE!Push(SE!Risk(eView, status))
    BY DEF SE!Screen
  <2> QED BY <1>1, <2>1, RiskOnward
<1>3. FrameTypes'
  BY <1>1, <1>2 DEF FrameTypes, Onward, Calm
<1>4. LeavingFrames'
  BY <1>1 DEF LeavingFrames
<1>5. ThoughtFirst'
  BY <1>1, <1>2 DEF ThoughtFirst, Speaking, Onward, Calm
<1>6. BlockedLast'
  BY <1>1, <1>2 DEF BlockedLast, Onward, Calm
<1>7. AnswerShown'
  BY <1>1, <1>2 DEF AnswerShown, Unsaved, Answered, Speaking, Onward, Calm
<1> QED BY <1>3, <1>4, <1>5, <1>6, <1>7

LEMMA ThinkStep == ASSUME FramesInv, SE!Think PROVE FramesInv'
<1> USE DEF FramesInv
<1>1. /\ eKind # "exit"
      /\ eW = "work"
      /\ UNCHANGED <<eKind, eW, eP, eI, eS, eSummary, eQuiet, eCurrent, eCancelled, eFinalized,
                     eStreamed, eMessage, eStored, eFresh>>
  BY DEF SE!Think, LeavingFrames, SE!Rest, SE!turn, SE!storage
<1>2. Onward
  <2>1. PICK stage \in Stages : SE!PushStatus(stage)
    BY DEF SE!Think, Stages
  <2> QED BY <1>1, <2>1, ProgressOnward
<1>3. FrameTypes'
  BY <1>1, <1>2 DEF FrameTypes, Onward, Calm
<1>4. LeavingFrames'
  BY <1>1 DEF LeavingFrames
<1>5. ThoughtFirst'
  BY <1>1, <1>2 DEF ThoughtFirst, Speaking, Onward, Calm
<1>6. BlockedLast'
  BY <1>1, <1>2 DEF BlockedLast, Onward, Calm
<1>7. AnswerShown'
  BY <1>1, <1>2 DEF AnswerShown, Unsaved, Answered, Speaking, Onward, Calm
<1> QED BY <1>3, <1>4, <1>5, <1>6, <1>7

LEMMA ReportStep == ASSUME FramesInv, SE!Report PROVE FramesInv'
<1> USE DEF FramesInv
<1>1. /\ eKind # "exit"
      /\ eW = "work"
      /\ UNCHANGED <<eKind, eW, eP, eI, eS, eSummary, eQuiet, eCurrent, eCancelled, eFinalized,
                     eStreamed, eMessage, eStored, eFresh>>
  BY DEF SE!Report, LeavingFrames, SE!Rest, SE!progress, SE!turn, SE!storage
<1>2. Onward
  <2>1. PICK w \in {SE!Offered(eView), SE!Noted(eView)} : SE!Push(w)
    BY DEF SE!Report
  <2>2. Calm(eView, w) /\ w.status = eView.status
    BY <2>1, NotedOf DEF FrameTypes, Steady
  <2> QED BY <1>1, <2>1, <2>2, PushOnward
<1>3. FrameTypes'
  BY <1>1, <1>2 DEF FrameTypes, Onward, Calm
<1>4. LeavingFrames'
  BY <1>1 DEF LeavingFrames
<1>5. ThoughtFirst'
  BY <1>1, <1>2 DEF ThoughtFirst, Speaking, Onward, Calm
<1>6. BlockedLast'
  BY <1>1, <1>2 DEF BlockedLast, Onward, Calm
<1>7. AnswerShown'
  BY <1>1, <1>2 DEF AnswerShown, Unsaved, Answered, Speaking, Onward, Calm
<1> QED BY <1>3, <1>4, <1>5, <1>6, <1>7

LEMMA SummariseStep == ASSUME FramesInv, SE!Summarise PROVE FramesInv'
<1> USE DEF FramesInv
<1>1. /\ eKind # "exit"
      /\ eW \in {"work", "summing"} /\ eSummary' = "shown"
      /\ UNCHANGED <<eKind, eW, eP, eI, eS, eQuiet, eCurrent, eCancelled, eFinalized, eStreamed,
                     eMessage, eStored, eFresh>>
  BY DEF SE!Summarise, LeavingFrames, SE!Rest, SE!turn, SE!storage
<1>2. Onward
  <2>1. "summary" \in Stages /\ SE!PushStatus("summary")
    BY DEF SE!Summarise, Stages
  <2> QED BY <1>1, <2>1, ProgressOnward
<1>3. FrameTypes'
  BY <1>1, <1>2 DEF FrameTypes, Onward, Calm
<1>4. LeavingFrames'
  BY <1>1 DEF LeavingFrames
<1>5. ThoughtFirst'
  BY <1>1, <1>2 DEF ThoughtFirst, Speaking, Onward, Calm
<1>6. BlockedLast'
  BY <1>1, <1>2 DEF BlockedLast, Onward, Calm
<1>7. AnswerShown'
  BY <1>1, <1>2 DEF AnswerShown, Unsaved, Answered, Speaking, Onward, Calm
<1> QED BY <1>3, <1>4, <1>5, <1>6, <1>7

LEMMA FinishThinkingStep == ASSUME FramesInv, SE!FinishThinking PROVE FramesInv'
<1> USE DEF FramesInv
<1>1. /\ eKind # "exit"
      /\ eW \in {"work", "summing"} /\ eSummary = "shown" /\ eSummary' = "done" /\ eQuiet' = TRUE
      /\ UNCHANGED <<eKind, eW, eP, eI, eS, eCurrent, eCancelled, eFinalized, eStreamed,
                     eMessage, eStored, eFresh>>
  BY DEF SE!FinishThinking, LeavingFrames, SE!Rest, SE!turn, SE!storage
<1>2. Onward /\ (SE!IsCurrent => eView'.thinking = "completed")
  <2> DEFINE w == SE!Thought(eView)
  <2>1. /\ Calm(eView, w) /\ w.status = eView.status
        /\ eView.thinking # "none" => w.thinking = "completed"
    BY ThoughtOf DEF FrameTypes, Steady
  <2>2. SE!Push(w)
    BY DEF SE!FinishThinking
  <2> HIDE DEF w
  <2>3. eView' = IF SE!IsCurrent THEN w ELSE eView
    BY <1>1, <2>1, <2>2, PushOf DEF Calm
  <2>4. eView.thinking # "none"
    BY <1>1 DEF ThoughtFirst
  <2>5. Onward
    BY <1>1, <2>1, <2>2, PushOnward
  <2> QED BY <2>1, <2>3, <2>4, <2>5
<1>3. FrameTypes'
  BY <1>1, <1>2 DEF FrameTypes, Onward, Calm
<1>4. LeavingFrames'
  BY <1>1 DEF LeavingFrames
<1>5. ThoughtFirst'
  BY <1>1, <1>2 DEF ThoughtFirst, Speaking, Onward, Calm
<1>6. BlockedLast'
  BY <1>1, <1>2 DEF BlockedLast, Onward, Calm
<1>7. AnswerShown'
  BY <1>1, <1>2 DEF AnswerShown, Unsaved, Answered, Speaking, Onward, Calm
<1> QED BY <1>3, <1>4, <1>5, <1>6, <1>7

LEMMA ReturnedStep == ASSUME FramesInv, SE!Returned PROVE FramesInv'
<1> USE DEF FramesInv
<1>1. /\ eKind # "exit"
      /\ eW = "returned" /\ eW' \in {"finish", "finalize", "moderate"}
      /\ eW' # "finish" => eMessage' = eMessage
      /\ eW' = "finish" => eMessage' = SE!Pruned
      /\ UNCHANGED <<eKind, eP, eI, eS, eSummary, eQuiet, eCurrent, eCancelled, eFinalized,
                     eStreamed, eStored, eFresh>>
  BY DEF SE!Returned, LeavingFrames, SE!Rest, SE!progress, SE!storage, SE!WGoto
<1>2. Onward
  <2>1. CASE UNCHANGED <<eView, eLive>>
    BY <1>1, <2>1, StayOnward
  <2>2. CASE SE!Push(SE!Risk(eView, "checking"))
    BY <1>1, <2>2, RiskOnward
  <2> QED BY <2>1, <2>2 DEF SE!Returned
<1>3. eMessage' \in {eMessage, SE!NoMessage} /\ (eMessage.partial => eMessage' = eMessage)
  BY <1>1, NoMessageOf DEF SE!Pruned
<1>4. FrameTypes'
  BY <1>1, <1>2, <1>3, NoMessageOf DEF FrameTypes, Onward, Calm
<1>5. LeavingFrames'
  BY <1>1 DEF LeavingFrames
<1>6. ThoughtFirst'
  BY <1>1, <1>2, <1>3, NoMessageOf DEF ThoughtFirst, Speaking, Onward, Calm
<1>7. BlockedLast'
  BY <1>1, <1>2, <1>3, NoMessageOf DEF BlockedLast, Onward, Calm
<1>8. AnswerShown'
  BY <1>1, <1>2, <1>3, NoMessageOf DEF AnswerShown, Unsaved, Answered, Speaking, Onward, Calm
<1> QED BY <1>4, <1>5, <1>6, <1>7, <1>8

LEMMA ModerateStep == ASSUME FramesInv, SE!Moderate PROVE FramesInv'
<1> USE DEF FramesInv
<1>1. /\ eKind # "exit"
      /\ eW = "moderate" /\ eW' \in {"summing", "blocked"}
      /\ UNCHANGED <<eKind, eP, eI, eS, eSummary, eQuiet, eCurrent, eCancelled, eFinalized,
                     eStreamed, eMessage, eStored, eFresh>>
  BY DEF SE!Moderate, LeavingFrames, SE!Rest, SE!progress, SE!turn, SE!storage, SE!WGoto
<1>2. Onward
  <2>1. PICK status \in {"checking", "passed", "blocked"} : SE!Push(SE!Risk(eView, status))
    BY DEF SE!Moderate
  <2> QED BY <1>1, <2>1, RiskOnward
<1>3. FrameTypes'
  BY <1>1, <1>2 DEF FrameTypes, Onward, Calm
<1>4. LeavingFrames'
  BY <1>1 DEF LeavingFrames
<1>5. ThoughtFirst'
  BY <1>1, <1>2 DEF ThoughtFirst, Speaking, Onward, Calm
<1>6. BlockedLast'
  BY <1>1, <1>2 DEF BlockedLast, Onward, Calm
<1>7. AnswerShown'
  BY <1>1, <1>2 DEF AnswerShown, Unsaved, Answered, Speaking, Onward, Calm
<1> QED BY <1>3, <1>4, <1>5, <1>6, <1>7

\* A message that has only its text, and one that a stop keeps.
LEMMA TextOnly ==
  ASSUME NEW text \in Seq({"part", "reviewed"})
  PROVE  LET m == [SE!NoMessage EXCEPT !.text = text]
             p == [SE!NoMessage EXCEPT !.text = text, !.partial = TRUE]
         IN  /\ m \in Answers /\ m.text = text /\ ~m.partial /\ m.cards = {}
             /\ m.presentation = SE!NoPresentation
             /\ p \in Answers /\ p.text = text
<1>1. text \in Seq(Words)
  BY WordsOf
<1> QED BY <1>1, NoMessageOf DEF Answers

LEMMA SpeakStep == ASSUME FramesInv, SE!Speak PROVE FramesInv'
<1> USE DEF FramesInv
<1>1. /\ eKind # "exit"
      /\ eW = "work" /\ eSummary = "done" /\ SE!IsCurrent
      /\ eStreamed' = Append(eStreamed, "part")
      /\ UNCHANGED <<eKind, eW, eP, eI, eS, eSummary, eQuiet, eCurrent, eCancelled, eFinalized,
                     eMessage, eStored, eFresh>>
  BY DEF SE!Speak, LeavingFrames, SE!Rest, SE!progress, SE!storage, SE!MaySpeak
<1> DEFINE w == SE!Spoken(eView, "part")
<1>2. /\ w \in Views /\ w.text # SE!Advice /\ w.text # << >>
      /\ w.cards = eView.cards /\ w.thinking = eView.thinking /\ w.status = eView.status
  BY SpokenOf DEF FrameTypes
<1>3. SE!Push(w)
  BY DEF SE!Speak
<1> HIDE DEF w
<1>4. /\ eView' = w
      /\ eView' \in Views /\ eLive' \in BOOLEAN /\ (SE!IsCurrent' => SE!IsCurrent)
  BY <1>1, <1>2, <1>3, PushOf
<1>5. eStreamed' \in Seq({"part"})
  <2>1. eStreamed \in Seq({"part"})
    BY DEF FrameTypes
  <2> QED BY <1>1, <2>1
<1>6. FrameTypes'
  BY <1>1, <1>2, <1>4, <1>5 DEF FrameTypes, Shown
<1>7. LeavingFrames'
  BY <1>1 DEF LeavingFrames
<1>8. ThoughtFirst'
  BY <1>1, <1>2, <1>4, <1>5 DEF ThoughtFirst, Speaking, Shown
<1>9. BlockedLast'
  BY <1>1, <1>2, <1>4, <1>5 DEF BlockedLast, Shown
<1>10. AnswerShown'
  BY <1>1, <1>2, <1>4, <1>5 DEF AnswerShown, Unsaved, Answered, Speaking, Shown
<1> QED BY <1>6, <1>7, <1>8, <1>9, <1>10

LEMMA HandleStep == ASSUME FramesInv, SE!Work PROVE FramesInv'
<1> USE DEF FramesInv
<1>1. /\ eKind # "exit"
      /\ eW = "work" /\ eW' \in {"returned", "error"}
      /\ UNCHANGED <<eKind, eView, eP, eI, eS, eSummary, eQuiet, eLive, eCurrent, eCancelled,
                     eFinalized, eStreamed, eStored, eFresh>>
  BY DEF SE!Work, LeavingFrames, SE!Rest, SE!progress, SE!storage, SE!WGoto
<1>2. /\ eMessage' \in Answers /\ eMessage'.text \in Seq({"part", "reviewed"})
      /\ ~eMessage.partial => ~eMessage'.partial
      /\ ~eMessage.partial /\ eW' = "returned" =>
           eMessage'.text # << >> /\ eMessage'.presentation = SE!NoPresentation
  <2>1. CASE eMessage' = eMessage /\ (eW' = "error" \/ eMessage.partial)
    BY <1>1, <2>1 DEF FrameTypes
  <2>2. CASE \E text \in {eStreamed, <<"reviewed">>} \ {<< >>} :
               eMessage' = [SE!NoMessage EXCEPT !.text = text]
    <3>1. PICK text \in {eStreamed, <<"reviewed">>} \ {<< >>} :
            eMessage' = [SE!NoMessage EXCEPT !.text = text]
      BY <2>2
    <3>2. text \in Seq({"part", "reviewed"}) /\ text # << >>
      BY WordsOf DEF FrameTypes
    <3> QED BY <3>1, <3>2, TextOnly, NoMessageOf
  <2> QED BY <1>1, <2>1, <2>2 DEF SE!Work, SE!WGoto
<1>3. Onward
  BY <1>1, StayOnward
<1>4. FrameTypes'
  BY <1>1, <1>2, <1>3 DEF FrameTypes, Onward, Calm
<1>5. LeavingFrames'
  BY <1>1 DEF LeavingFrames
<1>6. ThoughtFirst'
  BY <1>1, <1>2, <1>3 DEF ThoughtFirst, Speaking, Onward, Calm
<1>7. BlockedLast'
  BY <1>1, <1>2, <1>3 DEF BlockedLast, Onward, Calm
<1>8. AnswerShown'
  BY <1>1, <1>2, <1>3 DEF AnswerShown, Unsaved, Answered, Speaking, Onward, Calm
<1> QED BY <1>4, <1>5, <1>6, <1>7, <1>8

LEMMA ContentEndStep == ASSUME FramesInv, SE!ContentEnd PROVE FramesInv'
<1> USE DEF FramesInv
<1>1. /\ eKind # "exit"
      /\ eW = "summing" /\ eW' \in {"finalize", "posted"}
      /\ eQuiet' \in BOOLEAN
      /\ UNCHANGED <<eKind, eP, eI, eS, eSummary, eCurrent, eCancelled, eFinalized, eStreamed,
                     eMessage, eStored, eFresh>>
  BY DEF SE!ContentEnd, LeavingFrames, SE!Rest, SE!turn, SE!storage, SE!WGoto, FrameTypes
<1>2. CASE UNCHANGED <<eView, eLive>> /\ eW' = "finalize"
  <2>1. Onward
    BY <1>1, <1>2, StayOnward
  <2>2. FrameTypes'
    BY <1>1, <1>2, <2>1 DEF FrameTypes, Onward, Calm
  <2>3. LeavingFrames'
    BY <1>1 DEF LeavingFrames
  <2>4. ThoughtFirst'
    BY <1>1, <1>2, <2>1 DEF ThoughtFirst, Speaking, Onward, Calm
  <2>5. BlockedLast'
    BY <1>1, <1>2, <2>1 DEF BlockedLast, Onward, Calm
  <2>6. AnswerShown'
    BY <1>1, <1>2, <2>1 DEF AnswerShown, Unsaved, Answered, Speaking, Onward, Calm
  <2> QED BY <2>2, <2>3, <2>4, <2>5, <2>6
<1>3. CASE /\ eW' = "posted" /\ eSummary = "done" /\ SE!IsCurrent
           /\ SE!Push(SE!Said(eView, eMessage.text))
  <2> DEFINE w == SE!Said(eView, eMessage.text)
  <2>1. eMessage.text \in Seq(Words) /\ eMessage.text # SE!Advice
    BY WordsOf DEF FrameTypes
  <2>2. /\ w \in Views /\ w.text = (IF eMessage.text = << >> THEN eView.text ELSE eMessage.text)
        /\ w.cards = eView.cards /\ w.thinking = eView.thinking /\ w.status = eView.status
    BY <2>1, SaidOf DEF FrameTypes
  <2>3. SE!Push(w)
    BY <1>3
  <2> HIDE DEF w
  <2>4. /\ eView' = w
        /\ eView' \in Views /\ eLive' \in BOOLEAN /\ (SE!IsCurrent' => SE!IsCurrent)
    BY <1>1, <1>3, <2>2, <2>3, PushOf
  <2>5. FrameTypes'
    BY <1>1, <1>3, <2>1, <2>2, <2>4 DEF FrameTypes, Shown
  <2>6. LeavingFrames'
    BY <1>1 DEF LeavingFrames
  <2>7. ThoughtFirst'
    BY <1>1, <1>3, <2>1, <2>2, <2>4 DEF ThoughtFirst, Speaking, Shown
  <2>8. BlockedLast'
    BY <1>1, <1>3, <2>1, <2>2, <2>4 DEF BlockedLast, Shown
  <2>9. AnswerShown'
    BY <1>1, <1>3, <2>1, <2>2, <2>4 DEF AnswerShown, Unsaved, Answered, Speaking, Shown
  <2> QED BY <2>5, <2>6, <2>7, <2>8, <2>9
<1> QED BY <1>1, <1>2, <1>3 DEF SE!ContentEnd, SE!MaySpeak, SE!WGoto

LEMMA PostProcessStep == ASSUME FramesInv, SE!PostProcess PROVE FramesInv'
<1> USE DEF FramesInv
<1>1. /\ eKind # "exit"
      /\ eW = "posted" /\ eW' \in {"finish", "attached"}
      /\ eW' = "finish" => eStreamed' = eStreamed /\ eMessage' = SE!Pruned
      /\ eW' = "attached" => eStreamed' = << >> /\ SE!IsCurrent
      /\ UNCHANGED <<eKind, eView, eP, eI, eS, eSummary, eQuiet, eLive, eCurrent, eCancelled,
                     eFinalized, eStored, eFresh>>
  BY DEF SE!PostProcess, LeavingFrames, SE!Rest, SE!progress, SE!storage, SE!WGoto
<1>2. eW' = "attached" =>
        \E cards \in SUBSET Cards : eMessage' = [eMessage EXCEPT !.cards = cards]
  BY DEF SE!PostProcess, SE!WGoto, SE!Projections, Cards
<1>3. eMessage \in Answers
  BY DEF FrameTypes
<1>4. eW' = "attached" =>
        /\ eMessage' \in Answers /\ eMessage'.text = eMessage.text
        /\ eMessage'.partial = eMessage.partial
        /\ eMessage'.presentation = eMessage.presentation
  BY <1>2, <1>3 DEF Answers
<1>5. eW' = "finish" =>
        eMessage' \in {eMessage, SE!NoMessage} /\ (eMessage.partial => eMessage' = eMessage)
  BY <1>1, NoMessageOf DEF SE!Pruned
<1>6. Onward /\ << >> \in Seq({"part"})
  BY <1>1, StayOnward
<1>7. FrameTypes'
  BY <1>1, <1>4, <1>5, <1>6, NoMessageOf DEF FrameTypes, Onward, Calm
<1>8. LeavingFrames'
  BY <1>1 DEF LeavingFrames
<1>9. ThoughtFirst'
  BY <1>1, <1>4, <1>5, <1>6, NoMessageOf DEF ThoughtFirst, Speaking, Onward, Calm
<1>10. BlockedLast'
  BY <1>1, <1>4, <1>5, <1>6, NoMessageOf DEF BlockedLast, Onward, Calm
<1>11. AnswerShown'
  BY <1>1, <1>4, <1>5, <1>6, NoMessageOf
     DEF AnswerShown, Unsaved, Answered, Speaking, Onward, Calm
<1> QED BY <1>7, <1>8, <1>9, <1>10, <1>11

LEMMA SaveAnswerStep == ASSUME FramesInv, SE!SaveAnswer PROVE FramesInv'
<1> USE DEF FramesInv
<1>1. /\ eKind # "exit"
      /\ eW \in {"attached", "presented"}
      /\ UNCHANGED <<eKind, eView, eP, eI, eS, eSummary, eQuiet, eLive, eCurrent, eCancelled,
                     eFinalized, eStreamed, eFresh>>
  BY DEF SE!SaveAnswer, LeavingFrames, SE!Rest, SE!progress, SE!storage, SE!Save, SE!Conflict,
         SE!WGoto
<1>2. Onward
  BY <1>1, StayOnward
<1>3. CASE ~SE!IsCurrent /\ eW' = "finish" /\ eMessage' = SE!Pruned /\ eStored' = eStored
  <2>1. eMessage' \in {eMessage, SE!NoMessage} /\ (eMessage.partial => eMessage' = eMessage)
    BY <1>3, NoMessageOf DEF SE!Pruned
  <2>2. FrameTypes'
    BY <1>1, <1>2, <1>3, <2>1, NoMessageOf DEF FrameTypes, Onward, Calm
  <2>3. LeavingFrames'
    BY <1>1 DEF LeavingFrames
  <2>4. ThoughtFirst'
    BY <1>1, <1>2, <1>3, <2>1, NoMessageOf DEF ThoughtFirst, Speaking, Onward, Calm
  <2>5. BlockedLast'
    BY <1>1, <1>2, <1>3, <2>1, NoMessageOf DEF BlockedLast, Onward, Calm
  <2>6. AnswerShown'
    BY <1>1, <1>2, <1>3, <2>1, NoMessageOf
       DEF AnswerShown, Unsaved, Answered, Speaking, Onward, Calm
  <2> QED BY <2>2, <2>3, <2>4, <2>5, <2>6
<1>4. CASE eFresh /\ eMessage' = eMessage /\ eStored' = eMessage
           /\ eW' = IF eW = "attached" THEN "act" ELSE "final"
  <2>1. FrameTypes'
    BY <1>1, <1>2, <1>4, NoMessageOf DEF FrameTypes, Onward, Calm
  <2>2. LeavingFrames'
    BY <1>1 DEF LeavingFrames
  <2>3. ThoughtFirst'
    BY <1>1, <1>2, <1>4, NoMessageOf DEF ThoughtFirst, Speaking, Onward, Calm
  <2>4. BlockedLast'
    BY <1>1, <1>2, <1>4, NoMessageOf DEF BlockedLast, Onward, Calm
  <2>5. AnswerShown'
    BY <1>1, <1>2, <1>4, NoMessageOf DEF AnswerShown, Unsaved, Answered, Speaking, Onward, Calm
  <2> QED BY <2>1, <2>2, <2>3, <2>4, <2>5
<1>5. CASE ~eFresh /\ eMessage' = eMessage /\ eStored' = eStored /\ eW' = "complete"
  <2>1. FrameTypes'
    BY <1>1, <1>2, <1>5, NoMessageOf DEF FrameTypes, Onward, Calm, Shown
  <2>2. LeavingFrames'
    BY <1>1 DEF LeavingFrames
  <2>3. ThoughtFirst'
    BY <1>1, <1>2, <1>5, NoMessageOf DEF ThoughtFirst, Speaking, Onward, Calm, Shown
  <2>4. BlockedLast'
    BY <1>1, <1>2, <1>5, NoMessageOf DEF BlockedLast, Onward, Calm, Shown
  <2>5. AnswerShown'
    BY <1>1, <1>2, <1>5, NoMessageOf
       DEF AnswerShown, Unsaved, Answered, Speaking, Onward, Calm, Shown
  <2> QED BY <2>1, <2>2, <2>3, <2>4, <2>5
<1> QED BY <1>1, <1>3, <1>4, <1>5
        DEF SE!SaveAnswer, SE!Save, SE!Conflict, SE!storage, SE!WGoto

LEMMA ActStep == ASSUME FramesInv, SE!Act PROVE FramesInv'
<1> USE DEF FramesInv
<1>1. /\ eKind # "exit"
      /\ eW = "act" /\ eW' = "present"
      /\ UNCHANGED <<eKind, eP, eI, eS, eSummary, eQuiet, eCurrent, eCancelled, eFinalized,
                     eStreamed, eMessage, eStored, eFresh>>
  BY DEF SE!Act, LeavingFrames, SE!Rest, SE!progress, SE!turn, SE!storage, SE!WGoto
<1> DEFINE w == SE!Acted(eView, eMessage.cards, eView.handoff)
<1>2. eMessage.cards \in SUBSET Cards
  BY DEF FrameTypes, Answers
<1>3. /\ w \in Views /\ w.text = eView.text /\ w.cards = eMessage.cards
      /\ w.thinking = eView.thinking /\ w.status = eView.status
  BY <1>2, ActedOf DEF FrameTypes
<1>4. SE!Push(w)
  BY DEF SE!Act
<1> HIDE DEF w
<1>5. /\ eView' = IF SE!IsCurrent THEN w ELSE eView
      /\ eView' \in Views /\ eLive' \in BOOLEAN /\ (SE!IsCurrent' => SE!IsCurrent)
  BY <1>1, <1>3, <1>4, PushOf
<1>6. FrameTypes'
  BY <1>1, <1>3, <1>5 DEF FrameTypes, Shown
<1>7. LeavingFrames'
  BY <1>1 DEF LeavingFrames
<1>8. ThoughtFirst'
  BY <1>1, <1>3, <1>5 DEF ThoughtFirst, Speaking, Shown
<1>9. BlockedLast'
  BY <1>1, <1>3, <1>5 DEF BlockedLast, Shown
<1>10. AnswerShown'
  BY <1>1, <1>3, <1>5 DEF AnswerShown, Unsaved, Answered, Speaking, Shown
<1> QED BY <1>6, <1>7, <1>8, <1>9, <1>10

LEMMA PresentStep == ASSUME FramesInv, SE!Present PROVE FramesInv'
<1> USE DEF FramesInv
<1>1. /\ eKind # "exit"
      /\ eW = "present" /\ eW' = "presented"
      /\ UNCHANGED <<eKind, eView, eP, eI, eS, eSummary, eQuiet, eLive, eCurrent, eCancelled,
                     eFinalized, eStreamed, eStored, eFresh>>
  BY DEF SE!Present, LeavingFrames, SE!Rest, SE!progress, SE!storage, SE!WGoto
<1>2. SE!Presentation(eView) = [text |-> eView.text, cards |-> eView.cards]
  BY DEF SE!Presentation
<1>3. /\ eMessage' = [eMessage EXCEPT
                        !.presentation = [text |-> eView.text, cards |-> eView.cards]]
      /\ eMessage \in Answers /\ eView.text \in Seq(Words) /\ eView.cards \in SUBSET Cards
  BY <1>2 DEF SE!Present, FrameTypes, Views
<1>4. /\ eMessage' \in Answers /\ eMessage'.text = eMessage.text
      /\ eMessage'.partial = eMessage.partial /\ eMessage'.cards = eMessage.cards
      /\ eMessage'.presentation = [text |-> eView.text, cards |-> eView.cards]
  BY <1>3 DEF Answers
<1>5. Onward
  BY <1>1, StayOnward
<1>6. FrameTypes'
  BY <1>1, <1>4, <1>5 DEF FrameTypes, Onward, Calm
<1>7. LeavingFrames'
  BY <1>1 DEF LeavingFrames
<1>8. ThoughtFirst'
  BY <1>1, <1>4, <1>5 DEF ThoughtFirst, Speaking, Onward, Calm
<1>9. BlockedLast'
  BY <1>1, <1>4, <1>5 DEF BlockedLast, Onward, Calm
<1>10. AnswerShown'
  BY <1>1, <1>4, <1>5 DEF AnswerShown, Unsaved, Answered, Speaking, Onward, Calm
<1> QED BY <1>6, <1>7, <1>8, <1>9, <1>10

LEMMA FinalMessageStep == ASSUME FramesInv, SE!FinalMessage PROVE FramesInv'
<1> USE DEF FramesInv
<1>1. /\ eKind # "exit"
      /\ eW = "final" /\ eW' = "complete"
      /\ UNCHANGED <<eKind, eP, eI, eS, eSummary, eQuiet, eCurrent, eCancelled, eFinalized,
                     eStreamed, eMessage, eStored, eFresh>>
  BY DEF SE!FinalMessage, LeavingFrames, SE!Rest, SE!progress, SE!turn, SE!storage, SE!WGoto
<1> DEFINE w == SE!Delivered(eView, eMessage.text, eMessage.cards, eView.handoff)
<1>2. /\ eMessage.cards \in SUBSET Cards /\ eMessage.text \in Seq(Words)
      /\ eMessage.text # SE!Advice
  BY WordsOf DEF FrameTypes, Answers
<1>3. /\ w \in Views /\ w.text = (IF eMessage.text = << >> THEN eView.text ELSE eMessage.text)
      /\ w.cards = (eView.cards \ {"paths"}) \cup (eMessage.cards \cap {"paths"})
      /\ w.thinking = eView.thinking /\ w.status = eView.status
  BY <1>2, DeliveredOf DEF FrameTypes
<1>4. SE!Push(w)
  BY DEF SE!FinalMessage
<1> HIDE DEF w
<1>5. /\ eView' = IF SE!IsCurrent THEN w ELSE eView
      /\ eView' \in Views /\ eLive' \in BOOLEAN /\ (SE!IsCurrent' => SE!IsCurrent)
  BY <1>1, <1>3, <1>4, PushOf
<1>6. eView.cards = eMessage.cards => w.cards = eView.cards
  BY <1>3
<1>7. FrameTypes'
  BY <1>1, <1>2, <1>3, <1>5, <1>6 DEF FrameTypes, Shown
<1>8. LeavingFrames'
  BY <1>1 DEF LeavingFrames
<1>9. ThoughtFirst'
  BY <1>1, <1>2, <1>3, <1>5, <1>6 DEF ThoughtFirst, Speaking, Shown
<1>10. BlockedLast'
  BY <1>1, <1>2, <1>3, <1>5, <1>6 DEF BlockedLast, Shown
<1>11. AnswerShown'
  <2>1. ASSUME SE!IsCurrent', ~eFinalized
        PROVE  /\ eStored = eMessage /\ Shown(eMessage)'
               /\ eView'.text = eMessage.text
    <3>1. /\ eStored = eMessage /\ eMessage.text # << >> /\ eView.text = eMessage.text
          /\ eView.cards = eMessage.cards
          /\ eMessage.presentation = [text |-> eView.text, cards |-> eView.cards]
      BY <1>1, <1>5, <2>1 DEF AnswerShown, Answered, Speaking
    <3>2. eView'.text = eMessage.text /\ eView'.cards = eMessage.cards
      BY <1>3, <1>5, <1>6, <2>1, <3>1
    <3>3. SE!Reload(eMessage) = [text |-> eMessage.text, cards |-> eMessage.cards]
      BY <3>1, NoMessageOf
    <3> QED BY <1>1, <3>1, <3>2, <3>3 DEF Shown, SE!Reload
  <2>2. eView'.status = eView.status /\ (eView.status # "completed" \/ eFinalized)
    BY <1>1, <1>3, <1>5 DEF AnswerShown
  <2> QED BY <1>1, <2>1, <2>2 DEF AnswerShown, Unsaved, Answered, Speaking
<1> QED BY <1>7, <1>8, <1>9, <1>10, <1>11

LEMMA CompleteStep == ASSUME FramesInv, SE!Complete PROVE FramesInv'
<1> USE DEF FramesInv
<1>1. /\ eKind # "exit"
      /\ eW = "complete" /\ eW' = "completed"
      /\ UNCHANGED <<eKind, eP, eI, eS, eSummary, eQuiet, eCurrent, eCancelled, eFinalized,
                     eStreamed, eMessage, eStored, eFresh>>
  BY DEF SE!Complete, LeavingFrames, SE!Rest, SE!progress, SE!turn, SE!storage, SE!WGoto
<1> DEFINE w == SE!Closed(eView, "completed")
<1>2. Steady(eView, w) /\ w.status = "completed"
  BY EndOf DEF FrameTypes
<1>3. SE!Push(w)
  BY DEF SE!Complete
<1> HIDE DEF w
<1>4. /\ eView' = IF SE!IsCurrent THEN w ELSE eView
      /\ eView' \in Views /\ eLive' \in BOOLEAN /\ (SE!IsCurrent' => SE!IsCurrent)
  BY <1>1, <1>2, <1>3, PushOf DEF Steady, Calm
<1>5. FrameTypes'
  BY <1>1, <1>2, <1>4 DEF FrameTypes, Shown, Steady, Calm
<1>6. LeavingFrames'
  BY <1>1 DEF LeavingFrames
<1>7. ThoughtFirst'
  BY <1>1, <1>2, <1>4 DEF ThoughtFirst, Speaking, Shown, Steady, Calm
<1>8. BlockedLast'
  BY <1>1, <1>2, <1>4 DEF BlockedLast, Shown, Steady, Calm
<1>9. AnswerShown'
  BY <1>1, <1>2, <1>4 DEF AnswerShown, Unsaved, Answered, Speaking, Shown, Steady, Calm
<1> QED BY <1>5, <1>6, <1>7, <1>8, <1>9

LEMMA SaveCompletedStep == ASSUME FramesInv, SE!SaveCompleted PROVE FramesInv'
<1> USE DEF FramesInv
<1>1. /\ eKind # "exit"
      /\ eW = "completed" /\ eW' \in {"finish", "error"}
      /\ eW' = "finish" => eFresh /\ eStored' = eMessage
      /\ eW' = "error" => ~eFresh /\ eStored' = eStored
      /\ UNCHANGED <<eKind, eView, eP, eI, eS, eSummary, eQuiet, eLive, eCurrent, eCancelled,
                     eFinalized, eStreamed, eMessage, eFresh>>
  BY DEF SE!SaveCompleted, LeavingFrames, SE!Rest, SE!progress, SE!turn, SE!storage, SE!Save,
         SE!Conflict, SE!WGoto
<1>2. Onward
  BY <1>1, StayOnward
<1>3. FrameTypes'
  BY <1>1, <1>2 DEF FrameTypes, Onward, Calm, Shown
<1>4. LeavingFrames'
  BY <1>1 DEF LeavingFrames
<1>5. ThoughtFirst'
  BY <1>1, <1>2 DEF ThoughtFirst, Speaking, Onward, Calm, Shown
<1>6. BlockedLast'
  BY <1>1, <1>2 DEF BlockedLast, Onward, Calm, Shown
<1>7. AnswerShown'
  BY <1>1, <1>2 DEF AnswerShown, Unsaved, Answered, Speaking, Onward, Calm, Shown
<1> QED BY <1>3, <1>4, <1>5, <1>6, <1>7

LEMMA ErrorStep == ASSUME FramesInv, SE!Error PROVE FramesInv'
<1> USE DEF FramesInv
<1>1. /\ eKind # "exit"
      /\ eW = "error" /\ eW' = "finish"
      /\ UNCHANGED <<eKind, eP, eI, eS, eSummary, eQuiet, eCurrent, eCancelled, eFinalized,
                     eStreamed, eMessage, eFresh>>
  BY DEF SE!Error, LeavingFrames, SE!Rest, SE!progress, SE!turn, SE!storage, SE!Save,
         SE!Conflict, SE!WGoto
<1>2. CASE eFresh /\ eStored' = eMessage /\ SE!Push(SE!Failed(eView))
  <2> DEFINE w == SE!Failed(eView)
  <2>1. Steady(eView, w) /\ w.status = "failed"
    BY EndOf DEF FrameTypes
  <2>2. SE!Push(w)
    BY <1>2
  <2> HIDE DEF w
  <2>3. /\ eView' = IF SE!IsCurrent THEN w ELSE eView
        /\ eView' \in Views /\ eLive' \in BOOLEAN /\ (SE!IsCurrent' => SE!IsCurrent)
    BY <1>1, <2>1, <2>2, PushOf DEF Steady, Calm
  <2>4. FrameTypes'
    BY <1>1, <1>2, <2>1, <2>3 DEF FrameTypes, Steady, Calm
  <2>5. LeavingFrames'
    BY <1>1 DEF LeavingFrames
  <2>6. ThoughtFirst'
    BY <1>1, <1>2, <2>1, <2>3 DEF ThoughtFirst, Speaking, Steady, Calm
  <2>7. BlockedLast'
    BY <1>1, <1>2, <2>1, <2>3 DEF BlockedLast, Steady, Calm
  <2>8. AnswerShown'
    BY <1>1, <1>2, <2>1, <2>3 DEF AnswerShown, Unsaved, Answered, Speaking, Steady, Calm
  <2> QED BY <2>4, <2>5, <2>6, <2>7, <2>8
<1>3. CASE ~eFresh /\ eStored' = eStored /\ UNCHANGED <<eView, eLive>>
  <2>1. Onward
    BY <1>1, <1>3, StayOnward
  <2>2. FrameTypes'
    BY <1>1, <1>3, <2>1 DEF FrameTypes, Onward, Calm, Shown
  <2>3. LeavingFrames'
    BY <1>1 DEF LeavingFrames
  <2>4. ThoughtFirst'
    BY <1>1, <1>3, <2>1 DEF ThoughtFirst, Speaking, Onward, Calm, Shown
  <2>5. BlockedLast'
    BY <1>1, <1>3, <2>1 DEF BlockedLast, Onward, Calm, Shown
  <2>6. AnswerShown'
    BY <1>1, <1>3, <2>1 DEF AnswerShown, Unsaved, Answered, Speaking, Onward, Calm, Shown
  <2> QED BY <2>2, <2>3, <2>4, <2>5, <2>6
<1> QED BY <1>2, <1>3 DEF SE!Error, SE!Save, SE!Conflict, SE!storage

LEMMA BlockedStep == ASSUME FramesInv, SE!Blocked PROVE FramesInv'
<1> USE DEF FramesInv
<1>1. /\ eKind # "exit"
      /\ eW = "blocked" /\ eW' = "finish"
      /\ UNCHANGED <<eKind, eP, eI, eS, eSummary, eQuiet, eCurrent, eCancelled, eFinalized,
                     eStreamed, eFresh>>
  BY DEF SE!Blocked, LeavingFrames, SE!Rest, SE!progress, SE!storage, SE!Save, SE!Conflict,
         SE!WGoto
<1>4. eMessage' \in {eMessage, SE!NoMessage} /\ (eMessage.partial => eMessage' = eMessage)
  BY NoMessageOf DEF SE!Blocked, SE!Pruned
<1>2. CASE eStored' = eMessage' /\ SE!Push(SE!BlockedView(eView))
  <2> DEFINE w == SE!BlockedView(eView)
  <2>1. /\ w \in Views /\ w.text = SE!Advice /\ w.cards = {} /\ ~w.handoff
        /\ w.thinking = eView.thinking /\ w.status = "blocked"
    BY BlockedOf DEF FrameTypes
  <2>2. SE!Push(w)
    BY <1>2
  <2> HIDE DEF w
  <2>3. /\ eView' = IF SE!IsCurrent THEN w ELSE eView
        /\ eView' \in Views /\ eLive' \in BOOLEAN /\ (SE!IsCurrent' => SE!IsCurrent)
    BY <1>1, <2>1, <2>2, PushOf
  <2>4. FrameTypes'
    BY <1>1, <1>4, <1>2, <2>1, <2>3, NoMessageOf DEF FrameTypes, Shown
  <2>5. LeavingFrames'
    BY <1>1 DEF LeavingFrames
  <2>6. ThoughtFirst'
    BY <1>1, <1>4, <1>2, <2>1, <2>3, NoMessageOf DEF ThoughtFirst, Speaking, Shown
  <2>7. BlockedLast'
    BY <1>1, <1>4, <1>2, <2>1, <2>3, NoMessageOf DEF BlockedLast, Shown
  <2>8. AnswerShown'
    BY <1>1, <1>4, <1>2, <2>1, <2>3, NoMessageOf
       DEF AnswerShown, Unsaved, Answered, Speaking, Shown
  <2> QED BY <2>4, <2>5, <2>6, <2>7, <2>8
<1>3. CASE eStored' = eStored /\ UNCHANGED <<eView, eLive>>
  <2>1. Onward
    BY <1>1, <1>3, StayOnward
  <2>2. FrameTypes'
    BY <1>1, <1>4, <1>3, <2>1, NoMessageOf DEF FrameTypes, Onward, Calm, Shown
  <2>3. LeavingFrames'
    BY <1>1 DEF LeavingFrames
  <2>4. ThoughtFirst'
    BY <1>1, <1>4, <1>3, <2>1, NoMessageOf DEF ThoughtFirst, Speaking, Onward, Calm, Shown
  <2>5. BlockedLast'
    BY <1>1, <1>4, <1>3, <2>1, NoMessageOf DEF BlockedLast, Onward, Calm, Shown
  <2>6. AnswerShown'
    BY <1>1, <1>4, <1>3, <2>1, NoMessageOf
       DEF AnswerShown, Unsaved, Answered, Speaking, Onward, Calm, Shown
  <2> QED BY <2>2, <2>3, <2>4, <2>5, <2>6
<1> QED BY <1>2, <1>3 DEF SE!Blocked, SE!Save, SE!Conflict, SE!storage

LEMMA FinishStep == ASSUME FramesInv, SE!Finish PROVE FramesInv'
<1> USE DEF FramesInv
<1>1. /\ eKind # "exit"
      /\ eW = "finish" /\ eW' = "done" /\ eQuiet' = TRUE
      /\ eStreamed' \in {eStreamed, << >>}
      /\ UNCHANGED <<eKind, eView, eP, eI, eS, eSummary, eLive, eCurrent, eCancelled,
                     eFinalized, eMessage, eStored, eFresh>>
  BY DEF SE!Finish, LeavingFrames, SE!Rest, SE!storage, SE!WGoto
<1>2. Onward /\ << >> \in Seq({"part"})
  BY <1>1, StayOnward
<1>3. FrameTypes'
  BY <1>1, <1>2 DEF FrameTypes, Onward, Calm, Shown
<1>4. LeavingFrames'
  BY <1>1 DEF LeavingFrames
<1>5. ThoughtFirst'
  BY <1>1, <1>2 DEF ThoughtFirst, Speaking, Onward, Calm, Shown
<1>6. BlockedLast'
  BY <1>1, <1>2 DEF BlockedLast, Onward, Calm, Shown
<1>7. AnswerShown'
  BY <1>1, <1>2 DEF AnswerShown, Unsaved, Answered, Speaking, Onward, Calm, Shown
<1> QED BY <1>3, <1>4, <1>5, <1>6, <1>7

\* What a stop leaves: the view at most stopped, the message the partial text.
Ceased ==
  /\ Steady(eView, eView') /\ eLive' \in BOOLEAN
  /\ SE!IsCurrent' => SE!IsCurrent
  /\ eFinalized' = TRUE /\ UNCHANGED <<eKind, eSummary, eCurrent, eCancelled, eFresh, eP, eS>>
  /\ eQuiet' \in BOOLEAN /\ eStreamed' \in Seq({"part"})
  /\ eMessage' \in Answers /\ eMessage'.text \in Seq({"part", "reviewed"})
  /\ eStored' \in Answers

LEMMA PartialOf ==
  ASSUME FrameTypes
  PROVE  SE!Partial \in Answers /\ SE!Partial.text \in Seq({"part", "reviewed"})
<1>1. eStreamed \in Seq({"part", "reviewed"})
  BY WordsOf DEF FrameTypes
<1> QED BY <1>1, TextOnly, NoMessageOf DEF SE!Partial

LEMMA CeasedOf ==
  ASSUME FrameTypes, eFinalized' = TRUE,
         UNCHANGED <<eKind, eSummary, eCurrent, eCancelled, eFresh, eP, eS>>,
         eQuiet' \in {eQuiet, TRUE}, eStreamed' \in {eStreamed, << >>},
         eMessage' \in {eMessage, SE!Partial}, eStored' \in {eStored, SE!Partial},
         UNCHANGED <<eView, eLive>> \/ SE!Push(SE!Stopped(eView))
  PROVE  Ceased
<1>1. /\ Steady(eView, eView') /\ eLive' \in BOOLEAN
      /\ SE!IsCurrent' => SE!IsCurrent
  <2>1. CASE UNCHANGED <<eView, eLive>>
    BY <2>1 DEF FrameTypes, Steady, Calm, SE!IsCurrent
  <2>2. CASE SE!Push(SE!Stopped(eView))
    <3> DEFINE w == SE!Stopped(eView)
    <3>1. Steady(eView, w)
      BY EndOf DEF FrameTypes
    <3>2. SE!Push(w)
      BY <2>2
    <3> HIDE DEF w
    <3> QED BY <3>1, <3>2, PushOf DEF Steady, Calm
  <2> QED BY <2>1, <2>2
<1>2. eQuiet' \in BOOLEAN /\ eStreamed' \in Seq({"part"})
  <2>1. << >> \in Seq({"part"})
    OBVIOUS
  <2> QED BY <2>1 DEF FrameTypes
<1>3. /\ eMessage' \in Answers /\ eMessage'.text \in Seq({"part", "reviewed"})
      /\ eStored' \in Answers
  BY PartialOf DEF FrameTypes
<1> QED BY <1>1, <1>2, <1>3 DEF Ceased

LEMMA FinalizeByWorkerStep == ASSUME FramesInv, SE!FinalizeByWorker PROVE FramesInv'
<1> USE DEF FramesInv
<1>1. /\ eKind # "exit" /\ eW = "finalize" /\ eW' \in {"finish", "error"} /\ eI' = eI
      /\ eFinalized' = TRUE
      /\ UNCHANGED <<eKind, eSummary, eCurrent, eCancelled, eFresh, eP, eS>>
      /\ eQuiet' \in {eQuiet, TRUE} /\ eStreamed' \in {eStreamed, << >>}
      /\ eMessage' \in {eMessage, SE!Partial} /\ eStored' \in {eStored, SE!Partial}
      /\ (UNCHANGED <<eView, eLive>> \/ SE!Push(SE!Stopped(eView)))
  BY DEF SE!FinalizeByWorker, SE!Finalize, SE!Rest, SE!storage, SE!Save, SE!Conflict, SE!WGoto,
         LeavingFrames
<1>2. Ceased
  BY <1>1, CeasedOf
<1>3. FrameTypes'
  BY <1>1, <1>2 DEF FrameTypes, Ceased, Steady, Calm
<1>4. LeavingFrames'
  BY <1>1 DEF LeavingFrames
<1>5. ThoughtFirst'
  BY <1>1, <1>2 DEF ThoughtFirst, Speaking, Ceased, Steady, Calm
<1>6. BlockedLast'
  BY <1>1, <1>2 DEF BlockedLast, Ceased, Steady, Calm
<1>7. AnswerShown'
  BY <1>1, <1>2 DEF AnswerShown, Unsaved, Answered, Speaking, Ceased, Steady, Calm
<1> QED BY <1>3, <1>4, <1>5, <1>6, <1>7

LEMMA NoticeOf ==
  ASSUME FramesInv, SE!Notice
  PROVE  eKind # "exit" /\ eI = "open" /\ eW' = eW /\ Ceased
<1> USE DEF FramesInv
<1>1. /\ eKind # "exit" /\ eI = "open" /\ eW' = eW
      /\ eFinalized' = TRUE
      /\ UNCHANGED <<eKind, eSummary, eCurrent, eCancelled, eFresh, eP, eS>>
      /\ eQuiet' \in {eQuiet, TRUE} /\ eStreamed' \in {eStreamed, << >>}
      /\ eMessage' \in {eMessage, SE!Partial} /\ eStored' \in {eStored, SE!Partial}
      /\ (UNCHANGED <<eView, eLive>> \/ SE!Push(SE!Stopped(eView)))
  BY DEF SE!Notice, SE!Finalize, SE!Others, SE!storage, SE!Save, SE!Conflict, SE!IGoto,
         LeavingFrames
<1> QED BY <1>1, CeasedOf

LEMMA NoticeStep == ASSUME FramesInv, SE!Notice PROVE FramesInv'
<1> USE DEF FramesInv
<1>1. eKind # "exit" /\ eI = "open" /\ eW' = eW /\ Ceased
  BY NoticeOf
<1>2. FrameTypes'
  BY <1>1 DEF FrameTypes, Ceased, Steady, Calm
<1>3. LeavingFrames'
  BY <1>1 DEF LeavingFrames, Ceased
<1>4. ThoughtFirst'
  BY <1>1 DEF ThoughtFirst, Speaking, Ceased, Steady, Calm
<1>5. BlockedLast'
  BY <1>1 DEF BlockedLast, Ceased, Steady, Calm
<1>6. AnswerShown'
  BY <1>1 DEF AnswerShown, Unsaved, Answered, Speaking, Ceased, Steady, Calm
<1> QED BY <1>2, <1>3, <1>4, <1>5, <1>6

LEMMA SimulateOf ==
  ASSUME FramesInv, SE!Simulate
  PROVE  /\ eKind # "exit" /\ eP # "none" /\ Onward /\ eView'.handoff = eView.handoff
         /\ UNCHANGED <<eKind, eW, eI, eS, eSummary, eQuiet, eCurrent, eCancelled, eFinalized,
                        eStreamed, eMessage, eStored, eFresh>>
<1> USE DEF FramesInv
<1>1. /\ eKind # "exit" /\ eP # "none"
      /\ UNCHANGED <<eKind, eW, eI, eS, eSummary, eQuiet, eCurrent, eCancelled, eFinalized,
                     eStreamed, eMessage, eStored, eFresh>>
  BY DEF SE!Simulate, LeavingFrames, SE!turn, SE!storage
<1>2. CASE UNCHANGED <<eView, eLive>>
  BY <1>1, <1>2, StayOnward
<1>3. ASSUME NEW stage \in {"facts", "materials"}, SE!PushStatus(stage)
      PROVE  Onward /\ eView'.handoff = eView.handoff
  <2> DEFINE w == SE!Progressed(eView, stage)
  <2>1. stage \in Stages
    BY DEF Stages
  <2>2. Steady(eView, w)
    BY <2>1, ProgressedOf DEF FrameTypes
  <2>3. SE!Push(w)
    BY <1>3 DEF SE!PushStatus
  <2> HIDE DEF w
  <2>4. eView' = IF SE!IsCurrent THEN w ELSE eView
    BY <1>1, <2>2, <2>3, PushOf DEF Steady, Calm
  <2>5. Onward
    BY <1>1, <1>3, <2>1, ProgressOnward
  <2> QED BY <2>2, <2>4, <2>5 DEF Steady
<1> QED BY <1>1, <1>2, <1>3 DEF SE!Simulate

LEMMA SimulateStep == ASSUME FramesInv, SE!Simulate PROVE FramesInv'
<1> USE DEF FramesInv
<1>1. /\ eKind # "exit" /\ eP # "none" /\ Onward /\ eView'.handoff = eView.handoff
      /\ UNCHANGED <<eKind, eW, eI, eS, eSummary, eQuiet, eCurrent, eCancelled, eFinalized,
                     eStreamed, eMessage, eStored, eFresh>>
  BY SimulateOf
<1>2. FrameTypes'
  BY <1>1 DEF FrameTypes, Onward, Calm, Shown
<1>3. LeavingFrames'
  BY <1>1 DEF LeavingFrames
<1>4. ThoughtFirst'
  BY <1>1 DEF ThoughtFirst, Speaking, Onward, Calm, Shown
<1>5. BlockedLast'
  BY <1>1 DEF BlockedLast, Onward, Calm, Shown
<1>6. AnswerShown'
  BY <1>1 DEF AnswerShown, Unsaved, Answered, Speaking, Onward, Calm, Shown
<1> QED BY <1>2, <1>3, <1>4, <1>5, <1>6

LEMMA StopReadingStep == ASSUME FramesInv, SE!StopReading PROVE FramesInv'
<1> USE DEF FramesInv
<1>1. /\ eKind # "exit"
      /\ eI = "open"
      /\ UNCHANGED <<eKind, eView, eW, eP, eS, eSummary, eQuiet, eLive, eCurrent, eCancelled,
                     eFinalized, eStreamed, eMessage, eStored, eFresh>>
  BY DEF SE!StopReading, LeavingFrames, SE!Rest, SE!Others, SE!progress, SE!turn, SE!storage
<1>2. FrameTypes'
  BY <1>1 DEF FrameTypes, Shown, SE!IsCurrent
<1>3. LeavingFrames'
  BY <1>1 DEF LeavingFrames
<1>4. ThoughtFirst'
  BY <1>1 DEF ThoughtFirst, Speaking, Shown, SE!IsCurrent
<1>5. BlockedLast'
  BY <1>1 DEF BlockedLast, Shown, SE!IsCurrent
<1>6. AnswerShown'
  BY <1>1 DEF AnswerShown, Unsaved, Answered, Speaking, Shown, SE!IsCurrent
<1> QED BY <1>2, <1>3, <1>4, <1>5, <1>6

LEMMA CloseStep == ASSUME FramesInv, SE!Close PROVE FramesInv'
<1> USE DEF FramesInv
<1>1. /\ eKind # "exit"
      /\ eI = "closing" /\ eLive' = FALSE /\ eFresh' \in {eFresh, FALSE}
      /\ UNCHANGED <<eKind, eView, eW, eP, eS, eSummary, eQuiet, eCurrent, eCancelled,
                     eFinalized, eStreamed, eMessage, eStored>>
  BY DEF SE!Close, LeavingFrames, SE!Rest, SE!Others, SE!progress, SE!turn
<1>2. FrameTypes'
  BY <1>1 DEF FrameTypes, Shown, SE!IsCurrent
<1>3. LeavingFrames'
  BY <1>1 DEF LeavingFrames
<1>4. ThoughtFirst'
  BY <1>1 DEF ThoughtFirst, Speaking, Shown, SE!IsCurrent
<1>5. BlockedLast'
  BY <1>1 DEF BlockedLast, Shown, SE!IsCurrent
<1>6. AnswerShown'
  BY <1>1 DEF AnswerShown, Unsaved, Answered, Speaking, Shown, SE!IsCurrent
<1> QED BY <1>2, <1>3, <1>4, <1>5, <1>6

LEMMA DisplaceStep == ASSUME FramesInv, SE!Displace PROVE FramesInv'
<1> USE DEF FramesInv
<1>1. /\ eKind # "exit"
      /\ eCurrent' = FALSE /\ eFresh' = FALSE
      /\ UNCHANGED <<eKind, eView, eW, eP, eI, eS, eSummary, eQuiet, eLive, eCancelled,
                     eFinalized, eStreamed, eMessage, eStored>>
  BY DEF SE!Displace, LeavingFrames, SE!Rest, SE!threads, SE!progress, SE!turn
<1>2. FrameTypes'
  BY <1>1 DEF FrameTypes, Shown, SE!IsCurrent
<1>3. LeavingFrames'
  BY <1>1 DEF LeavingFrames
<1>4. ThoughtFirst'
  BY <1>1 DEF ThoughtFirst, Speaking, Shown, SE!IsCurrent
<1>5. BlockedLast'
  BY <1>1 DEF BlockedLast, Shown, SE!IsCurrent
<1>6. AnswerShown'
  BY <1>1 DEF AnswerShown, Unsaved, Answered, Speaking, Shown, SE!IsCurrent
<1> QED BY <1>2, <1>3, <1>4, <1>5, <1>6

LEMMA StopCancelStep == ASSUME FramesInv, SE!StopCancel PROVE FramesInv'
<1> USE DEF FramesInv
<1>1. /\ eKind # "exit"
      /\ eI # "none" /\ eCancelled' = TRUE
      /\ UNCHANGED <<eKind, eView, eW, eP, eI, eSummary, eQuiet, eLive, eCurrent, eFinalized,
                     eStreamed, eMessage, eStored, eFresh>>
  BY DEF SE!StopCancel, LeavingFrames, SE!Rest, SE!progress, SE!turn, SE!storage
<1>2. FrameTypes'
  BY <1>1 DEF FrameTypes, Shown, SE!IsCurrent
<1>3. LeavingFrames'
  BY <1>1 DEF LeavingFrames
<1>4. ThoughtFirst'
  BY <1>1 DEF ThoughtFirst, Speaking, Shown, SE!IsCurrent
<1>5. BlockedLast'
  BY <1>1 DEF BlockedLast, Shown, SE!IsCurrent
<1>6. AnswerShown'
  BY <1>1 DEF AnswerShown, Unsaved, Answered, Speaking, Shown, SE!IsCurrent
<1> QED BY <1>2, <1>3, <1>4, <1>5, <1>6

LEMMA StopAnswerStep == ASSUME FramesInv, SE!StopAnswer PROVE FramesInv'
<1> USE DEF FramesInv
<1>1. /\ eKind # "exit"
      /\ eS = "answer" /\ eFresh' \in {eFresh, FALSE}
      /\ UNCHANGED <<eKind, eView, eW, eP, eI, eSummary, eQuiet, eLive, eCurrent, eCancelled,
                     eFinalized, eStreamed, eMessage, eStored>>
  BY DEF SE!StopAnswer, LeavingFrames, SE!Rest, SE!progress, SE!owner, SE!turn
<1>2. FrameTypes'
  BY <1>1 DEF FrameTypes, Shown, SE!IsCurrent
<1>3. LeavingFrames'
  BY <1>1 DEF LeavingFrames
<1>4. ThoughtFirst'
  BY <1>1 DEF ThoughtFirst, Speaking, Shown, SE!IsCurrent
<1>5. BlockedLast'
  BY <1>1 DEF BlockedLast, Shown, SE!IsCurrent
<1>6. AnswerShown'
  BY <1>1 DEF AnswerShown, Unsaved, Answered, Speaking, Shown, SE!IsCurrent
<1> QED BY <1>2, <1>3, <1>4, <1>5, <1>6

LEMMA StartStep == ASSUME FramesInv, SE!Start PROVE FramesInv'
<1> USE DEF FramesInv
<1> DEFINE entered == IF eKind = "enter" THEN SE!InSkill(SE!Blank, "target") ELSE SE!Blank
           w == SE!Progressed(SE!Began(entered), "intent")
<1>1. /\ eKind # "exit"
      /\ eW = "open" /\ eW' = "screen" /\ eP' = "sleep" /\ eI' = "open"
      /\ UNCHANGED <<eKind, eS, eSummary, eQuiet, eLive, eCurrent, eCancelled, eFinalized,
                     eStreamed, eMessage, eStored, eFresh>>
      /\ eView' = w
  BY DEF SE!Start, SE!progress, SE!owner, SE!turn, SE!storage
<1>2. /\ w \in Views /\ w.text = << >> /\ w.thinking = "streaming" /\ w.status = "streaming"
      /\ w.cards = {} /\ ~w.handoff
  <2>1. << >> \in Seq(Words)
    BY WordsOf
  <2>2. /\ entered \in Views /\ entered.thinking = "none" /\ entered.steps = {}
        /\ entered.cards = {} /\ ~entered.handoff
    BY <2>1 DEF SE!InSkill, SE!Blank, Views
  <2> DEFINE began == SE!Began(entered)
  <2> HIDE DEF entered
  <2>3. /\ began \in Views /\ began.thinking = "none" /\ began.steps = {} /\ began.text = << >>
        /\ began.cards = {} /\ ~began.handoff /\ began.status = "streaming"
    BY <2>1, <2>2 DEF SE!Began, Views
  <2> HIDE DEF began
  <2>4. ~SE!Duplicate(began.steps, "intent") /\ "intent" \in Stages
    BY <2>3 DEF SE!Duplicate, Stages
  <2>5. SE!Progressed(began, "intent")
          = [began EXCEPT !.thinking = "streaming", !.steps = began.steps \cup {"intent"}]
    BY <2>3, <2>4 DEF SE!Progressed
  <2>6. w = SE!Progressed(began, "intent")
    BY DEF began
  <2> HIDE DEF w
  <2>7. began.steps \cup {"intent"} \in SUBSET Stages
    BY <2>3, <2>4
  <2> QED BY <2>3, <2>5, <2>6, <2>7 DEF Views
<1> HIDE DEF w, entered
<1>3. SE!IsCurrent' = SE!IsCurrent
  BY <1>1 DEF SE!IsCurrent
<1>4. FrameTypes'
  BY <1>1, <1>2, <1>3 DEF FrameTypes, Shown
<1>5. LeavingFrames'
  BY <1>1 DEF LeavingFrames
<1>6. ThoughtFirst'
  BY <1>1, <1>2, <1>3 DEF ThoughtFirst, Speaking, Shown
<1>7. BlockedLast'
  BY <1>1, <1>2, <1>3, WordsOf DEF BlockedLast
<1>8. AnswerShown'
  BY <1>1, <1>2, <1>3 DEF AnswerShown, Unsaved, Answered, Speaking, Shown
<1> QED BY <1>4, <1>5, <1>6, <1>7, <1>8

\* Leaving a Skill: no step of these is of a run with a worker.
LEMMA ExitStep == ASSUME FramesInv, SE!Exit PROVE FramesInv'
<1> USE DEF FramesInv
<1>1. /\ eKind = "exit"
      /\ UNCHANGED <<eKind, eP, eI, eS, eSummary, eQuiet, eLive, eCurrent, eCancelled,
                     eFinalized, eStreamed, eMessage, eStored, eFresh>>
  BY DEF SE!Exit, SE!progress, SE!owner, SE!turn, SE!storage
<1>2. eView' \in Views /\ eView'.cards = {} /\ eView'.text # SE!Advice
      /\ \/ eW = "open" /\ eW' = "leaving" /\ eView'.status = "streaming"
         \/ eW = "leaving" /\ eW' = "left" /\ eView'.text = SE!Farewell
              /\ eView'.status = eView.status
         \/ eW = "left" /\ eW' = "closing" /\ eView'.text = SE!Farewell
  <2>1. eView \in Views /\ eView.cards = {} /\ eView.text # SE!Advice
    BY <1>1 DEF FrameTypes, LeavingFrames
  <2>2. CASE eW = "open" /\ eView' = SE!Began(eView) /\ eW' = "leaving"
    BY <2>1, <2>2, WordsOf DEF SE!Began, Views
  <2>3. CASE eW = "leaving" /\ eView' = SE!Left(eView) /\ eW' = "left"
    BY <2>1, <2>3, WordsOf DEF SE!Left, Views
  <2>4. CASE eW = "left" /\ eView' = SE!Closed(eView, "completed") /\ eW' = "closing"
    BY <1>1, <2>1, <2>4, WordsOf DEF SE!Closed, Views, LeavingFrames
  <2> QED BY <2>2, <2>3, <2>4 DEF SE!Exit
<1>3. FrameTypes'
  BY <1>1, <1>2 DEF FrameTypes, LeavingFrames
<1>4. LeavingFrames'
  BY <1>1, <1>2 DEF LeavingFrames
<1>5. ThoughtFirst'
  BY <1>1, <1>2 DEF ThoughtFirst, Speaking, LeavingFrames
<1>6. BlockedLast'
  BY <1>1, <1>2 DEF BlockedLast, LeavingFrames
<1>7. AnswerShown'
  BY <1>1, <1>2 DEF AnswerShown, Unsaved, Answered, Speaking, LeavingFrames
<1> QED BY <1>3, <1>4, <1>5, <1>6, <1>7

LEMMA ExitSaveStep == ASSUME FramesInv, SE!ExitSave PROVE FramesInv'
<1> USE DEF FramesInv
<1> DEFINE m == [SE!NoMessage EXCEPT !.text = eView.text,
                                     !.presentation = SE!Presentation(eView)]
<1>1. /\ eW = "closing" /\ eW' = "done" /\ eStored' \in {eStored, m}
      /\ UNCHANGED <<eKind, eView, eP, eI, eS, eSummary, eQuiet, eLive, eCurrent, eCancelled,
                     eFinalized, eStreamed, eMessage, eFresh>>
  BY DEF SE!ExitSave, SE!progress, SE!owner, SE!turn
<1>2. eKind = "exit"
  BY <1>1 DEF ThoughtFirst, FrameTypes
<1>3. m \in Answers /\ Shown(m)
  <2>1. /\ eView.text \in Seq(Words) /\ eView.cards \in SUBSET Cards
        /\ eView.text = SE!Farewell
    BY <1>1, <1>2 DEF FrameTypes, LeavingFrames, Views
  <2>2. SE!Presentation(eView) = [text |-> eView.text, cards |-> eView.cards]
    BY DEF SE!Presentation
  <2>3. m \in Answers /\ m.presentation = [text |-> eView.text, cards |-> eView.cards]
    <3> DEFINE p == SE!Presentation(eView)
    <3>1. p \in [text : Seq(Words), cards : SUBSET Cards]
      BY <2>1, <2>2
    <3> HIDE DEF p
    <3>2. m = [SE!NoMessage EXCEPT !.text = eView.text, !.presentation = p]
      BY DEF p
    <3> HIDE DEF m
    <3>3. m \in Answers /\ m.presentation = p
      BY <2>1, <3>1, <3>2, NoMessageOf DEF Answers
    <3> QED BY <2>2, <3>3 DEF p
  <2>4. SE!Farewell # << >>
    BY DEF SE!Farewell
  <2>5. SE!Reload(m) = m.presentation
    <3> HIDE DEF m
    <3> QED BY <2>1, <2>3, <2>4, NoMessageOf
  <2> HIDE DEF m
  <2> QED BY <2>3, <2>5 DEF Shown
<1> HIDE DEF m
<1>4. eStored = SE!NoMessage
  BY <1>1, <1>2 DEF LeavingFrames
<1>5. SE!IsCurrent' = SE!IsCurrent
  BY <1>1 DEF SE!IsCurrent
<1>6. FrameTypes'
  BY <1>1, <1>2, <1>3, <1>4, <1>5 DEF FrameTypes, Shown
<1>7. LeavingFrames'
  BY <1>1, <1>2, <1>3, <1>4 DEF LeavingFrames, Shown
<1>8. ThoughtFirst'
  BY <1>1, <1>2, <1>3, <1>4, <1>5 DEF ThoughtFirst, Speaking, Shown
<1>9. BlockedLast'
  BY <1>1, <1>2, <1>3, <1>4, <1>5 DEF BlockedLast, Shown
<1>10. AnswerShown'
  BY <1>1, <1>2, <1>3, <1>4, <1>5 DEF AnswerShown, Unsaved, Answered, Speaking, Shown
<1> QED BY <1>6, <1>7, <1>8, <1>9, <1>10

LEMMA FramesIdle == ASSUME FramesInv, UNCHANGED SE!vars PROVE FramesInv'
<1>1. /\ UNCHANGED <<eKind, eView, eW, eP, eI, eS, eSummary, eQuiet, eLive, eCurrent>>
      /\ UNCHANGED <<eCancelled, eFinalized, eStreamed, eMessage, eStored, eFresh>>
  BY DEF SE!vars, SE!threads, SE!progress, SE!owner, SE!turn, SE!storage
<1>2. FrameTypes' /\ LeavingFrames' /\ ThoughtFirst' /\ BlockedLast'
  BY <1>1
     DEF FramesInv, FrameTypes, LeavingFrames, ThoughtFirst, BlockedLast, Shown, SE!IsCurrent
<1>3. AnswerShown'
  BY <1>1 DEF FramesInv, AnswerShown, Shown, SE!IsCurrent
<1> QED BY <1>2, <1>3 DEF FramesInv

LEMMA FramesInit == ASSUME SE!Init PROVE FramesInv
<1>1. << >> \in Seq(Words) /\ SE!Advice # << >> /\ SE!NoMessage \in Answers
      /\ << >> \in Seq({"part", "reviewed"}) /\ << >> \in Seq({"part"})
  BY WordsOf, NoMessageOf
<1>2. SE!Blank \in Views
  BY <1>1 DEF SE!Blank, Views
<1>3. /\ SE!Blank.text = << >> /\ SE!Blank.cards = {} /\ SE!Blank.status = "streaming"
  BY DEF SE!Blank
<1>4. FrameTypes
  BY <1>1, <1>2, NoMessageOf DEF SE!Init, FrameTypes
<1>5. LeavingFrames
  BY <1>1, <1>3 DEF SE!Init, LeavingFrames
<1>6. ThoughtFirst /\ BlockedLast
  BY <1>1, <1>3 DEF SE!Init, ThoughtFirst, BlockedLast, Speaking
<1>7. AnswerShown
  BY <1>3, NoMessageOf DEF SE!Init, AnswerShown, Unsaved, Answered, Speaking
<1> QED BY <1>4, <1>5, <1>6, <1>7 DEF FramesInv

LEMMA FramesStep == ASSUME FramesInv, [SE!Next]_(SE!vars) PROVE FramesInv'
<1>1. CASE SE!Worker
  BY <1>1, ScreenStep, ThinkStep, ReportStep, SummariseStep, FinishThinkingStep, SpeakStep,
     HandleStep, ReturnedStep, ModerateStep, ContentEndStep, PostProcessStep, SaveAnswerStep,
     ActStep, PresentStep, FinalMessageStep, CompleteStep, SaveCompletedStep, ErrorStep,
     BlockedStep, FinishStep, FinalizeByWorkerStep
     DEF SE!Worker
<1> QED BY <1>1, StartStep, ExitStep, ExitSaveStep, SimulateStep, NoticeStep, StopReadingStep,
           CloseStep, DisplaceStep, StopCancelStep, StopAnswerStep, FramesIdle
        DEF SE!Next

-----------------------------------------------------------------------------
(* The theorems of the frames.                                             *)

\* The timeline is finished under the answer, and the history serves what the frames had
\* shown, of every run that no stop took over.
THEOREM FramesTheorem == SE!Spec => []HistoryMatchesFrames
<1>1. FramesInv => HistoryMatchesFrames
  <2>1. FramesInv => SE!ThinkingEnds
    BY DEF FramesInv, ThoughtFirst, SE!ThinkingEnds
  <2>2. FramesInv => SE!ReloadedAsShown
    BY DEF FramesInv, LeavingFrames, AnswerShown, Shown, SE!ReloadedAsShown, FrameTypes
  <2> QED BY <2>1, <2>2 DEF HistoryMatchesFrames
<1>2. SE!Spec => []FramesInv
  BY FramesInit, FramesStep, PTL DEF SE!Spec
<1> QED BY <1>1, <1>2, PTL

\* After a block, every step of a run leaves the blocked text alone, and with it no card or
\* handoff appears.
LEMMA BlockedKept == ASSUME FramesInv, [SE!Next]_(SE!vars) PROVE SE!BlockedStays
<1> SUFFICES ASSUME eView.text = SE!Advice
             PROVE  eView'.text = SE!Advice /\ eView'.cards = {} /\ ~eView'.handoff
  BY DEF SE!BlockedStays
<1>1. eKind # "exit" /\ eW \in {"finish", "done"}
  BY DEF FramesInv, LeavingFrames, BlockedLast
<1>2. FramesInv'
  BY FramesStep
<1>3. eKind' = eKind /\ eView'.text = eView.text
  <2>1. CASE SE!Finish \/ UNCHANGED SE!vars
    BY <2>1 DEF SE!Finish, SE!Rest, SE!vars
  <2>2. CASE SE!Simulate
    BY <2>2, SimulateOf DEF Onward, Calm
  <2>3. CASE SE!Notice
    BY <2>3, NoticeOf DEF Ceased, Steady, Calm
  <2>4. CASE SE!StopReading \/ SE!Close \/ SE!Displace \/ SE!StopCancel \/ SE!StopAnswer
    BY <2>4 DEF SE!StopReading, SE!Close, SE!Displace, SE!StopCancel, SE!StopAnswer, SE!Others
  <2>5. CASE SE!Start \/ SE!Exit \/ SE!ExitSave
    BY <1>1, <2>5 DEF SE!Start, SE!Exit, SE!ExitSave
  <2>6. CASE SE!Worker /\ ~SE!Finish
    BY <1>1, <2>6
       DEF SE!Worker, SE!Screen, SE!Think, SE!Report, SE!Summarise, SE!FinishThinking, SE!Speak,
           SE!Work, SE!Returned, SE!Moderate, SE!ContentEnd, SE!PostProcess, SE!SaveAnswer,
           SE!Act, SE!Present, SE!FinalMessage, SE!Complete, SE!SaveCompleted, SE!Error,
           SE!Blocked, SE!FinalizeByWorker
  <2> QED BY <2>1, <2>2, <2>3, <2>4, <2>5, <2>6 DEF SE!Next
<1> QED BY <1>1, <1>2, <1>3 DEF FramesInv, BlockedLast

\* A blocked answer is not shown again: a late stop, the progress thread and the end of the
\* run leave its text, and bring back no card.
THEOREM BlockedTheorem == SE!Spec => BlockedStays
<1>1. SE!Spec => []FramesInv
  BY FramesInit, FramesStep, PTL DEF SE!Spec
<1>2. UNCHANGED eVars => UNCHANGED SE!vars
  BY DEF eVars, SE!vars, SE!threads, SE!progress, SE!owner, SE!turn, SE!storage
<1>3. FramesInv /\ [SE!Next]_(SE!vars) => [SE!BlockedStays]_eVars
  BY BlockedKept
<1> QED BY <1>1, <1>3, PTL DEF SE!Spec, BlockedStays

=============================================================================
