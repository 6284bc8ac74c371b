----------------------------- MODULE FactStores -----------------------------
(***************************************************************************)
(* The three layers of facts of one user (core/fact_service.py,             *)
(* core/context.py): facts shared by the family, facts of a child, facts of *)
(* a session's branch.  The first two are one row each, written whole and   *)
(* whatever its version; the third is part of the session row, written      *)
(* whole against the version that was read.                                 *)
(*                                                                          *)
(* A turn opens the session for a child (or for none), seeds facts, is      *)
(* claimed, reads everything again, answers, and writes everything back.    *)
(* The facts API edits the stores next to it, through the context of any    *)
(* session of the user.  The value of a fact is the turn or edit that wrote *)
(* it, so a value tells where it comes from.                                *)
(***************************************************************************)
EXTENDS Naturals, FiniteSets

CONSTANTS
  Children, Unbound, \* the child profiles; a conversation about none of them
  Sessions,          \* the user's sessions
  Keys, Scope,       \* [Keys -> {"shared", "profile", "session"}]: scope_policy
  Turns, SessionOf,  \* [Turns -> Sessions]
  ChildOf,           \* [Turns -> Children \cup {Unbound}]: context_data, context_scope
  SeedKeys,          \* facts that context_data carries
  SchoolKeys,        \* the child's school facts among them
  Told,              \* bound: the sets of facts one answer may record
  Racing,            \* turns sent before the session's other turns have ended
  Puts,              \* users/{id}/facts:batch-upsert or facts:reset
  Clears,            \* users/{id}/facts:clear-by-source, selecting the puts' source
  ChildEdits, EditChild, \* the same of profiles/{id}: [ChildEdits -> Children]
  Asked,             \* bound: the facts that the API's edits name
  None

Scopes == Children \cup {Unbound}
Edits == Puts \cup Clears \cup ChildEdits
Writers == Turns \cup Puts \cup ChildEdits

ASSUME FactsAssumption ==
  /\ Scope \in [Keys -> {"shared", "profile", "session"}]
  /\ SessionOf \in [Turns -> Sessions]
  /\ ChildOf \in [Turns -> Scopes]
  /\ SeedKeys \subseteq Keys /\ SchoolKeys \subseteq SeedKeys
  /\ Told \subseteq SUBSET Keys /\ Asked \subseteq Keys
  /\ Racing \subseteq Turns
  /\ EditChild \in [ChildEdits -> Children]
  /\ Unbound \notin Children
  /\ None \notin Writers
  /\ Turns \cap Edits = {} /\ Puts \cap Clears = {} /\ ChildEdits \cap (Puts \cup Clears) = {}

VARIABLES
  shared,   \* advisor shared facts of the user
  profile,  \* facts of each child
  row,      \* advisor_sessions: one row per session
  tpc, ctx, \* where a turn is, its SessionContext
  seed,     \* the profile facts _seed_profile has read
  epc, ecopy, ebound \* an edit: stage, facts read, does its context have a child?

stores == <<shared, profile>>
turn == <<tpc, ctx, seed>>
edit == <<epc, ecopy, ebound>>
vars == <<stores, row, turn, edit>>

Facts == [Keys -> Writers \cup {None}]
NoFacts == [k \in Keys |-> None]

Context == [ver : Nat, child : Scopes, session : Facts, branches : [Scopes -> Facts],
            shared : Facts, profile : Facts, running : SUBSET Turns]

NewSession == [ver |-> 1, child |-> Unbound, session |-> NoFacts,
               branches |-> [b \in Scopes |-> NoFacts],
               shared |-> NoFacts, profile |-> NoFacts, running |-> {}]

Init ==
  /\ shared = NoFacts
  /\ profile = [c \in Children |-> NoFacts]
  /\ row = [s \in Sessions |-> NewSession]
  /\ tpc = [t \in Turns |-> "new"]
  /\ ctx = [t \in Turns |-> NewSession]
  /\ seed = [t \in Turns |-> NoFacts]
  /\ epc = [e \in Edits |-> "new"]
  /\ ecopy = [e \in Edits |-> NoFacts]
  /\ ebound = [e \in Edits |-> FALSE]

-----------------------------------------------------------------------------
(* SessionContext *)

With(facts, K, w) == [k \in Keys |-> IF k \in K THEN w ELSE facts[k]]

InScope(K, scope) == {k \in K : Scope[k] = scope}

\* update_fact, for each of the keys K.
UpdateFacts(c, K, w) ==
  IF c.child = Unbound THEN [c EXCEPT !.session = With(@, K, w)]
  ELSE [c EXCEPT !.shared = With(@, InScope(K, "shared"), w),
                 !.profile = With(@, InScope(K, "profile"), w),
                 !.session = With(@, InScope(K, "session"), w)]

\* sync_active_branch
SyncBranch(c) == [c EXCEPT !.branches[c.child] = c.session]

\* Mutant: the branch that is left is stored under the new child.
ActivateThenSync(c, target) ==
  [c EXCEPT !.child = target, !.branches[target] = c.session]

\* activate_profile_branch, activate_unbound_branch
Activate(c, target) ==
  IF c.child = target THEN c
  ELSE [SyncBranch(c) EXCEPT !.child = target, !.session = c.branches[target]]

\* Mutant: an unbound conversation keeps what the snapshot had.
HydrateBound(c) ==
  IF c.child = Unbound THEN c
  ELSE [c EXCEPT !.shared = shared, !.profile = profile[c.child]]

\* Mutant: facts already in the snapshot are not read again.
HydrateOnce(c) ==
  IF c.child = Unbound THEN [c EXCEPT !.shared = NoFacts, !.profile = NoFacts]
  ELSE [c EXCEPT !.shared = IF @ = NoFacts THEN shared ELSE @,
                 !.profile = profile[c.child]]

\* FactService.hydrate_context
Hydrated(c) ==
  IF c.child = Unbound THEN [c EXCEPT !.shared = NoFacts, !.profile = NoFacts]
  ELSE [c EXCEPT !.shared = shared, !.profile = profile[c.child]]

Bump(c) == [c EXCEPT !.ver = @ + 1]

\* PostgresSessionRepository.save: the snapshot includes all layers of facts.
Saved(s, c) == c.ver = row[s].ver /\ row' = [row EXCEPT ![s] = Bump(SyncBranch(c))]
SaveConflicts(s, c) == c.ver # row[s].ver /\ UNCHANGED row

\* A write that is retried with a fresh copy: one read-modify-write.
SetRunning(s, claims) == row' = [row EXCEPT ![s] = Bump([row[s] EXCEPT !.running = claims])]

-----------------------------------------------------------------------------
(* A turn *)

Goto(t, stage) == tpc' = [tpc EXCEPT ![t] = stage]

\* The turn is done with its context.
Release(t) == ctx' = [ctx EXCEPT ![t] = NewSession]

Ended == {"refused", "conflict", "done"}

\* post_chat_stream: a switch of the child is refused while a run is claimed.
Check(t) ==
  LET r == row[SessionOf[t]] IN
  /\ tpc[t] = "new"
  /\ t \in Racing \/ \A u \in Turns :
        SessionOf[u] = SessionOf[t] => tpc[u] \in Ended \cup {"new"}
  /\ Goto(t, IF r.child # ChildOf[t] /\ r.running # {} THEN "refused" ELSE "checked")
  /\ UNCHANGED <<stores, row, ctx, seed, edit>>

\* open_or_resume_session: read the session, read the child's facts.
Open(t) ==
  /\ tpc[t] = "checked"
  /\ ctx' = [ctx EXCEPT ![t] = Activate(row[SessionOf[t]], ChildOf[t])]
  /\ IF ChildOf[t] = Unbound
       THEN Goto(t, "open_hydrate") /\ UNCHANGED seed
       ELSE Goto(t, "seed") /\ seed' = [seed EXCEPT ![t] = profile[ChildOf[t]]]
  /\ UNCHANGED <<stores, row, edit>>

\* _seed_profile: the child's facts are written back, school facts added.
SaveSeed(t) ==
  /\ tpc[t] = "seed"
  /\ profile' = [profile EXCEPT ![ChildOf[t]] = With(seed[t], SchoolKeys, t)]
  /\ seed' = [seed EXCEPT ![t] = NoFacts]
  /\ Goto(t, "open_hydrate")
  /\ UNCHANGED <<shared, row, ctx, edit>>

\* hydrate_context and _seed_context_facts
OpenHydrate(t) ==
  LET c == Hydrated(ctx[t]) IN
  /\ tpc[t] = "open_hydrate"
  /\ IF ChildOf[t] = Unbound
       THEN ctx' = [ctx EXCEPT ![t] = c] /\ Goto(t, "open_save")
       ELSE ctx' = [ctx EXCEPT ![t] = UpdateFacts(c, SeedKeys, t)] /\ Goto(t, "open_shared")
  /\ UNCHANGED <<stores, row, seed, edit>>

\* persist_context, first half: the family's facts, written blind.
PersistShared(t) ==
  /\ tpc[t] \in {"open_shared", "run_shared"}
  /\ IF ctx[t].child = Unbound THEN UNCHANGED shared ELSE shared' = ctx[t].shared
  /\ Goto(t, IF tpc[t] = "open_shared" THEN "open_profile" ELSE "run_profile")
  /\ UNCHANGED <<profile, row, ctx, seed, edit>>

\* ... second half: the child's facts, written blind.
PersistProfile(t) ==
  /\ tpc[t] \in {"open_profile", "run_profile"}
  /\ IF ctx[t].child = Unbound THEN UNCHANGED profile
     ELSE profile' = [profile EXCEPT ![ctx[t].child] = ctx[t].profile]
  /\ Goto(t, IF tpc[t] = "open_profile" THEN "open_save" ELSE "run_save")
  /\ UNCHANGED <<shared, row, ctx, seed, edit>>

\* The session with its new branch is saved; a conflict is answered 409.
SaveOpen(t) ==
  /\ tpc[t] = "open_save"
  /\ \/ Saved(SessionOf[t], ctx[t]) /\ Goto(t, "claim")
     \/ SaveConflicts(SessionOf[t], ctx[t]) /\ Goto(t, "conflict")
  /\ Release(t)
  /\ UNCHANGED <<stores, seed, edit>>

\* _commit_run_action
Claim(t) ==
  /\ tpc[t] = "claim"
  /\ SetRunning(SessionOf[t], row[SessionOf[t]].running \cup {t})
  /\ Goto(t, "start")
  /\ UNCHANGED <<stores, ctx, seed, edit>>

\* stream_message reads the session again ...
Start(t) ==
  /\ tpc[t] = "start"
  /\ ctx' = [ctx EXCEPT ![t] = row[SessionOf[t]]]
  /\ Goto(t, "run_hydrate")
  /\ UNCHANGED <<stores, row, seed, edit>>

\* ... and the stores.
RunHydrate(t) ==
  /\ tpc[t] = "run_hydrate"
  /\ ctx' = [ctx EXCEPT ![t] = Hydrated(@)]
  /\ Goto(t, "work")
  /\ UNCHANGED <<stores, row, seed, edit>>

\* The turn records facts and goes on to persist_context, or fails, which
\* saves the session but not the stores, or is displaced, which saves nothing.
Answer(t) ==
  /\ tpc[t] = "work"
  /\ \/ /\ \E K \in Told : ctx' = [ctx EXCEPT ![t] = UpdateFacts(@, K, t)]
        /\ Goto(t, "run_shared") \/ Goto(t, "run_save")
     \/ Release(t) /\ Goto(t, "end")
  /\ UNCHANGED <<stores, row, seed, edit>>

\* The turn's save of the session; a conflict is swallowed.
SaveTurn(t) ==
  /\ tpc[t] = "run_save"
  /\ Saved(SessionOf[t], ctx[t]) \/ SaveConflicts(SessionOf[t], ctx[t])
  /\ Goto(t, "end")
  /\ Release(t)
  /\ UNCHANGED <<stores, seed, edit>>

\* _persist_terminal_run_status closes the ledger entry.
End(t) ==
  /\ tpc[t] = "end"
  /\ SetRunning(SessionOf[t], row[SessionOf[t]].running \ {t})
  /\ Goto(t, "done")
  /\ UNCHANGED <<stores, ctx, seed, edit>>

-----------------------------------------------------------------------------
(* The facts API.  _build_shadow_context takes the first session of the user *)
(* that the repository lists, in no particular order.                        *)

EditGoto(e, stage) == epc' = [epc EXCEPT ![e] = stage]

Answered(e) ==
  /\ EditGoto(e, "done")
  /\ ecopy' = [ecopy EXCEPT ![e] = NoFacts]
  /\ ebound' = [ebound EXCEPT ![e] = FALSE]

SharedRead(e) ==
  /\ e \in Puts \cup Clears /\ epc[e] = "new"
  /\ \E s \in Sessions :
       /\ ebound' = [ebound EXCEPT ![e] = row[s].child # Unbound]
       /\ ecopy' = [ecopy EXCEPT ![e] = Hydrated(row[s]).shared]
  /\ EditGoto(e, "read")
  /\ UNCHANGED <<stores, row, turn>>

\* batch_upsert or reset of a fact, and _persist_scope
Put(e) ==
  /\ e \in Puts /\ epc[e] = "read"
  /\ \E k \in Asked, w \in {e, None} :
       IF ebound[e] THEN shared' = With(ecopy[e], {k}, w) ELSE UNCHANGED shared
  /\ Answered(e)
  /\ UNCHANGED <<profile, row, turn>>

\* clear_user_facts_by_source
Clear(e) ==
  /\ e \in Clears /\ epc[e] = "read"
  /\ shared' = With(ecopy[e], {k \in Keys : ecopy[e][k] \in Puts}, None)
  /\ Answered(e)
  /\ UNCHANGED <<profile, row, turn>>

\* The profile endpoint sets the context's child itself.
ChildRead(e) ==
  /\ e \in ChildEdits /\ epc[e] = "new"
  /\ ecopy' = [ecopy EXCEPT ![e] = profile[EditChild[e]]]
  /\ ebound' = [ebound EXCEPT ![e] = TRUE]
  /\ EditGoto(e, "read")
  /\ UNCHANGED <<stores, row, turn>>

ChildPut(e) ==
  /\ e \in ChildEdits /\ epc[e] = "read"
  /\ \E k \in Asked, w \in {e, None} :
       profile' = [profile EXCEPT ![EditChild[e]] = With(ecopy[e], {k}, w)]
  /\ Answered(e)
  /\ UNCHANGED <<shared, row, turn>>

-----------------------------------------------------------------------------

TurnStep(t) ==
  \/ Check(t) \/ Open(t) \/ SaveSeed(t) \/ OpenHydrate(t)
  \/ PersistShared(t) \/ PersistProfile(t) \/ SaveOpen(t) \/ Claim(t)
  \/ Start(t) \/ RunHydrate(t) \/ Answer(t) \/ SaveTurn(t) \/ End(t)

EditStep(e) == SharedRead(e) \/ Put(e) \/ Clear(e) \/ ChildRead(e) \/ ChildPut(e)

Next == \/ \E t \in Turns : TurnStep(t)
        \/ \E e \in Edits : EditStep(e)

Spec == Init /\ [][Next]_vars

-----------------------------------------------------------------------------
(* Properties *)

Stages == {"new", "checked", "seed", "open_hydrate", "open_shared", "open_profile",
           "open_save", "claim", "start", "run_hydrate", "work", "run_shared",
           "run_profile", "run_save", "end"} \cup Ended

Claimed == {"start", "run_hydrate", "work", "run_shared", "run_profile", "run_save", "end"}

TypeOK ==
  /\ shared \in Facts
  /\ profile \in [Children -> Facts]
  /\ row \in [Sessions -> Context]
  /\ tpc \in [Turns -> Stages]
  /\ ctx \in [Turns -> Context]
  /\ seed \in [Turns -> Facts]
  /\ epc \in [Edits -> {"new", "read", "done"}]
  /\ ecopy \in [Edits -> Facts]
  /\ ebound \in [Edits -> BOOLEAN]
  /\ \A s \in Sessions : \A t \in row[s].running : SessionOf[t] = s /\ tpc[t] \in Claimed

\* Whom a writer writes about.
About(w) == IF w \in Turns THEN ChildOf[w]
            ELSE IF w \in ChildEdits THEN EditChild[w] ELSE Unbound

OnlyAbout(facts, b) == \A k \in Keys : facts[k] = None \/ About(facts[k]) = b

\* What was said about one child, or about none, is never found among the
\* facts of another one: not in its profile, not in its branch of a session.
ChildrenApart ==
  /\ \A c \in Children : OnlyAbout(profile[c], c)
  /\ \A s \in Sessions, b \in Scopes : OnlyAbout(row[s].branches[b], b)

Hydrations == {"open_save", "work", "run_shared", "run_profile", "run_save"}

\* A conversation about no child writes nothing to the account, and reads
\* nothing of it.
UnboundApart ==
  /\ \A k \in Keys : shared[k] = None \/ shared[k] \in Puts \/ About(shared[k]) # Unbound
  /\ \A t \in Turns : ctx[t].child = Unbound /\ tpc[t] \in Hydrations =>
                        ctx[t].shared = NoFacts /\ ctx[t].profile = NoFacts

InUse(t) == tpc[t] \in {"open_shared", "open_profile", "work", "run_shared", "run_profile"}

\* w's request is over, and what it said of k is in no store and in no
\* request's hands; session rows may still have it in their snapshots.
Gone(w, k) ==
  /\ IF w \in Turns THEN tpc[w] \in Ended ELSE epc[w] = "done"
  /\ shared[k] # w /\ \A c \in Children : profile[c][k] # w
  /\ \A t \in Turns : /\ InUse(t) => ctx[t].shared[k] # w /\ ctx[t].profile[k] # w
                      /\ seed[t][k] # w
  /\ \A e \in Edits : ecopy[e][k] # w

\* A fact that was replaced or cleared does not come back from the snapshots
\* that the session rows keep of the stores.
GoneForGood == [][\A w \in Writers, k \in Keys : Gone(w, k) => Gone(w, k)']_vars
=============================================================================
