-------------------------- MODULE FactStoresProofs --------------------------
(***************************************************************************)
(* Theorems of FactStores for any children, sessions, keys, turns and edits,*)
(* and whether or not a session's turns are sent one after the other.       *)
(***************************************************************************)
EXTENDS FactStores, TLAPS

-----------------------------------------------------------------------------
(* Contexts *)

\* Overwriting some facts gives facts again.
LEMMA WithType ==
  ASSUME NEW facts \in Facts, NEW K, NEW w \in Writers \cup {None}
  PROVE  With(facts, K, w) \in Facts
BY DEF With, Facts

LEMMA NewSessionType == NewSession \in Context /\ NoFacts \in Facts
BY DEF NewSession, Context, NoFacts, Facts, Scopes

\* What the operations on a context leave alone.
SameClaims(d, c) == d.ver = c.ver /\ d.running = c.running

LEMMA UpdateFactsType ==
  ASSUME NEW c \in Context, NEW K, NEW w \in Writers
  PROVE  /\ UpdateFacts(c, K, w) \in Context
         /\ SameClaims(UpdateFacts(c, K, w), c)
         /\ UpdateFacts(c, K, w).child = c.child
<1>1. CASE c.child = Unbound
  <2>1. With(c.session, K, w) \in Facts
    BY WithType DEF Context
  <2>2. UpdateFacts(c, K, w) = [c EXCEPT !.session = With(c.session, K, w)]
    BY <1>1 DEF UpdateFacts
  <2>3. QED
    BY <2>1, <2>2 DEF Context, SameClaims
<1>2. CASE c.child # Unbound
  <2> DEFINE sh == With(c.shared, InScope(K, "shared"), w)
             pr == With(c.profile, InScope(K, "profile"), w)
             se == With(c.session, InScope(K, "session"), w)
  <2>1. sh \in Facts /\ pr \in Facts /\ se \in Facts
    BY WithType DEF Context
  <2>2. UpdateFacts(c, K, w) = [c EXCEPT !.shared = sh, !.profile = pr, !.session = se]
    BY <1>2 DEF UpdateFacts, Context
  <2> HIDE DEF sh, pr, se
  <2>3. QED
    BY <2>1, <2>2 DEF Context, SameClaims
<1>3. QED
  BY <1>1, <1>2

LEMMA SyncBranchType ==
  ASSUME NEW c \in Context
  PROVE  SyncBranch(c) \in Context /\ SameClaims(SyncBranch(c), c)
BY DEF SyncBranch, Context, SameClaims

LEMMA ActivateType ==
  ASSUME NEW c \in Context, NEW target \in Scopes
  PROVE  Activate(c, target) \in Context /\ SameClaims(Activate(c, target), c)
<1>1. c.branches[target] \in Facts
  BY DEF Context
<1>2. SyncBranch(c) \in Context /\ SameClaims(SyncBranch(c), c)
  BY SyncBranchType
<1>3. QED
  BY <1>1, <1>2 DEF Activate, Context, SameClaims

StoresType == shared \in Facts /\ profile \in [Children -> Facts]

LEMMA HydratedType ==
  ASSUME StoresType, NEW c \in Context
  PROVE  Hydrated(c) \in Context /\ SameClaims(Hydrated(c), c)
<1>1. CASE c.child = Unbound
  BY <1>1, NewSessionType DEF Hydrated, Context, SameClaims
<1>2. CASE c.child # Unbound
  <2>1. profile[c.child] \in Facts
    BY <1>2 DEF StoresType, Context, Scopes
  <2>2. QED
    BY <1>2, <2>1 DEF Hydrated, Context, SameClaims, StoresType
<1>3. QED
  BY <1>1, <1>2

LEMMA BumpType ==
  ASSUME NEW c \in Context
  PROVE  Bump(c) \in Context /\ Bump(c).ver = c.ver + 1 /\ Bump(c).running = c.running
BY DEF Bump, Context

-----------------------------------------------------------------------------
(* The inductive invariant: a copy of a row that may still be saved is no    *)
(* newer than the row, and one of the same version knows the same claims.    *)

Holding == {"seed", "open_hydrate", "open_shared", "open_profile", "open_save",
            "run_hydrate", "work", "run_shared", "run_profile", "run_save"}

Behind(c, r) == c.ver <= r.ver /\ (c.ver = r.ver => c.running = r.running)

CopiesFresh ==
  \A t \in Turns : tpc[t] \in Holding => Behind(ctx[t], row[SessionOf[t]])

Inv == TypeOK /\ CopiesFresh

ClaimsKnown == \A s \in Sessions : \A t \in row[s].running : SessionOf[t] = s /\ tpc[t] \in Claimed

TypesButClaims ==
  /\ StoresType
  /\ row \in [Sessions -> Context]
  /\ tpc \in [Turns -> Stages]
  /\ ctx \in [Turns -> Context]
  /\ seed \in [Turns -> Facts]
  /\ epc \in [Edits -> {"new", "read", "done"}]
  /\ ecopy \in [Edits -> Facts]
  /\ ebound \in [Edits -> BOOLEAN]

LEMMA TypeParts ==
  /\ TypeOK <=> TypesButClaims /\ ClaimsKnown
  /\ TypeOK' <=> TypesButClaims' /\ ClaimsKnown'
BY DEF TypeOK, TypesButClaims, StoresType, ClaimsKnown

LEMMA InitInv == Init => Inv
<1>1. ASSUME Init PROVE TypesButClaims
  BY <1>1, NewSessionType DEF Init, TypesButClaims, StoresType, Stages
<1>2. ASSUME Init PROVE ClaimsKnown
  BY <1>2 DEF Init, ClaimsKnown, NewSession
<1>3. ASSUME Init PROVE CopiesFresh
  BY <1>3 DEF Init, CopiesFresh, Holding
<1>4. QED
  BY <1>1, <1>2, <1>3, TypeParts DEF Inv

\* A turn moves on without a write of any row: its copy is the row as it is
\* or the copy that it had, its claims untouched.
LEMMA TurnMoves ==
  ASSUME Inv, NEW t \in Turns, NEW stage \in Stages,
         Goto(t, stage), UNCHANGED row,
         tpc[t] \in Claimed => stage \in Claimed,
         stage \in Holding => \/ tpc[t] \in Holding /\ SameClaims(ctx'[t], ctx[t])
                              \/ SameClaims(ctx'[t], row[SessionOf[t]]),
         \A u \in Turns \ {t} : ctx'[u] = ctx[u]
  PROVE  ClaimsKnown' /\ CopiesFresh'
<1>1. /\ TypesButClaims /\ ClaimsKnown /\ CopiesFresh
  BY TypeParts DEF Inv
<1>2. /\ tpc'[t] = stage
      /\ \A u \in Turns \ {t} : tpc'[u] = tpc[u]
  BY <1>1 DEF Goto, TypesButClaims
<1>3. ClaimsKnown'
  <2>1. ASSUME NEW s \in Sessions, NEW u \in row[s].running
        PROVE  SessionOf[u] = s /\ tpc'[u] \in Claimed
    <3>1. u \in Turns
      BY <1>1, FactsAssumption DEF TypesButClaims, Context
    <3>2. SessionOf[u] = s /\ tpc[u] \in Claimed
      BY <1>1 DEF ClaimsKnown
    <3>3. QED
      BY <1>2, <3>1, <3>2
  <2>2. QED
    BY <2>1 DEF ClaimsKnown
<1>4. CopiesFresh'
  <2>1. ASSUME NEW u \in Turns, tpc'[u] \in Holding
        PROVE  Behind(ctx'[u], row[SessionOf[u]])
    <3>1. SessionOf[u] \in Sessions /\ row[SessionOf[u]] \in Context
      BY <1>1, FactsAssumption DEF TypesButClaims
    <3>2. CASE u # t
      BY <3>2, <2>1, <1>1, <1>2 DEF CopiesFresh
    <3>3. CASE u = t
      BY <3>3, <3>1, <2>1, <1>1, <1>2 DEF CopiesFresh, Behind, SameClaims, Context
    <3>4. QED
      BY <3>2, <3>3
  <2>2. QED
    BY <2>1 DEF CopiesFresh
<1>5. QED
  BY <1>3, <1>4

\* A turn writes its session's row, under the next version, and keeps the
\* claims, its own perhaps excepted, and no copy.
LEMMA TurnWrites ==
  ASSUME Inv, NEW t \in Turns, NEW stage \in Stages \ Holding,
         Goto(t, stage), NEW c \in Context,
         row' = [row EXCEPT ![SessionOf[t]] = c],
         c.ver = row[SessionOf[t]].ver + 1,
         \/ c.running = row[SessionOf[t]].running /\ (tpc[t] \in Claimed => stage \in Claimed)
         \/ c.running = row[SessionOf[t]].running \cup {t} /\ stage \in Claimed
         \/ c.running = row[SessionOf[t]].running \ {t},
         \A u \in Turns \ {t} : ctx'[u] = ctx[u]
  PROVE  ClaimsKnown' /\ CopiesFresh' /\ row' \in [Sessions -> Context]
<1> DEFINE s == SessionOf[t]
<1>1. /\ TypesButClaims /\ ClaimsKnown /\ CopiesFresh
  BY TypeParts DEF Inv
<1>2. /\ tpc'[t] = stage
      /\ \A u \in Turns \ {t} : tpc'[u] = tpc[u]
  BY <1>1 DEF Goto, TypesButClaims
<1>3. /\ s \in Sessions
      /\ row'[s] = c
      /\ \A x \in Sessions \ {s} : row'[x] = row[x]
      /\ row' \in [Sessions -> Context]
  BY <1>1, FactsAssumption DEF TypesButClaims
<1>4. ClaimsKnown'
  <2>1. ASSUME NEW x \in Sessions, NEW u \in row'[x].running
        PROVE  SessionOf[u] = x /\ tpc'[u] \in Claimed
    <3>1. u \in Turns
      BY <1>3 DEF Context
    <3>2. CASE u = t /\ x = s /\ u \notin row[x].running
      BY <3>2, <1>2, <1>3
    <3>3. CASE u \in row[x].running /\ u # t
      BY <3>3, <3>1, <1>1, <1>2 DEF ClaimsKnown
    <3>4. CASE u \in row[x].running /\ u = t
      <4>1. SessionOf[u] = x /\ tpc[u] \in Claimed
        BY <3>4, <1>1 DEF ClaimsKnown
      <4>2. QED
        BY <4>1, <3>4, <1>2, <1>3
    <3>5. u \in row[x].running \/ (u = t /\ x = s)
      BY <1>3
    <3>6. QED
      BY <3>2, <3>3, <3>4, <3>5
  <2>2. QED
    BY <2>1 DEF ClaimsKnown
<1>5. CopiesFresh'
  <2>1. ASSUME NEW u \in Turns, tpc'[u] \in Holding
        PROVE  Behind(ctx'[u], row'[SessionOf[u]])
    <3>1. u # t /\ tpc[u] \in Holding /\ ctx'[u] = ctx[u]
      BY <2>1, <1>2
    <3>2. Behind(ctx[u], row[SessionOf[u]])
      BY <3>1, <1>1 DEF CopiesFresh
    <3>3. CASE SessionOf[u] = s
      <4>1. ctx[u].ver \in Nat /\ row[s].ver \in Nat
        BY <1>1, <1>3 DEF TypesButClaims, Context
      <4>2. ctx[u].ver <= row[s].ver /\ row'[SessionOf[u]].ver = row[s].ver + 1
        BY <3>2, <3>3, <1>3 DEF Behind
      <4>3. ctx[u].ver <= row'[SessionOf[u]].ver /\ ctx[u].ver # row'[SessionOf[u]].ver
        BY <4>1, <4>2
      <4>4. QED
        BY <4>3, <3>1 DEF Behind
    <3>4. CASE SessionOf[u] # s
      BY <3>1, <3>2, <3>4, <1>3, FactsAssumption
    <3>5. QED
      BY <3>3, <3>4
  <2>2. QED
    BY <2>1 DEF CopiesFresh
<1>6. QED
  BY <1>3, <1>4, <1>5

-----------------------------------------------------------------------------
(* Each action keeps the invariant. *)

\* What the actions of a turn move: its stage, its context, the facts it read.
LEMMA TurnTypes ==
  ASSUME TypesButClaims, NEW t \in Turns, NEW stage \in Stages, Goto(t, stage),
         NEW c \in Context, ctx' = [ctx EXCEPT ![t] = c],
         NEW f \in Facts, seed' = [seed EXCEPT ![t] = f],
         StoresType', row' \in [Sessions -> Context], UNCHANGED edit
  PROVE  TypesButClaims'
BY DEF TypesButClaims, Goto, edit

\* A turn's stage and context belong together.
LEMMA TurnReads ==
  ASSUME Inv, NEW t \in Turns
  PROVE  /\ SessionOf[t] \in Sessions /\ ChildOf[t] \in Scopes
         /\ row[SessionOf[t]] \in Context
         /\ ctx[t] \in Context /\ seed[t] \in Facts /\ StoresType
         /\ ctx = [ctx EXCEPT ![t] = ctx[t]] /\ seed = [seed EXCEPT ![t] = seed[t]]
         /\ ctx[t].child \in Scopes /\ ctx[t].shared \in Facts /\ ctx[t].profile \in Facts
BY TypeParts, FactsAssumption DEF Inv, TypesButClaims, Context

LEMMA StageSets ==
  /\ Claimed \subseteq Stages /\ Holding \subseteq Stages /\ Ended \subseteq Stages
BY DEF Claimed, Holding, Stages, Ended

LEMMA CheckInv == ASSUME Inv, NEW t \in Turns, Check(t) PROVE Inv'
<1> DEFINE stage == IF row[SessionOf[t]].child # ChildOf[t] /\ row[SessionOf[t]].running # {}
                      THEN "refused" ELSE "checked"
<1>1. /\ Goto(t, stage) /\ tpc[t] = "new"
      /\ UNCHANGED <<shared, profile, row, ctx, seed, edit>>
  BY DEF Check, stores
<1>2. stage \in Stages /\ stage \notin Holding /\ tpc[t] \notin Claimed
  BY <1>1 DEF Stages, Ended, Holding, Claimed
<1> HIDE DEF stage
<1>3. ClaimsKnown' /\ CopiesFresh'
  BY <1>1, <1>2, TurnMoves
<1>4. TypesButClaims'
  <2>1. TypesButClaims
    BY TypeParts DEF Inv
  <2>2. QED
    BY <2>1, <1>1, <1>2 DEF TypesButClaims, StoresType, Goto, edit
<1>5. QED
  BY <1>3, <1>4, TypeParts DEF Inv

LEMMA OpenInv == ASSUME Inv, NEW t \in Turns, Open(t) PROVE Inv'
<1> DEFINE c == Activate(row[SessionOf[t]], ChildOf[t])
           stage == IF ChildOf[t] = Unbound THEN "open_hydrate" ELSE "seed"
           f == IF ChildOf[t] = Unbound THEN seed[t] ELSE profile[ChildOf[t]]
<1>1. c \in Context /\ SameClaims(c, row[SessionOf[t]])
  BY TurnReads, ActivateType
<1>2. f \in Facts
  BY TurnReads DEF Scopes, StoresType
<1>3. /\ Goto(t, stage) /\ tpc[t] = "checked"
      /\ ctx' = [ctx EXCEPT ![t] = c] /\ seed' = [seed EXCEPT ![t] = f]
      /\ UNCHANGED <<shared, profile, row, edit>>
  <2>1. CASE ChildOf[t] = Unbound
    BY <2>1, TurnReads DEF Open, stores
  <2>2. CASE ChildOf[t] # Unbound
    BY <2>2 DEF Open, stores
  <2>3. QED
    BY <2>1, <2>2
<1>4. stage \in Stages /\ tpc[t] \notin Claimed
  BY <1>3 DEF Stages, Claimed
<1> HIDE DEF c, stage, f
<1>5. TypesButClaims /\ StoresType' /\ row' \in [Sessions -> Context]
  BY <1>3, TypeParts DEF Inv, TypesButClaims, StoresType
<1>6. ctx'[t] = c /\ \A u \in Turns \ {t} : ctx'[u] = ctx[u]
  BY <1>3, <1>5 DEF TypesButClaims
<1>7. ClaimsKnown' /\ CopiesFresh'
  BY <1>1, <1>3, <1>4, <1>6, TurnMoves
<1>8. TypesButClaims'
  BY <1>1, <1>2, <1>3, <1>4, <1>5, TurnTypes
<1>9. QED
  BY <1>7, <1>8, TypeParts DEF Inv

LEMMA SaveSeedInv == ASSUME Inv, NEW t \in Turns, SaveSeed(t) PROVE Inv'
<1>1. /\ Goto(t, "open_hydrate") /\ tpc[t] = "seed"
      /\ profile' = [profile EXCEPT ![ChildOf[t]] = With(seed[t], SchoolKeys, t)]
      /\ seed' = [seed EXCEPT ![t] = NoFacts]
      /\ ctx' = [ctx EXCEPT ![t] = ctx[t]]
      /\ UNCHANGED <<shared, row, ctx, edit>>
  BY TurnReads DEF SaveSeed
<1>2. With(seed[t], SchoolKeys, t) \in Facts
  BY TurnReads, WithType DEF Writers
<1>3. "open_hydrate" \in Stages /\ tpc[t] \notin Claimed /\ tpc[t] \in Holding
  BY <1>1 DEF Stages, Claimed, Holding
<1>4. TypesButClaims /\ StoresType' /\ row' \in [Sessions -> Context]
  BY <1>1, <1>2, TypeParts DEF Inv, TypesButClaims, StoresType
<1>5. ClaimsKnown' /\ CopiesFresh'
  BY <1>1, <1>3, TurnMoves DEF SameClaims
<1>6. TypesButClaims'
  BY <1>1, <1>3, <1>4, TurnReads, NewSessionType, TurnTypes
<1>7. QED
  BY <1>5, <1>6, TypeParts DEF Inv

LEMMA OpenHydrateInv == ASSUME Inv, NEW t \in Turns, OpenHydrate(t) PROVE Inv'
<1> DEFINE c == IF ChildOf[t] = Unbound THEN Hydrated(ctx[t])
                ELSE UpdateFacts(Hydrated(ctx[t]), SeedKeys, t)
           stage == IF ChildOf[t] = Unbound THEN "open_save" ELSE "open_shared"
<1>1. c \in Context /\ SameClaims(c, ctx[t])
  <2>1. Hydrated(ctx[t]) \in Context /\ SameClaims(Hydrated(ctx[t]), ctx[t])
    BY TurnReads, HydratedType
  <2>2. /\ UpdateFacts(Hydrated(ctx[t]), SeedKeys, t) \in Context
        /\ SameClaims(UpdateFacts(Hydrated(ctx[t]), SeedKeys, t), Hydrated(ctx[t]))
    BY <2>1, UpdateFactsType DEF Writers
  <2>3. QED
    BY <2>1, <2>2 DEF SameClaims
<1>2. /\ Goto(t, stage) /\ tpc[t] = "open_hydrate"
      /\ ctx' = [ctx EXCEPT ![t] = c] /\ seed' = [seed EXCEPT ![t] = seed[t]]
      /\ UNCHANGED <<shared, profile, row, edit>>
  BY TurnReads DEF OpenHydrate, stores
<1>3. stage \in Stages /\ tpc[t] \notin Claimed /\ tpc[t] \in Holding
  BY <1>2 DEF Stages, Claimed, Holding
<1> HIDE DEF c, stage
<1>4. TypesButClaims /\ StoresType' /\ row' \in [Sessions -> Context]
  BY <1>2, TypeParts DEF Inv, TypesButClaims, StoresType
<1>5. ctx'[t] = c /\ \A u \in Turns \ {t} : ctx'[u] = ctx[u]
  BY <1>2, <1>4 DEF TypesButClaims
<1>6. ClaimsKnown' /\ CopiesFresh'
  BY <1>1, <1>2, <1>3, <1>5, TurnMoves
<1>7. TypesButClaims'
  BY <1>1, <1>2, <1>3, <1>4, TurnReads, TurnTypes
<1>8. QED
  BY <1>6, <1>7, TypeParts DEF Inv

LEMMA PersistSharedInv == ASSUME Inv, NEW t \in Turns, PersistShared(t) PROVE Inv'
<1> DEFINE stage == IF tpc[t] = "open_shared" THEN "open_profile" ELSE "run_profile"
<1>1. /\ Goto(t, stage) /\ tpc[t] \in {"open_shared", "run_shared"}
      /\ ctx' = [ctx EXCEPT ![t] = ctx[t]] /\ seed' = [seed EXCEPT ![t] = seed[t]]
      /\ UNCHANGED <<profile, row, ctx, seed, edit>>
      /\ shared' \in {shared, ctx[t].shared}
  BY TurnReads DEF PersistShared
<1>2. /\ stage \in Stages /\ tpc[t] \in Holding
      /\ tpc[t] \in Claimed => stage \in Claimed
  BY <1>1 DEF Stages, Claimed, Holding
<1> HIDE DEF stage
<1>3. TypesButClaims /\ StoresType' /\ row' \in [Sessions -> Context]
  BY <1>1, TurnReads, TypeParts DEF Inv, TypesButClaims, StoresType
<1>4. ClaimsKnown' /\ CopiesFresh'
  BY <1>1, <1>2, TurnMoves DEF SameClaims
<1>5. TypesButClaims'
  BY <1>1, <1>2, <1>3, TurnReads, TurnTypes
<1>6. QED
  BY <1>4, <1>5, TypeParts DEF Inv

LEMMA PersistProfileInv == ASSUME Inv, NEW t \in Turns, PersistProfile(t) PROVE Inv'
<1> DEFINE stage == IF tpc[t] = "open_profile" THEN "open_save" ELSE "run_save"
<1>1. /\ Goto(t, stage) /\ tpc[t] \in {"open_profile", "run_profile"}
      /\ ctx' = [ctx EXCEPT ![t] = ctx[t]] /\ seed' = [seed EXCEPT ![t] = seed[t]]
      /\ UNCHANGED <<shared, row, ctx, seed, edit>>
      /\ profile' \in {profile, [profile EXCEPT ![ctx[t].child] = ctx[t].profile]}
  BY TurnReads DEF PersistProfile
<1>2. /\ stage \in Stages /\ tpc[t] \in Holding
      /\ tpc[t] \in Claimed => stage \in Claimed
  BY <1>1 DEF Stages, Claimed, Holding
<1> HIDE DEF stage
<1>3. TypesButClaims /\ StoresType' /\ row' \in [Sessions -> Context]
  BY <1>1, TurnReads, TypeParts DEF Inv, TypesButClaims, StoresType
<1>4. ClaimsKnown' /\ CopiesFresh'
  BY <1>1, <1>2, TurnMoves DEF SameClaims
<1>5. TypesButClaims'
  BY <1>1, <1>2, <1>3, TurnReads, TurnTypes
<1>6. QED
  BY <1>4, <1>5, TypeParts DEF Inv

\* What a save writes, and what a conflict leaves.
LEMMA SavedRow ==
  ASSUME Inv, NEW s \in Sessions, NEW c \in Context, Behind(c, row[s]), Saved(s, c)
  PROVE  \E d \in Context : /\ row' = [row EXCEPT ![s] = d]
                            /\ d.ver = row[s].ver + 1 /\ d.running = row[s].running
<1>1. SyncBranch(c) \in Context /\ SameClaims(SyncBranch(c), c)
  BY SyncBranchType
<1>2. /\ Bump(SyncBranch(c)) \in Context
      /\ Bump(SyncBranch(c)).ver = row[s].ver + 1
      /\ Bump(SyncBranch(c)).running = row[s].running
  BY <1>1, BumpType DEF Saved, Behind, SameClaims
<1>3. QED
  BY <1>2 DEF Saved

LEMMA SaveOpenInv == ASSUME Inv, NEW t \in Turns, SaveOpen(t) PROVE Inv'
<1>1. TypesButClaims /\ CopiesFresh
  BY TypeParts DEF Inv
<1>2. /\ tpc[t] = "open_save" /\ tpc[t] \notin Claimed /\ tpc[t] \in Holding
      /\ ctx' = [ctx EXCEPT ![t] = NewSession]
      /\ seed' = [seed EXCEPT ![t] = seed[t]]
      /\ UNCHANGED <<shared, profile, edit>>
      /\ \A u \in Turns \ {t} : ctx'[u] = ctx[u]
  BY <1>1, TurnReads DEF SaveOpen, Release, stores, Claimed, Holding, TypesButClaims
<1>3. StoresType'
  BY <1>1, <1>2 DEF TypesButClaims, StoresType
<1>4. CASE Saved(SessionOf[t], ctx[t]) /\ Goto(t, "claim")
  <2>1. Behind(ctx[t], row[SessionOf[t]])
    BY <1>1, <1>2 DEF CopiesFresh
  <2>2. PICK d \in Context :
          /\ row' = [row EXCEPT ![SessionOf[t]] = d]
          /\ d.ver = row[SessionOf[t]].ver + 1 /\ d.running = row[SessionOf[t]].running
    BY <1>4, <2>1, SavedRow, TurnReads
  <2>3. "claim" \in Stages \ Holding
    BY DEF Stages, Holding
  <2>4. ClaimsKnown' /\ CopiesFresh' /\ row' \in [Sessions -> Context]
    BY <1>2, <1>4, <2>2, <2>3, TurnWrites
  <2>5. TypesButClaims'
    BY <1>1, <1>2, <1>3, <1>4, <2>3, <2>4, TurnReads, NewSessionType, TurnTypes
  <2>6. QED
    BY <2>4, <2>5, TypeParts DEF Inv
<1>5. CASE SaveConflicts(SessionOf[t], ctx[t]) /\ Goto(t, "conflict")
  <2>1. /\ UNCHANGED row /\ "conflict" \in Stages /\ "conflict" \notin Holding
        /\ row' \in [Sessions -> Context]
    BY <1>1, <1>5 DEF SaveConflicts, Stages, Holding, Ended, TypesButClaims
  <2>2. ClaimsKnown' /\ CopiesFresh'
    BY <1>2, <1>5, <2>1, TurnMoves
  <2>3. TypesButClaims'
    BY <1>1, <1>2, <1>3, <1>5, <2>1, TurnReads, NewSessionType, TurnTypes
  <2>4. QED
    BY <2>2, <2>3, TypeParts DEF Inv
<1>6. QED
  BY <1>4, <1>5 DEF SaveOpen

LEMMA SaveTurnInv == ASSUME Inv, NEW t \in Turns, SaveTurn(t) PROVE Inv'
<1>1. TypesButClaims /\ CopiesFresh
  BY TypeParts DEF Inv
<1>2. /\ tpc[t] = "run_save" /\ tpc[t] \in Holding /\ Goto(t, "end")
      /\ ctx' = [ctx EXCEPT ![t] = NewSession]
      /\ seed' = [seed EXCEPT ![t] = seed[t]]
      /\ UNCHANGED <<shared, profile, edit>>
      /\ \A u \in Turns \ {t} : ctx'[u] = ctx[u]
  BY <1>1, TurnReads DEF SaveTurn, Release, stores, Holding, TypesButClaims
<1>3. StoresType'
  BY <1>1, <1>2 DEF TypesButClaims, StoresType
<1>4. "end" \in Stages \ Holding /\ "end" \in Claimed
  BY DEF Stages, Holding, Claimed
<1>5. ClaimsKnown' /\ CopiesFresh' /\ row' \in [Sessions -> Context]
  <2>1. CASE Saved(SessionOf[t], ctx[t])
    <3>1. Behind(ctx[t], row[SessionOf[t]])
      BY <1>1, <1>2 DEF CopiesFresh
    <3>2. PICK d \in Context :
            /\ row' = [row EXCEPT ![SessionOf[t]] = d]
            /\ d.ver = row[SessionOf[t]].ver + 1 /\ d.running = row[SessionOf[t]].running
      BY <2>1, <3>1, SavedRow, TurnReads
    <3>3. QED
      BY <1>2, <1>4, <3>2, TurnWrites
  <2>2. CASE SaveConflicts(SessionOf[t], ctx[t])
    <3>1. UNCHANGED row
      BY <2>2 DEF SaveConflicts
    <3>2. ClaimsKnown' /\ CopiesFresh'
      BY <1>2, <1>4, <3>1, TurnMoves
    <3>3. QED
      BY <1>1, <3>1, <3>2 DEF TypesButClaims
  <2>3. QED
    BY <2>1, <2>2 DEF SaveTurn
<1>6. TypesButClaims'
  BY <1>1, <1>2, <1>3, <1>4, <1>5, TurnReads, NewSessionType, TurnTypes
<1>7. QED
  BY <1>5, <1>6, TypeParts DEF Inv

LEMMA ClaimInv == ASSUME Inv, NEW t \in Turns, Claim(t) PROVE Inv'
<1> DEFINE s == SessionOf[t]
           d == [row[s] EXCEPT !.running = row[s].running \cup {t}]
<1>1. TypesButClaims
  BY TypeParts DEF Inv
<1>2. /\ Goto(t, "start") /\ row' = [row EXCEPT ![s] = Bump(d)]
      /\ ctx' = [ctx EXCEPT ![t] = ctx[t]] /\ seed' = [seed EXCEPT ![t] = seed[t]]
      /\ UNCHANGED <<shared, profile, ctx, edit>>
  BY <1>1, TurnReads DEF Claim, SetRunning, stores
<1>3. Bump(d) \in Context /\ Bump(d).ver = row[s].ver + 1
      /\ Bump(d).running = row[s].running \cup {t}
  <2>1. d \in Context /\ d.ver = row[s].ver /\ d.running = row[s].running \cup {t}
    BY TurnReads DEF Context
  <2> HIDE DEF d
  <2>2. QED
    BY <2>1, BumpType
<1> HIDE DEF d
<1>4. "start" \in Stages \ Holding /\ "start" \in Claimed
  BY DEF Stages, Holding, Ended, Claimed
<1>5. ClaimsKnown' /\ CopiesFresh' /\ row' \in [Sessions -> Context]
  BY <1>2, <1>3, <1>4, TurnWrites
<1>6. StoresType'
  BY <1>1, <1>2 DEF TypesButClaims, StoresType
<1>7. TypesButClaims'
  BY <1>1, <1>2, <1>4, <1>5, <1>6, TurnReads, TurnTypes
<1>8. QED
  BY <1>5, <1>7, TypeParts DEF Inv

LEMMA EndInv == ASSUME Inv, NEW t \in Turns, End(t) PROVE Inv'
<1> DEFINE s == SessionOf[t]
           d == [row[s] EXCEPT !.running = row[s].running \ {t}]
<1>1. TypesButClaims
  BY TypeParts DEF Inv
<1>2. /\ Goto(t, "done") /\ row' = [row EXCEPT ![s] = Bump(d)]
      /\ ctx' = [ctx EXCEPT ![t] = ctx[t]] /\ seed' = [seed EXCEPT ![t] = seed[t]]
      /\ UNCHANGED <<shared, profile, ctx, edit>>
  BY <1>1, TurnReads DEF End, SetRunning, stores
<1>3. Bump(d) \in Context /\ Bump(d).ver = row[s].ver + 1
      /\ Bump(d).running = row[s].running \ {t}
  <2>1. d \in Context /\ d.ver = row[s].ver /\ d.running = row[s].running \ {t}
    BY TurnReads DEF Context
  <2> HIDE DEF d
  <2>2. QED
    BY <2>1, BumpType
<1> HIDE DEF d
<1>4. "done" \in Stages \ Holding
  BY DEF Stages, Holding, Ended, Claimed
<1>5. ClaimsKnown' /\ CopiesFresh' /\ row' \in [Sessions -> Context]
  BY <1>2, <1>3, <1>4, TurnWrites
<1>6. StoresType'
  BY <1>1, <1>2 DEF TypesButClaims, StoresType
<1>7. TypesButClaims'
  BY <1>1, <1>2, <1>4, <1>5, <1>6, TurnReads, TurnTypes
<1>8. QED
  BY <1>5, <1>7, TypeParts DEF Inv

LEMMA StartInv == ASSUME Inv, NEW t \in Turns, Start(t) PROVE Inv'
<1> DEFINE c == row[SessionOf[t]]
<1>1. TypesButClaims
  BY TypeParts DEF Inv
<1>2. /\ Goto(t, "run_hydrate") /\ tpc[t] = "start"
      /\ ctx' = [ctx EXCEPT ![t] = c] /\ seed' = [seed EXCEPT ![t] = seed[t]]
      /\ UNCHANGED <<shared, profile, row, edit>>
  BY TurnReads DEF Start, stores
<1>3. c \in Context /\ SameClaims(c, row[SessionOf[t]])
  BY TurnReads DEF SameClaims
<1> HIDE DEF c
<1>4. "run_hydrate" \in Stages /\ "run_hydrate" \in Claimed
  BY DEF Stages, Claimed
<1>5. ctx'[t] = c /\ \A u \in Turns \ {t} : ctx'[u] = ctx[u]
  BY <1>1, <1>2 DEF TypesButClaims
<1>6. StoresType' /\ row' \in [Sessions -> Context]
  BY <1>1, <1>2 DEF TypesButClaims, StoresType
<1>7. ClaimsKnown' /\ CopiesFresh'
  BY <1>2, <1>3, <1>4, <1>5, TurnMoves
<1>8. TypesButClaims'
  BY <1>1, <1>2, <1>3, <1>4, <1>6, TurnReads, TurnTypes
<1>9. QED
  BY <1>7, <1>8, TypeParts DEF Inv

LEMMA RunHydrateInv == ASSUME Inv, NEW t \in Turns, RunHydrate(t) PROVE Inv'
<1> DEFINE c == Hydrated(ctx[t])
<1>1. TypesButClaims
  BY TypeParts DEF Inv
<1>2. /\ Goto(t, "work") /\ tpc[t] = "run_hydrate"
      /\ ctx' = [ctx EXCEPT ![t] = c] /\ seed' = [seed EXCEPT ![t] = seed[t]]
      /\ UNCHANGED <<shared, profile, row, edit>>
  BY TurnReads DEF RunHydrate, stores
<1>3. c \in Context /\ SameClaims(c, ctx[t])
  BY TurnReads, HydratedType
<1> HIDE DEF c
<1>4. "work" \in Stages /\ "work" \in Claimed /\ tpc[t] \in Holding
  BY <1>2 DEF Stages, Claimed, Holding
<1>5. ctx'[t] = c /\ \A u \in Turns \ {t} : ctx'[u] = ctx[u]
  BY <1>1, <1>2 DEF TypesButClaims
<1>6. StoresType' /\ row' \in [Sessions -> Context]
  BY <1>1, <1>2 DEF TypesButClaims, StoresType
<1>7. ClaimsKnown' /\ CopiesFresh'
  BY <1>2, <1>3, <1>4, <1>5, TurnMoves
<1>8. TypesButClaims'
  BY <1>1, <1>2, <1>3, <1>4, <1>6, TurnReads, TurnTypes
<1>9. QED
  BY <1>7, <1>8, TypeParts DEF Inv

LEMMA AnswerInv == ASSUME Inv, NEW t \in Turns, Answer(t) PROVE Inv'
<1>1. TypesButClaims
  BY TypeParts DEF Inv
<1>2. PICK stage \in {"run_shared", "run_save", "end"},
           c \in {NewSession} \cup {UpdateFacts(ctx[t], K, t) : K \in Told} :
        /\ Goto(t, stage) /\ ctx' = [ctx EXCEPT ![t] = c]
        /\ stage = "end" \/ c # NewSession \/ SameClaims(c, ctx[t])
        /\ stage # "end" => SameClaims(c, ctx[t])
  <2>1. ASSUME NEW K \in Told
        PROVE  SameClaims(UpdateFacts(ctx[t], K, t), ctx[t])
    BY TurnReads, UpdateFactsType DEF Writers
  <2>2. QED
    BY <2>1 DEF Answer, Release
<1>3. /\ tpc[t] = "work" /\ tpc[t] \in Holding
      /\ seed' = [seed EXCEPT ![t] = seed[t]]
      /\ UNCHANGED <<shared, profile, row, edit>>
  BY TurnReads DEF Answer, stores, Holding
<1>4. c \in Context
  BY <1>2, TurnReads, NewSessionType, UpdateFactsType DEF Writers
<1>5. stage \in Stages /\ stage \in Claimed /\ (stage \in Holding => stage # "end")
  BY <1>2 DEF Stages, Claimed, Holding
<1>6. ctx'[t] = c /\ \A u \in Turns \ {t} : ctx'[u] = ctx[u]
  BY <1>1, <1>2 DEF TypesButClaims
<1>7. StoresType' /\ row' \in [Sessions -> Context]
  BY <1>1, <1>3 DEF TypesButClaims, StoresType
<1>8. ClaimsKnown' /\ CopiesFresh'
  BY <1>2, <1>3, <1>5, <1>6, TurnMoves
<1>9. TypesButClaims'
  BY <1>1, <1>2, <1>3, <1>4, <1>5, <1>7, TurnReads, TurnTypes
<1>10. QED
  BY <1>8, <1>9, TypeParts DEF Inv

\* The edits leave the turns and the rows alone.
LEMMA EditInv ==
  ASSUME Inv, NEW e \in Edits, EditStep(e)
  PROVE  Inv'
<1>1. TypesButClaims /\ ClaimsKnown /\ CopiesFresh
  BY TypeParts DEF Inv
<1>2. UNCHANGED <<row, tpc, ctx, seed>>
  BY DEF EditStep, SharedRead, Put, Clear, ChildRead, ChildPut, turn
<1>3. ClaimsKnown' /\ CopiesFresh'
  BY <1>1, <1>2 DEF ClaimsKnown, CopiesFresh
<1>4. StoresType' /\ ecopy' \in [Edits -> Facts]
  <2>1. ecopy[e] \in Facts /\ StoresType
    BY <1>1 DEF TypesButClaims
  <2>2. CASE SharedRead(e)
    <3>1. PICK s \in Sessions : ecopy' = [ecopy EXCEPT ![e] = Hydrated(row[s]).shared]
      BY <2>2 DEF SharedRead
    <3>2. Hydrated(row[s]).shared \in Facts
      BY <1>1, <2>1, HydratedType DEF TypesButClaims, Context
    <3>3. QED
      BY <2>1, <2>2, <3>1, <3>2, <1>1 DEF SharedRead, stores, StoresType, TypesButClaims
  <2>3. CASE Put(e)
    <3>1. PICK k \in Asked, w \in {e, None} :
            IF ebound[e] THEN shared' = With(ecopy[e], {k}, w) ELSE UNCHANGED shared
      BY <2>3 DEF Put
    <3>2. With(ecopy[e], {k}, w) \in Facts
      BY <2>1, <2>3, WithType DEF Put, Writers
    <3>3. QED
      BY <2>1, <2>3, <3>1, <3>2, <1>1, NewSessionType
         DEF Put, Answered, StoresType, TypesButClaims
  <2>4. CASE Clear(e)
    <3>1. With(ecopy[e], {k \in Keys : ecopy[e][k] \in Puts}, None) \in Facts
      BY <2>1, WithType
    <3>2. QED
      BY <2>1, <2>4, <3>1, <1>1, NewSessionType DEF Clear, Answered, StoresType, TypesButClaims
  <2>5. CASE ChildRead(e)
    BY <2>1, <2>5, <1>1, FactsAssumption DEF ChildRead, stores, StoresType, TypesButClaims
  <2>6. CASE ChildPut(e)
    <3>1. PICK k \in Asked, w \in {e, None} :
            profile' = [profile EXCEPT ![EditChild[e]] = With(ecopy[e], {k}, w)]
      BY <2>6 DEF ChildPut
    <3>2. With(ecopy[e], {k}, w) \in Facts
      BY <2>1, <2>6, WithType DEF ChildPut, Writers
    <3>3. QED
      BY <2>1, <2>6, <3>1, <3>2, <1>1, NewSessionType
         DEF ChildPut, Answered, StoresType, TypesButClaims
  <2>7. QED
    BY <2>2, <2>3, <2>4, <2>5, <2>6 DEF EditStep
<1>5. epc' \in [Edits -> {"new", "read", "done"}] /\ ebound' \in [Edits -> BOOLEAN]
  <2>1. epc' \in [Edits -> {"new", "read", "done"}]
    BY <1>1 DEF EditStep, SharedRead, Put, Clear, ChildRead, ChildPut, Answered, EditGoto,
                TypesButClaims
  <2>2. ebound' \in [Edits -> BOOLEAN]
    BY <1>1, Zenon DEF EditStep, SharedRead, Put, Clear, ChildRead, ChildPut, Answered,
                TypesButClaims
  <2>3. QED
    BY <2>1, <2>2
<1>6. TypesButClaims'
  BY <1>1, <1>2, <1>4, <1>5 DEF TypesButClaims
<1>7. QED
  BY <1>3, <1>6, TypeParts DEF Inv

LEMMA TurnInv == ASSUME Inv, NEW t \in Turns, TurnStep(t) PROVE Inv'
BY CheckInv, OpenInv, SaveSeedInv, OpenHydrateInv, PersistSharedInv, PersistProfileInv,
   SaveOpenInv, ClaimInv, StartInv, RunHydrateInv, AnswerInv, SaveTurnInv, EndInv
   DEF TurnStep

LEMMA StutterInv == ASSUME Inv, UNCHANGED vars PROVE Inv'
<1>1. TypesButClaims' /\ ClaimsKnown' /\ CopiesFresh'
  BY TypeParts DEF Inv, vars, stores, turn, edit, TypesButClaims, StoresType, ClaimsKnown,
     CopiesFresh
<1>2. QED
  BY <1>1, TypeParts DEF Inv

LEMMA StepInv == Inv /\ [Next]_vars => Inv'
<1> SUFFICES ASSUME Inv, [Next]_vars PROVE Inv'
  OBVIOUS
<1>1. ASSUME NEW t \in Turns, TurnStep(t) PROVE Inv'
  BY <1>1, TurnInv
<1>2. ASSUME NEW e \in Edits, EditStep(e) PROVE Inv'
  BY <1>2, EditInv
<1>3. CASE UNCHANGED vars
  BY <1>3, StutterInv
<1>4. QED
  BY <1>1, <1>2, <1>3 DEF Next

\* Stores, rows and copies keep their types, the claims in a session's row are
\* those of its turns that are being run, and no save undoes another's claim:
\* session_repo.save and the retried writes of the run ledger.
THEOREM TypeTheorem == Spec => []TypeOK
<1>1. Inv => TypeOK
  BY DEF Inv
<1>2. QED
  BY InitInv, StepInv, <1>1, PTL DEF Spec

-----------------------------------------------------------------------------
(* What is gone stays gone. *)

LEMMA WithGone ==
  ASSUME NEW facts \in Facts, NEW K, NEW x, NEW w, NEW k \in Keys, facts[k] # w, x # w
  PROVE  With(facts, K, x)[k] # w
BY DEF With, Facts

LEMMA UpdateGone ==
  ASSUME NEW c \in Context, NEW K, NEW x \in Writers, NEW w, NEW k \in Keys,
         c.shared[k] # w, c.profile[k] # w, x # w
  PROVE  UpdateFacts(c, K, x).shared[k] # w /\ UpdateFacts(c, K, x).profile[k] # w
<1>1. CASE c.child = Unbound
  BY <1>1 DEF UpdateFacts, Context
<1>2. CASE c.child # Unbound
  <2> DEFINE sh == With(c.shared, InScope(K, "shared"), x)
             pr == With(c.profile, InScope(K, "profile"), x)
             se == With(c.session, InScope(K, "session"), x)
  <2>1. sh[k] # w /\ pr[k] # w
    BY WithGone DEF Context
  <2>2. UpdateFacts(c, K, x) = [c EXCEPT !.shared = sh, !.profile = pr, !.session = se]
    BY <1>2 DEF UpdateFacts, Context
  <2> HIDE DEF sh, pr, se
  <2>3. UpdateFacts(c, K, x).shared = sh /\ UpdateFacts(c, K, x).profile = pr
    BY <2>2 DEF Context
  <2>4. QED
    BY <2>1, <2>3
<1>3. QED
  BY <1>1, <1>2

GoneFromStores(w, k) == shared[k] # w /\ \A c \in Children : profile[c][k] # w

LEMMA HydratedGone ==
  ASSUME StoresType, NEW c \in Context, NEW w \in Writers, NEW k \in Keys, GoneFromStores(w, k)
  PROVE  Hydrated(c).shared[k] # w /\ Hydrated(c).profile[k] # w
<1>1. NoFacts[k] # w
  BY FactsAssumption DEF NoFacts
<1>2. CASE c.child = Unbound
  BY <1>1, <1>2 DEF Hydrated, Context
<1>3. CASE c.child # Unbound
  <2>1. c.child \in Children
    BY <1>3 DEF Context, Scopes
  <2>2. QED
    BY <2>1, <1>3 DEF Hydrated, Context, GoneFromStores
<1>4. QED
  BY <1>2, <1>3

InUseAt(stage) == stage \in {"open_shared", "open_profile", "work", "run_shared", "run_profile"}

\* A turn t moves without bringing back what w said of k.
LEMMA TurnKeepsGone ==
  ASSUME TypesButClaims, NEW t \in Turns, NEW w \in Writers, NEW k \in Keys, Gone(w, k),
         NEW stage, Goto(t, stage), tpc[t] \notin Ended, UNCHANGED edit,
         GoneFromStores(w, k)', seed'[t][k] # w,
         InUseAt(stage) => ctx'[t].shared[k] # w /\ ctx'[t].profile[k] # w,
         \A u \in Turns \ {t} : ctx'[u] = ctx[u] /\ seed'[u] = seed[u]
  PROVE  Gone(w, k)'
<1>1. tpc'[t] = stage /\ \A u \in Turns \ {t} : tpc'[u] = tpc[u]
  BY DEF TypesButClaims, Goto
<1>2. IF w \in Turns THEN tpc'[w] \in Ended ELSE epc'[w] = "done"
  BY <1>1 DEF Gone, edit
<1>3. ASSUME NEW u \in Turns
      PROVE  /\ InUse(u)' => ctx'[u].shared[k] # w /\ ctx'[u].profile[k] # w
             /\ seed'[u][k] # w
  BY <1>1, <1>3 DEF Gone, InUse, InUseAt
<1>4. QED
  BY <1>2, <1>3 DEF Gone, GoneFromStores, edit

LEMMA TurnGone ==
  ASSUME TypesButClaims, NEW t \in Turns, TurnStep(t),
         NEW w \in Writers, NEW k \in Keys, Gone(w, k)
  PROVE  Gone(w, k)'
<1>1. tpc[t] \notin Ended /\ UNCHANGED edit
  BY DEF TurnStep, Check, Open, SaveSeed, OpenHydrate, PersistShared, PersistProfile,
         SaveOpen, Claim, Start, RunHydrate, Answer, SaveTurn, End, Ended
<1>2. t # w
  BY <1>1 DEF Gone
<1>3. /\ GoneFromStores(w, k) /\ StoresType /\ NoFacts[k] # w
      /\ seed[t] \in Facts /\ seed[t][k] # w
      /\ ctx[t] \in Context /\ ctx[t].shared \in Facts /\ ctx[t].profile \in Facts
      /\ SessionOf[t] \in Sessions /\ row[SessionOf[t]] \in Context
      /\ t \in Writers
  BY FactsAssumption DEF Gone, GoneFromStores, TypesButClaims, NoFacts, Context, Writers
<1>4. InUseAt(tpc[t]) => ctx[t].shared[k] # w /\ ctx[t].profile[k] # w
  BY DEF Gone, InUse, InUseAt
<1>5. CASE Check(t)
  <2>1. PICK stage \in {"refused", "checked"} : Goto(t, stage)
    BY <1>5 DEF Check
  <2>2. QED
    BY <1>1, <1>3, <1>5, <2>1, TurnKeepsGone DEF Check, stores, InUseAt, GoneFromStores
<1>6. CASE Open(t)
  <2>1. PICK stage \in {"open_hydrate", "seed"} : Goto(t, stage)
    BY <1>6 DEF Open
  <2>2. seed'[t][k] # w /\ \A u \in Turns \ {t} : ctx'[u] = ctx[u] /\ seed'[u] = seed[u]
    <3>1. ChildOf[t] = Unbound \/ ChildOf[t] \in Children
      BY FactsAssumption DEF Scopes
    <3>2. QED
      BY <1>3, <1>6, <3>1 DEF Open, TypesButClaims, GoneFromStores
  <2>3. QED
    BY <1>1, <1>3, <1>6, <2>1, <2>2, TurnKeepsGone DEF Open, stores, InUseAt, GoneFromStores
<1>7. CASE SaveSeed(t)
  <2>1. With(seed[t], SchoolKeys, t)[k] # w
    BY <1>2, <1>3, WithGone
  <2>2. GoneFromStores(w, k)' /\ seed'[t][k] # w
        /\ \A u \in Turns \ {t} : ctx'[u] = ctx[u] /\ seed'[u] = seed[u]
    BY <1>3, <1>7, <2>1 DEF SaveSeed, GoneFromStores, StoresType, TypesButClaims
  <2>3. QED
    BY <1>1, <1>7, <2>2, TurnKeepsGone DEF SaveSeed, InUseAt
<1>8. CASE OpenHydrate(t)
  <2>1. /\ Hydrated(ctx[t]) \in Context
        /\ Hydrated(ctx[t]).shared[k] # w /\ Hydrated(ctx[t]).profile[k] # w
    BY <1>3, HydratedType, HydratedGone
  <2>2. /\ UpdateFacts(Hydrated(ctx[t]), SeedKeys, t).shared[k] # w
        /\ UpdateFacts(Hydrated(ctx[t]), SeedKeys, t).profile[k] # w
    BY <1>2, <1>3, <2>1, UpdateGone
  <2>3. PICK stage \in {"open_save", "open_shared"},
             c \in {Hydrated(ctx[t]), UpdateFacts(Hydrated(ctx[t]), SeedKeys, t)} :
          Goto(t, stage) /\ ctx' = [ctx EXCEPT ![t] = c]
    BY <1>8 DEF OpenHydrate
  <2>4. /\ ctx'[t].shared[k] # w /\ ctx'[t].profile[k] # w
        /\ \A u \in Turns \ {t} : ctx'[u] = ctx[u] /\ seed'[u] = seed[u]
    BY <1>8, <2>1, <2>2, <2>3 DEF OpenHydrate, TypesButClaims
  <2>5. QED
    BY <1>1, <1>3, <1>8, <2>3, <2>4, TurnKeepsGone DEF OpenHydrate, stores, GoneFromStores
<1>9. CASE PersistShared(t)
  <2>1. PICK stage \in {"open_profile", "run_profile"} : Goto(t, stage)
    BY <1>9 DEF PersistShared
  <2>2. ctx[t].shared[k] # w /\ ctx[t].profile[k] # w
    BY <1>4, <1>9 DEF PersistShared, InUseAt
  <2>3. GoneFromStores(w, k)'
    BY <1>3, <1>9, <2>2 DEF PersistShared, GoneFromStores
  <2>4. QED
    BY <1>1, <1>3, <1>9, <2>1, <2>2, <2>3, TurnKeepsGone DEF PersistShared
<1>10. CASE PersistProfile(t)
  <2>1. PICK stage \in {"open_save", "run_save"} : Goto(t, stage)
    BY <1>10 DEF PersistProfile
  <2>2. ctx[t].profile[k] # w
    BY <1>4, <1>10 DEF PersistProfile, InUseAt
  <2>3. GoneFromStores(w, k)'
    BY <1>3, <1>10, <2>2 DEF PersistProfile, GoneFromStores, StoresType
  <2>4. QED
    BY <1>1, <1>3, <1>10, <2>1, <2>3, TurnKeepsGone DEF PersistProfile, InUseAt
<1>11. CASE SaveOpen(t)
  <2>1. PICK stage \in {"claim", "conflict"} : Goto(t, stage)
    BY <1>11 DEF SaveOpen
  <2>2. \A u \in Turns \ {t} : ctx'[u] = ctx[u] /\ seed'[u] = seed[u]
    BY <1>11 DEF SaveOpen, Release, TypesButClaims
  <2>3. QED
    BY <1>1, <1>3, <1>11, <2>1, <2>2, TurnKeepsGone
       DEF SaveOpen, InUseAt, stores, GoneFromStores
<1>12. CASE Claim(t)
  BY <1>1, <1>3, <1>12, TurnKeepsGone DEF Claim, InUseAt, stores, GoneFromStores
<1>13. CASE Start(t)
  <2>1. \A u \in Turns \ {t} : ctx'[u] = ctx[u] /\ seed'[u] = seed[u]
    BY <1>13 DEF Start, TypesButClaims
  <2>2. QED
    BY <1>1, <1>3, <1>13, <2>1, TurnKeepsGone DEF Start, InUseAt, stores, GoneFromStores
<1>14. CASE RunHydrate(t)
  <2>1. Hydrated(ctx[t]).shared[k] # w /\ Hydrated(ctx[t]).profile[k] # w
    BY <1>3, HydratedGone
  <2>2. /\ ctx'[t].shared[k] # w /\ ctx'[t].profile[k] # w
        /\ \A u \in Turns \ {t} : ctx'[u] = ctx[u] /\ seed'[u] = seed[u]
    BY <1>14, <2>1 DEF RunHydrate, TypesButClaims
  <2>3. QED
    BY <1>1, <1>3, <1>14, <2>2, TurnKeepsGone DEF RunHydrate, stores, GoneFromStores
<1>15. CASE Answer(t)
  <2>1. ctx[t].shared[k] # w /\ ctx[t].profile[k] # w
    BY <1>4, <1>15 DEF Answer, InUseAt
  <2>2. CASE \E K \in Told : ctx' = [ctx EXCEPT ![t] = UpdateFacts(@, K, t)]
    <3>1. PICK K \in Told : ctx' = [ctx EXCEPT ![t] = UpdateFacts(ctx[t], K, t)]
      BY <2>2
    <3>2. /\ UpdateFacts(ctx[t], K, t).shared[k] # w
          /\ UpdateFacts(ctx[t], K, t).profile[k] # w
      BY <1>2, <1>3, <2>1, UpdateGone
    <3>3. /\ ctx'[t].shared[k] # w /\ ctx'[t].profile[k] # w
          /\ \A u \in Turns \ {t} : ctx'[u] = ctx[u] /\ seed'[u] = seed[u]
      BY <1>15, <3>1, <3>2 DEF Answer, TypesButClaims
    <3>4. PICK stage \in {"run_shared", "run_save", "end"} : Goto(t, stage)
      BY <1>15 DEF Answer
    <3>5. QED
      BY <1>1, <1>3, <1>15, <3>3, <3>4, TurnKeepsGone DEF Answer, stores, GoneFromStores
  <2>3. CASE Release(t) /\ Goto(t, "end")
    <3>1. \A u \in Turns \ {t} : ctx'[u] = ctx[u] /\ seed'[u] = seed[u]
      BY <1>15, <2>3 DEF Answer, Release, TypesButClaims
    <3>2. QED
      BY <1>1, <1>3, <1>15, <2>3, <3>1, TurnKeepsGone DEF Answer, InUseAt, stores, GoneFromStores
  <2>4. QED
    BY <1>15, <2>2, <2>3 DEF Answer
<1>16. CASE SaveTurn(t)
  <2>1. \A u \in Turns \ {t} : ctx'[u] = ctx[u] /\ seed'[u] = seed[u]
    BY <1>16 DEF SaveTurn, Release, TypesButClaims
  <2>2. QED
    BY <1>1, <1>3, <1>16, <2>1, TurnKeepsGone DEF SaveTurn, InUseAt, stores, GoneFromStores
<1>17. CASE End(t)
  BY <1>1, <1>3, <1>17, TurnKeepsGone DEF End, InUseAt, stores, GoneFromStores
<1>18. QED
  BY <1>5, <1>6, <1>7, <1>8, <1>9, <1>10, <1>11, <1>12, <1>13, <1>14, <1>15, <1>16, <1>17
     DEF TurnStep

LEMMA EditGone ==
  ASSUME TypesButClaims, NEW e \in Edits, EditStep(e),
         NEW w \in Writers, NEW k \in Keys, Gone(w, k)
  PROVE  Gone(w, k)'
<1>1. /\ UNCHANGED <<row, turn>>
      /\ epc[e] # "done"
      /\ \E stage \in {"read", "done"} : epc' = [epc EXCEPT ![e] = stage]
  BY DEF EditStep, SharedRead, Put, Clear, ChildRead, ChildPut, Answered, EditGoto
<1>2. w # e
  BY <1>1, FactsAssumption DEF Gone
<1>3. IF w \in Turns THEN tpc'[w] \in Ended ELSE epc'[w] = "done"
  <2>1. w \notin Turns => w \in Edits
    BY DEF Writers, Edits
  <2>2. QED
    BY <1>1, <1>2, <2>1 DEF Gone, turn, TypesButClaims
<1>4. /\ GoneFromStores(w, k) /\ StoresType /\ NoFacts[k] # w
      /\ ecopy[e] \in Facts /\ ecopy[e][k] # w /\ None # w
  BY FactsAssumption DEF Gone, GoneFromStores, TypesButClaims, NoFacts
<1>5. GoneFromStores(w, k)' /\ \A x \in Edits : ecopy'[x][k] # w
  <2>1. CASE SharedRead(e)
    <3>1. PICK s \in Sessions : ecopy' = [ecopy EXCEPT ![e] = Hydrated(row[s]).shared]
      BY <2>1 DEF SharedRead
    <3>2. Hydrated(row[s]).shared[k] # w
      BY <1>4, HydratedGone DEF TypesButClaims
    <3>3. QED
      BY <1>4, <2>1, <3>1, <3>2 DEF SharedRead, stores, GoneFromStores, TypesButClaims, Gone
  <2>2. CASE Put(e)
    <3>1. PICK a \in Asked, x \in {e, None} :
            IF ebound[e] THEN shared' = With(ecopy[e], {a}, x) ELSE UNCHANGED shared
      BY <2>2 DEF Put
    <3>2. With(ecopy[e], {a}, x)[k] # w
      BY <1>2, <1>4, WithGone
    <3>3. QED
      BY <1>4, <2>2, <3>1, <3>2 DEF Put, Answered, GoneFromStores, TypesButClaims, Gone
  <2>3. CASE Clear(e)
    <3>1. With(ecopy[e], {a \in Keys : ecopy[e][a] \in Puts}, None)[k] # w
      BY <1>4, WithGone
    <3>2. QED
      BY <1>4, <2>3, <3>1 DEF Clear, Answered, GoneFromStores, TypesButClaims, Gone
  <2>4. CASE ChildRead(e)
    <3>1. profile[EditChild[e]][k] # w
      BY <1>4, <2>4, FactsAssumption DEF ChildRead, GoneFromStores
    <3>2. QED
      BY <1>4, <2>4, <3>1 DEF ChildRead, stores, GoneFromStores, TypesButClaims, Gone
  <2>5. CASE ChildPut(e)
    <3>1. PICK a \in Asked, x \in {e, None} :
            profile' = [profile EXCEPT ![EditChild[e]] = With(ecopy[e], {a}, x)]
      BY <2>5 DEF ChildPut
    <3>2. With(ecopy[e], {a}, x)[k] # w
      BY <1>2, <1>4, WithGone
    <3>3. QED
      BY <1>4, <2>5, <3>1, <3>2
         DEF ChildPut, Answered, GoneFromStores, StoresType, TypesButClaims, Gone
  <2>6. QED
    BY <2>1, <2>2, <2>3, <2>4, <2>5 DEF EditStep
<1>6. QED
  BY <1>1, <1>3, <1>5 DEF Gone, GoneFromStores, InUse, turn

\* A fact that is gone from the stores and from every request's hands never
\* comes back from the snapshots in the session rows: hydrate_context takes
\* nothing from them, whatever the turns and the edits interleave.
THEOREM GoneTheorem == Spec => GoneForGood
<1>1. TypeOK /\ [Next]_vars
        => [\A w \in Writers, k \in Keys : Gone(w, k) => Gone(w, k)']_vars
  <2> SUFFICES ASSUME TypeOK, Next, NEW w \in Writers, NEW k \in Keys, Gone(w, k)
               PROVE  Gone(w, k)'
    OBVIOUS
  <2>1. TypesButClaims
    BY TypeParts
  <2>2. QED
    BY <2>1, TurnGone, EditGone DEF Next
<1>2. QED
  BY <1>1, TypeTheorem, PTL DEF Spec, GoneForGood

-----------------------------------------------------------------------------
(* Children, and conversations about none, stay apart as long as the turns   *)
(* of one session are sent one after the other.                              *)

Busy(t) == tpc[t] \notin Ended \cup {"new"}

\* No two turns of a session are on their way.
OneByOne ==
  \A t, u \in Turns : SessionOf[t] = SessionOf[u] /\ Busy(t) /\ Busy(u) => t = u

SharedFit(facts) ==
  \A k \in Keys : facts[k] = None \/ facts[k] \in Puts \/ About(facts[k]) # Unbound

StoresFit == SharedFit(shared) /\ \A c \in Children : OnlyAbout(profile[c], c)

\* A context in the branch b, whose facts are in the branches of whom they are about.
InBranch(c, b) ==
  /\ c.child = b /\ OnlyAbout(c.session, b)
  /\ \A x \in Scopes : OnlyAbout(c.branches[x], x)

\* The layers that were read from the stores belong to the context's branch.
LayersFit(c) ==
  IF c.child = Unbound THEN c.shared = NoFacts /\ c.profile = NoFacts
  ELSE SharedFit(c.shared) /\ OnlyAbout(c.profile, c.child)

Layered == Hydrations \cup {"open_shared", "open_profile"}

\* A turn works in the branch of its own subject, and so will it when it starts.
TurnFits(t) ==
  /\ tpc[t] \in Holding => InBranch(ctx[t], ChildOf[t])
  /\ tpc[t] \in {"claim", "start"} => row[SessionOf[t]].child = ChildOf[t]
  /\ tpc[t] \in Layered => LayersFit(ctx[t])
  /\ OnlyAbout(seed[t], ChildOf[t])

EditFits(e) ==
  /\ e \in ChildEdits => OnlyAbout(ecopy[e], EditChild[e])
  /\ e \in Puts \cup Clears => SharedFit(ecopy[e])

ApartInv ==
  /\ OneByOne /\ StoresFit
  /\ \A s \in Sessions : InBranch(row[s], row[s].child)
  /\ \A t \in Turns : TurnFits(t)
  /\ \A e \in Edits : EditFits(e)

\* Facts of which some are overwritten by a writer about the same child, or by none.
LEMMA WithAbout ==
  ASSUME NEW facts, NEW b, OnlyAbout(facts, b), NEW K, NEW x, x = None \/ About(x) = b
  PROVE  OnlyAbout(With(facts, K, x), b)
BY DEF OnlyAbout, With

LEMMA WithShared ==
  ASSUME NEW facts, SharedFit(facts), NEW K, NEW x,
         x = None \/ x \in Puts \/ About(x) # Unbound
  PROVE  SharedFit(With(facts, K, x))
BY DEF SharedFit, With

LEMMA NoFactsFit == SharedFit(NoFacts) /\ \A b : OnlyAbout(NoFacts, b)
BY DEF SharedFit, OnlyAbout, NoFacts

\* A turn is about its child, the edit of a child about that child.
LEMMA Abouts ==
  /\ \A t \in Turns : About(t) = ChildOf[t]
  /\ \A e \in ChildEdits : About(e) = EditChild[e] /\ EditChild[e] \in Children
BY FactsAssumption DEF About, Edits

LEMMA SyncFits ==
  ASSUME NEW c \in Context, NEW b, InBranch(c, b)
  PROVE  InBranch(SyncBranch(c), b)
BY DEF InBranch, SyncBranch, Context

LEMMA BumpFits ==
  ASSUME NEW c \in Context, NEW b, InBranch(c, b)
  PROVE  InBranch(Bump(c), b) /\ Bump(c).child = b
BY DEF InBranch, Bump, Context

LEMMA ActivateFits ==
  ASSUME NEW c \in Context, InBranch(c, c.child), NEW target \in Scopes
  PROVE  InBranch(Activate(c, target), target)
<1>1. CASE c.child = target
  BY <1>1 DEF Activate
<1>2. CASE c.child # target
  <2>1. SyncBranch(c) \in Context /\ InBranch(SyncBranch(c), c.child)
    BY SyncBranchType, SyncFits
  <2>2. OnlyAbout(c.branches[target], target)
    BY DEF InBranch
  <2> QED BY <1>2, <2>1, <2>2 DEF Activate, InBranch, Context
<1> QED BY <1>1, <1>2

LEMMA HydratedFits ==
  ASSUME StoresFit, NEW c \in Context, NEW b, InBranch(c, b)
  PROVE  InBranch(Hydrated(c), b) /\ LayersFit(Hydrated(c)) /\ SharedFit(Hydrated(c).shared)
<1>1. CASE c.child = Unbound
  BY <1>1, NoFactsFit DEF Hydrated, InBranch, LayersFit, Context
<1>2. CASE c.child # Unbound
  <2>1. c.child \in Children
    BY <1>2 DEF Context, Scopes
  <2> QED BY <1>2, <2>1 DEF Hydrated, InBranch, LayersFit, Context, StoresFit
<1> QED BY <1>1, <1>2

LEMMA UpdateFits ==
  ASSUME NEW c \in Context, NEW t \in Turns, NEW K, InBranch(c, ChildOf[t]), LayersFit(c)
  PROVE  InBranch(UpdateFacts(c, K, t), ChildOf[t]) /\ LayersFit(UpdateFacts(c, K, t))
<1>0. About(t) = ChildOf[t] /\ c.child = ChildOf[t]
  BY Abouts DEF InBranch
<1>1. CASE c.child = Unbound
  <2> DEFINE se == With(c.session, K, t)
  <2>1. OnlyAbout(se, ChildOf[t])
    BY <1>0, WithAbout DEF InBranch
  <2>2. UpdateFacts(c, K, t) = [c EXCEPT !.session = se]
    BY <1>1 DEF UpdateFacts
  <2> HIDE DEF se
  <2> QED BY <1>1, <2>1, <2>2 DEF InBranch, LayersFit, Context
<1>2. CASE c.child # Unbound
  <2> DEFINE sh == With(c.shared, InScope(K, "shared"), t)
             pr == With(c.profile, InScope(K, "profile"), t)
             se == With(c.session, InScope(K, "session"), t)
  <2>1. OnlyAbout(se, ChildOf[t]) /\ OnlyAbout(pr, ChildOf[t]) /\ SharedFit(sh)
    BY <1>0, <1>2, WithAbout, WithShared DEF InBranch, LayersFit
  <2>2. UpdateFacts(c, K, t) = [c EXCEPT !.shared = sh, !.profile = pr, !.session = se]
    BY <1>2 DEF UpdateFacts, Context
  <2> HIDE DEF se, pr, sh
  <2>3. LET d == UpdateFacts(c, K, t) IN
          /\ d.child = c.child /\ d.branches = c.branches
          /\ d.session = se /\ d.shared = sh /\ d.profile = pr
    BY <2>2 DEF Context
  <2> QED BY <1>0, <1>2, <2>1, <2>3 DEF InBranch, LayersFit
<1> QED BY <1>1, <1>2

\* A turn moves, and writes no row but its session's.
LEMMA TurnApart ==
  ASSUME TypesButClaims, ApartInv, NEW t \in Turns, NEW stage, Goto(t, stage), tpc[t] \notin Ended,
         tpc[t] = "new" =>
           \A u \in Turns : SessionOf[u] = SessionOf[t] => tpc[u] \in Ended \cup {"new"},
         UNCHANGED edit, StoresFit', TurnFits(t)',
         \A u \in Turns \ {t} : ctx'[u] = ctx[u] /\ seed'[u] = seed[u],
         \/ UNCHANGED row
         \/ Busy(t) /\ \E c : /\ row' = [row EXCEPT ![SessionOf[t]] = c]
                              /\ InBranch(c, c.child)
  PROVE  ApartInv'
<1>1. tpc'[t] = stage /\ \A u \in Turns \ {t} : tpc'[u] = tpc[u]
  BY DEF TypesButClaims, Goto
<1>2. OneByOne'
  <2> SUFFICES ASSUME NEW u \in Turns, NEW v \in Turns, SessionOf[u] = SessionOf[v],
                      Busy(u)', Busy(v)', u # v
               PROVE  FALSE
    BY DEF OneByOne
  <2>1. CASE u # t /\ v # t
    BY <1>1, <2>1 DEF ApartInv, OneByOne, Busy
  <2>2. ASSUME NEW x \in Turns, x # t, SessionOf[x] = SessionOf[t], Busy(x)'
        PROVE  FALSE
    <3>1. Busy(x) /\ tpc[x] \notin Ended \cup {"new"}
      BY <1>1, <2>2 DEF Busy
    <3>2. tpc[t] # "new"
      BY <2>2, <3>1
    <3> QED BY <2>2, <3>1, <3>2 DEF ApartInv, OneByOne, Busy
  <2> QED BY <2>1, <2>2
<1>3. \A s \in Sessions : InBranch(row'[s], row'[s].child)
  BY DEF ApartInv, TypesButClaims
<1>4. ASSUME NEW u \in Turns \ {t} PROVE TurnFits(u)'
  <2>1. TurnFits(u)
    BY DEF ApartInv
  <2>2. tpc[u] \in {"claim", "start"} => row'[SessionOf[u]] = row[SessionOf[u]]
    <3> SUFFICES ASSUME tpc[u] \in {"claim", "start"}, ~UNCHANGED row
                 PROVE  row'[SessionOf[u]] = row[SessionOf[u]]
      OBVIOUS
    <3>1. Busy(u) /\ Busy(t)
      BY DEF Busy, Ended
    <3>2. SessionOf[u] # SessionOf[t]
      BY <3>1 DEF ApartInv, OneByOne
    <3> QED BY <3>2, FactsAssumption DEF TypesButClaims
  <2> QED BY <1>1, <2>1, <2>2 DEF TurnFits
<1>5. \A e \in Edits : EditFits(e)'
  BY DEF ApartInv, EditFits, edit
<1> QED BY <1>2, <1>3, <1>4, <1>5 DEF ApartInv

LEMMA TurnStepApart ==
  ASSUME Racing = {}, TypesButClaims, ApartInv, NEW t \in Turns, TurnStep(t)
  PROVE  ApartInv'
<1> DEFINE s == SessionOf[t]
           b == ChildOf[t]
<1>1. tpc[t] \notin Ended /\ UNCHANGED edit
  BY DEF TurnStep, Check, Open, SaveSeed, OpenHydrate, PersistShared, PersistProfile,
         SaveOpen, Claim, Start, RunHydrate, Answer, SaveTurn, End, Ended
<1>2. /\ s \in Sessions /\ b \in Scopes /\ row[s] \in Context /\ ctx[t] \in Context
      /\ InBranch(row[s], row[s].child) /\ StoresFit /\ TurnFits(t)
      /\ OnlyAbout(seed[t], b) /\ About(t) = b
  BY FactsAssumption, Abouts DEF TypesButClaims, ApartInv, TurnFits
\* The row of the session is untouched, or gets a context in some branch.
<1>3. ASSUME NEW stage, Goto(t, stage), tpc[t] # "new", StoresFit',
             NEW c, NEW f, ctx' = [ctx EXCEPT ![t] = c], seed' = [seed EXCEPT ![t] = f],
             stage \in Holding => InBranch(c, b),
             stage \in {"claim", "start"} => row'[s].child = b,
             stage \in Layered => LayersFit(c), OnlyAbout(f, b),
             \/ UNCHANGED row
             \/ \E r : row' = [row EXCEPT ![s] = r] /\ InBranch(r, r.child)
      PROVE  ApartInv'
  <2>1. tpc'[t] = stage /\ ctx'[t] = c /\ seed'[t] = f
        /\ \A u \in Turns \ {t} : ctx'[u] = ctx[u] /\ seed'[u] = seed[u]
    BY <1>3 DEF TypesButClaims, Goto
  <2>2. TurnFits(t)'
    BY <1>3, <2>1 DEF TurnFits
  <2>3. Busy(t)
    BY <1>1, <1>3 DEF Busy
  <2> HIDE DEF b
  <2> QED BY <1>1, <1>3, <2>1, <2>2, <2>3, TurnApart
<1>4. ctx = [ctx EXCEPT ![t] = ctx[t]] /\ seed = [seed EXCEPT ![t] = seed[t]]
  BY DEF TypesButClaims
<1>5. UNCHANGED stores => StoresFit'
  BY <1>2 DEF stores, StoresFit
<1>6. CASE Check(t)
  <2>1. PICK stage \in {"refused", "checked"} : Goto(t, stage)
    BY <1>6 DEF Check
  <2>2. \A u \in Turns : SessionOf[u] = s => tpc[u] \in Ended \cup {"new"}
    BY <1>6 DEF Check
  <2>3. TurnFits(t)'
    <3>1. tpc'[t] = stage
      BY <2>1 DEF Goto, TypesButClaims
    <3>2. stage \notin Holding /\ stage \notin Layered /\ stage \notin {"claim", "start"}
      BY DEF Holding, Layered, Hydrations
    <3> QED BY <1>2, <1>6, <3>1, <3>2 DEF Check, TurnFits
  <2> QED BY <1>1, <1>5, <1>6, <2>1, <2>2, <2>3, TurnApart DEF Check
<1>7. CASE Open(t)
  <2> DEFINE c == Activate(row[s], b)
             f == IF b = Unbound THEN seed[t] ELSE profile[b]
             stage == IF b = Unbound THEN "open_hydrate" ELSE "seed"
  <2>1. InBranch(c, b)
    BY <1>2, ActivateFits
  <2>2. OnlyAbout(f, b)
    BY <1>2 DEF StoresFit, Scopes
  <2>3. /\ Goto(t, stage) /\ ctx' = [ctx EXCEPT ![t] = c] /\ seed' = [seed EXCEPT ![t] = f]
        /\ UNCHANGED <<stores, row>> /\ tpc[t] = "checked"
    <3>1. CASE b = Unbound
      BY <1>4, <1>7, <3>1 DEF Open
    <3>2. CASE b # Unbound
      BY <1>7, <3>2 DEF Open
    <3> QED BY <3>1, <3>2
  <2>4. stage \notin {"claim", "start"} /\ stage \notin Layered
    BY DEF Layered, Hydrations
  <2> HIDE DEF c, f, stage
  <2> QED BY <1>3, <1>5, <2>1, <2>2, <2>3, <2>4
<1>8. CASE SaveSeed(t)
  <2> DEFINE g == With(seed[t], SchoolKeys, t)
  <2>1. OnlyAbout(g, b)
    BY <1>2, WithAbout
  <2> HIDE DEF g
  <2>2. /\ Goto(t, "open_hydrate") /\ tpc[t] = "seed" /\ UNCHANGED <<shared, row, ctx>>
        /\ profile' = [profile EXCEPT ![b] = g] /\ seed' = [seed EXCEPT ![t] = NoFacts]
    BY <1>8 DEF SaveSeed, g
  <2>3. StoresFit'
    BY <1>2, <2>1, <2>2 DEF StoresFit, TypesButClaims, StoresType
  <2>4. InBranch(ctx[t], b)
    BY <1>2, <2>2 DEF TurnFits, Holding
  <2>5. "open_hydrate" \notin Layered
    BY DEF Layered, Hydrations
  <2> QED BY <1>3, <1>4, <2>2, <2>3, <2>4, <2>5, NoFactsFit
<1>9. CASE OpenHydrate(t)
  <2> DEFINE h == Hydrated(ctx[t])
             c == IF b = Unbound THEN h ELSE UpdateFacts(h, SeedKeys, t)
             stage == IF b = Unbound THEN "open_save" ELSE "open_shared"
  <2>1. InBranch(ctx[t], b)
    BY <1>2, <1>9 DEF OpenHydrate, TurnFits, Holding
  <2>2. h \in Context /\ InBranch(h, b) /\ LayersFit(h)
    BY <1>2, <2>1, HydratedType, HydratedFits DEF TypesButClaims
  <2>3. InBranch(c, b) /\ LayersFit(c)
    BY <2>2, UpdateFits
  <2>4. /\ Goto(t, stage) /\ ctx' = [ctx EXCEPT ![t] = c] /\ tpc[t] = "open_hydrate"
        /\ UNCHANGED <<stores, row, seed>>
    BY <1>9 DEF OpenHydrate
  <2>5. stage \notin {"claim", "start"}
    OBVIOUS
  <2> HIDE DEF h, c, stage
  <2> QED BY <1>2, <1>3, <1>4, <1>5, <2>3, <2>4, <2>5
<1>10. CASE PersistShared(t)
  <2>1. PICK stage \in {"open_profile", "run_profile"} : Goto(t, stage)
    BY <1>10 DEF PersistShared
  <2>2. /\ tpc[t] \in {"open_shared", "run_shared"} /\ UNCHANGED <<profile, row, ctx, seed>>
        /\ IF ctx[t].child = Unbound THEN UNCHANGED shared ELSE shared' = ctx[t].shared
    BY <1>10 DEF PersistShared
  <2>3. InBranch(ctx[t], b) /\ LayersFit(ctx[t])
    BY <1>2, <2>2 DEF TurnFits, Holding, Layered, Hydrations
  <2>4. StoresFit'
    BY <1>2, <2>2, <2>3 DEF StoresFit, LayersFit
  <2> QED BY <1>2, <1>3, <1>4, <2>1, <2>2, <2>3, <2>4
<1>11. CASE PersistProfile(t)
  <2>1. PICK stage \in {"open_save", "run_save"} : Goto(t, stage)
    BY <1>11 DEF PersistProfile
  <2>2. /\ tpc[t] \in {"open_profile", "run_profile"} /\ UNCHANGED <<shared, row, ctx, seed>>
        /\ IF ctx[t].child = Unbound THEN UNCHANGED profile
           ELSE profile' = [profile EXCEPT ![ctx[t].child] = ctx[t].profile]
    BY <1>11 DEF PersistProfile
  <2>3. InBranch(ctx[t], b) /\ LayersFit(ctx[t])
    BY <1>2, <2>2 DEF TurnFits, Holding, Layered, Hydrations
  <2>4. StoresFit'
    BY <1>2, <2>2, <2>3 DEF StoresFit, LayersFit, TypesButClaims, StoresType
  <2> QED BY <1>2, <1>3, <1>4, <2>1, <2>2, <2>3, <2>4
<1>12. CASE SaveOpen(t)
  <2> DEFINE c == Bump(SyncBranch(ctx[t]))
  <2>1. InBranch(ctx[t], b) /\ tpc[t] = "open_save"
    BY <1>2, <1>12 DEF SaveOpen, TurnFits, Holding
  <2>2. InBranch(c, b) /\ c.child = b
    BY <1>2, <2>1, SyncBranchType, SyncFits, BumpFits
  <2>3. /\ ctx' = [ctx EXCEPT ![t] = NewSession] /\ UNCHANGED <<stores, seed>>
        /\ \/ row' = [row EXCEPT ![s] = c] /\ Goto(t, "claim")
           \/ UNCHANGED row /\ Goto(t, "conflict")
    BY <1>12 DEF SaveOpen, Release, Saved, SaveConflicts
  <2>4. "claim" \notin Holding \cup Layered /\ "conflict" \notin Holding \cup Layered
    BY DEF Holding, Layered, Hydrations
  <2> HIDE DEF c
  <2>5. CASE row' = [row EXCEPT ![s] = c] /\ Goto(t, "claim")
    <3>1. row'[s].child = b
      BY <1>2, <2>2, <2>5 DEF TypesButClaims
    <3> QED BY <1>2, <1>3, <1>4, <1>5, <2>1, <2>2, <2>3, <2>4, <2>5, <3>1
  <2>6. CASE UNCHANGED row /\ Goto(t, "conflict")
    BY <1>2, <1>3, <1>4, <1>5, <2>1, <2>3, <2>4, <2>6
  <2> QED BY <2>3, <2>5, <2>6
<1>13. ASSUME NEW claims, SetRunning(s, claims)
       PROVE  \E r : row' = [row EXCEPT ![s] = r] /\ InBranch(r, r.child) /\ r.child = row[s].child
  <2> DEFINE r1 == [row[s] EXCEPT !.running = claims]
             r == [r1 EXCEPT !.ver = @ + 1]
  <2>1. row' = [row EXCEPT ![s] = r]
    BY <1>13 DEF SetRunning, Bump
  <2>2. r.child = row[s].child /\ r.session = row[s].session /\ r.branches = row[s].branches
    BY <1>2 DEF Context
  <2> HIDE DEF r
  <2> QED BY <1>2, <2>1, <2>2 DEF InBranch
<1>14. CASE Claim(t)
  <2>1. /\ tpc[t] = "claim" /\ Goto(t, "start") /\ UNCHANGED <<stores, ctx, seed>>
        /\ SetRunning(s, row[s].running \cup {t})
    BY <1>14 DEF Claim
  <2>2. PICK r : row' = [row EXCEPT ![s] = r] /\ InBranch(r, r.child) /\ r.child = row[s].child
    BY <1>13, <2>1
  <2>3. row'[s].child = b
    BY <1>2, <2>1, <2>2 DEF TurnFits, TypesButClaims
  <2>4. "start" \notin Holding \cup Layered
    BY DEF Holding, Layered, Hydrations
  <2> QED BY <1>2, <1>3, <1>4, <1>5, <2>1, <2>2, <2>3, <2>4
<1>15. CASE Start(t)
  <2>1. /\ tpc[t] = "start" /\ Goto(t, "run_hydrate") /\ UNCHANGED <<stores, row, seed>>
        /\ ctx' = [ctx EXCEPT ![t] = row[s]]
    BY <1>15 DEF Start
  <2>2. InBranch(row[s], b)
    BY <1>2, <2>1 DEF TurnFits
  <2>3. "run_hydrate" \notin Layered
    BY DEF Layered, Hydrations
  <2> QED BY <1>2, <1>3, <1>4, <1>5, <2>1, <2>2, <2>3
<1>16. CASE RunHydrate(t)
  <2> DEFINE c == Hydrated(ctx[t])
  <2>1. /\ tpc[t] = "run_hydrate" /\ Goto(t, "work") /\ UNCHANGED <<stores, row, seed>>
        /\ ctx' = [ctx EXCEPT ![t] = c]
    BY <1>16 DEF RunHydrate
  <2>2. InBranch(c, b) /\ LayersFit(c)
    BY <1>2, <2>1, HydratedFits DEF TurnFits, Holding
  <2>3. StoresFit' /\ seed' = [seed EXCEPT ![t] = seed[t]]
    BY <1>4, <1>5, <2>1
  <2>4. UNCHANGED row /\ tpc[t] # "new" /\ "work" \notin {"claim", "start"}
    BY <2>1
  <2>5. OnlyAbout(seed[t], b) /\ Goto(t, "work") /\ ctx' = [ctx EXCEPT ![t] = c]
    BY <1>2, <2>1
  <2> HIDE DEF c, b
  <2> QED BY <1>3, <2>2, <2>3, <2>4, <2>5
<1>17. CASE Answer(t)
  <2>1. tpc[t] = "work" /\ UNCHANGED <<stores, row, seed>>
        /\ InBranch(ctx[t], b) /\ LayersFit(ctx[t])
    BY <1>2, <1>17 DEF Answer, TurnFits, Holding, Layered, Hydrations
  <2>2. CASE \E K \in Told : ctx' = [ctx EXCEPT ![t] = UpdateFacts(@, K, t)]
    <3>1. PICK K \in Told : ctx' = [ctx EXCEPT ![t] = UpdateFacts(ctx[t], K, t)]
      BY <2>2
    <3>2. InBranch(UpdateFacts(ctx[t], K, t), b) /\ LayersFit(UpdateFacts(ctx[t], K, t))
      BY <1>2, <2>1, UpdateFits
    <3>3. PICK stage \in {"run_shared", "run_save", "end"} : Goto(t, stage)
      BY <1>17 DEF Answer
    <3> QED BY <1>2, <1>3, <1>4, <1>5, <2>1, <3>1, <3>2, <3>3
  <2>3. CASE Release(t) /\ Goto(t, "end")
    <3>1. "end" \notin Holding \cup Layered
      BY DEF Holding, Layered, Hydrations
    <3> QED BY <1>2, <1>3, <1>4, <1>5, <2>1, <2>3, <3>1 DEF Release
  <2> QED BY <1>17, <2>2, <2>3 DEF Answer
<1>18. CASE SaveTurn(t)
  <2> DEFINE c == Bump(SyncBranch(ctx[t]))
  <2>1. InBranch(ctx[t], b) /\ tpc[t] = "run_save" /\ Goto(t, "end")
    BY <1>2, <1>18 DEF SaveTurn, TurnFits, Holding
  <2>2. InBranch(c, b) /\ c.child = b
    BY <1>2, <2>1, SyncBranchType, SyncFits, BumpFits
  <2>3. /\ ctx' = [ctx EXCEPT ![t] = NewSession] /\ UNCHANGED <<stores, seed>>
        /\ row' = [row EXCEPT ![s] = c] \/ UNCHANGED row
    BY <1>18 DEF SaveTurn, Release, Saved, SaveConflicts
  <2>4. "end" \notin Holding \cup Layered
    BY DEF Holding, Layered, Hydrations
  <2> HIDE DEF c
  <2> QED BY <1>2, <1>3, <1>4, <1>5, <2>1, <2>2, <2>3, <2>4
<1>19. CASE End(t)
  <2>1. /\ tpc[t] = "end" /\ Goto(t, "done") /\ UNCHANGED <<stores, ctx, seed>>
        /\ SetRunning(s, row[s].running \ {t})
    BY <1>19 DEF End
  <2>2. PICK r : row' = [row EXCEPT ![s] = r] /\ InBranch(r, r.child)
    BY <1>13, <2>1
  <2>3. "done" \notin Holding \cup Layered
    BY DEF Holding, Layered, Hydrations
  <2> QED BY <1>2, <1>3, <1>4, <1>5, <2>1, <2>2, <2>3
<1> QED BY <1>6, <1>7, <1>8, <1>9, <1>10, <1>11, <1>12, <1>14, <1>15, <1>16, <1>17, <1>18, <1>19
        DEF TurnStep

LEMMA EditStepApart ==
  ASSUME TypesButClaims, ApartInv, NEW e \in Edits, EditStep(e)
  PROVE  ApartInv'
<1>1. /\ StoresFit /\ EditFits(e) /\ shared \in Facts /\ profile \in [Children -> Facts]
      /\ ecopy \in [Edits -> Facts] /\ epc \in [Edits -> {"new", "read", "done"}]
  BY DEF ApartInv, TypesButClaims, StoresType
\* Enough to look at the stores, and at what the edit holds.
<1>2. ASSUME UNCHANGED <<row, turn>>, StoresFit',
             NEW f, ecopy' = [ecopy EXCEPT ![e] = f],
             e \in ChildEdits => OnlyAbout(f, EditChild[e]),
             e \in Puts \cup Clears => SharedFit(f)
      PROVE  ApartInv'
  <2>1. ASSUME NEW d \in Edits PROVE EditFits(d)'
    BY <1>1, <1>2 DEF ApartInv, EditFits
  <2>2. OneByOne' /\ \A t \in Turns : TurnFits(t)'
    BY <1>2 DEF ApartInv, OneByOne, Busy, TurnFits, turn
  <2> QED BY <1>2, <2>1, <2>2 DEF ApartInv
<1>3. CASE SharedRead(e)
  <2>1. PICK s \in Sessions : ecopy' = [ecopy EXCEPT ![e] = Hydrated(row[s]).shared]
    BY <1>3 DEF SharedRead
  <2> DEFINE f == Hydrated(row[s]).shared
  <2>2. SharedFit(f)
    BY <1>1, HydratedFits DEF ApartInv, TypesButClaims
  <2>3. e \notin ChildEdits /\ UNCHANGED <<stores, row, turn>>
    BY <1>3, FactsAssumption DEF SharedRead
  <2>4. StoresFit'
    BY <1>1, <2>3 DEF StoresFit, stores
  <2> HIDE DEF f
  <2> QED BY <1>2, <2>1, <2>2, <2>3, <2>4 DEF f
<1>4. CASE Put(e)
  <2>1. PICK k \in Asked, x \in {e, None} :
          IF ebound[e] THEN shared' = With(ecopy[e], {k}, x) ELSE UNCHANGED shared
    BY <1>4 DEF Put
  <2>2. SharedFit(With(ecopy[e], {k}, x))
    BY <1>1, <1>4, WithShared DEF EditFits, Put
  <2>3. StoresFit'
    BY <1>1, <1>4, <2>1, <2>2 DEF StoresFit, Put
  <2> QED BY <1>2, <1>4, <2>3, NoFactsFit DEF Put, Answered
<1>5. CASE Clear(e)
  <2>1. SharedFit(With(ecopy[e], {k \in Keys : ecopy[e][k] \in Puts}, None))
    BY <1>1, <1>5, WithShared DEF EditFits, Clear
  <2>2. StoresFit'
    BY <1>1, <1>5, <2>1 DEF StoresFit, Clear
  <2> QED BY <1>2, <1>5, <2>2, NoFactsFit DEF Clear, Answered
<1>6. CASE ChildRead(e)
  <2>1. OnlyAbout(profile[EditChild[e]], EditChild[e])
    BY <1>1, <1>6, Abouts DEF StoresFit, ChildRead
  <2>2. e \notin Puts \cup Clears
    BY <1>6, FactsAssumption DEF ChildRead
  <2>3. StoresFit'
    BY <1>1, <1>6 DEF StoresFit, ChildRead, stores
  <2> QED BY <1>2, <1>6, <2>1, <2>2, <2>3 DEF ChildRead
<1>7. CASE ChildPut(e)
  <2>1. PICK k \in Asked, x \in {e, None} :
          profile' = [profile EXCEPT ![EditChild[e]] = With(ecopy[e], {k}, x)]
    BY <1>7 DEF ChildPut
  <2>2. OnlyAbout(With(ecopy[e], {k}, x), EditChild[e])
    BY <1>1, <1>7, Abouts, WithAbout DEF EditFits, ChildPut
  <2>3. StoresFit'
    BY <1>1, <1>7, <2>1, <2>2 DEF StoresFit, ChildPut
  <2> QED BY <1>2, <1>7, <2>3, NoFactsFit DEF ChildPut, Answered
<1> QED BY <1>3, <1>4, <1>5, <1>6, <1>7 DEF EditStep

LEMMA ApartInductive == ASSUME Racing = {} PROVE Spec => []ApartInv
<1>1. Init => ApartInv
  <2> SUFFICES ASSUME Init PROVE ApartInv
    OBVIOUS
  <2>1. \A b \in Scopes : InBranch(NewSession, Unbound) /\ NewSession.child = Unbound
    BY NoFactsFit DEF InBranch, NewSession
  <2>2. OneByOne
    BY DEF Init, OneByOne, Busy
  <2>3. StoresFit /\ \A e \in Edits : EditFits(e)
    BY NoFactsFit DEF Init, StoresFit, EditFits
  <2>4. \A t \in Turns : TurnFits(t)
    BY NoFactsFit DEF Init, TurnFits, Holding, Layered, Hydrations
  <2> QED BY <2>1, <2>2, <2>3, <2>4 DEF Init, ApartInv, Scopes
<1>2. TypeOK /\ ApartInv /\ [Next]_vars => ApartInv'
  <2> SUFFICES ASSUME TypeOK, ApartInv, [Next]_vars PROVE ApartInv'
    OBVIOUS
  <2>1. TypesButClaims
    BY TypeParts
  <2>2. CASE Next
    BY <2>1, <2>2, TurnStepApart, EditStepApart DEF Next
  <2>3. CASE UNCHANGED vars
    BY <2>3 DEF ApartInv, OneByOne, Busy, StoresFit, TurnFits, EditFits, vars, turn, edit, stores
  <2> QED BY <2>2, <2>3
<1> QED BY <1>1, <1>2, TypeTheorem, PTL DEF Spec

\* When a session's turns are sent one after the other, what was said of one
\* child reaches neither the other's facts nor its branch of a session,
\* whatever turns of other sessions and edits of the facts API come between.
\* (Racing turns of one session run in whatever branch the last one has opened:
\* nothing of the kind holds of them.)
THEOREM ChildrenTheorem == ASSUME Racing = {} PROVE Spec => []ChildrenApart
<1>1. ApartInv => ChildrenApart
  BY DEF ApartInv, StoresFit, InBranch, ChildrenApart
<1> QED BY <1>1, ApartInductive, PTL

\* And a conversation about no child leaves no trace in the family's facts and
\* sees none of the account's.
THEOREM UnboundTheorem == ASSUME Racing = {} PROVE Spec => []UnboundApart
<1>1. ApartInv => UnboundApart
  <2> SUFFICES ASSUME ApartInv PROVE UnboundApart
    OBVIOUS
  <2>1. \A t \in Turns : TurnFits(t)
    BY DEF ApartInv
  <2>2. ASSUME NEW t \in Turns, ctx[t].child = Unbound, tpc[t] \in Hydrations
        PROVE  ctx[t].shared = NoFacts /\ ctx[t].profile = NoFacts
    BY <2>1, <2>2 DEF TurnFits, Layered, LayersFit
  <2> QED BY <2>2 DEF ApartInv, StoresFit, SharedFit, UnboundApart
<1> QED BY <1>1, ApartInductive, PTL
=============================================================================
