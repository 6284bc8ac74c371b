--------------------------- MODULE WorkbenchProofs ---------------------------
(***************************************************************************)
(* Whatever the deployments, their packages and the number of operators:   *)
(* unless an activation commits over rows that changed since it read them, *)
(* deployments that exclude each other are never both active, and taking   *)
(* the active team offline leaves no team active.                          *)
(*                                                                         *)
(* OneActive is not inductive by itself: a commit keeps it only if the     *)
(* request knows its rival (Knows), and a rollback only if a row and its   *)
(* predecessor are rivals (Lineage).                                       *)
(*                                                                         *)
(* The second half is about the catalogue the deployments are made from    *)
(* (Releases): whatever the objects and the editors, the history of every  *)
(* object stays in order.  What one editor writes may fall between what    *)
(* another one reads and writes, so the invariant also says what an open   *)
(* request may still rely on (Relies).  An object id is never used again   *)
(* and a history only grows, so what was read stays true until the object  *)
(* is deleted (Later); a publication that is installed but not committed   *)
(* holds the row, so nobody else releases the object meanwhile (Steady).   *)
(* What the process runs under a key is then settled by three more facts:  *)
(* of the objects with one key one is there at a time (KeysApart), an      *)
(* installed publication runs until it commits (Mounted), and whoever      *)
(* installs over it says so (muddled).                                     *)
(*                                                                         *)
(* Third, the tests of what is not published (Workbench).  The registry of  *)
(* the process serves an overlay only over a Skill that the turn with the  *)
(* lock has put aside, and what is put aside is what was installed last    *)
(* unless an installation went by (MountInv).  Turns of a test that are    *)
(* under way together have met; of the others each later one has read what *)
(* they stored (StoreInv).  In a test of a team the form belongs to the    *)
(* expert of the test, a card that leads on has not been confirmed, and    *)
(* the words are those of the turns before, in their order (TeamInv).      *)
(*                                                                         *)
(* And the packages between installations.  A catalogue locks only the     *)
(* layer below and releases a revision once (Orderly); a package holds     *)
(* what its entries lock and nothing above its root (Sendable).  So an     *)
(* entry that is taken finds its locks taken (Delivered), a second import  *)
(* of the package finds what the first made as long as nobody touched the  *)
(* catalogue (Settled, Repeats), and no pointer moves (StillUnpublished).  *)
(***************************************************************************)
EXTENDS Catalogue, Workbench, FiniteSetTheorems, WellFoundedInduction, TLAPS

\* The shapes the argument needs.
Typed ==
  /\ status \in [Rows -> Statuses]
  /\ previous \in [Rows -> Rows \cup {None}]
  /\ req \in [Operators -> Request]
  /\ raced \in BOOLEAN

\* A row replaced a rival.
Lineage == \A d \in Rows : previous[d] # None => previous[d] # d /\ Rivals(d, previous[d])

\* A request that will activate a row leaves one rival of it, which was active when
\* it read; if it leaves none there was none.
Knows(r) ==
  /\ r.was = "active" => r.target \in r.seen
  /\ r.left = "superseded" /\ r.leaves # None => r.leaves \in Eligible(r.target, r.seen)
  /\ r.left = "superseded" /\ r.leaves = None => Eligible(r.target, r.seen) = {}
  /\ r.left = "rolled_back" => /\ r.leaves \in r.seen /\ r.leaves # r.target
                               /\ Rivals(r.target, r.leaves)

Activating == {"activate", "rollback", "installed"}
Fits(r) == /\ r.op \in Activating => Knows(r)
           /\ r.op = "deactivate" => IsTeam(r.target)
Informed == \A w \in Operators : Fits(req[w])

IInv == Typed /\ Lineage /\ Informed /\ OneActive

-----------------------------------------------------------------------------
(* Being rivals is an equivalence.                                         *)

LEMMA RivalsSymmetric ==
  ASSUME NEW d \in Rows, NEW e \in Rows, Rivals(d, e)
  PROVE  Rivals(e, d)
BY DeploymentAssumption DEF Rivals, IsTeam, DeploymentAssumption

LEMMA RivalsTransitive ==
  ASSUME NEW d \in Rows, NEW e \in Rows, NEW f \in Rows, Rivals(d, e), Rivals(e, f)
  PROVE  Rivals(d, f)
BY DeploymentAssumption DEF Rivals, IsTeam, DeploymentAssumption

LEMMA ReadsFields ==
  ASSUME NEW r \in Request, r.op # "idle"
  PROVE  /\ r.target \in Rows /\ r.was \in Statuses /\ r.leaves \in Rows \cup {None}
         /\ r.left \in {"superseded", "rolled_back"} /\ r.seen \subseteq Rows
         /\ r \in Reads
BY DEF Request, Reads, Idle

LEMMA ActiveRows == Active \subseteq Rows
BY DEF Active

-----------------------------------------------------------------------------
(* The steps.                                                              *)

LEMMA InitIInv == Init => IInv
<1> SUFFICES ASSUME Init PROVE IInv
  OBVIOUS
<1>1. Typed
  BY DEF Init, Typed, Statuses, Request
<1>2. Lineage
  BY DEF Init, Lineage
<1>3. Informed
  BY DEF Init, Informed, Fits, Activating, Idle
<1>4. OneActive
  BY DEF Init, OneActive, Active
<1> QED BY <1>1, <1>2, <1>3, <1>4 DEF IInv

\* A request that begins knows what it has read.
LEMMA BeginStep ==
  ASSUME IInv, NEW w \in Operators, NEW r \in Reads, Begin(w, r),
         Fits(r),
         UNCHANGED <<status, previous, raced>>
  PROVE  IInv'
<1>1. Typed'
  BY DEF IInv, Typed, Begin, Request
<1>2. Lineage'
  BY DEF IInv, Lineage, Rivals, IsTeam
<1>3. Informed'
  <2> SUFFICES ASSUME NEW v \in Operators PROVE Fits(req'[v])
    BY DEF Informed, Fits, Knows, Eligible, Rivals, IsTeam
  <2>1. CASE v = w
    BY <2>1 DEF Begin, IInv, Typed
  <2>2. CASE v # w
    BY <2>2 DEF Begin, IInv, Typed, Informed
  <2> QED BY <2>1, <2>2
<1>4. OneActive'
  BY DEF IInv, OneActive, Active, Rivals, IsTeam
<1> QED BY <1>1, <1>2, <1>3, <1>4 DEF IInv

\* A request that ends, or goes on knowing the same, while rows only leave the
\* active state or stay as they are.
LEMMA OtherStep ==
  ASSUME IInv, Typed', Active' \subseteq Active, UNCHANGED <<previous, raced>>,
         \A w \in Operators :
           \/ req'[w] = req[w]
           \/ req'[w].op = "idle"
           \/ req[w].op \in Activating /\ req'[w] = Installed(req[w])
  PROVE  IInv'
<1>1. Lineage'
  BY DEF IInv, Lineage, Rivals, IsTeam
<1>2. Informed'
  <2> SUFFICES ASSUME NEW v \in Operators PROVE Fits(req'[v])
    BY DEF Informed, Fits, Knows, Eligible, Rivals, IsTeam
  <2>1. CASE req'[v] = req[v]
    BY <2>1 DEF IInv, Informed
  <2>2. CASE req[v].op \in Activating /\ req'[v] = Installed(req[v])
    <3>1. Knows(req[v]) /\ req[v] \in Request
      BY <2>2 DEF IInv, Informed, Fits, Typed
    <3>2. req[v] \in Reads
      BY <2>2, <3>1, ReadsFields DEF Activating
    <3> QED BY <2>2, <3>1, <3>2 DEF Fits, Knows, Installed
  <2>3. CASE req'[v].op = "idle"
    BY <2>3 DEF Fits, Activating
  <2> QED BY <2>1, <2>2, <2>3
<1>3. OneActive'
  BY DEF IInv, OneActive, Rivals, IsTeam
<1> QED BY <1>1, <1>2, <1>3 DEF IInv

\* A commit over the rows it has read leaves the row it activates without a rival.
LEMMA CommitStep ==
  ASSUME IInv, NEW w \in Operators, ActivateCommit(w)
  PROVE  IInv'
<1> DEFINE r == req[w]
<1>1. r \in Reads /\ Knows(r) /\ r.target \in Rows /\ r.leaves \in Rows \cup {None}
      /\ r.left \in {"superseded", "rolled_back"} /\ r.op = "installed"
  BY ReadsFields DEF ActivateCommit, IInv, Typed, Informed, Fits, Activating
<1>2. \A d \in Rows : status'[d] \in Statuses
  BY <1>1 DEF ActivateCommit, IInv, Typed, Statuses
<1>3. status' \in [Rows -> Statuses]
  BY <1>2 DEF ActivateCommit
<1>4. previous' \in [Rows -> Rows \cup {None}]
  BY <1>1 DEF ActivateCommit, IInv, Typed
<1>5. req' = [req EXCEPT ![w] = Idle]
  BY DEF ActivateCommit, Finish
<1>6. Typed'
  <2>1. req' \in [Operators -> Request]
    BY <1>5 DEF IInv, Typed, Request
  <2>2. raced' \in BOOLEAN
    BY DEF ActivateCommit, IInv, Typed
  <2> QED BY <1>3, <1>4, <2>1, <2>2 DEF Typed
<1>7. Lineage'
  <2>1. r.left = "superseded" /\ r.leaves # None
          => r.leaves # r.target /\ Rivals(r.target, r.leaves)
    BY <1>1 DEF Knows, Eligible
  <2>2. \A d \in Rows : previous'[d] = previous[d]
                          \/ (d = r.target /\ r.left = "superseded" /\ r.leaves # None
                              /\ previous'[d] = r.leaves)
    BY <1>1 DEF ActivateCommit, IInv, Typed
  <2>3. \A d \in Rows : previous'[d] # None => previous'[d] # d /\ Rivals(d, previous'[d])
    BY <2>1, <2>2 DEF IInv, Lineage
  <2> QED BY <2>3 DEF Lineage, Rivals, IsTeam
<1>8. Informed'
  <2>1. \A v \in Operators : req'[v] = req[v] \/ req'[v].op = "idle"
    BY <1>5 DEF IInv, Typed, Idle
  <2>2. \A v \in Operators : Fits(req'[v])
    BY <2>1 DEF IInv, Informed, Fits, Activating
  <2> QED BY <2>2 DEF Informed, Fits, Knows, Eligible, Rivals, IsTeam
<1>9. OneActive'
  <2> SUFFICES ASSUME ~raced', NEW d \in Active', NEW e \in Active', Rivals(d, e)
               PROVE  d = e
    BY DEF OneActive, Rivals, IsTeam
  <2>1. ~raced /\ Active = r.seen
    BY DEF ActivateCommit, IInv, Typed
  <2>2. \A f \in Active' : f \in Rows /\ (f = r.target \/ (f \in Active /\ f # r.leaves))
    BY <1>1, <1>3 DEF ActivateCommit, Active, IInv, Typed
  <2>3. \A f, g \in Active : Rivals(f, g) => f = g
    BY <2>1 DEF IInv, OneActive
  <2>4. ASSUME NEW f \in Active', f # r.target, Rivals(r.target, f)
        PROVE  FALSE
    <3>1. f \in Active /\ f # r.leaves /\ f \in Rows
      BY <2>2, <2>4
    <3>2. CASE r.left = "superseded"
      <4>1. f \in Eligible(r.target, r.seen)
        BY <2>1, <2>4, <3>1 DEF Eligible
      <4>2. r.leaves # None /\ r.leaves \in Active /\ r.leaves \in Rows /\ Rivals(r.target, r.leaves)
        BY <1>1, <2>1, <3>2, <4>1 DEF Knows, Eligible
      <4>3. Rivals(f, r.leaves)
        BY <1>1, <2>4, <3>1, <4>2, RivalsSymmetric, RivalsTransitive
      <4> QED BY <2>3, <3>1, <4>2, <4>3
    <3>3. CASE r.left = "rolled_back"
      <4>1. r.leaves \in Active /\ r.leaves \in Rows /\ Rivals(r.target, r.leaves)
        BY <1>1, <2>1, <3>3, ActiveRows DEF Knows
      <4>2. Rivals(f, r.leaves)
        BY <1>1, <2>4, <3>1, <4>1, RivalsSymmetric, RivalsTransitive
      <4> QED BY <2>3, <3>1, <4>1, <4>2
    <3> QED BY <1>1, <3>2, <3>3
  <2>5. CASE d = r.target /\ e # r.target
    BY <2>4, <2>5
  <2>6. CASE e = r.target /\ d # r.target
    BY <1>1, <2>2, <2>4, <2>6, RivalsSymmetric
  <2>7. CASE d # r.target /\ e # r.target
    BY <2>2, <2>3, <2>7
  <2> QED BY <2>5, <2>6, <2>7
<1> QED BY <1>6, <1>7, <1>8, <1>9 DEF IInv

LEMMA ActivateBeginStep ==
  ASSUME IInv, NEW w \in Operators, NEW d \in Rows, ActivateBegin(w, d)
  PROVE  IInv'
<1>1. PICK e \in Eligible(d, Active) \cup {None} :
        /\ e = None => Eligible(d, Active) = {}
        /\ Reading(w, "activate", d, e, "superseded")
  BY DEF ActivateBegin
<1> DEFINE r == [op |-> "activate", target |-> d, was |-> status[d], leaves |-> e,
                 left |-> "superseded", seen |-> Active]
<1>2. Begin(w, r)
  BY <1>1 DEF Reading
<1>3. r \in Reads
  BY ActiveRows DEF Reads, IInv, Typed, Eligible
<1>4. Fits(r)
  BY <1>1 DEF Fits, Knows, Active
<1> HIDE DEF r
<1> QED BY <1>2, <1>3, <1>4, BeginStep DEF ActivateBegin

LEMMA RollbackBeginStep ==
  ASSUME IInv, NEW w \in Operators, NEW d \in Rows, RollbackBegin(w, d)
  PROVE  IInv'
<1> DEFINE r == [op |-> "rollback", target |-> previous[d], was |-> status[previous[d]],
                 leaves |-> d, left |-> "rolled_back", seen |-> Active]
<1>1. previous[d] \in Rows /\ previous[d] # d /\ Rivals(d, previous[d]) /\ status[d] = "active"
  BY DEF RollbackBegin, IInv, Typed, Lineage
<1>2. Begin(w, r)
  BY DEF RollbackBegin
<1>3. r \in Reads
  BY <1>1, ActiveRows DEF Reads, IInv, Typed
<1>4. Fits(r)
  BY <1>1, RivalsSymmetric DEF Fits, Knows, Active
<1> HIDE DEF r
<1> QED BY <1>2, <1>3, <1>4, BeginStep DEF RollbackBegin

LEMMA DeactivateBeginStep ==
  ASSUME IInv, NEW w \in Operators, NEW d \in Rows, DeactivateBegin(w, d)
  PROVE  IInv'
<1> DEFINE r == [op |-> "deactivate", target |-> d, was |-> status[d], leaves |-> None,
                 left |-> "superseded", seen |-> Active]
<1>1. Begin(w, r)
  BY DEF DeactivateBegin, Reading
<1>2. r \in Reads /\ Fits(r)
  BY ActiveRows DEF DeactivateBegin, Reads, IInv, Typed, Activating, Fits
<1> HIDE DEF r
<1> QED BY <1>1, <1>2, BeginStep DEF DeactivateBegin

LEMMA OperatorStep ==
  ASSUME IInv, NEW w \in Operators, Operator(w)
  PROVE  IInv'
<1>1. ASSUME NEW d \in Rows, ActivateBegin(w, d) \/ RestoreBegin(w, d)
      PROVE  IInv'
  BY <1>1, ActivateBeginStep DEF RestoreBegin
<1>2. ASSUME NEW d \in Rows, RollbackBegin(w, d) PROVE IInv'
  BY <1>2, RollbackBeginStep
<1>3. ASSUME NEW d \in Rows, DeactivateBegin(w, d) PROVE IInv'
  BY <1>3, DeactivateBeginStep
<1>4. ASSUME Install(w) PROVE IInv'
  <2>1. req[w] \in Reads /\ req[w].op \in Activating
    BY <1>4, ReadsFields DEF Install, IInv, Typed, Activating
  <2>2. req' = [req EXCEPT ![w] = Installed(req[w])]
    BY <1>4 DEF Install
  <2>3. req' \in [Operators -> Request]
    BY <2>1, <2>2 DEF IInv, Typed, Request, Reads, Installed
  <2>4. Typed'
    BY <1>4, <2>3 DEF Install, IInv, Typed
  <2>5. \A v \in Operators : req'[v] = req[v] \/ (v = w /\ req'[v] = Installed(req[w]))
    BY <2>2 DEF IInv, Typed
  <2> QED BY <1>4, <2>1, <2>4, <2>5, OtherStep DEF Install, Active
<1>5. ASSUME ActivateCommit(w) PROVE IInv'
  BY <1>5, CommitStep
<1>6. ASSUME DeactivateCommit(w) PROVE IInv'
  <2>1. req[w].target \in Rows
    BY <1>6, ReadsFields DEF DeactivateCommit, IInv, Typed
  <2>2. Typed'
    BY <1>6, <2>1 DEF DeactivateCommit, Finish, IInv, Typed, Statuses, Request
  <2>3. Active' \subseteq Active
    BY <1>6, <2>1 DEF DeactivateCommit, IInv, Typed, Active
  <2>4. \A v \in Operators : req'[v] = req[v] \/ req'[v].op = "idle"
    BY <1>6 DEF DeactivateCommit, Finish, IInv, Typed, Idle
  <2> QED BY <1>6, <2>2, <2>3, <2>4, OtherStep DEF DeactivateCommit
<1>7. ASSUME Fail(w) PROVE IInv'
  <2>1. Typed'
    BY <1>7 DEF Fail, Finish, IInv, Typed, Request
  <2>2. \A v \in Operators : req'[v] = req[v] \/ req'[v].op = "idle"
    BY <1>7 DEF Fail, Finish, IInv, Typed, Idle
  <2> QED BY <1>7, <2>1, <2>2, OtherStep DEF Fail, Active
<1> QED BY <1>1, <1>2, <1>3, <1>4, <1>5, <1>6, <1>7 DEF Operator

LEMMA NextIInv == IInv /\ [Next]_vars => IInv'
<1> SUFFICES ASSUME IInv, [Next]_vars PROVE IInv'
  OBVIOUS
<1>1. ASSUME NEW d \in Rows, Import(d) PROVE IInv'
  <2>1. Typed'
    BY <1>1 DEF Import, IInv, Typed, Statuses
  <2>2. Active' \subseteq Active
    BY <1>1 DEF Import, IInv, Typed, Active
  <2> QED BY <1>1, <2>1, <2>2, OtherStep DEF Import
<1>2. ASSUME NEW w \in Operators, Operator(w) PROVE IInv'
  BY <1>2, OperatorStep
<1>3. ASSUME NEW k \in Keys, NEW v \in Published, Publish(k, v) PROVE IInv'
  <2>1. Typed'
    BY <1>3 DEF Publish, IInv, Typed
  <2> QED BY <1>3, <2>1, OtherStep DEF Publish, Active
<1>4. ASSUME Restart PROVE IInv'
  <2>1. Typed'
    BY <1>4 DEF Restart, IInv, Typed, Request
  <2>2. \A v \in Operators : req'[v].op = "idle"
    BY <1>4 DEF Restart, Idle
  <2> QED BY <1>4, <2>1, <2>2, OtherStep DEF Restart, Active
<1>5. ASSUME UNCHANGED vars PROVE IInv'
  <2>1. Typed'
    BY <1>5 DEF vars, IInv, Typed
  <2> QED BY <1>5, <2>1, OtherStep DEF vars, Active
<1> QED BY <1>1, <1>2, <1>3, <1>4, <1>5 DEF Next

\* Deployments that exclude each other are never both active, whatever operators
\* do, unless an activation committed over rows it had not read.
THEOREM OneActiveTheorem == Spec => []OneActive
<1>1. IInv => OneActive
  BY DEF IInv
<1> QED BY <1>1, InitIInv, NextIInv, PTL DEF Spec

\* Taking the active team offline leaves no team active under the same condition.
THEOREM DeactivationTheorem == Spec => DeactivationStops
<1>1. ASSUME IInv, NEW w \in Operators, DeactivateCommit(w),
             status[req[w].target] = "active", ~raced
      PROVE  Snapshot' = None
  <2>1. req[w].target \in Rows /\ IsTeam(req[w].target)
    BY <1>1, ReadsFields DEF DeactivateCommit, IInv, Typed, Informed, Fits
  <2>2. \A d \in Rows : status[d] = "active" /\ IsTeam(d) => d = req[w].target
    BY <1>1, <2>1 DEF IInv, OneActive, Active, Rivals
  <2>3. {d \in Active : IsTeam(d)}' = {}
    BY <1>1, <2>1, <2>2 DEF DeactivateCommit, Active, IInv, Typed, IsTeam
  <2> QED BY <2>3 DEF Snapshot, Latest
<1>2. IInv => ((\E w \in Operators : DeactivateCommit(w) /\ status[req[w].target] = "active" /\ ~raced)
                 => Snapshot' = None)
  BY <1>1
<1>3. Spec => []IInv
  BY InitIInv, NextIInv, PTL DEF Spec
<1> QED BY <1>2, <1>3, PTL DEF DeactivationStops
-----------------------------------------------------------------------------
(* The catalogue the deployments are made from.                            *)

ObjectStatuses == {"none", "live", "archived", "deleted"}
InUse(s) == s \in {"live", "archived"}

\* An object in the database, by its status s, revisions v, releases l and pointer c: the
\* history is in order, and an object that is not there has none.
Sound(s, v, l, c) ==
  /\ s \in ObjectStatuses /\ v \in Seq(RL!Revision) /\ l \in Seq(RL!Release) /\ c \in 0..MaxRevs
  /\ Len(v) <= MaxRevs /\ Len(l) <= MaxRevs /\ c <= Len(l)
  /\ \A n \in DOMAIN v : v[n].base = n - 1
  /\ \A k \in DOMAIN l : l[k].rev \in DOMAIN v /\ l[k].locks = v[l[k].rev].locks
  /\ \A j, k \in DOMAIN l : l[j].rev = l[k].rev => j = k
  /\ ~InUse(s) => v = << >> /\ l = << >> /\ c = 0

\* What an open transaction may rely on of its object.
Relies(r, s, v, l) ==
  /\ s # "none"
  /\ r.op = "save" => r.n < MaxRevs
  /\ r.op \in {"publish", "installed"} /\ InUse(s) => r.n \in DOMAIN v /\ r.locks = v[r.n].locks
  /\ r.op = "installed" => InUse(s) /\ Len(l) = r.seen /\ \A k \in DOMAIN l : l[k].rev # r.n
  /\ r.op \in {"select", "selected"} => r.n # 0
  /\ r.op = "select" /\ InUse(s) => r.n <= Len(l)

\* Every open request can rely on what it has read, and a row is locked by one at most.
RequestsFit ==
  /\ \A e \in Editors : rReq[e] # RL!Idle =>
       LET o == rReq[e].obj IN Relies(rReq[e], rStatus[o], rRevs[o], rRels[o])
  /\ \A e, f \in Editors :
       rReq[e].op = "installed" /\ rReq[f].op = "installed" /\ rReq[e].obj = rReq[f].obj => e = f

\* The invariant: shapes, every object in order, every request with what it relies on.
HistoryInv ==
  /\ RL!TypeOK
  /\ \A o \in Objects : Sound(rStatus[o], rRevs[o], rRels[o], rCurrent[o])
  /\ RequestsFit
-----------------------------------------------------------------------------
(* The objects of the catalogue: what a step does to one keeps it in order. *)

\* What may come of an object (s, v, l) while other transactions rely on it: an id is
\* never used again, and while it is there its history only grows.
Later(s, v, l, t, w, m) ==
  s # "none" =>
    /\ t # "none"
    /\ InUse(t) => /\ InUse(s) /\ Len(l) <= Len(m)
                   /\ \A n \in DOMAIN v : n \in DOMAIN w /\ w[n].locks = v[n].locks

\* What may come of it while its row is locked.
Steady(s, l, t, m) ==
  InUse(s) => /\ InUse(t) /\ Len(m) = Len(l)
              /\ \A k \in DOMAIN l : m[k].rev = l[k].rev

LEMMA Numbers ==
  ASSUME RL!CatalogueAssumption
  PROVE  /\ MaxRevs \in Nat /\ MaxRevs # 0
         /\ \A o \in Objects : Limit[o] \in 0..MaxRevs /\ Key[o] \in RL!KeysInUse
BY DEF RL!CatalogueAssumption, RL!KeysInUse

LEMMA RequestFields ==
  ASSUME NEW r \in RL!Request, r # RL!Idle
  PROVE  /\ r.op \in RL!Ops /\ r.obj \in Objects /\ r.n \in 0..MaxRevs /\ r.seen \in 0..MaxRevs
         /\ r.locks \subseteq RL!Releases
BY DEF RL!Request

LEMMA IdleFields ==
  /\ RL!Idle \in RL!Request /\ RL!Idle.op = "idle"
  /\ \A r \in RL!Request : r.op = "idle" <=> r = RL!Idle
BY DEF RL!Idle, RL!Request, RL!Ops

LEMMA SoundFields ==
  ASSUME RL!CatalogueAssumption, NEW s, NEW v, NEW l, NEW c, Sound(s, v, l, c)
  PROVE  /\ Len(v) \in Nat /\ Len(l) \in Nat /\ DOMAIN v = 1..Len(v) /\ DOMAIN l = 1..Len(l)
         /\ c \in Nat
         /\ \A n \in DOMAIN v : v[n] \in RL!Revision /\ v[n].locks \subseteq RL!Releases
         /\ \A k \in DOMAIN l : l[k] \in RL!Release /\ l[k].locks \subseteq RL!Releases
                                /\ l[k].rev \in 1..MaxRevs
<1>1. v \in Seq(RL!Revision) /\ l \in Seq(RL!Release) /\ c \in 0..MaxRevs
  BY DEF Sound
<1>2. \A n \in DOMAIN v : v[n] \in RL!Revision
  BY <1>1
<1>3. \A k \in DOMAIN l : l[k] \in RL!Release
  BY <1>1
<1> QED BY <1>1, <1>2, <1>3, Numbers DEF RL!Revision, RL!Release

\* What a request relies on stays true.
LEMMA RequestStays ==
  ASSUME NEW r, NEW s, NEW v, NEW l, NEW t, NEW w, NEW m,
         Relies(r, s, v, l), Later(s, v, l, t, w, m), r.n \in Nat,
         r.op = "installed" => Steady(s, l, t, m), Len(l) \in Nat, Len(m) \in Nat,
         DOMAIN l = 1..Len(l), DOMAIN m = 1..Len(m)
  PROVE  Relies(r, t, w, m)
<1>1. s # "none" /\ t # "none"
  BY DEF Relies, Later
<1>2. InUse(t) => /\ InUse(s) /\ Len(l) <= Len(m)
                  /\ \A n \in DOMAIN v : n \in DOMAIN w /\ w[n].locks = v[n].locks
  BY <1>1 DEF Later
<1>3. r.op \in {"publish", "installed"} /\ InUse(t) => r.n \in DOMAIN w /\ r.locks = w[r.n].locks
  BY <1>2 DEF Relies
<1>4. r.op = "installed" => InUse(t) /\ Len(m) = r.seen /\ \A k \in DOMAIN m : m[k].rev # r.n
  BY DEF Relies, Steady
<1>5. r.op = "select" /\ InUse(t) => r.n <= Len(m)
  <2>1. r.op = "select" /\ InUse(t) => r.n <= Len(l) /\ Len(l) <= Len(m)
    BY <1>2 DEF Relies
  <2> QED BY <2>1
<1> QED BY <1>1, <1>3, <1>4, <1>5 DEF Relies

\* An object without history.
LEMMA Nothingness ==
  ASSUME RL!CatalogueAssumption, NEW s \in ObjectStatuses
  PROVE  Sound(s, << >>, << >>, 0)
<1>1. << >> \in Seq(RL!Revision) /\ << >> \in Seq(RL!Release) /\ Len(<< >>) = 0 /\ DOMAIN << >> = {}
  OBVIOUS
<1> QED BY <1>1, Numbers DEF Sound

\* A revision made from the last one.
LEMMA Drafting ==
  ASSUME RL!CatalogueAssumption, NEW s, NEW v, NEW l, NEW c, Sound(s, v, l, c),
         NEW t \in {"live", "archived"}, NEW locks \in SUBSET RL!Releases, Len(v) < MaxRevs
  PROVE  LET w == Append(v, [base |-> Len(v), locks |-> locks, tested |-> FALSE])
         IN  /\ Sound(t, w, l, c) /\ Len(w) = Len(v) + 1 /\ w[Len(v) + 1].locks = locks
             /\ s # "deleted" => Later(s, v, l, t, w, l)
             /\ \A n \in DOMAIN v : n \in DOMAIN w /\ w[n] = v[n]
<1> DEFINE x == [base |-> Len(v), locks |-> locks, tested |-> FALSE]
           w == Append(v, x)
<1>1. /\ Len(v) \in Nat /\ Len(l) \in Nat /\ DOMAIN v = 1..Len(v) /\ v \in Seq(RL!Revision)
      /\ s \in ObjectStatuses
  BY SoundFields DEF Sound
<1>2. x \in RL!Revision /\ x.base = Len(v) /\ x.locks = locks
  BY <1>1, Numbers DEF RL!Revision
<1> HIDE DEF x
<1>3. /\ w \in Seq(RL!Revision) /\ Len(w) = Len(v) + 1 /\ DOMAIN w = 1..(Len(v) + 1)
      /\ w[Len(v) + 1] = x
      /\ \A n \in DOMAIN v : n \in DOMAIN w /\ w[n] = v[n]
  BY <1>1, <1>2
<1> HIDE DEF w
<1>4. \A n \in DOMAIN w : w[n].base = n - 1
  <2> SUFFICES ASSUME NEW n \in DOMAIN w PROVE w[n].base = n - 1
    OBVIOUS
  <2>1. CASE n \in DOMAIN v
    BY <1>3, <2>1 DEF Sound
  <2>2. CASE n \notin DOMAIN v
    <3>1. n = Len(v) + 1
      BY <1>1, <1>3, <2>2
    <3> QED BY <1>1, <1>2, <1>3, <3>1
  <2> QED BY <2>1, <2>2
<1>5. \A k \in DOMAIN l : l[k].rev \in DOMAIN w /\ l[k].locks = w[l[k].rev].locks
  BY <1>3 DEF Sound
<1>6. Sound(t, w, l, c)
  <2>1. Len(w) <= MaxRevs
    BY <1>1, <1>3, Numbers
  <2> QED BY <1>3, <1>4, <1>5, <2>1 DEF Sound, InUse, ObjectStatuses
<1>7. s # "deleted" => Later(s, v, l, t, w, l)
  BY <1>1, <1>3 DEF Later, InUse, ObjectStatuses
<1> QED BY <1>2, <1>3, <1>6, <1>7 DEF w, x

\* A revision is accepted.
LEMMA Testing ==
  ASSUME RL!CatalogueAssumption, NEW s, NEW v, NEW l, NEW c, Sound(s, v, l, c), NEW i \in DOMAIN v,
         NEW x \in RL!Revision, x.base = v[i].base, x.locks = v[i].locks
  PROVE  LET w == [v EXCEPT ![i] = x]
         IN  Sound(s, w, l, c) /\ Later(s, v, l, s, w, l)
<1> DEFINE w == [v EXCEPT ![i] = x]
<1>1. /\ v \in Seq(RL!Revision) /\ Len(v) \in Nat /\ DOMAIN v = 1..Len(v) /\ Len(l) \in Nat
  BY SoundFields DEF Sound
<1>2. /\ w \in Seq(RL!Revision) /\ Len(w) = Len(v) /\ DOMAIN w = DOMAIN v
      /\ \A n \in DOMAIN v : w[n] = IF n = i THEN x ELSE v[n]
  BY <1>1
<1> HIDE DEF w
<1>3. \A n \in DOMAIN v : w[n].base = v[n].base /\ w[n].locks = v[n].locks
  BY <1>2
<1>4. v # << >>
  BY <1>1
<1>5. Sound(s, w, l, c)
  BY <1>2, <1>3, <1>4 DEF Sound
<1>6. Later(s, v, l, s, w, l)
  BY <1>1, <1>2, <1>3 DEF Later
<1> QED BY <1>5, <1>6 DEF w

\* A revision that is not released yet leaves room for its release.
LEMMA Room ==
  ASSUME RL!CatalogueAssumption, NEW s, NEW v, NEW l, NEW c, Sound(s, v, l, c),
         NEW n \in DOMAIN v, \A k \in DOMAIN l : l[k].rev # n
  PROVE  Len(l) < MaxRevs
<1>1. /\ Len(v) \in Nat /\ Len(l) \in Nat /\ DOMAIN v = 1..Len(v) /\ DOMAIN l = 1..Len(l)
      /\ Len(v) <= MaxRevs
  BY SoundFields DEF Sound
<1> DEFINE f == [k \in 1..Len(l) |-> l[k].rev]
           T == (1..Len(v)) \ {n}
<1>2. f \in Injection(1..Len(l), T)
  <2>1. f \in [1..Len(l) -> T]
    BY <1>1 DEF Sound
  <2>2. \A j, k \in 1..Len(l) : f[j] = f[k] => j = k
    BY <1>1 DEF Sound
  <2> HIDE DEF f, T
  <2> QED BY <2>1, <2>2 DEF Injection, IsInjective
<1> HIDE DEF f
<1>3. IsFiniteSet(1..Len(v)) /\ Cardinality(1..Len(v)) = IF 1 > Len(v) THEN 0 ELSE Len(v) - 1 + 1
  BY <1>1, FS_Interval
<1>4. IsFiniteSet(T) /\ Cardinality(T) = Cardinality(1..Len(v)) - 1
  BY <1>1, <1>3, FS_RemoveElement
<1>5. Cardinality(1..Len(l)) <= Cardinality(T)
  BY <1>2, <1>4, FS_Injection
<1>6. Cardinality(1..Len(l)) = IF 1 > Len(l) THEN 0 ELSE Len(l) - 1 + 1
  <2>1. 1 \in Int /\ Len(l) \in Int
    BY <1>1
  <2> QED BY <2>1, FS_Interval
<1>7. Cardinality(1..Len(l)) = Len(l)
  BY <1>1, <1>6
<1>8. Cardinality(1..Len(v)) = Len(v)
  BY <1>1, <1>3
<1> HIDE DEF T
<1> QED BY <1>1, <1>4, <1>5, <1>7, <1>8, Numbers

\* A revision is released.
LEMMA Releasing ==
  ASSUME RL!CatalogueAssumption, NEW s, NEW v, NEW l, NEW c, Sound(s, v, l, c), InUse(s),
         NEW n \in DOMAIN v, \A k \in DOMAIN l : l[k].rev # n, NEW locks, locks = v[n].locks,
         NEW d \in 0..(Len(l) + 1)
  PROVE  LET m == Append(l, [rev |-> n, locks |-> locks, archived |-> FALSE])
         IN  /\ Sound(s, v, m, d) /\ Len(m) = Len(l) + 1 /\ Len(l) + 1 \in 1..MaxRevs
             /\ Later(s, v, l, s, v, m)
<1> DEFINE x == [rev |-> n, locks |-> locks, archived |-> FALSE]
           m == Append(l, x)
<1>1. /\ Len(v) \in Nat /\ Len(l) \in Nat /\ DOMAIN v = 1..Len(v) /\ DOMAIN l = 1..Len(l)
      /\ Len(v) <= MaxRevs /\ l \in Seq(RL!Release) /\ v[n].locks \subseteq RL!Releases
  BY SoundFields DEF Sound
<1>2. x \in RL!Release /\ x.rev = n /\ x.locks = v[n].locks
  BY <1>1, Numbers DEF RL!Release
<1>3. Len(l) < MaxRevs
  BY Room
<1> HIDE DEF x
<1>4. /\ m \in Seq(RL!Release) /\ Len(m) = Len(l) + 1 /\ DOMAIN m = 1..(Len(l) + 1)
      /\ m[Len(l) + 1] = x
      /\ \A k \in DOMAIN l : k \in DOMAIN m /\ m[k] = l[k]
      /\ \A k \in DOMAIN m : k \in DOMAIN l \/ k = Len(l) + 1
  BY <1>1, <1>2
<1> HIDE DEF m
<1>5. \A k \in DOMAIN m : m[k].rev \in DOMAIN v /\ m[k].locks = v[m[k].rev].locks
  BY <1>2, <1>4 DEF Sound
<1>6. \A j, k \in DOMAIN m : m[j].rev = m[k].rev => j = k
  <2> SUFFICES ASSUME NEW j \in DOMAIN m, NEW k \in DOMAIN m, m[j].rev = m[k].rev PROVE j = k
    OBVIOUS
  <2>1. CASE j \in DOMAIN l /\ k \in DOMAIN l
    BY <1>4, <2>1 DEF Sound
  <2>2. CASE j \notin DOMAIN l /\ k \notin DOMAIN l
    BY <1>4, <2>2
  <2>3. CASE j \in DOMAIN l /\ k \notin DOMAIN l
    BY <1>2, <1>4, <2>3
  <2>4. CASE j \notin DOMAIN l /\ k \in DOMAIN l
    BY <1>2, <1>4, <2>4
  <2> QED BY <2>1, <2>2, <2>3, <2>4
<1>7. Sound(s, v, m, d)
  <2>1. d \in 0..MaxRevs /\ d <= Len(m) /\ Len(m) <= MaxRevs
    BY <1>1, <1>3, <1>4, Numbers
  <2> QED BY <1>4, <1>5, <1>6, <2>1 DEF Sound
<1>8. Later(s, v, l, s, v, m)
  BY <1>1, <1>4 DEF Later
<1>9. Len(l) + 1 \in 1..MaxRevs
  BY <1>1, <1>3, Numbers
<1> QED BY <1>4, <1>7, <1>8, <1>9 DEF m, x

\* A release is archived.
LEMMA Archiving ==
  ASSUME RL!CatalogueAssumption, NEW s, NEW v, NEW l, NEW c, Sound(s, v, l, c), NEW i \in DOMAIN l,
         NEW x \in RL!Release, x.rev = l[i].rev, x.locks = l[i].locks
  PROVE  LET m == [l EXCEPT ![i] = x]
         IN  Sound(s, v, m, c) /\ Later(s, v, l, s, v, m) /\ Steady(s, l, s, m)
<1> DEFINE m == [l EXCEPT ![i] = x]
<1>1. /\ l \in Seq(RL!Release) /\ Len(v) \in Nat /\ DOMAIN l = 1..Len(l) /\ Len(l) \in Nat
  BY SoundFields DEF Sound
<1>2. /\ m \in Seq(RL!Release) /\ Len(m) = Len(l) /\ DOMAIN m = DOMAIN l
      /\ \A k \in DOMAIN l : m[k] = IF k = i THEN x ELSE l[k]
  BY <1>1
<1> HIDE DEF m
<1>3. \A k \in DOMAIN l : m[k].rev = l[k].rev /\ m[k].locks = l[k].locks
  BY <1>2
<1>4. l # << >>
  BY <1>1
<1>5. Sound(s, v, m, c)
  BY <1>2, <1>3, <1>4 DEF Sound
<1>6. Later(s, v, l, s, v, m) /\ Steady(s, l, s, m)
  BY <1>1, <1>2, <1>3 DEF Later, Steady
<1> QED BY <1>5, <1>6 DEF m
-----------------------------------------------------------------------------
(* Steps: which requests move, and what comes of the objects.              *)

At(o) == Sound(rStatus[o], rRevs[o], rRels[o], rCurrent[o])
Grows(o) == Later(rStatus[o], rRevs[o], rRels[o], rStatus'[o], rRevs'[o], rRels'[o])

\* The requests that move are those of B, and what they have read is true.
Served(B) ==
  /\ rReq' \in [Editors -> RL!Request] /\ \A e \in Editors \ B : rReq'[e] = rReq[e]
  /\ \A e \in B :
       /\ rReq'[e] # RL!Idle => LET o == rReq'[e].obj
                            IN Relies(rReq'[e], rStatus'[o], rRevs'[o], rRels'[o])
       /\ rReq'[e].op = "installed" => RL!Unlocked(rReq'[e].obj) /\ B = {e}

\* Nobody but those of B has locked the row.
Free(o, B) == \A e \in Editors \ B : ~(rReq[e].op = "installed" /\ rReq[e].obj = o)

Registered ==
  /\ rRuntime' \in [RL!KeysInUse -> RL!Releases \cup {Nothing}]
  /\ rMuddled' \subseteq RL!KeysInUse

\* What the invariant says, for the steps.
LEMMA Known ==
  ASSUME RL!CatalogueAssumption, HistoryInv
  PROVE  /\ rStatus \in [Objects -> ObjectStatuses] /\ rRevs \in [Objects -> Seq(RL!Revision)]
         /\ rRels \in [Objects -> Seq(RL!Release)] /\ rCurrent \in [Objects -> 0..MaxRevs]
         /\ rRuntime \in [RL!KeysInUse -> RL!Releases \cup {Nothing}]
         /\ rMuddled \subseteq RL!KeysInUse
         /\ rReq \in [Editors -> RL!Request]
         /\ \A o \in Objects :
              /\ At(o) /\ Len(rRevs[o]) \in Nat /\ Len(rRels[o]) \in Nat
              /\ Later(rStatus[o], rRevs[o], rRels[o], rStatus[o], rRevs[o], rRels[o])
              /\ Steady(rStatus[o], rRels[o], rStatus[o], rRels[o])
         /\ \A e \in Editors : rReq[e] # RL!Idle =>
              /\ rReq[e].obj \in Objects
              /\ Relies(rReq[e], rStatus[rReq[e].obj], rRevs[rReq[e].obj], rRels[rReq[e].obj])
<1>1. /\ rStatus \in [Objects -> ObjectStatuses] /\ rRevs \in [Objects -> Seq(RL!Revision)]
      /\ rRels \in [Objects -> Seq(RL!Release)] /\ rCurrent \in [Objects -> 0..MaxRevs]
      /\ rRuntime \in [RL!KeysInUse -> RL!Releases \cup {Nothing}]
      /\ rMuddled \subseteq RL!KeysInUse
      /\ rReq \in [Editors -> RL!Request]
  BY DEF HistoryInv, RL!TypeOK, ObjectStatuses
<1>2. \A o \in Objects : At(o)
  BY DEF HistoryInv, At
<1>3. \A o \in Objects : Len(rRevs[o]) \in Nat /\ Len(rRels[o]) \in Nat
  BY <1>1
<1>4. \A o \in Objects : /\ Later(rStatus[o], rRevs[o], rRels[o], rStatus[o], rRevs[o], rRels[o])
                         /\ Steady(rStatus[o], rRels[o], rStatus[o], rRels[o])
  BY <1>3 DEF Later, Steady
<1>5. \A e \in Editors : rReq[e] # RL!Idle =>
              /\ rReq[e].obj \in Objects
              /\ Relies(rReq[e], rStatus[rReq[e].obj], rRevs[rReq[e].obj], rRels[rReq[e].obj])
  BY <1>1, RequestFields DEF HistoryInv, RequestsFit
<1> QED BY <1>1, <1>2, <1>3, <1>4, <1>5

\* Whoever has locked a row has the object to himself.
LEMMA Held ==
  ASSUME RL!CatalogueAssumption, HistoryInv, NEW e \in Editors, rReq[e].op = "installed"
  PROVE  /\ rReq[e] # RL!Idle /\ rReq[e].obj \in Objects /\ InUse(rStatus[rReq[e].obj])
         /\ \A f \in Editors : rReq[f].op = "installed" /\ rReq[f].obj = rReq[e].obj => f = e
<1>1. rReq[e] # RL!Idle
  BY IdleFields
<1>2. InUse(rStatus[rReq[e].obj]) /\ rReq[e].obj \in Objects
  BY <1>1, Known DEF Relies
<1>3. \A f \in Editors : rReq[f].op = "installed" /\ rReq[f].obj = rReq[e].obj => f = e
  BY DEF HistoryInv, RequestsFit
<1> QED BY <1>1, <1>2, <1>3

\* A step that does this to the objects and serves these requests keeps the invariant.
LEMMA Moves ==
  ASSUME RL!CatalogueAssumption, HistoryInv, NEW B \in SUBSET Editors, Served(B), Registered,
         rStatus' = [o \in Objects |-> rStatus'[o]], rRevs' = [o \in Objects |-> rRevs'[o]],
         rRels' = [o \in Objects |-> rRels'[o]], rCurrent' = [o \in Objects |-> rCurrent'[o]],
         \A o \in Objects :
           /\ Sound(rStatus'[o], rRevs'[o], rRels'[o], rCurrent'[o]) /\ Grows(o)
           /\ Free(o, B) \/ Steady(rStatus[o], rRels[o], rStatus'[o], rRels'[o])
  PROVE  HistoryInv'
<1>1. \A o \in Objects :
        /\ rStatus'[o] \in ObjectStatuses /\ rRevs'[o] \in Seq(RL!Revision)
        /\ rRels'[o] \in Seq(RL!Release) /\ rCurrent'[o] \in 0..MaxRevs
  BY DEF Sound
<1>2. RL!TypeOK'
  <2>1. rStatus' \in [Objects -> ObjectStatuses]
    BY <1>1
  <2>2. rRevs' \in [Objects -> Seq(RL!Revision)]
    BY <1>1
  <2>3. rRels' \in [Objects -> Seq(RL!Release)]
    BY <1>1
  <2>4. rCurrent' \in [Objects -> 0..MaxRevs]
    BY <1>1
  <2> QED BY <2>1, <2>2, <2>3, <2>4 DEF RL!TypeOK, Served, Registered, ObjectStatuses
<1>3. ASSUME NEW e \in Editors, rReq'[e] # RL!Idle
      PROVE  Relies(rReq'[e], rStatus'[rReq'[e].obj], rRevs'[rReq'[e].obj], rRels'[rReq'[e].obj])
  <2>1. CASE e \in B
    BY <1>3, <2>1 DEF Served
  <2>2. CASE e \notin B
    <3> DEFINE o == rReq[e].obj
    <3>1. rReq'[e] = rReq[e] /\ o \in Objects /\ Relies(rReq[e], rStatus[o], rRevs[o], rRels[o])
      BY <1>3, <2>2, Known DEF Served
    <3>2. rReq[e].n \in Nat
      BY <1>3, <3>1, Known, RequestFields, Numbers
    <3>3. rReq[e].op = "installed" => Steady(rStatus[o], rRels[o], rStatus'[o], rRels'[o])
      BY <2>2, <3>1 DEF Free
    <3>4. Later(rStatus[o], rRevs[o], rRels[o], rStatus'[o], rRevs'[o], rRels'[o])
      BY <3>1 DEF Grows
    <3>5. /\ rRels[o] \in Seq(RL!Release) /\ rRels'[o] \in Seq(RL!Release)
      BY <1>1, <3>1, Known
    <3>6. /\ Len(rRels[o]) \in Nat /\ Len(rRels'[o]) \in Nat
          /\ DOMAIN rRels[o] = 1..Len(rRels[o]) /\ DOMAIN rRels'[o] = 1..Len(rRels'[o])
      BY <3>5
    <3> HIDE DEF o
    <3>7. Relies(rReq[e], rStatus'[o], rRevs'[o], rRels'[o])
      BY <3>1, <3>2, <3>3, <3>4, <3>6, RequestStays
    <3> QED BY <3>1, <3>7 DEF o
  <2> QED BY <2>1, <2>2
<1>4. ASSUME NEW e \in Editors, NEW f \in Editors, rReq'[e].op = "installed",
             rReq'[f].op = "installed", rReq'[e].obj = rReq'[f].obj
      PROVE  e = f
  <2>1. CASE e \notin B /\ f \notin B
    BY <1>4, <2>1 DEF Served, HistoryInv, RequestsFit
  <2>2. CASE e \in B
    BY <1>4, <2>2 DEF Served, RL!Unlocked
  <2>3. CASE f \in B
    BY <1>4, <2>3 DEF Served, RL!Unlocked
  <2> QED BY <2>1, <2>2, <2>3
<1>5. RequestsFit'
  BY <1>3, <1>4 DEF RequestsFit
<1> QED BY <1>2, <1>5 DEF HistoryInv

\* A step that changes one object at most.
LEMMA Changes ==
  ASSUME RL!CatalogueAssumption, HistoryInv, NEW B \in SUBSET Editors, Served(B), Registered,
         NEW o \in Objects, NEW s, NEW v, NEW l, NEW c, Sound(s, v, l, c),
         Later(rStatus[o], rRevs[o], rRels[o], s, v, l),
         Free(o, B) \/ Steady(rStatus[o], rRels[o], s, l),
         rStatus' = [rStatus EXCEPT ![o] = s], rRevs' = [rRevs EXCEPT ![o] = v],
         rRels' = [rRels EXCEPT ![o] = l], rCurrent' = [rCurrent EXCEPT ![o] = c]
  PROVE  HistoryInv'
<1>1. /\ rStatus' = [p \in Objects |-> rStatus'[p]] /\ rRevs' = [p \in Objects |-> rRevs'[p]]
      /\ rRels' = [p \in Objects |-> rRels'[p]] /\ rCurrent' = [p \in Objects |-> rCurrent'[p]]
      /\ rStatus'[o] = s /\ rRevs'[o] = v /\ rRels'[o] = l /\ rCurrent'[o] = c
      /\ \A p \in Objects \ {o} : /\ rStatus'[p] = rStatus[p] /\ rRevs'[p] = rRevs[p]
                                  /\ rRels'[p] = rRels[p] /\ rCurrent'[p] = rCurrent[p]
  BY Known
<1>2. ASSUME NEW p \in Objects
      PROVE  /\ Sound(rStatus'[p], rRevs'[p], rRels'[p], rCurrent'[p]) /\ Grows(p)
             /\ Free(p, B) \/ Steady(rStatus[p], rRels[p], rStatus'[p], rRels'[p])
  <2>1. CASE p = o
    BY <1>1, <2>1 DEF Grows
  <2>2. CASE p # o
    BY <1>1, <2>2, Known DEF Grows, At
  <2> QED BY <2>1, <2>2
<1> QED BY <1>1, <1>2, Moves

\* A step that changes no object.
LEMMA Rests ==
  ASSUME RL!CatalogueAssumption, HistoryInv, NEW B \in SUBSET Editors, Served(B), Registered,
         UNCHANGED <<rStatus, rRevs, rRels, rCurrent>>
  PROVE  HistoryInv'
<1>1. /\ rStatus' = [p \in Objects |-> rStatus'[p]] /\ rRevs' = [p \in Objects |-> rRevs'[p]]
      /\ rRels' = [p \in Objects |-> rRels'[p]] /\ rCurrent' = [p \in Objects |-> rCurrent'[p]]
  BY Known
<1>2. \A p \in Objects :
             /\ Sound(rStatus'[p], rRevs'[p], rRels'[p], rCurrent'[p]) /\ Grows(p)
             /\ Free(p, B) \/ Steady(rStatus[p], rRels[p], rStatus'[p], rRels'[p])
  BY Known DEF Grows, At
<1> QED BY <1>1, <1>2, Moves

\* A step of no request.
LEMMA Unserved ==
  ASSUME RL!CatalogueAssumption, HistoryInv, UNCHANGED rReq
  PROVE  Served({}) /\ {} \in SUBSET Editors
BY Known DEF Served

\* A request ends.
LEMMA Ended ==
  ASSUME RL!CatalogueAssumption, HistoryInv, NEW e \in Editors, RL!Finish(e)
  PROVE  Served({e})
<1>1. /\ rReq' \in [Editors -> RL!Request] /\ rReq'[e] = RL!Idle
      /\ \A f \in Editors \ {e} : rReq'[f] = rReq[f]
  BY Known, IdleFields DEF RL!Finish
<1> QED BY <1>1, IdleFields DEF Served

\* A request that goes on.
LEMMA GoesOn ==
  ASSUME RL!CatalogueAssumption, HistoryInv, NEW e \in Editors, NEW r \in RL!Request, r # RL!Idle,
         Relies(r, rStatus'[r.obj], rRevs'[r.obj], rRels'[r.obj]),
         r.op = "installed" => RL!Unlocked(r.obj), rReq' = [rReq EXCEPT ![e] = r]
  PROVE  Served({e})
<1>1. /\ rReq' \in [Editors -> RL!Request] /\ rReq'[e] = r
      /\ \A f \in Editors \ {e} : rReq'[f] = rReq[f]
  BY Known
<1> QED BY <1>1 DEF Served

\* A transaction begins.
LEMMA Begins ==
  ASSUME RL!CatalogueAssumption, HistoryInv, NEW e \in Editors, NEW r \in RL!Request, r # RL!Idle,
         r.op # "installed", Relies(r, rStatus[r.obj], rRevs[r.obj], rRels[r.obj]),
         rReq' = [rReq EXCEPT ![e] = r],
         UNCHANGED <<rStatus, rRevs, rRels, rCurrent, rRuntime, rMuddled>>
  PROVE  HistoryInv'
<1>1. Served({e})
  BY GoesOn
<1>2. Registered
  BY Known DEF Registered
<1> QED BY <1>1, <1>2, Rests

\* A free row is free for everybody.
LEMMA Unlocks ==
  ASSUME NEW o, NEW B, RL!Unlocked(o)
  PROVE  Free(o, B)
BY DEF RL!Unlocked, Free
-----------------------------------------------------------------------------
(* The operations on objects and revisions.                                *)

\* What is not changed is as if one object of it were written back.
LEMMA Unaltered ==
  ASSUME RL!CatalogueAssumption, HistoryInv, NEW o \in Objects
  PROVE  /\ UNCHANGED rStatus => rStatus' = [rStatus EXCEPT ![o] = rStatus[o]]
         /\ UNCHANGED rRevs => rRevs' = [rRevs EXCEPT ![o] = rRevs[o]]
         /\ UNCHANGED rRels => rRels' = [rRels EXCEPT ![o] = rRels[o]]
         /\ UNCHANGED rCurrent => rCurrent' = [rCurrent EXCEPT ![o] = rCurrent[o]]
         /\ UNCHANGED <<rRuntime, rMuddled>> => Registered
BY Known DEF Registered

\* An object that is there, or was never made, may be there.
LEMMA Revived ==
  ASSUME RL!CatalogueAssumption, NEW s, NEW v, NEW l, NEW c, Sound(s, v, l, c), s # "deleted",
         NEW t \in {"live", "archived"}
  PROVE  Sound(t, v, l, c) /\ Later(s, v, l, t, v, l) /\ Steady(s, l, t, l)
<1>1. Len(l) \in Nat
  BY SoundFields
<1> QED BY <1>1 DEF Sound, Later, Steady, InUse, ObjectStatuses

\* A step that changes one object and no request.
LEMMA ChangesAlone ==
  ASSUME RL!CatalogueAssumption, HistoryInv, UNCHANGED rReq, Registered,
         NEW o \in Objects, NEW s, NEW v, NEW l, NEW c, Sound(s, v, l, c),
         Later(rStatus[o], rRevs[o], rRels[o], s, v, l),
         RL!Unlocked(o) \/ Steady(rStatus[o], rRels[o], s, l),
         rStatus' = [rStatus EXCEPT ![o] = s], rRevs' = [rRevs EXCEPT ![o] = v],
         rRels' = [rRels EXCEPT ![o] = l], rCurrent' = [rCurrent EXCEPT ![o] = c]
  PROVE  HistoryInv'
<1> DEFINE B == {}
<1>1. Served(B) /\ B \in SUBSET Editors
  BY Unserved
<1>2. RL!Unlocked(o) => Free(o, B)
  BY Unlocks
<1> HIDE DEF B
<1> QED BY <1>1, <1>2, Changes

LEMMA ObjectStep ==
  ASSUME RL!CatalogueAssumption, HistoryInv, NEW o \in Objects, RL!Create(o) \/ RL!SetArchived(o)
  PROVE  HistoryInv'
<1> DEFINE t == rStatus'[o]
<1>1. /\ rStatus[o] # "deleted" /\ t \in {"live", "archived"}
      /\ rStatus' = [rStatus EXCEPT ![o] = t]
      /\ UNCHANGED <<rRevs, rRels, rCurrent, rReq>> /\ UNCHANGED <<rRuntime, rMuddled>>
  BY Known DEF RL!Create, RL!SetArchived, RL!Open
<1> HIDE DEF t
<1>2. /\ Sound(t, rRevs[o], rRels[o], rCurrent[o])
      /\ Later(rStatus[o], rRevs[o], rRels[o], t, rRevs[o], rRels[o])
      /\ Steady(rStatus[o], rRels[o], t, rRels[o])
  BY <1>1, Known, Revived DEF At
<1>3. /\ rRevs' = [rRevs EXCEPT ![o] = rRevs[o]] /\ rRels' = [rRels EXCEPT ![o] = rRels[o]]
      /\ rCurrent' = [rCurrent EXCEPT ![o] = rCurrent[o]] /\ Registered
  BY <1>1, Unaltered
<1>4. UNCHANGED rReq /\ rStatus' = [rStatus EXCEPT ![o] = t]
  BY <1>1
<1> QED BY <1>2, <1>3, <1>4, ChangesAlone

LEMMA DeleteStep ==
  ASSUME RL!CatalogueAssumption, HistoryInv, NEW e \in Editors, RL!DeleteCommit(e)
  PROVE  HistoryInv'
<1> DEFINE o == rReq[e].obj
<1>1. /\ rReq[e].op = "delete" /\ RL!Unlocked(o) /\ RL!Finish(e)
      /\ UNCHANGED <<rRuntime, rMuddled>>
  BY DEF RL!DeleteCommit
<1>2. rReq[e] # RL!Idle /\ o \in Objects /\ rStatus[o] # "none"
  BY <1>1, IdleFields, Known DEF Relies
<1>3. Served({e}) /\ {e} \in SUBSET Editors /\ Registered
  BY <1>1, <1>2, Ended, Unaltered
<1>4. CASE RL!Open(o)
  <2>1. /\ rStatus' = [rStatus EXCEPT ![o] = "deleted"] /\ rRevs' = [rRevs EXCEPT ![o] = << >>]
        /\ rRels' = [rRels EXCEPT ![o] = << >>] /\ rCurrent' = [rCurrent EXCEPT ![o] = 0]
    BY <1>4 DEF RL!DeleteCommit
  <2>2. Sound("deleted", << >>, << >>, 0)
    BY Nothingness DEF ObjectStatuses
  <2>3. Later(rStatus[o], rRevs[o], rRels[o], "deleted", << >>, << >>)
    BY DEF Later, InUse
  <2>4. Free(o, {e})
    BY <1>1, Unlocks
  <2> HIDE DEF o
  <2> QED BY <1>2, <1>3, <2>1, <2>2, <2>3, <2>4, Changes
<1>5. CASE ~RL!Open(o)
  <2>1. UNCHANGED <<rStatus, rRevs, rRels, rCurrent>>
    BY <1>5 DEF RL!DeleteCommit
  <2> QED BY <1>3, <2>1, Rests
<1> QED BY <1>4, <1>5

LEMMA SaveStep ==
  ASSUME RL!CatalogueAssumption, HistoryInv, NEW e \in Editors, RL!SaveCommit(e)
  PROVE  HistoryInv'
<1> DEFINE o == rReq[e].obj
           locks == rReq[e].locks
<1>1. rReq[e].op = "save" /\ RL!Finish(e) /\ UNCHANGED <<rStatus, rRels, rCurrent>>
      /\ UNCHANGED <<rRuntime, rMuddled>>
  BY DEF RL!SaveCommit
<1>2. rReq[e] # RL!Idle /\ o \in Objects /\ rReq[e].n < MaxRevs /\ locks \in SUBSET RL!Releases
  BY <1>1, IdleFields, Known, RequestFields DEF Relies
<1>3. Served({e}) /\ {e} \in SUBSET Editors /\ Registered
  BY <1>1, <1>2, Ended, Unaltered
<1>4. CASE RL!Open(o) /\ RL!LatestRev(o) = rReq[e].n
  <2> DEFINE w == Append(rRevs[o], [base |-> Len(rRevs[o]), locks |-> locks, tested |-> FALSE])
  <2>1. rRevs' = [rRevs EXCEPT ![o] = w]
    BY <1>4 DEF RL!SaveCommit, RL!Drafted, RL!LatestRev
  <2>2. rStatus[o] \in {"live", "archived"} /\ rStatus[o] # "deleted" /\ Len(rRevs[o]) < MaxRevs
        /\ Sound(rStatus[o], rRevs[o], rRels[o], rCurrent[o])
    BY <1>2, <1>4, Known DEF RL!Open, RL!LatestRev, At
  <2> HIDE DEF o, locks
  <2>3. /\ Sound(rStatus[o], w, rRels[o], rCurrent[o])
        /\ Later(rStatus[o], rRevs[o], rRels[o], rStatus[o], w, rRels[o])
    BY <1>2, <2>2, Drafting
  <2>4. /\ rStatus' = [rStatus EXCEPT ![o] = rStatus[o]] /\ rRels' = [rRels EXCEPT ![o] = rRels[o]]
        /\ rCurrent' = [rCurrent EXCEPT ![o] = rCurrent[o]]
        /\ Steady(rStatus[o], rRels[o], rStatus[o], rRels[o])
    BY <1>1, <1>2, Unaltered, Known
  <2> HIDE DEF w
  <2> QED BY <1>2, <1>3, <2>1, <2>3, <2>4, Changes
<1>5. CASE ~(RL!Open(o) /\ RL!LatestRev(o) = rReq[e].n)
  <2>1. UNCHANGED rRevs
    BY <1>5 DEF RL!SaveCommit
  <2> QED BY <1>1, <1>3, <2>1, Rests
<1> QED BY <1>4, <1>5

LEMMA TestStep ==
  ASSUME RL!CatalogueAssumption, HistoryInv, NEW o \in Objects, NEW n, RL!Test(o, n)
  PROVE  HistoryInv'
<1> DEFINE x == [rRevs[o][n] EXCEPT !.tested = TRUE]
           w == [rRevs[o] EXCEPT ![n] = x]
<1>1. n \in DOMAIN rRevs[o] /\ rRevs' = [rRevs EXCEPT ![o] = w]
      /\ UNCHANGED <<rStatus, rRels, rCurrent, rReq>> /\ UNCHANGED <<rRuntime, rMuddled>>
  BY DEF RL!Test
<1>2. Sound(rStatus[o], rRevs[o], rRels[o], rCurrent[o]) /\ rRevs[o][n] \in RL!Revision
  BY <1>1, Known, SoundFields DEF At
<1>3. x \in RL!Revision /\ x.base = rRevs[o][n].base /\ x.locks = rRevs[o][n].locks
  BY <1>2 DEF RL!Revision
<1> HIDE DEF x
<1>4. /\ Sound(rStatus[o], w, rRels[o], rCurrent[o])
      /\ Later(rStatus[o], rRevs[o], rRels[o], rStatus[o], w, rRels[o])
  BY <1>1, <1>2, <1>3, Testing
<1>5. /\ rStatus' = [rStatus EXCEPT ![o] = rStatus[o]] /\ rRels' = [rRels EXCEPT ![o] = rRels[o]]
      /\ rCurrent' = [rCurrent EXCEPT ![o] = rCurrent[o]] /\ Registered
      /\ Steady(rStatus[o], rRels[o], rStatus[o], rRels[o])
  BY <1>1, Unaltered, Known
<1>6. UNCHANGED rReq /\ rRevs' = [rRevs EXCEPT ![o] = w]
  BY <1>1
<1> HIDE DEF w
<1> QED BY <1>4, <1>5, <1>6, ChangesAlone

LEMMA MigrateObjectStep ==
  ASSUME RL!CatalogueAssumption, HistoryInv, NEW o \in Objects, NEW p \in Objects,
         RL!MigrateObject(o, p)
  PROVE  HistoryInv'
<1> DEFINE locks == rRevs[o][RL!LatestRev(o)].locks
           w == Append(rRevs[p], [base |-> Len(rRevs[p]), locks |-> locks, tested |-> FALSE])
<1>1. /\ rRevs[o] # << >> /\ rStatus[p] = "none" /\ rStatus' = [rStatus EXCEPT ![p] = "live"]
      /\ rRevs' = [rRevs EXCEPT
                     ![p] = <<[base |-> Len(rRevs[p]), locks |-> locks, tested |-> FALSE]>>]
      /\ UNCHANGED <<rRels, rCurrent, rReq>> /\ UNCHANGED <<rRuntime, rMuddled>>
  BY DEF RL!MigrateObject, RL!Drafted, RL!LatestRev
<1>2. /\ Sound(rStatus[p], rRevs[p], rRels[p], rCurrent[p])
      /\ Sound(rStatus[o], rRevs[o], rRels[o], rCurrent[o])
  BY Known DEF At
<1>3. rRevs[p] = << >> /\ Len(rRevs[p]) < MaxRevs
  BY <1>1, <1>2, Numbers DEF Sound, InUse
<1>4. locks \in SUBSET RL!Releases
  <2>1. rRevs[o] \in Seq(RL!Revision)
    BY Known
  <2>2. Len(rRevs[o]) \in DOMAIN rRevs[o]
    BY <1>1, <2>1
  <2> QED BY <1>2, <2>2, SoundFields DEF RL!LatestRev
<1> HIDE DEF locks
<1>5. rRevs' = [rRevs EXCEPT ![p] = w]
  BY <1>1, <1>3
<1>6. /\ Sound("live", w, rRels[p], rCurrent[p])
      /\ Later(rStatus[p], rRevs[p], rRels[p], "live", w, rRels[p])
  BY <1>1, <1>2, <1>3, <1>4, Drafting
<1>7. /\ rRels' = [rRels EXCEPT ![p] = rRels[p]] /\ rCurrent' = [rCurrent EXCEPT ![p] = rCurrent[p]]
      /\ Registered
  BY <1>1, Unaltered
<1>8. Steady(rStatus[p], rRels[p], "live", rRels[p])
  BY <1>1 DEF Steady, InUse
<1>9. UNCHANGED rReq /\ rStatus' = [rStatus EXCEPT ![p] = "live"]
  BY <1>1
<1> HIDE DEF w
<1> QED BY <1>5, <1>6, <1>7, <1>8, <1>9, ChangesAlone

LEMMA MigrateReferencesStep ==
  ASSUME RL!CatalogueAssumption, HistoryInv, NEW old \in RL!Releases, NEW new \in RL!Releases,
         RL!MigrateReferences(old, new)
  PROVE  HistoryInv'
<1> DEFINE latest(o) == rRevs[o][RL!LatestRev(o)].locks
           owners == {o \in Objects : RL!Open(o) /\ rRevs[o] # << >> /\ old \in latest(o)}
           moved(o) == (latest(o) \ {old}) \cup {new}
           w(o) == Append(rRevs[o], [base |-> Len(rRevs[o]), locks |-> moved(o), tested |-> FALSE])
<1>1. /\ \A o \in owners : RL!LatestRev(o) < Limit[o]
      /\ rRevs' = [o \in Objects |-> IF o \in owners THEN w(o) ELSE rRevs[o]]
      /\ UNCHANGED <<rStatus, rRels, rCurrent, rReq>> /\ UNCHANGED <<rRuntime, rMuddled>>
  BY DEF RL!MigrateReferences, RL!Drafted, RL!LatestRev
<1>2. ASSUME NEW o \in owners
      PROVE  /\ Sound(rStatus[o], w(o), rRels[o], rCurrent[o])
             /\ Later(rStatus[o], rRevs[o], rRels[o], rStatus[o], w(o), rRels[o])
  <2>1. /\ Sound(rStatus[o], rRevs[o], rRels[o], rCurrent[o]) /\ Len(rRevs[o]) \in Nat
        /\ rStatus[o] \in {"live", "archived"} /\ rRevs[o] # << >> /\ rRevs[o] \in Seq(RL!Revision)
        /\ o \in Objects
    BY <1>2, Known DEF At, RL!Open
  <2>2. Len(rRevs[o]) < MaxRevs
    BY <1>1, <1>2, <2>1, Numbers DEF RL!LatestRev
  <2>3. moved(o) \in SUBSET RL!Releases
    <3>1. Len(rRevs[o]) \in DOMAIN rRevs[o]
      BY <2>1
    <3> QED BY <2>1, <3>1, SoundFields DEF RL!LatestRev
  <2> HIDE DEF moved
  <2> QED BY <2>1, <2>2, <2>3, Drafting
<1> HIDE DEF owners, w
<1>3. /\ rStatus' = [p \in Objects |-> rStatus'[p]] /\ rRevs' = [p \in Objects |-> rRevs'[p]]
      /\ rRels' = [p \in Objects |-> rRels'[p]] /\ rCurrent' = [p \in Objects |-> rCurrent'[p]]
      /\ \A p \in Objects : rRevs'[p] = IF p \in owners THEN w(p) ELSE rRevs[p]
  BY <1>1, Known
<1>4. Served({}) /\ {} \in SUBSET Editors /\ Registered
  BY <1>1, Unserved, Known DEF Registered
<1>5. ASSUME NEW p \in Objects
      PROVE  /\ Sound(rStatus'[p], rRevs'[p], rRels'[p], rCurrent'[p]) /\ Grows(p)
             /\ Free(p, {}) \/ Steady(rStatus[p], rRels[p], rStatus'[p], rRels'[p])
  <2>1. CASE p \in owners
    BY <1>1, <1>2, <1>3, <2>1, Known DEF Grows
  <2>2. CASE p \notin owners
    BY <1>1, <1>3, <2>2, Known DEF Grows, At
  <2> QED BY <2>1, <2>2
<1> QED BY <1>3, <1>4, <1>5, Moves
-----------------------------------------------------------------------------
(* The requests that begin.                                                *)

LEMMA StartStep ==
  ASSUME RL!CatalogueAssumption, HistoryInv, NEW e \in Editors, RL!Start(e)
  PROVE  HistoryInv'
<1>1. Edited \subseteq Objects
  BY DEF RL!CatalogueAssumption
<1>2. ASSUME NEW o \in Objects, RL!Open(o)
      PROVE  /\ o \in Objects /\ rStatus[o] # "none" /\ InUse(rStatus[o])
             /\ Sound(rStatus[o], rRevs[o], rRels[o], rCurrent[o])
             /\ Len(rRevs[o]) \in 0..MaxRevs /\ Len(rRels[o]) \in 0..MaxRevs
             /\ rCurrent[o] \in 0..MaxRevs
             /\ DOMAIN rRevs[o] = 1..Len(rRevs[o]) /\ DOMAIN rRels[o] = 1..Len(rRels[o])
             /\ \A n \in DOMAIN rRevs[o] : rRevs[o][n].locks \subseteq RL!Releases
             /\ \A n \in DOMAIN rRels[o] : rRels[o][n].locks \subseteq RL!Releases
  <2>1. Sound(rStatus[o], rRevs[o], rRels[o], rCurrent[o])
    BY Known DEF At
  <2>2. rStatus[o] # "none" /\ InUse(rStatus[o])
    BY <1>2 DEF RL!Open, InUse
  <2>3. /\ Len(rRevs[o]) \in Nat /\ Len(rRels[o]) \in Nat
        /\ Len(rRevs[o]) <= MaxRevs /\ Len(rRels[o]) <= MaxRevs /\ rCurrent[o] \in 0..MaxRevs
    BY <2>1, SoundFields DEF Sound
  <2>4. /\ DOMAIN rRevs[o] = 1..Len(rRevs[o]) /\ DOMAIN rRels[o] = 1..Len(rRels[o])
        /\ \A n \in DOMAIN rRevs[o] : rRevs[o][n].locks \subseteq RL!Releases
        /\ \A n \in DOMAIN rRels[o] : rRels[o][n].locks \subseteq RL!Releases
    BY <2>1, SoundFields
  <2> QED BY <2>1, <2>2, <2>3, <2>4, Numbers
<1>3. ASSUME NEW o \in Objects, RL!DeleteBegin(e, o)
      PROVE  HistoryInv'
  <2> DEFINE r == [op |-> "delete", obj |-> o, n |-> 0, seen |-> 0, locks |-> {}]
  <2>1. /\ RL!Open(o) /\ rReq' = [rReq EXCEPT ![e] = r]
        /\ UNCHANGED <<rStatus, rRevs, rRels, rCurrent, rRuntime, rMuddled>>
    BY <1>3 DEF RL!DeleteBegin, RL!Begin
  <2>2. r \in RL!Request /\ r # RL!Idle /\ r.op = "delete" /\ r.obj = o
    BY Numbers, IdleFields DEF RL!Request, RL!Ops
  <2> HIDE DEF r
  <2>3. Relies(r, rStatus[o], rRevs[o], rRels[o])
    BY <1>2, <2>1, <2>2 DEF Relies
  <2> QED BY <2>1, <2>2, <2>3, Begins
<1>4. ASSUME NEW o \in Objects, NEW locks \in SUBSET RL!Releases, RL!SaveBegin(e, o, locks)
      PROVE  HistoryInv'
  <2> DEFINE r == [op |-> "save", obj |-> o, n |-> RL!LatestRev(o), seen |-> 0, locks |-> locks]
  <2>1. /\ RL!Open(o) /\ RL!LatestRev(o) < Limit[o] /\ rReq' = [rReq EXCEPT ![e] = r]
        /\ UNCHANGED <<rStatus, rRevs, rRels, rCurrent, rRuntime, rMuddled>>
    BY <1>4 DEF RL!SaveBegin, RL!Begin
  <2>2. RL!LatestRev(o) \in 0..MaxRevs /\ RL!LatestRev(o) < MaxRevs
    BY <1>2, <2>1, Numbers DEF RL!LatestRev
  <2>3. r \in RL!Request /\ r # RL!Idle /\ r.op = "save" /\ r.obj = o /\ r.n < MaxRevs
    BY <2>2, Numbers, IdleFields DEF RL!Request, RL!Ops
  <2> HIDE DEF r
  <2>4. Relies(r, rStatus[o], rRevs[o], rRels[o])
    BY <1>2, <2>1, <2>3 DEF Relies
  <2> QED BY <2>1, <2>3, <2>4, Begins
<1>5. ASSUME NEW o \in Objects, NEW n, RL!DraftBegin(e, o, n)
      PROVE  HistoryInv'
  <2>1. RL!SaveBegin(e, o, rRels[o][n].locks) /\ RL!Open(o) /\ n \in DOMAIN rRels[o]
    BY <1>5 DEF RL!DraftBegin, RL!Open
  <2>2. rRels[o][n].locks \in SUBSET RL!Releases
    BY <1>2, <2>1
  <2> QED BY <1>4, <2>1, <2>2
<1>6. ASSUME NEW o \in Objects, NEW n \in 1..MaxRevs, RL!PublishBegin(e, o, n)
      PROVE  HistoryInv'
  <2> DEFINE r == [op |-> "publish", obj |-> o, n |-> n, seen |-> RL!LatestRel(o),
                   locks |-> rRevs[o][n].locks]
  <2>1. /\ RL!Open(o) /\ n \in DOMAIN rRevs[o] /\ rReq' = [rReq EXCEPT ![e] = r]
        /\ UNCHANGED <<rStatus, rRevs, rRels, rCurrent, rRuntime, rMuddled>>
    BY <1>6 DEF RL!PublishBegin, RL!Begin
  <2>2. /\ RL!LatestRel(o) \in 0..MaxRevs /\ rRevs[o][n].locks \in SUBSET RL!Releases
        /\ n \in 0..MaxRevs
    BY <1>2, <2>1, Numbers DEF RL!LatestRel
  <2>3. r \in RL!Request /\ r # RL!Idle /\ r.op = "publish" /\ r.obj = o /\ r.n = n
        /\ r.locks = rRevs[o][n].locks
    BY <2>2, IdleFields DEF RL!Request, RL!Ops
  <2> HIDE DEF r
  <2>4. Relies(r, rStatus[o], rRevs[o], rRels[o])
    BY <1>2, <2>1, <2>3 DEF Relies
  <2> QED BY <2>1, <2>3, <2>4, Begins
<1>7. ASSUME NEW o \in Objects, NEW n \in 1..MaxRevs, RL!ArchiveBegin(e, o, n)
      PROVE  HistoryInv'
  <2> DEFINE r == [op |-> "archive", obj |-> o, n |-> n, seen |-> 0, locks |-> {}]
  <2>1. /\ RL!Open(o) /\ rReq' = [rReq EXCEPT ![e] = r]
        /\ UNCHANGED <<rStatus, rRevs, rRels, rCurrent, rRuntime, rMuddled>>
    BY <1>7 DEF RL!ArchiveBegin, RL!Begin
  <2>2. r \in RL!Request /\ r # RL!Idle /\ r.op = "archive" /\ r.obj = o
    BY Numbers, IdleFields DEF RL!Request, RL!Ops
  <2> HIDE DEF r
  <2>3. Relies(r, rStatus[o], rRevs[o], rRels[o])
    BY <1>2, <2>1, <2>2 DEF Relies
  <2> QED BY <2>1, <2>2, <2>3, Begins
<1>8. ASSUME NEW o \in Objects, NEW n \in 1..MaxRevs, RL!SelectBegin(e, o, n)
      PROVE  HistoryInv'
  <2> DEFINE r == [op |-> "select", obj |-> o, n |-> n, seen |-> rCurrent[o], locks |-> {}]
  <2>1. /\ RL!Open(o) /\ n \in DOMAIN rRels[o] /\ rReq' = [rReq EXCEPT ![e] = r]
        /\ UNCHANGED <<rStatus, rRevs, rRels, rCurrent, rRuntime, rMuddled>>
    BY <1>8 DEF RL!SelectBegin, RL!Begin
  <2>2. rCurrent[o] \in 0..MaxRevs /\ n \in 0..MaxRevs /\ n # 0 /\ n <= Len(rRels[o])
    BY <1>2, <2>1, Numbers
  <2>3. r \in RL!Request /\ r # RL!Idle /\ r.op = "select" /\ r.obj = o /\ r.n = n
    BY <2>2, IdleFields DEF RL!Request, RL!Ops
  <2> HIDE DEF r
  <2>4. Relies(r, rStatus[o], rRevs[o], rRels[o])
    BY <1>2, <2>1, <2>2, <2>3 DEF Relies
  <2> QED BY <2>1, <2>3, <2>4, Begins
<1>9. ASSUME NEW locks \in {{}} \cup {{r} : r \in RL!Releases}
      PROVE  locks \in SUBSET RL!Releases
  OBVIOUS
<1> QED BY <1>1, <1>3, <1>4, <1>5, <1>6, <1>7, <1>8, <1>9 DEF RL!Start

-----------------------------------------------------------------------------
(* Publication and selection.                                              *)

\* What is installed is a release.
LEMMA RegisteredAs ==
  ASSUME RL!CatalogueAssumption, HistoryInv, NEW o \in Objects, NEW n \in 1..MaxRevs,
         RL!Installed(o, n),
         rMuddled' \subseteq rMuddled \cup {Key[o]}
  PROVE  Registered
<1>1. <<o, n>> \in RL!Releases /\ Key[o] \in RL!KeysInUse
  BY Numbers DEF RL!Releases
<1> QED BY <1>1, Known DEF RL!Installed, Registered

LEMMA InstallStep ==
  ASSUME RL!CatalogueAssumption, HistoryInv, NEW e \in Editors, RL!PublishInstall(e)
  PROVE  HistoryInv'
<1> DEFINE o == rReq[e].obj
           n == rReq[e].n
<1>1. rReq[e].op = "publish" /\ RL!Unlocked(o) /\ UNCHANGED <<rStatus, rRevs, rRels, rCurrent>>
  BY DEF RL!PublishInstall
<1>2. rReq[e] # RL!Idle /\ o \in Objects /\ rReq[e] \in RL!Request
      /\ Relies(rReq[e], rStatus[o], rRevs[o], rRels[o])
  BY <1>1, IdleFields, Known
<1>3. CASE /\ RL!Open(o) /\ n \in DOMAIN rRevs[o]
           /\ RL!LatestRel(o) = rReq[e].seen /\ RL!ReleasedAs(o, n) = {}
  <2> DEFINE r == [rReq[e] EXCEPT !.op = "installed"]
  <2>1. /\ RL!Installed(o, rReq[e].seen + 1) /\ RL!Settled(o) /\ rReq' = [rReq EXCEPT ![e] = r]
    BY <1>3 DEF RL!PublishInstall
  <2>2. /\ r \in RL!Request /\ r.op = "installed" /\ r.obj = o /\ r.n = n /\ r.locks = rReq[e].locks
        /\ r.seen = rReq[e].seen /\ r # RL!Idle
    BY <1>2, IdleFields DEF RL!Request, RL!Ops
  <2> HIDE DEF r
  <2>3. \A k \in DOMAIN rRels[o] : rRels[o][k].rev # n
    BY <1>3 DEF RL!ReleasedAs
  <2>4. InUse(rStatus[o]) /\ Len(rRels[o]) = rReq[e].seen
    BY <1>3 DEF RL!Open, InUse, RL!LatestRel
  <2>5. rReq[e].locks = rRevs[o][n].locks
    BY <1>1, <1>2, <2>4 DEF Relies
  <2>6. Relies(r, rStatus[o], rRevs[o], rRels[o])
    BY <1>2, <1>3, <2>2, <2>3, <2>4, <2>5 DEF Relies
  <2>7. rReq[e].seen + 1 \in 1..MaxRevs
    <3>1. Len(rRels[o]) < MaxRevs /\ Len(rRels[o]) \in Nat
      BY <1>2, <1>3, <2>3, Known, Room DEF At
    <3> QED BY <2>4, <3>1, Numbers
  <2>8. rMuddled' \subseteq rMuddled \cup {Key[o]}
    BY <2>1 DEF RL!Settled
  <2> HIDE DEF o, n
  <2>9. Registered
    BY <1>2, <2>1, <2>7, <2>8, RegisteredAs
  <2>10. Served({e})
    BY <1>1, <2>1, <2>2, <2>6, GoesOn
  <2> QED BY <1>1, <2>9, <2>10, Rests
<1>4. CASE ~(/\ RL!Open(o) /\ n \in DOMAIN rRevs[o]
             /\ RL!LatestRel(o) = rReq[e].seen /\ RL!ReleasedAs(o, n) = {})
  <2>1. RL!Finish(e) /\ UNCHANGED <<rRuntime, rMuddled>>
    BY <1>4 DEF RL!PublishInstall
  <2>2. Served({e}) /\ Registered
    BY <1>2, <2>1, Ended, Unaltered
  <2> QED BY <1>1, <2>2, Rests
<1> QED BY <1>3, <1>4

LEMMA PublishStep ==
  ASSUME RL!CatalogueAssumption, HistoryInv, NEW e \in Editors, RL!PublishCommit(e)
  PROVE  HistoryInv'
<1> DEFINE o == rReq[e].obj
           n == rReq[e].n
           m == Append(rRels[o], [rev |-> n, locks |-> rReq[e].locks, archived |-> FALSE])
<1>1. /\ rReq[e].op = "installed" /\ RL!Finish(e) /\ rRels' = [rRels EXCEPT ![o] = m]
      /\ rCurrent' = [rCurrent EXCEPT ![o] = rReq[e].seen + 1]
      /\ UNCHANGED <<rStatus, rRevs>> /\ UNCHANGED <<rRuntime, rMuddled>>
  BY DEF RL!PublishCommit
<1>2. /\ o \in Objects /\ InUse(rStatus[o]) /\ Sound(rStatus[o], rRevs[o], rRels[o], rCurrent[o])
      /\ Relies(rReq[e], rStatus[o], rRevs[o], rRels[o])
      /\ \A f \in Editors : rReq[f].op = "installed" /\ rReq[f].obj = o => f = e
  BY <1>1, Held, Known DEF At
<1>3. /\ n \in DOMAIN rRevs[o] /\ rReq[e].locks = rRevs[o][n].locks /\ Len(rRels[o]) = rReq[e].seen
      /\ \A k \in DOMAIN rRels[o] : rRels[o][k].rev # n
  BY <1>1, <1>2 DEF Relies
<1>4. rReq[e].seen + 1 \in 0..(Len(rRels[o]) + 1)
  BY <1>2, <1>3, Known
<1>5. Free(o, {e})
  BY <1>2 DEF Free
<1>6. /\ Served({e}) /\ Registered /\ rStatus' = [rStatus EXCEPT ![o] = rStatus[o]]
      /\ rRevs' = [rRevs EXCEPT ![o] = rRevs[o]]
  BY <1>1, <1>2, Ended, Unaltered
<1>7. /\ rRels' = [rRels EXCEPT ![o] = m] /\ rCurrent' = [rCurrent EXCEPT ![o] = rReq[e].seen + 1]
  BY <1>1
<1> HIDE DEF o, n
<1>8. /\ Sound(rStatus[o], rRevs[o], m, rReq[e].seen + 1)
      /\ Later(rStatus[o], rRevs[o], rRels[o], rStatus[o], rRevs[o], m)
  BY <1>2, <1>3, <1>4, Releasing
<1> HIDE DEF m
<1>9. {e} \in SUBSET Editors
  OBVIOUS
<1> QED BY <1>2, <1>5, <1>6, <1>7, <1>8, <1>9, Changes

LEMMA ArchiveStep ==
  ASSUME RL!CatalogueAssumption, HistoryInv, NEW e \in Editors, RL!ArchiveCommit(e)
  PROVE  HistoryInv'
<1> DEFINE o == rReq[e].obj
           n == rReq[e].n
<1>1. rReq[e].op = "archive" /\ RL!Finish(e) /\ UNCHANGED <<rStatus, rRevs, rCurrent>>
      /\ UNCHANGED <<rRuntime, rMuddled>>
  BY DEF RL!ArchiveCommit
<1>2. o \in Objects /\ Sound(rStatus[o], rRevs[o], rRels[o], rCurrent[o])
  BY <1>1, IdleFields, Known DEF At
<1>3. Served({e}) /\ Registered /\ {e} \in SUBSET Editors
  BY <1>1, <1>2, Ended, Unaltered
<1>4. CASE n \in DOMAIN rRels[o]
  <2> DEFINE x == [rRels[o][n] EXCEPT !.archived = TRUE]
             m == [rRels[o] EXCEPT ![n] = x]
  <2>1. rRels' = [rRels EXCEPT ![o] = m]
    BY <1>4 DEF RL!ArchiveCommit
  <2>2. rRels[o][n] \in RL!Release
    BY <1>2, <1>4, SoundFields
  <2>3. x \in RL!Release /\ x.rev = rRels[o][n].rev /\ x.locks = rRels[o][n].locks
    BY <2>2 DEF RL!Release
  <2> HIDE DEF x
  <2>4. /\ rStatus' = [rStatus EXCEPT ![o] = rStatus[o]] /\ rRevs' = [rRevs EXCEPT ![o] = rRevs[o]]
        /\ rCurrent' = [rCurrent EXCEPT ![o] = rCurrent[o]]
    BY <1>1, <1>2, Unaltered
  <2> HIDE DEF o, n
  <2>5. /\ Sound(rStatus[o], rRevs[o], m, rCurrent[o])
        /\ Later(rStatus[o], rRevs[o], rRels[o], rStatus[o], rRevs[o], m)
        /\ Steady(rStatus[o], rRels[o], rStatus[o], m)
    BY <1>2, <1>4, <2>3, Archiving
  <2> HIDE DEF m
  <2> QED BY <1>2, <1>3, <2>1, <2>4, <2>5, Changes
<1>5. CASE n \notin DOMAIN rRels[o]
  <2>1. UNCHANGED rRels
    BY <1>5 DEF RL!ArchiveCommit
  <2> QED BY <1>1, <1>3, <2>1, Rests
<1> QED BY <1>4, <1>5

LEMMA SelectStep ==
  ASSUME RL!CatalogueAssumption, HistoryInv, NEW e \in Editors, RL!SelectCommit(e)
  PROVE  HistoryInv'
<1> DEFINE o == rReq[e].obj
           n == rReq[e].n
           Sure == /\ rStatus[o] = "live" /\ rCurrent[o] = rReq[e].seen /\ RL!Complete(<<o, n>>)
<1>1. /\ rReq[e].op = "select" /\ UNCHANGED <<rStatus, rRevs, rRels>>
      /\ UNCHANGED <<rRuntime, rMuddled>>
  BY DEF RL!SelectCommit
<1>2. /\ o \in Objects /\ Sound(rStatus[o], rRevs[o], rRels[o], rCurrent[o]) /\ rReq[e] # RL!Idle
      /\ Relies(rReq[e], rStatus[o], rRevs[o], rRels[o])
      /\ rReq[e] \in RL!Request /\ n \in 0..MaxRevs
  BY <1>1, IdleFields, Known, RequestFields DEF At
<1>3. Registered /\ {e} \in SUBSET Editors
  BY <1>1, <1>2, Unaltered
<1>4. CASE Sure
  <2> DEFINE r == [rReq[e] EXCEPT !.op = "selected"]
  <2>1. rCurrent' = [rCurrent EXCEPT ![o] = n] /\ rReq' = [rReq EXCEPT ![e] = r]
    BY <1>4 DEF RL!SelectCommit
  <2>2. /\ r \in RL!Request /\ r.op = "selected" /\ r.obj = o /\ r.n = n /\ r # RL!Idle
    BY <1>2, IdleFields DEF RL!Request, RL!Ops
  <2> HIDE DEF r
  <2>3. n # 0 /\ n <= Len(rRels[o]) /\ rStatus[o] # "none" /\ InUse(rStatus[o])
    BY <1>1, <1>2, <1>4 DEF Relies, InUse
  <2>4. Relies(r, rStatus[o], rRevs[o], rRels[o])
    BY <2>2, <2>3 DEF Relies
  <2>5. Sound(rStatus[o], rRevs[o], rRels[o], n)
    BY <1>2, <2>3 DEF Sound
  <2> HIDE DEF o, n
  <2>6. /\ rStatus' = [rStatus EXCEPT ![o] = rStatus[o]] /\ rRevs' = [rRevs EXCEPT ![o] = rRevs[o]]
        /\ rRels' = [rRels EXCEPT ![o] = rRels[o]]
        /\ Later(rStatus[o], rRevs[o], rRels[o], rStatus[o], rRevs[o], rRels[o])
        /\ Steady(rStatus[o], rRels[o], rStatus[o], rRels[o])
    BY <1>1, <1>2, Unaltered, Known
  <2>7. Served({e})
    BY <1>1, <2>1, <2>2, <2>4, GoesOn
  <2>8. rCurrent' = [rCurrent EXCEPT ![o] = n]
    BY <2>1
  <2> QED BY <1>2, <1>3, <2>5, <2>6, <2>7, <2>8, Changes
<1>5. CASE ~Sure
  <2>1. RL!Finish(e) /\ UNCHANGED rCurrent
    BY <1>5 DEF RL!SelectCommit
  <2>2. Served({e})
    BY <2>1, Ended
  <2> QED BY <1>1, <1>3, <2>1, <2>2, Rests
<1> QED BY <1>4, <1>5

LEMMA SelectInstallStep ==
  ASSUME RL!CatalogueAssumption, HistoryInv, NEW e \in Editors, RL!SelectInstall(e)
  PROVE  HistoryInv'
<1> DEFINE o == rReq[e].obj
           n == rReq[e].n
<1>1. /\ rReq[e].op = "selected" /\ RL!Finish(e) /\ RL!Installed(o, n)
      /\ UNCHANGED <<rStatus, rRevs, rRels, rCurrent>> /\ rMuddled' \subseteq rMuddled \cup {Key[o]}
  BY DEF RL!SelectInstall, RL!Settled
<1>2. o \in Objects /\ n \in 1..MaxRevs
  <2>1. o \in Objects /\ n # 0 /\ n \in 0..MaxRevs
    BY <1>1, IdleFields, Known, RequestFields DEF Relies
  <2> QED BY <2>1, Numbers
<1>3. Registered
  BY <1>1, <1>2, RegisteredAs
<1>4. Served({e}) /\ {e} \in SUBSET Editors
  BY <1>1, Ended
<1> QED BY <1>1, <1>3, <1>4, Rests
-----------------------------------------------------------------------------
(* Packages, migrations of the files and the bootstrap.                    *)

\* Histories grow on.
LEMMA LaterStill ==
  ASSUME NEW s, NEW v, NEW l, NEW t, NEW w, NEW m, NEW u, NEW x, NEW k,
         Later(s, v, l, t, w, m), Later(t, w, m, u, x, k),
         Len(l) \in Nat, Len(m) \in Nat, Len(k) \in Nat
  PROVE  Later(s, v, l, u, x, k)
<1> SUFFICES ASSUME s # "none"
             PROVE  /\ u # "none"
                    /\ InUse(u) => /\ InUse(s) /\ Len(l) <= Len(k)
                                   /\ \A n \in DOMAIN v : n \in DOMAIN x /\ x[n].locks = v[n].locks
  BY DEF Later
<1>1. /\ t # "none" /\ u # "none"
      /\ InUse(t) => /\ InUse(s) /\ Len(l) <= Len(m)
                     /\ \A n \in DOMAIN v : n \in DOMAIN w /\ w[n].locks = v[n].locks
      /\ InUse(u) => /\ InUse(t) /\ Len(m) <= Len(k)
                     /\ \A n \in DOMAIN w : n \in DOMAIN x /\ x[n].locks = w[n].locks
  BY DEF Later
<1>2. Len(l) <= Len(m) /\ Len(m) <= Len(k) => Len(l) <= Len(k)
  OBVIOUS
<1> QED BY <1>1, <1>2

\* What an import makes of the object whose revision it finds or writes.
LEMMA Imports ==
  ASSUME RL!CatalogueAssumption, HistoryInv, NEW o \in Objects, NEW n \in 1..MaxRevs,
         NEW locks \in SUBSET RL!Releases, RL!Importing(o, n, locks)
  PROVE  LET v == RL!ImportedRevs(o, n, locks)
             l == RL!ImportedRels(o, n, locks)
         IN  /\ \A c \in {rCurrent[o], RL!ImportedAs(o, n)} : Sound("live", v, l, c)
             /\ Later(rStatus[o], rRevs[o], rRels[o], "live", v, l)
             /\ RL!ImportedAs(o, n) \in 1..MaxRevs
             /\ RL!Unlocked(o) \/ Steady(rStatus[o], rRels[o], "live", l)
<1> DEFINE v == RL!ImportedRevs(o, n, locks)
           l == RL!ImportedRels(o, n, locks)
           r == RL!ImportedAs(o, n)
<1>1. /\ Sound(rStatus[o], rRevs[o], rRels[o], rCurrent[o]) /\ rStatus[o] # "deleted"
      /\ n \in 1..(Len(rRevs[o]) + 1) /\ n <= Limit[o]
      /\ n <= Len(rRevs[o]) => rRevs[o][n].locks = locks
      /\ RL!ReleasedAs(o, n) = {} => RL!Unlocked(o)
  BY Known DEF RL!Importing, RL!Importable, RL!Open, At, RL!LatestRev
<1>2. /\ Len(rRevs[o]) \in Nat /\ Len(rRels[o]) \in Nat /\ DOMAIN rRevs[o] = 1..Len(rRevs[o])
      /\ DOMAIN rRels[o] = 1..Len(rRels[o]) /\ rCurrent[o] \in Nat /\ rCurrent[o] <= Len(rRels[o])
      /\ Len(rRels[o]) <= MaxRevs
  BY <1>1, SoundFields DEF Sound
<1>3. /\ Sound("live", rRevs[o], rRels[o], rCurrent[o])
      /\ Later(rStatus[o], rRevs[o], rRels[o], "live", rRevs[o], rRels[o])
      /\ Steady(rStatus[o], rRels[o], "live", rRels[o])
  BY <1>1, Revived
<1>4. /\ Sound("live", v, rRels[o], rCurrent[o]) /\ n \in DOMAIN v /\ v[n].locks = locks
      /\ Later(rStatus[o], rRevs[o], rRels[o], "live", v, rRels[o])
  <2>1. CASE n <= Len(rRevs[o])
    <3>1. v = rRevs[o]
      BY <2>1 DEF RL!ImportedRevs, RL!LatestRev
    <3> QED BY <1>1, <1>2, <1>3, <2>1, <3>1
  <2>2. CASE ~(n <= Len(rRevs[o]))
    <3>1. n = Len(rRevs[o]) + 1 /\ Len(rRevs[o]) < MaxRevs
      BY <1>1, <1>2, <2>2, Numbers
    <3> DEFINE w == Append(rRevs[o], [base |-> Len(rRevs[o]), locks |-> locks, tested |-> FALSE])
    <3>2. v = w
      BY <2>2 DEF RL!ImportedRevs, RL!LatestRev, RL!Drafted
    <3> HIDE DEF v
    <3>3. /\ Sound("live", w, rRels[o], rCurrent[o]) /\ Len(w) = Len(rRevs[o]) + 1
          /\ w[Len(rRevs[o]) + 1].locks = locks
          /\ Later(rStatus[o], rRevs[o], rRels[o], "live", w, rRels[o])
      BY <1>1, <3>1, Drafting
    <3> HIDE DEF w
    <3>4. n \in DOMAIN v
      <4>1. DOMAIN w = 1..Len(w)
        BY <3>3, SoundFields
      <4> QED BY <1>2, <3>1, <3>2, <3>3, <4>1
    <3> QED BY <3>1, <3>2, <3>3, <3>4
  <2> QED BY <2>1, <2>2
<1> HIDE DEF v
<1>5. CASE RL!ReleasedAs(o, n) = {}
  <2>1. /\ l = Append(rRels[o], [rev |-> n, locks |-> locks, archived |-> FALSE])
        /\ r = Len(rRels[o]) + 1
    BY <1>5 DEF RL!ImportedRels, RL!ImportedAs, RL!LatestRel
  <2>2. \A k \in DOMAIN rRels[o] : rRels[o][k].rev # n
    BY <1>5 DEF RL!ReleasedAs
  <2>3. rCurrent[o] \in 0..(Len(rRels[o]) + 1) /\ Len(rRels[o]) + 1 \in 0..(Len(rRels[o]) + 1)
    BY <1>2
  <2>4. ASSUME NEW d \in 0..(Len(rRels[o]) + 1)
        PROVE  /\ Sound("live", v, l, d) /\ Len(l) = Len(rRels[o]) + 1
               /\ Len(rRels[o]) + 1 \in 1..MaxRevs /\ Later("live", v, rRels[o], "live", v, l)
    BY <1>4, <2>1, <2>2, Releasing DEF InUse
  <2> HIDE DEF l, r
  <2>5. \A c \in {rCurrent[o], r} : Sound("live", v, l, c)
    BY <2>1, <2>3, <2>4
  <2>6. r \in 1..MaxRevs /\ Len(l) \in Nat /\ Later("live", v, rRels[o], "live", v, l)
    <3>1. /\ Len(l) = Len(rRels[o]) + 1 /\ Len(rRels[o]) + 1 \in 1..MaxRevs
          /\ Later("live", v, rRels[o], "live", v, l)
      BY <2>3, <2>4
    <3> QED BY <1>2, <2>1, <3>1
  <2>7. Later(rStatus[o], rRevs[o], rRels[o], "live", v, l)
    BY <1>2, <1>4, <2>6, LaterStill
  <2> QED BY <1>1, <1>5, <2>5, <2>6, <2>7 DEF v, l, r
<1>6. CASE RL!ReleasedAs(o, n) # {}
  <2>1. l = rRels[o] /\ r \in RL!ReleasedAs(o, n)
    BY <1>6 DEF RL!ImportedRels, RL!ImportedAs
  <2>2. r \in 1..Len(rRels[o])
    BY <1>2, <2>1 DEF RL!ReleasedAs
  <2> HIDE DEF l, r
  <2>3. r \in 1..MaxRevs /\ r <= Len(rRels[o])
    BY <1>2, <2>2, Numbers
  <2>4. Sound("live", v, l, r)
    <3>1. r \in 0..MaxRevs
      BY <2>3, Numbers
    <3> QED BY <1>4, <2>1, <2>3, <3>1 DEF Sound, InUse
  <2> QED BY <1>3, <1>4, <2>1, <2>3, <2>4 DEF v, l, r
<1> QED BY <1>5, <1>6

LEMMA MigrateCatalogStep ==
  ASSUME RL!CatalogueAssumption, HistoryInv, NEW o \in Objects, NEW n \in 1..MaxRevs,
         NEW chosen \in BOOLEAN,
         RL!MigrateCatalog(o, n, chosen)
  PROVE  HistoryInv'
<1> DEFINE v == RL!ImportedRevs(o, n, {})
           l == RL!ImportedRels(o, n, {})
           c == rCurrent'[o]
<1>1. /\ RL!Importing(o, n, {}) /\ RL!Unlocked(o) /\ UNCHANGED rReq
      /\ rStatus' = [rStatus EXCEPT ![o] = "live"] /\ rRevs' = [rRevs EXCEPT ![o] = v]
      /\ rRels' = [rRels EXCEPT ![o] = l]
  BY DEF RL!MigrateCatalog
<1>2. /\ \A d \in {rCurrent[o], RL!ImportedAs(o, n)} : Sound("live", v, l, d)
      /\ Later(rStatus[o], rRevs[o], rRels[o], "live", v, l) /\ RL!ImportedAs(o, n) \in 1..MaxRevs
  BY <1>1, Imports
<1>3. c \in {rCurrent[o], RL!ImportedAs(o, n)} /\ rCurrent' = [rCurrent EXCEPT ![o] = c]
  BY Known DEF RL!MigrateCatalog
<1>4. Registered
  <2>1. CASE chosen
    <3>1. RL!Installed(o, RL!ImportedAs(o, n)) /\ rMuddled' \subseteq rMuddled \cup {Key[o]}
      BY <2>1 DEF RL!MigrateCatalog, RL!Settled
    <3> QED BY <1>2, <3>1, RegisteredAs
  <2>2. CASE ~chosen
    BY <2>2, Known DEF RL!MigrateCatalog, Registered
  <2> QED BY <2>1, <2>2
<1>5. Sound("live", v, l, c)
  BY <1>2, <1>3
<1>6. Later(rStatus[o], rRevs[o], rRels[o], "live", v, l) /\ RL!Unlocked(o) /\ UNCHANGED rReq
  BY <1>1, <1>2
<1>7. /\ rStatus' = [rStatus EXCEPT ![o] = "live"] /\ rRevs' = [rRevs EXCEPT ![o] = v]
      /\ rRels' = [rRels EXCEPT ![o] = l]
  BY <1>1
<1>8. rCurrent' = [rCurrent EXCEPT ![o] = c]
  BY <1>3
<1> HIDE DEF v, l, c
<1> QED BY <1>4, <1>5, <1>6, <1>7, <1>8, ChangesAlone

LEMMA BootstrapStep ==
  ASSUME RL!CatalogueAssumption, HistoryInv, NEW o \in Objects, RL!Bootstrap(o)
  PROVE  HistoryInv'
<1> DEFINE x == [base |-> 0, locks |-> {}, tested |-> FALSE]
           y == [rev |-> 1, locks |-> {}, archived |-> FALSE]
<1>1. /\ rStatus[o] = "none" /\ rStatus' = [rStatus EXCEPT ![o] = "live"]
      /\ rRevs' = [rRevs EXCEPT ![o] = <<RL!Drafted(o, {})>>]
      /\ rRels' = [rRels EXCEPT ![o] = <<y>>]
      /\ rCurrent' = [rCurrent EXCEPT ![o] = 1] /\ RL!Installed(o, 1)
      /\ rMuddled' \subseteq rMuddled \cup {Key[o]} /\ UNCHANGED rReq
  BY DEF RL!Bootstrap, RL!Settled
<1>2. /\ Sound(rStatus[o], rRevs[o], rRels[o], rCurrent[o]) /\ rRevs[o] = << >> /\ rRels[o] = << >>
  BY <1>1, Known DEF At, Sound, InUse
<1>3. RL!Drafted(o, {}) = x /\ 0 < MaxRevs /\ 1 \in 1..MaxRevs
  BY <1>2, Numbers DEF RL!Drafted, RL!LatestRev
<1>4. /\ Append(<< >>, x) = <<x>> /\ Append(<< >>, y) = <<y>> /\ Len(<< >>) = 0
      /\ {} \in SUBSET RL!Releases /\ "live" \in {"live", "archived"} /\ InUse("live")
  BY DEF InUse
<1>5. Sound("live", << >>, << >>, rCurrent[o])
  BY <1>2 DEF Sound, InUse, ObjectStatuses
<1>6. Sound("live", <<x>>, << >>, rCurrent[o]) /\ x.locks = {}
  <2> DEFINE v == << >>
             z == [base |-> Len(v), locks |-> {}, tested |-> FALSE]
             w == Append(v, z)
  <2>1. Sound("live", v, << >>, rCurrent[o]) /\ Len(v) < MaxRevs
    BY <1>3, <1>4, <1>5
  <2>2. z = x
    BY <1>4
  <2> HIDE DEF v
  <2>3. Sound("live", w, << >>, rCurrent[o])
    BY <1>4, <2>1, Drafting
  <2> QED BY <1>4, <2>2, <2>3 DEF v
<1>7. Sound("live", <<x>>, <<y>>, 1)
  <2> DEFINE v == <<x>>
             l == << >>
             m == Append(l, y)
  <2>1. /\ Sound("live", v, l, rCurrent[o]) /\ 1 \in DOMAIN v /\ {} = v[1].locks
        /\ \A k \in DOMAIN l : l[k].rev # 1
    BY <1>6
  <2>2. 1 \in 0..(Len(l) + 1)
    OBVIOUS
  <2> HIDE DEF v, l
  <2>3. Sound("live", v, m, 1)
    BY <1>4, <2>1, <2>2, Releasing
  <2> QED BY <1>4, <2>3 DEF v, l
<1>8. Later(rStatus[o], rRevs[o], rRels[o], "live", <<x>>, <<y>>)
      /\ Steady(rStatus[o], rRels[o], "live", <<y>>)
  BY <1>1 DEF Later, Steady, InUse
<1>9. Registered
  BY <1>1, <1>3, RegisteredAs
<1>10. rStatus' = [rStatus EXCEPT ![o] = "live"] /\ rRels' = [rRels EXCEPT ![o] = <<y>>]
       /\ rCurrent' = [rCurrent EXCEPT ![o] = 1] /\ UNCHANGED rReq
  BY <1>1
<1>11. rRevs' = [rRevs EXCEPT ![o] = <<x>>]
  BY <1>1, <1>3
<1> HIDE DEF x, y
<1> QED BY <1>7, <1>8, <1>9, <1>10, <1>11, ChangesAlone
LEMMA ImportStep ==
  ASSUME RL!CatalogueAssumption, HistoryInv, NEW root \in Objects, NEW dep \in Objects,
         NEW n \in 1..MaxRevs,
         RL!Import(root, dep, n)
  PROVE  HistoryInv'
<1> DEFINE r == RL!ImportedAs(dep, n)
           v == RL!ImportedRevs(dep, n, {})
           l == RL!ImportedRels(dep, n, {})
           c == rCurrent'[dep]
           w == Append(rRevs[root],
                       [base |-> Len(rRevs[root]), locks |-> {<<dep, r>>}, tested |-> FALSE])
<1>1. /\ Type[dep] = RL!DependsOn(Type[root]) /\ RL!Importing(dep, n, {})
      /\ RL!Importable(root) /\ RL!LatestRev(root) < Limit[root] /\ UNCHANGED rReq
      /\ rStatus' = [rStatus EXCEPT ![root] = "live", ![dep] = "live"]
      /\ rRels' = [rRels EXCEPT ![dep] = l]
  BY DEF RL!Import
<1>2. root # dep
  BY <1>1 DEF RL!CatalogueAssumption, RL!DependsOn
<1>3. rRevs' = [rRevs EXCEPT ![dep] = v, ![root] = w]
  <2>1. rRevs' = [rRevs EXCEPT ![dep] = v, ![root] = Append(@, RL!Drafted(root, {<<dep, r>>}))]
    BY DEF RL!Import
  <2>2. RL!Drafted(root, {<<dep, r>>})
          = [base |-> Len(rRevs[root]), locks |-> {<<dep, r>>}, tested |-> FALSE]
    BY DEF RL!Drafted, RL!LatestRev
  <2> HIDE DEF v
  <2> QED BY <1>2, <2>1, <2>2, Known
<1>4. rCurrent' = [rCurrent EXCEPT ![dep] = c] /\ c \in {rCurrent[dep], r}
  BY Known DEF RL!Import
<1>5. /\ \A d \in {rCurrent[dep], r} : Sound("live", v, l, d)
      /\ Later(rStatus[dep], rRevs[dep], rRels[dep], "live", v, l) /\ r \in 1..MaxRevs
      /\ RL!Unlocked(dep) \/ Steady(rStatus[dep], rRels[dep], "live", l)
  BY <1>1, Imports
<1>6. /\ Sound("live", v, l, c)
      /\ Later(rStatus[dep], rRevs[dep], rRels[dep], "live", v, l)
      /\ Free(dep, {}) \/ Steady(rStatus[dep], rRels[dep], "live", l)
  BY <1>4, <1>5, Unlocks
<1>7. /\ Sound(rStatus[root], rRevs[root], rRels[root], rCurrent[root]) /\ rStatus[root] # "deleted"
      /\ Len(rRevs[root]) < MaxRevs /\ Len(rRevs[root]) \in Nat
  BY <1>1, Known, Numbers DEF RL!Importable, RL!Open, At, RL!LatestRev
<1>8. {<<dep, r>>} \in SUBSET RL!Releases
  BY <1>5 DEF RL!Releases
<1>9. Registered
  <2>1. CASE rCurrent[dep] = 0 \/ RL!ReleasedAs(dep, n) = {}
    <3>1. RL!Installed(dep, r) /\ rMuddled' \subseteq rMuddled \cup {Key[dep]}
      BY <2>1 DEF RL!Import, RL!Settled
    <3> QED BY <1>5, <3>1, RegisteredAs
  <2>2. CASE ~(rCurrent[dep] = 0 \/ RL!ReleasedAs(dep, n) = {})
    BY <2>2, Known DEF RL!Import, Registered
  <2> QED BY <2>1, <2>2
<1>10. /\ rStatus'[root] = "live" /\ rStatus'[dep] = "live" /\ rRevs'[root] = w /\ rRevs'[dep] = v
       /\ rRels'[root] = rRels[root] /\ rRels'[dep] = l
       /\ rCurrent'[root] = rCurrent[root] /\ rCurrent'[dep] = c
  <2> HIDE DEF v, l, w
  <2> QED BY <1>1, <1>2, <1>3, <1>4, Known
<1>11. \A p \in Objects \ {root, dep} : /\ rStatus'[p] = rStatus[p] /\ rRevs'[p] = rRevs[p]
                                        /\ rRels'[p] = rRels[p] /\ rCurrent'[p] = rCurrent[p]
  <2> HIDE DEF v, l, w
  <2> QED BY <1>1, <1>3, <1>4, Known
<1>12. /\ rStatus' = [p \in Objects |-> rStatus'[p]] /\ rRevs' = [p \in Objects |-> rRevs'[p]]
       /\ rRels' = [p \in Objects |-> rRels'[p]] /\ rCurrent' = [p \in Objects |-> rCurrent'[p]]
  <2> HIDE DEF v, l, w
  <2> QED BY <1>1, <1>3, <1>4, Known
<1> HIDE DEF r, v, l, c
<1>13. /\ Sound("live", w, rRels[root], rCurrent[root])
       /\ Later(rStatus[root], rRevs[root], rRels[root], "live", w, rRels[root])
  BY <1>7, <1>8, Drafting
<1>14. Steady(rStatus[root], rRels[root], "live", rRels[root])
  BY <1>7, Revived
<1> HIDE DEF w
<1>15. ASSUME NEW p \in Objects
       PROVE  /\ Sound(rStatus'[p], rRevs'[p], rRels'[p], rCurrent'[p]) /\ Grows(p)
              /\ Free(p, {}) \/ Steady(rStatus[p], rRels[p], rStatus'[p], rRels'[p])
  <2>1. CASE p = root
    BY <1>10, <1>13, <1>14, <2>1 DEF Grows
  <2>2. CASE p = dep
    BY <1>6, <1>10, <2>2 DEF Grows
  <2>3. CASE p \notin {root, dep}
    BY <1>11, <2>3, Known DEF Grows, At
  <2> QED BY <2>1, <2>2, <2>3
<1>16. Served({}) /\ {} \in SUBSET Editors
  BY <1>1, Unserved
<1> QED BY <1>9, <1>12, <1>15, <1>16, Moves

\* A restart ends every transaction and fills the registry from the pointers.
LEMMA RestartStep ==
  ASSUME RL!CatalogueAssumption, HistoryInv, RL!Restart
  PROVE  HistoryInv'
<1> DEFINE owners(k) == {o \in Objects : /\ Key[o] = k /\ rStatus[o] = "live" /\ rCurrent[o] # 0
                                         /\ ~rRels[o][rCurrent[o]].archived}
           entry(k) == IF owners(k) = {} THEN Nothing
                       ELSE LET o == CHOOSE p \in owners(k) : TRUE IN <<o, rCurrent[o]>>
<1>1. /\ rReq' = [e \in Editors |-> RL!Idle] /\ UNCHANGED <<rStatus, rRevs, rRels, rCurrent>>
      /\ rRuntime' = [k \in RL!KeysInUse |-> entry(k)] /\ rMuddled' = {}
  BY DEF RL!Restart
<1>2. ASSUME NEW k \in RL!KeysInUse
      PROVE  entry(k) \in RL!Releases \cup {Nothing}
  <2>1. CASE owners(k) = {}
    BY <2>1
  <2>2. CASE owners(k) # {}
    <3> DEFINE o == CHOOSE p \in owners(k) : TRUE
    <3>1. o \in owners(k)
      BY <2>2
    <3>2. o \in Objects /\ rCurrent[o] # 0
      BY <3>1
    <3>3. entry(k) = <<o, rCurrent[o]>>
      BY <2>2
    <3> HIDE DEF o, entry
    <3>4. rCurrent[o] \in 1..MaxRevs
      BY <3>2, Known, Numbers
    <3> QED BY <3>2, <3>3, <3>4 DEF RL!Releases
  <2> QED BY <2>1, <2>2
<1>3. Registered
  <2> HIDE DEF entry
  <2> QED BY <1>1, <1>2 DEF Registered
<1>4. Served(Editors) /\ Editors \in SUBSET Editors
  BY <1>1, IdleFields DEF Served
<1> QED BY <1>1, <1>3, <1>4, Rests
-----------------------------------------------------------------------------
(* The invariant.                                                          *)

LEMMA InitHistory == ASSUME RL!CatalogueAssumption, RL!Init PROVE HistoryInv
<1>1. /\ rStatus = [o \in Objects |-> "none"] /\ rRevs = [o \in Objects |-> << >>]
      /\ rRels = [o \in Objects |-> << >>] /\ rCurrent = [o \in Objects |-> 0]
      /\ rRuntime = [k \in RL!KeysInUse |-> Nothing]
      /\ rReq = [e \in Editors |-> RL!Idle] /\ rMuddled = {}
  BY DEF RL!Init
<1>2. RL!TypeOK
  <2>1. << >> \in Seq(RL!Revision) /\ << >> \in Seq(RL!Release) /\ 0 \in 0..MaxRevs
    BY Numbers
  <2> QED BY <1>1, <2>1, IdleFields DEF RL!TypeOK
<1>3. \A o \in Objects : Sound(rStatus[o], rRevs[o], rRels[o], rCurrent[o])
  BY <1>1, Nothingness DEF ObjectStatuses
<1>4. RequestsFit
  BY <1>1, IdleFields DEF RequestsFit
<1> QED BY <1>2, <1>3, <1>4 DEF HistoryInv

LEMMA CatalogueStep ==
  ASSUME RL!CatalogueAssumption, HistoryInv, RL!Catalogue
  PROVE  HistoryInv'
<1>1. Edited \subseteq Objects
  BY DEF RL!CatalogueAssumption
<1> QED BY <1>1, ObjectStep, TestStep, MigrateObjectStep, ImportStep, MigrateCatalogStep,
           BootstrapStep DEF RL!Catalogue

LEMMA EditStep ==
  ASSUME RL!CatalogueAssumption, HistoryInv, NEW e \in Editors, RL!Edit(e)
  PROVE  HistoryInv'
BY StartStep, SaveStep, InstallStep, PublishStep, ArchiveStep, SelectStep, SelectInstallStep,
   DeleteStep DEF RL!Edit

LEMMA NextHistory == ASSUME RL!CatalogueAssumption, HistoryInv, [RL!Next]_RL!vars PROVE HistoryInv'
<1>1. CASE RL!Catalogue
  BY <1>1, CatalogueStep
<1>2. CASE \E old, new \in {r \in RL!Releases : RL!Exists(r)} : RL!MigrateReferences(old, new)
  BY <1>2, MigrateReferencesStep
<1>3. CASE \E e \in Editors : RL!Edit(e)
  BY <1>3, EditStep
<1>4. CASE RL!Restart
  BY <1>4, RestartStep
<1>5. CASE UNCHANGED RL!vars
  <2>1. /\ UNCHANGED <<rStatus, rRevs, rRels, rCurrent>> /\ UNCHANGED rReq
        /\ UNCHANGED <<rRuntime, rMuddled>>
    BY <1>5 DEF RL!vars
  <2>2. Registered
    BY <2>1, Known DEF Registered
  <2>3. Served({}) /\ {} \in SUBSET Editors
    BY <2>1, Unserved
  <2> QED BY <2>1, <2>2, <2>3, Rests
<1> QED BY <1>1, <1>2, <1>3, <1>4, <1>5 DEF RL!Next

LEMMA HistoryFollows == ASSUME RL!CatalogueAssumption, HistoryInv PROVE RL!HistoryInOrder
<1>1. RL!TypeOK
  BY DEF HistoryInv
<1>2. RL!RevisionChain
  BY DEF HistoryInv, Sound, RL!RevisionChain
<1>3. RL!ReleasedOnce
  <2> SUFFICES ASSUME NEW o \in Objects
               PROVE  /\ rCurrent[o] <= Len(rRels[o])
                      /\ \A k \in DOMAIN rRels[o] :
                           /\ RL!ReleasedAs(o, rRels[o][k].rev) = {k}
                           /\ rRels[o][k].rev \in DOMAIN rRevs[o]
                           /\ rRels[o][k].locks = rRevs[o][rRels[o][k].rev].locks
    BY DEF RL!ReleasedOnce
  <2>1. Sound(rStatus[o], rRevs[o], rRels[o], rCurrent[o])
    BY DEF HistoryInv
  <2>2. \A k \in DOMAIN rRels[o] : RL!ReleasedAs(o, rRels[o][k].rev) = {k}
    BY <2>1 DEF Sound, RL!ReleasedAs
  <2> QED BY <2>1, <2>2 DEF Sound
<1> QED BY <1>1, <1>2, <1>3 DEF RL!HistoryInOrder

\* Whatever the requests that work on the catalogue at the same time, every object's
\* history is in order: its revisions are numbered and chained without a gap, a revision is
\* released once, with the dependencies it was saved with, and the pointer to the current
\* release names one (save_revision, publish_revision, select_current_release, imports
\* and migrations of workbench/service.py).
THEOREM HistoryTheorem == RL!Spec => []HistoryInOrder
<1>1. RL!Init => HistoryInv
  BY ReleasesAssumption, InitHistory
<1>2. HistoryInv /\ [RL!Next]_RL!vars => HistoryInv'
  BY ReleasesAssumption, NextHistory
<1>3. HistoryInv => HistoryInOrder
  BY ReleasesAssumption, HistoryFollows DEF HistoryInOrder
<1> QED BY <1>1, <1>2, <1>3, PTL DEF RL!Spec
-----------------------------------------------------------------------------
(* What runs is what is published.                                         *)

\* Of the objects with one key only one is there; an installed publication runs, or its key
\* was muddled.
KeysApart == \A o, p \in Objects : RL!Open(o) /\ RL!Open(p) /\ Key[o] = Key[p] => o = p

Mounted ==
  \A e \in Editors : rReq[e].op = "installed" =>
    \/ Key[rReq[e].obj] \in rMuddled
    \/ rRuntime[Key[rReq[e].obj]] = <<rReq[e].obj, rReq[e].seen + 1>>

RuntimeInv == HistoryInv /\ KeysApart /\ Mounted /\ RL!RuntimeIsCurrent

Pending(o) == \E e \in Editors : rReq[e].op \in {"installed", "selected"} /\ rReq[e].obj = o

\* After a step: an object that is there, one with an installation to come, and one whose
\* current release runs unless there is one to come or its key was muddled.
There(o) == rStatus'[o] \in {"live", "archived"}
Claimed(o) == \E e \in Editors : rReq'[e].op \in {"installed", "selected"} /\ rReq'[e].obj = o
Fine(o) ==
  Claimed(o) \/ Key[o] \in rMuddled' \/ rRuntime'[Key[o]] \in {Nothing, <<o, rCurrent'[o]>>}

\* RuntimeIsCurrent in the words of this proof.
LEMMA CurrentRuns ==
  RL!RuntimeIsCurrent <=>
    \A o \in Objects : \/ ~RL!Open(o) \/ rCurrent[o] = 0 \/ Key[o] \in rMuddled \/ Pending(o)
                       \/ rRuntime[Key[o]] \in {Nothing, <<o, rCurrent[o]>>}
BY DEF RL!RuntimeIsCurrent, Pending

\* An object appears only if its key is free.
LEMMA ApartStays ==
  ASSUME RL!CatalogueAssumption, KeysApart,
         \A o \in Objects : There(o) => RL!Open(o) \/ RL!KeyFree(o),
         \A o, p \in Objects : There(o) /\ There(p) /\ ~RL!Open(o) /\ ~RL!Open(p) /\ Key[o] = Key[p] =>
           o = p
  PROVE  KeysApart'
<1> SUFFICES ASSUME NEW o \in Objects, NEW p \in Objects, There(o), There(p), Key[o] = Key[p]
             PROVE  o = p
  BY DEF KeysApart, RL!Open, There
<1>1. Type[o] = Type[p]
  BY DEF RL!CatalogueAssumption
<1>2. CASE RL!Open(o) /\ RL!Open(p)
  BY <1>2 DEF KeysApart, RL!Open, There
<1>3. CASE RL!Open(o) /\ ~RL!Open(p)
  BY <1>1, <1>3 DEF RL!KeyFree
<1>4. CASE ~RL!Open(o) /\ RL!Open(p)
  BY <1>1, <1>4 DEF RL!KeyFree
<1>5. CASE ~RL!Open(o) /\ ~RL!Open(p)
  BY <1>5
<1> QED BY <1>2, <1>3, <1>4, <1>5

\* An object that is not there has no current release, and nobody publishes it.
LEMMA Closed ==
  ASSUME RL!CatalogueAssumption, HistoryInv, NEW o \in Objects, ~RL!Open(o)
  PROVE  /\ rCurrent[o] = 0
         /\ \A e \in Editors : ~(rReq[e].op = "installed" /\ rReq[e].obj = o)
<1>1. ~InUse(rStatus[o])
  BY DEF RL!Open, InUse
<1>2. rCurrent[o] = 0
  BY <1>1, Known DEF At, Sound
<1>3. \A e \in Editors : ~(rReq[e].op = "installed" /\ rReq[e].obj = o)
  BY <1>1, Held
<1> QED BY <1>2, <1>3

\* A step that leaves the registry alone.
LEMMA Quiet ==
  ASSUME RL!CatalogueAssumption, RuntimeInv, HistoryInv', KeysApart',
         UNCHANGED <<rRuntime, rMuddled>>,
         \A o \in Objects : There(o) /\ rCurrent'[o] # 0 =>
           Fine(o) \/ (RL!Open(o) /\ rCurrent'[o] = rCurrent[o]),
         \A e \in Editors : rReq[e].op \in {"installed", "selected"} =>
           rReq'[e] = rReq[e] \/ Fine(rReq[e].obj),
         \A e \in Editors : rReq'[e].op = "installed" => rReq'[e] = rReq[e]
  PROVE  RuntimeInv'
<1>1. Mounted'
  BY DEF Mounted, RuntimeInv
<1>2. RL!RuntimeIsCurrent'
  <2>1. ASSUME NEW o \in Objects, There(o), rCurrent'[o] # 0
        PROVE  Fine(o)
    <3>1. CASE Fine(o)
      BY <3>1
    <3>2. CASE RL!Open(o) /\ rCurrent'[o] = rCurrent[o]
      <4>1. CASE Pending(o)
        <5>1. PICK e \in Editors : rReq[e].op \in {"installed", "selected"} /\ rReq[e].obj = o
          BY <4>1 DEF Pending
        <5>2. CASE rReq'[e] = rReq[e]
          BY <5>1, <5>2 DEF Fine, Pending, Claimed
        <5> QED BY <5>1, <5>2
      <4>2. CASE ~Pending(o)
        <5>1. Key[o] \in rMuddled \/ rRuntime[Key[o]] \in {Nothing, <<o, rCurrent[o]>>}
          BY <2>1, <3>2, <4>2, CurrentRuns DEF RuntimeInv
        <5> QED BY <3>2, <5>1 DEF Fine
      <4> QED BY <4>1, <4>2
    <3> QED BY <2>1, <3>1, <3>2
  <2> QED BY <2>1 DEF RL!RuntimeIsCurrent, Fine, Claimed, RL!Open, There
<1> QED BY <1>1, <1>2 DEF RuntimeInv

\* A step that installs release n of o.
LEMMA Mounts ==
  ASSUME RL!CatalogueAssumption, RuntimeInv, HistoryInv', KeysApart',
         NEW o \in Objects, NEW n, RL!Installed(o, n),
         rMuddled' = rMuddled \ {Key[o]} \/ rMuddled' = rMuddled \cup {Key[o]},
         Key[o] \in rMuddled' \/ (There(o) /\ (rCurrent'[o] = n \/ Claimed(o))),
         \A p \in Objects : Key[p] # Key[o] /\ There(p) /\ rCurrent'[p] # 0 =>
           RL!Open(p) /\ rCurrent'[p] = rCurrent[p],
         \A e \in Editors : rReq[e].op \in {"installed", "selected"} /\ rReq[e].obj # o =>
           rReq'[e] = rReq[e],
         \A e \in Editors : rReq'[e].op = "installed" =>
           \/ Key[o] \in rMuddled' /\ rReq'[e] = rReq[e]
           \/ rReq'[e].obj # o /\ rReq'[e] = rReq[e]
           \/ rReq'[e].obj = o /\ rReq'[e].seen + 1 = n
  PROVE  RuntimeInv'
<1>1. /\ rRuntime'[Key[o]] = <<o, n>>
      /\ \A p \in Objects : Key[p] # Key[o] => /\ rRuntime'[Key[p]] = rRuntime[Key[p]]
                                               /\ Key[p] \in rMuddled' <=> Key[p] \in rMuddled
  BY Known, Numbers DEF RL!Installed, RuntimeInv
<1>2. Mounted'
  <2> SUFFICES ASSUME NEW e \in Editors, rReq'[e].op = "installed"
               PROVE  \/ Key[rReq'[e].obj] \in rMuddled'
                      \/ rRuntime'[Key[rReq'[e].obj]] = <<rReq'[e].obj, rReq'[e].seen + 1>>
    BY DEF Mounted
  <2>1. PICK q \in Objects : q = rReq'[e].obj /\ There(q)
    <3>1. rReq'[e] \in RL!Request /\ rReq'[e] # RL!Idle
      BY IdleFields DEF HistoryInv, RL!TypeOK
    <3>2. PICK q \in Objects : q = rReq'[e].obj
      BY <3>1, RequestFields
    <3>3. Relies(rReq'[e], rStatus'[q], rRevs'[q], rRels'[q])
      BY <3>1, <3>2 DEF HistoryInv, RequestsFit
    <3>4. There(q)
      BY <3>3 DEF Relies, InUse, There
    <3> QED BY <3>2, <3>4
  <2>2. CASE Key[q] = Key[o]
    <3>1. CASE Key[o] \in rMuddled'
      BY <2>1, <2>2, <3>1
    <3>2. CASE Key[o] \notin rMuddled'
      <4>1. q = o
        BY <2>1, <2>2, <3>2 DEF KeysApart, RL!Open, There
      <4> QED BY <1>1, <2>1, <3>2, <4>1
    <3> QED BY <3>1, <3>2
  <2>3. CASE Key[q] # Key[o]
    <3>1. rReq'[e] = rReq[e]
      BY <2>1, <2>3
    <3>2. \/ Key[rReq[e].obj] \in rMuddled
          \/ rRuntime[Key[rReq[e].obj]] = <<rReq[e].obj, rReq[e].seen + 1>>
      BY <3>1 DEF RuntimeInv, Mounted
    <3> QED BY <1>1, <2>1, <2>3, <3>1, <3>2
  <2> QED BY <2>2, <2>3
<1>3. RL!RuntimeIsCurrent'
  <2> SUFFICES ASSUME NEW p \in Objects, There(p), rCurrent'[p] # 0
               PROVE  Fine(p)
    BY DEF RL!RuntimeIsCurrent, Fine, Claimed, RL!Open, There
  <2>1. CASE Key[p] = Key[o]
    <3>1. CASE Key[o] \in rMuddled'
      BY <2>1, <3>1 DEF Fine
    <3>2. CASE Key[o] \notin rMuddled'
      <4>1. p = o
        BY <2>1, <3>2 DEF KeysApart, RL!Open, There
      <4> QED BY <1>1, <3>2, <4>1 DEF Fine
    <3> QED BY <3>1, <3>2
  <2>2. CASE Key[p] # Key[o]
    <3>1. RL!Open(p) /\ rCurrent'[p] = rCurrent[p]
      BY <2>2
    <3>2. CASE Pending(p)
      <4>1. PICK e \in Editors : rReq[e].op \in {"installed", "selected"} /\ rReq[e].obj = p
        BY <3>2 DEF Pending
      <4>2. rReq'[e] = rReq[e]
        BY <2>2, <4>1
      <4> QED BY <4>1, <4>2 DEF Fine, Pending, Claimed
    <3>3. CASE ~Pending(p)
      <4>1. Key[p] \in rMuddled \/ rRuntime[Key[p]] \in {Nothing, <<p, rCurrent[p]>>}
        BY <3>1, <3>3, CurrentRuns DEF RuntimeInv
      <4> QED BY <1>1, <2>2, <3>1, <4>1 DEF Fine
    <3> QED BY <3>2, <3>3
  <2> QED BY <2>1, <2>2
<1> QED BY <1>2, <1>3 DEF RuntimeInv
\* No object appears.
LEMMA SameKeys ==
  ASSUME RuntimeInv, \A o \in Objects : There(o) => RL!Open(o)
  PROVE  KeysApart'
BY DEF RuntimeInv, KeysApart, RL!Open, There

\* A request that installs nothing goes on or ends.
LEMMA QuietRequest ==
  ASSUME RL!CatalogueAssumption, RuntimeInv, HistoryInv', NEW e \in Editors, NEW r,
         rReq[e].op \notin {"installed", "selected"}, r.op # "installed",
         rReq' = [rReq EXCEPT ![e] = r], UNCHANGED <<rRuntime, rMuddled>>,
         \A o \in Objects : There(o) => RL!Open(o) /\ (rCurrent'[o] = rCurrent[o] \/ Fine(o))
  PROVE  RuntimeInv'
<1>1. KeysApart'
  BY SameKeys
<1>2. rReq'[e] = r /\ \A f \in Editors \ {e} : rReq'[f] = rReq[f]
  BY Known DEF RuntimeInv
<1>3. \A f \in Editors : rReq[f].op \in {"installed", "selected"} =>
        rReq'[f] = rReq[f] \/ Fine(rReq[f].obj)
  BY <1>2
<1>4. \A f \in Editors : rReq'[f].op = "installed" => rReq'[f] = rReq[f]
  BY <1>2
<1>5. \A o \in Objects : There(o) /\ rCurrent'[o] # 0 =>
           Fine(o) \/ (RL!Open(o) /\ rCurrent'[o] = rCurrent[o])
  OBVIOUS
<1>6. UNCHANGED <<rRuntime, rMuddled>>
  OBVIOUS
<1> QED BY <1>1, <1>3, <1>4, <1>5, <1>6, Quiet

\* Objects change, and no request does.
LEMMA QuietObjects ==
  ASSUME RL!CatalogueAssumption, RuntimeInv, HistoryInv', KeysApart', UNCHANGED rReq,
         UNCHANGED <<rRuntime, rMuddled>>,
         \A o \in Objects : There(o) /\ rCurrent'[o] # 0 =>
           RL!Open(o) /\ rCurrent'[o] = rCurrent[o]
  PROVE  RuntimeInv'
<1>1. /\ \A e \in Editors : rReq[e].op \in {"installed", "selected"} =>
           rReq'[e] = rReq[e] \/ Fine(rReq[e].obj)
      /\ \A e \in Editors : rReq'[e].op = "installed" => rReq'[e] = rReq[e]
  OBVIOUS
<1>2. \A o \in Objects : There(o) /\ rCurrent'[o] # 0 =>
           Fine(o) \/ (RL!Open(o) /\ rCurrent'[o] = rCurrent[o])
  OBVIOUS
<1>3. UNCHANGED <<rRuntime, rMuddled>>
  OBVIOUS
<1> QED BY <1>1, <1>2, <1>3, Quiet

\* One object may appear, and no release is chosen.
LEMMA QuietChange ==
  ASSUME RL!CatalogueAssumption, RuntimeInv, HistoryInv',
         NEW o \in Objects, UNCHANGED <<rCurrent, rReq>>,
         UNCHANGED <<rRuntime, rMuddled>>,
         \A p \in Objects : p # o => rStatus'[p] = rStatus[p],
         RL!Open(o) \/ RL!KeyFree(o) \/ UNCHANGED rStatus
  PROVE  RuntimeInv'
<1>1. \A p \in Objects : There(p) => RL!Open(p) \/ (p = o /\ RL!KeyFree(p))
  BY DEF RL!Open, There
<1>2. KeysApart'
  <2>1. KeysApart
    BY DEF RuntimeInv
  <2>2. \A p, q \in Objects : There(p) /\ There(q) /\ ~RL!Open(p) /\ ~RL!Open(q) /\ Key[p] = Key[q] =>
          p = q
    BY <1>1
  <2> QED BY <1>1, <2>1, <2>2, ApartStays
<1>3. \A p \in Objects : There(p) /\ rCurrent'[p] # 0 => RL!Open(p) /\ rCurrent'[p] = rCurrent[p]
  BY Closed DEF RuntimeInv
<1>4. UNCHANGED rReq
  OBVIOUS
<1>5. UNCHANGED <<rRuntime, rMuddled>>
  OBVIOUS
<1> QED BY <1>2, <1>3, <1>4, <1>5, QuietObjects

LEMMA ObjectRuns ==
  ASSUME RL!CatalogueAssumption, RuntimeInv, HistoryInv', NEW o \in Objects,
         \/ RL!Create(o) \/ RL!SetArchived(o) \/ \E n \in 1..MaxRevs : RL!Test(o, n)
         \/ \E p \in Objects : RL!MigrateObject(p, o)
  PROVE  RuntimeInv'
<1>1. /\ UNCHANGED <<rCurrent, rReq>> /\ UNCHANGED <<rRuntime, rMuddled>>
      /\ RL!Open(o) \/ RL!KeyFree(o) \/ UNCHANGED rStatus
      /\ UNCHANGED rStatus \/ \E s : rStatus' = [rStatus EXCEPT ![o] = s]
  BY DEF RL!Create, RL!SetArchived, RL!Test, RL!MigrateObject
<1>2. \A p \in Objects : p # o => rStatus'[p] = rStatus[p]
  BY <1>1, Known DEF RuntimeInv
<1>3. UNCHANGED <<rCurrent, rReq>>
  BY <1>1
<1>4. UNCHANGED <<rRuntime, rMuddled>>
  BY <1>1
<1>5. RL!Open(o) \/ RL!KeyFree(o) \/ UNCHANGED rStatus
  BY <1>1
<1> QED BY <1>2, <1>3, <1>4, <1>5, QuietChange

LEMMA MigrateReferencesRuns ==
  ASSUME RL!CatalogueAssumption, RuntimeInv, HistoryInv',
         NEW old, NEW new, RL!MigrateReferences(old, new)
  PROVE  RuntimeInv'
<1>1. UNCHANGED <<rStatus, rCurrent, rReq>> /\ UNCHANGED <<rRuntime, rMuddled>>
  BY DEF RL!MigrateReferences
<1>2. \A o \in Objects : There(o) => RL!Open(o)
  BY <1>1 DEF RL!Open, There
<1>3. KeysApart'
  BY <1>2, SameKeys
<1>4. \A p \in Objects : There(p) /\ rCurrent'[p] # 0 => RL!Open(p) /\ rCurrent'[p] = rCurrent[p]
  BY <1>1, <1>2
<1>5. UNCHANGED rReq
  BY <1>1
<1>6. UNCHANGED <<rRuntime, rMuddled>>
  BY <1>1
<1> QED BY <1>3, <1>4, <1>5, <1>6, QuietObjects

LEMMA StartRuns ==
  ASSUME RL!CatalogueAssumption, RuntimeInv, HistoryInv',
         NEW e \in Editors, rReq[e] = RL!Idle, RL!Start(e)
  PROVE  RuntimeInv'
<1> DEFINE r == rReq'[e]
<1>1. /\ r.op \in {"delete", "save", "publish", "archive", "select"}
      /\ rReq' = [rReq EXCEPT ![e] = r]
      /\ UNCHANGED <<rStatus, rRevs, rRels, rCurrent, rRuntime, rMuddled>>
  <2>1. e \in DOMAIN rReq
    BY Known DEF RuntimeInv
  <2>2. CASE \E o \in Edited : RL!DeleteBegin(e, o)
    BY <2>1, <2>2 DEF RL!DeleteBegin, RL!Begin
  <2>3. CASE \E o \in Objects, locks \in SUBSET RL!Releases : RL!SaveBegin(e, o, locks)
    BY <2>1, <2>3 DEF RL!SaveBegin, RL!Begin
  <2>4. CASE \E o \in Objects, n \in 1..MaxRevs : RL!DraftBegin(e, o, n)
    BY <2>1, <2>4 DEF RL!DraftBegin, RL!SaveBegin, RL!Begin
  <2>5. CASE \E o \in Objects, n \in 1..MaxRevs : RL!PublishBegin(e, o, n)
    BY <2>1, <2>5 DEF RL!PublishBegin, RL!Begin
  <2>6. CASE \E o \in Objects, n \in 1..MaxRevs : RL!ArchiveBegin(e, o, n)
    BY <2>1, <2>6 DEF RL!ArchiveBegin, RL!Begin
  <2>7. CASE \E o \in Objects, n \in 1..MaxRevs : RL!SelectBegin(e, o, n)
    BY <2>1, <2>7 DEF RL!SelectBegin, RL!Begin
  <2>8. /\ Edited \subseteq Objects
        /\ {{}} \cup {{x} : x \in RL!Releases} \subseteq SUBSET RL!Releases
    BY DEF RL!CatalogueAssumption
  <2> HIDE DEF r
  <2> QED BY <2>2, <2>3, <2>4, <2>5, <2>6, <2>7, <2>8 DEF RL!Start
<1> HIDE DEF r
<1>2. rReq[e].op \notin {"installed", "selected"}
  BY IdleFields
<1>3. \A o \in Objects : There(o) => RL!Open(o) /\ (rCurrent'[o] = rCurrent[o] \/ Fine(o))
  BY <1>1 DEF RL!Open, There
<1>4. UNCHANGED <<rRuntime, rMuddled>>
  BY <1>1
<1>5. r.op # "installed" /\ rReq' = [rReq EXCEPT ![e] = r]
  BY <1>1
<1> QED BY <1>2, <1>3, <1>4, <1>5, QuietRequest

LEMMA CommitRuns ==
  ASSUME RL!CatalogueAssumption, RuntimeInv, HistoryInv', NEW e \in Editors,
         RL!SaveCommit(e) \/ RL!ArchiveCommit(e) \/ RL!DeleteCommit(e)
  PROVE  RuntimeInv'
<1>1. /\ rReq[e].op \in {"save", "archive", "delete"} /\ rReq' = [rReq EXCEPT ![e] = RL!Idle]
      /\ UNCHANGED <<rRuntime, rMuddled>>
  BY DEF RL!SaveCommit, RL!ArchiveCommit, RL!DeleteCommit, RL!Finish
<1>2. \A o \in Objects : There(o) => RL!Open(o) /\ rCurrent'[o] = rCurrent[o]
  <2>1. CASE RL!SaveCommit(e) \/ RL!ArchiveCommit(e)
    BY <2>1 DEF RL!SaveCommit, RL!ArchiveCommit, RL!Open, There
  <2>2. CASE RL!DeleteCommit(e)
    BY <2>2, Known DEF RL!DeleteCommit, RL!Open, There, RuntimeInv
  <2> QED BY <2>1, <2>2
<1>3. \A o \in Objects : There(o) => RL!Open(o) /\ (rCurrent'[o] = rCurrent[o] \/ Fine(o))
  BY <1>2
<1>4. rReq[e].op \notin {"installed", "selected"} /\ RL!Idle.op # "installed"
  BY <1>1, IdleFields
<1>5. rReq' = [rReq EXCEPT ![e] = RL!Idle]
  BY <1>1
<1>6. UNCHANGED <<rRuntime, rMuddled>>
  BY <1>1
<1> QED BY <1>3, <1>4, <1>5, <1>6, QuietRequest
LEMMA InstallRuns ==
  ASSUME RL!CatalogueAssumption, RuntimeInv, HistoryInv', NEW e \in Editors, RL!PublishInstall(e)
  PROVE  RuntimeInv'
<1> DEFINE o == rReq[e].obj
           n == rReq[e].n
<1>1. /\ rReq[e].op = "publish" /\ RL!Unlocked(o) /\ UNCHANGED <<rStatus, rRevs, rRels, rCurrent>>
  BY DEF RL!PublishInstall
<1>2. rReq[e] # RL!Idle /\ o \in Objects /\ rReq[e] \in RL!Request
  BY <1>1, IdleFields, Known DEF RuntimeInv
<1>3. \A p \in Objects : There(p) => RL!Open(p) /\ rCurrent'[p] = rCurrent[p]
  BY <1>1 DEF RL!Open, There
<1>4. CASE /\ RL!Open(o) /\ n \in DOMAIN rRevs[o]
           /\ RL!LatestRel(o) = rReq[e].seen /\ RL!ReleasedAs(o, n) = {}
  <2> DEFINE r == [rReq[e] EXCEPT !.op = "installed"]
  <2>1. /\ RL!Installed(o, rReq[e].seen + 1) /\ rMuddled' = rMuddled \ {Key[o]}
        /\ rReq' = [rReq EXCEPT ![e] = r]
    BY <1>4 DEF RL!PublishInstall, RL!Settled
  <2>2. r \in RL!Request /\ r.op = "installed" /\ r.obj = o /\ r.seen = rReq[e].seen
    BY <1>2, IdleFields DEF RL!Request, RL!Ops
  <2> HIDE DEF r
  <2>3. rReq'[e] = r /\ \A f \in Editors \ {e} : rReq'[f] = rReq[f]
    BY <2>1, Known DEF RuntimeInv
  <2>4. There(o) /\ Claimed(o)
    BY <1>1, <1>4, <2>2, <2>3 DEF RL!Open, There, Claimed
  <2>5. \A f \in Editors : rReq[f].op \in {"installed", "selected"} /\ rReq[f].obj # o =>
          rReq'[f] = rReq[f]
    BY <2>3
  <2>6. \A f \in Editors : rReq'[f].op = "installed" =>
           \/ rReq'[f].obj # o /\ rReq'[f] = rReq[f]
           \/ rReq'[f].obj = o /\ rReq'[f].seen + 1 = rReq[e].seen + 1
    BY <1>1, <2>2, <2>3 DEF RL!Unlocked
  <2>7. KeysApart'
    BY <1>3, SameKeys
  <2>8. /\ RL!Installed(o, rReq[e].seen + 1)
        /\ rMuddled' = rMuddled \ {Key[o]} \/ rMuddled' = rMuddled \cup {Key[o]}
    BY <2>1
  <2> HIDE DEF o
  <2> QED BY <1>2, <1>3, <2>4, <2>5, <2>6, <2>7, <2>8, Mounts
<1>5. CASE ~(/\ RL!Open(o) /\ n \in DOMAIN rRevs[o]
             /\ RL!LatestRel(o) = rReq[e].seen /\ RL!ReleasedAs(o, n) = {})
  <2>1. rReq' = [rReq EXCEPT ![e] = RL!Idle]
    BY <1>5 DEF RL!PublishInstall, RL!Finish
  <2>2. UNCHANGED <<rRuntime, rMuddled>>
    BY <1>5 DEF RL!PublishInstall
  <2>3. rReq[e].op \notin {"installed", "selected"} /\ RL!Idle.op # "installed"
    BY <1>1, IdleFields
  <2>4. \A p \in Objects : There(p) => RL!Open(p) /\ (rCurrent'[p] = rCurrent[p] \/ Fine(p))
    BY <1>3
  <2> QED BY <2>1, <2>2, <2>3, <2>4, QuietRequest
<1> QED BY <1>4, <1>5

LEMMA PublishRuns ==
  ASSUME RL!CatalogueAssumption, RuntimeInv, HistoryInv', NEW e \in Editors, RL!PublishCommit(e)
  PROVE  RuntimeInv'
<1> DEFINE o == rReq[e].obj
<1>1. /\ rReq[e].op = "installed" /\ rReq' = [rReq EXCEPT ![e] = RL!Idle]
      /\ rCurrent' = [rCurrent EXCEPT ![o] = rReq[e].seen + 1] /\ UNCHANGED rStatus
  BY DEF RL!PublishCommit, RL!Finish
<1>2. UNCHANGED <<rRuntime, rMuddled>>
  BY DEF RL!PublishCommit
<1>3. o \in Objects /\ InUse(rStatus[o])
  BY <1>1, Held DEF RuntimeInv
<1>4. /\ rCurrent'[o] = rReq[e].seen + 1 /\ \A p \in Objects \ {o} : rCurrent'[p] = rCurrent[p]
      /\ rReq'[e] = RL!Idle /\ \A f \in Editors \ {e} : rReq'[f] = rReq[f]
  BY <1>1, <1>3, Known DEF RuntimeInv
<1>5. Key[o] \in rMuddled \/ rRuntime[Key[o]] = <<o, rReq[e].seen + 1>>
  BY <1>1 DEF RuntimeInv, Mounted
<1>6. Fine(o)
  BY <1>2, <1>4, <1>5 DEF Fine
<1>7. \A p \in Objects : There(p) => RL!Open(p)
  BY <1>1 DEF RL!Open, There
<1>8. \A p \in Objects : There(p) /\ rCurrent'[p] # 0 =>
        Fine(p) \/ (RL!Open(p) /\ rCurrent'[p] = rCurrent[p])
  BY <1>4, <1>6, <1>7
<1>9. \A f \in Editors : rReq[f].op \in {"installed", "selected"} =>
        rReq'[f] = rReq[f] \/ Fine(rReq[f].obj)
  BY <1>4, <1>6
<1>10. \A f \in Editors : rReq'[f].op = "installed" => rReq'[f] = rReq[f]
  BY <1>4, IdleFields
<1>11. KeysApart'
  BY <1>7, SameKeys
<1> QED BY <1>2, <1>8, <1>9, <1>10, <1>11, Quiet

LEMMA SelectRuns ==
  ASSUME RL!CatalogueAssumption, RuntimeInv, HistoryInv', NEW e \in Editors, RL!SelectCommit(e)
  PROVE  RuntimeInv'
<1> DEFINE o == rReq[e].obj
           n == rReq[e].n
           Sure == /\ rStatus[o] = "live" /\ rCurrent[o] = rReq[e].seen /\ RL!Complete(<<o, n>>)
<1>1. rReq[e].op = "select" /\ UNCHANGED <<rStatus, rRevs, rRels>>
  BY DEF RL!SelectCommit
<1>2. UNCHANGED <<rRuntime, rMuddled>>
  BY DEF RL!SelectCommit
<1>3. o \in Objects /\ rReq[e] # RL!Idle /\ rReq[e] \in RL!Request
  BY <1>1, IdleFields, Known DEF RuntimeInv
<1>4. rReq[e].op \notin {"installed", "selected"} /\ RL!Idle.op # "installed"
  BY <1>1, IdleFields
<1>5. \A p \in Objects : There(p) => RL!Open(p)
  BY <1>1 DEF RL!Open, There
<1>6. CASE Sure
  <2> DEFINE r == [rReq[e] EXCEPT !.op = "selected"]
  <2>1. rCurrent' = [rCurrent EXCEPT ![o] = n] /\ rReq' = [rReq EXCEPT ![e] = r]
    BY <1>6 DEF RL!SelectCommit
  <2>2. r.op = "selected" /\ r.obj = o
    BY <1>3, IdleFields DEF RL!Request, RL!Ops
  <2> HIDE DEF r
  <2>3. Fine(o)
    <3>1. rReq'[e] = r
      BY <2>1, Known DEF RuntimeInv
    <3> QED BY <2>2, <3>1 DEF Fine, Pending, Claimed
  <2>4. \A p \in Objects : There(p) => RL!Open(p) /\ (rCurrent'[p] = rCurrent[p] \/ Fine(p))
    BY <1>5, <2>1, <2>3, Known DEF RuntimeInv
  <2>5. r.op # "installed" /\ rReq' = [rReq EXCEPT ![e] = r]
    BY <2>1, <2>2
  <2> QED BY <1>2, <1>4, <2>4, <2>5, QuietRequest
<1>7. CASE ~Sure
  <2>1. rReq' = [rReq EXCEPT ![e] = RL!Idle] /\ UNCHANGED rCurrent
    BY <1>7 DEF RL!SelectCommit, RL!Finish
  <2>2. \A p \in Objects : There(p) => RL!Open(p) /\ (rCurrent'[p] = rCurrent[p] \/ Fine(p))
    BY <1>5, <2>1
  <2>3. rReq' = [rReq EXCEPT ![e] = RL!Idle]
    BY <2>1
  <2> QED BY <1>2, <1>4, <2>2, <2>3, QuietRequest
<1> QED BY <1>6, <1>7

LEMMA SelectInstallRuns ==
  ASSUME RL!CatalogueAssumption, RuntimeInv, HistoryInv', NEW e \in Editors, RL!SelectInstall(e)
  PROVE  RuntimeInv'
<1> DEFINE o == rReq[e].obj
           n == rReq[e].n
<1>1. /\ rReq[e].op = "selected" /\ rReq' = [rReq EXCEPT ![e] = RL!Idle] /\ RL!Installed(o, n)
      /\ UNCHANGED <<rStatus, rRevs, rRels, rCurrent>>
      /\ IF RL!Open(o) /\ rCurrent[o] = n /\ RL!Unlocked(o)
           THEN rMuddled' = rMuddled \ {Key[o]} ELSE rMuddled' = rMuddled \cup {Key[o]}
  BY DEF RL!SelectInstall, RL!Settled, RL!Finish
<1>2. o \in Objects /\ Key[o] \in RL!KeysInUse
  BY <1>1, IdleFields, Known, Numbers DEF RuntimeInv
<1>3. \A p \in Objects : There(p) => RL!Open(p) /\ rCurrent'[p] = rCurrent[p]
  BY <1>1 DEF RL!Open, There
<1>4. rReq'[e] = RL!Idle /\ \A f \in Editors \ {e} : rReq'[f] = rReq[f]
  BY <1>1, Known DEF RuntimeInv
<1>5. \A f \in Editors : rReq[f].op \in {"installed", "selected"} /\ rReq[f].obj # o =>
        rReq'[f] = rReq[f]
  BY <1>4
<1>6. Key[o] \in rMuddled' \/ (There(o) /\ rCurrent'[o] = n /\ RL!Unlocked(o))
  BY <1>1, <1>2 DEF RL!Open, There
<1>7. \A f \in Editors : rReq'[f].op = "installed" =>
           \/ Key[o] \in rMuddled' /\ rReq'[f] = rReq[f]
           \/ rReq'[f].obj # o /\ rReq'[f] = rReq[f]
  BY <1>4, <1>6, IdleFields DEF RL!Unlocked
<1>8. KeysApart'
  BY <1>3, SameKeys
<1>9. /\ RL!Installed(o, n)
      /\ (rMuddled' = rMuddled \ {Key[o]} \/ rMuddled' = rMuddled \cup {Key[o]})
  BY <1>1
<1> HIDE DEF o, n
<1> QED BY <1>2, <1>3, <1>5, <1>6, <1>7, <1>8, <1>9, Mounts
\* An import or migration of the files that installs what it releases or chooses.
LEMMA ImportMounts ==
  ASSUME RL!CatalogueAssumption, RuntimeInv, HistoryInv', KeysApart',
         NEW o \in Objects, NEW n, UNCHANGED rReq,
         RL!Unlocked(o), RL!Installed(o, n), rStatus'[o] = "live",
         \/ rMuddled' = rMuddled \ {Key[o]} /\ rCurrent'[o] = n
         \/ rMuddled' = rMuddled \cup {Key[o]},
         \A p \in Objects : p # o /\ There(p) /\ rCurrent'[p] # 0 =>
           RL!Open(p) /\ rCurrent'[p] = rCurrent[p]
  PROVE  RuntimeInv'
<1>1. Key[o] \in rMuddled' \/ (There(o) /\ (rCurrent'[o] = n \/ Claimed(o)))
  BY DEF There
<1>2. \A p \in Objects : Key[p] # Key[o] /\ There(p) /\ rCurrent'[p] # 0 =>
        RL!Open(p) /\ rCurrent'[p] = rCurrent[p]
  OBVIOUS
<1>3. /\ \A e \in Editors : rReq[e].op \in {"installed", "selected"} /\ rReq[e].obj # o =>
           rReq'[e] = rReq[e]
      /\ \A e \in Editors : rReq'[e].op = "installed" => rReq'[e].obj # o /\ rReq'[e] = rReq[e]
  BY DEF RL!Unlocked
<1>4. rMuddled' = rMuddled \ {Key[o]} \/ rMuddled' = rMuddled \cup {Key[o]}
  OBVIOUS
<1>5. RL!Installed(o, n)
  OBVIOUS
<1> QED BY <1>1, <1>2, <1>3, <1>4, <1>5, Mounts

LEMMA ImportRuns ==
  ASSUME RL!CatalogueAssumption, RuntimeInv, HistoryInv',
         NEW root \in Objects, NEW dep \in Objects, NEW n,
         RL!Import(root, dep, n)
  PROVE  RuntimeInv'
<1> DEFINE r == RL!ImportedAs(dep, n)
           chosen == rCurrent[dep] = 0
           new == RL!ReleasedAs(dep, n) = {}
<1>1. /\ Type[dep] = RL!DependsOn(Type[root]) /\ RL!Importing(dep, n, {}) /\ RL!Importable(root)
      /\ rStatus' = [rStatus EXCEPT ![root] = "live", ![dep] = "live"]
      /\ rCurrent' = [rCurrent EXCEPT ![dep] = IF chosen THEN r ELSE @]
  BY DEF RL!Import
<1>2. UNCHANGED rReq
  BY DEF RL!Import
<1>3. Key[root] # Key[dep] /\ root # dep
  BY <1>1 DEF RL!CatalogueAssumption, RL!DependsOn
<1>4. /\ rStatus'[root] = "live" /\ rStatus'[dep] = "live"
      /\ \A p \in Objects \ {root, dep} : rStatus'[p] = rStatus[p]
      /\ rCurrent'[dep] = IF chosen THEN r ELSE rCurrent[dep]
      /\ \A p \in Objects : p # dep => rCurrent'[p] = rCurrent[p]
  BY <1>1, <1>3, Known DEF RuntimeInv
<1>5. KeysApart'
  <2>1. /\ RL!Open(root) \/ RL!KeyFree(root)
        /\ RL!Open(dep) \/ RL!KeyFree(dep)
    BY <1>1 DEF RL!Importing, RL!Importable
  <2>2. \A p \in Objects : There(p) => RL!Open(p) \/ RL!KeyFree(p)
    BY <1>4, <2>1 DEF RL!Open, There
  <2>3. \A p, q \in Objects : There(p) /\ There(q) /\ ~RL!Open(p) /\ ~RL!Open(q) /\ Key[p] = Key[q] =>
          p = q
    BY <1>3, <1>4 DEF RL!Open, There
  <2>4. KeysApart
    BY DEF RuntimeInv
  <2> QED BY <2>2, <2>3, <2>4, ApartStays
<1>6. \A p \in Objects : p # dep /\ There(p) /\ rCurrent'[p] # 0 =>
        RL!Open(p) /\ rCurrent'[p] = rCurrent[p]
  <2> SUFFICES ASSUME NEW p \in Objects, p # dep, rCurrent'[p] # 0
               PROVE  RL!Open(p) /\ rCurrent'[p] = rCurrent[p]
    OBVIOUS
  <2>1. rCurrent'[p] = rCurrent[p]
    BY <1>4
  <2>2. rCurrent[p] # 0
    BY <2>1
  <2> QED BY <2>1, <2>2, Closed DEF RuntimeInv
<1>7. CASE chosen \/ new
  <2>1. /\ RL!Installed(dep, r) /\ IF chosen THEN rMuddled' = rMuddled \ {Key[dep]}
                                ELSE rMuddled' = rMuddled \cup {Key[dep]}
    BY <1>7 DEF RL!Import, RL!Settled
  <2>2. RL!Unlocked(dep)
    BY <1>1, <1>7 DEF RL!Importing
  <2>3. \/ rMuddled' = rMuddled \ {Key[dep]} /\ rCurrent'[dep] = r
        \/ rMuddled' = rMuddled \cup {Key[dep]}
    BY <1>4, <2>1
  <2>4. RL!Installed(dep, r) /\ rStatus'[dep] = "live"
    BY <1>4, <2>1
  <2> HIDE DEF r
  <2> QED BY <1>2, <1>5, <1>6, <2>2, <2>3, <2>4, ImportMounts
<1>8. CASE ~(chosen \/ new)
  <2>1. UNCHANGED <<rRuntime, rMuddled>>
    BY <1>8 DEF RL!Import
  <2>2. RL!Open(dep) /\ rCurrent'[dep] = rCurrent[dep]
    BY <1>4, <1>8, Closed DEF RuntimeInv
  <2>3. \A p \in Objects : There(p) /\ rCurrent'[p] # 0 =>
          RL!Open(p) /\ rCurrent'[p] = rCurrent[p]
    BY <1>6, <2>2
  <2> QED BY <1>2, <1>5, <2>1, <2>3, QuietObjects
<1> QED BY <1>7, <1>8

LEMMA MigrateCatalogRuns ==
  ASSUME RL!CatalogueAssumption, RuntimeInv, HistoryInv',
         NEW o \in Objects, NEW n, NEW chosen \in BOOLEAN,
         RL!MigrateCatalog(o, n, chosen)
  PROVE  RuntimeInv'
<1> DEFINE r == RL!ImportedAs(o, n)
<1>1. RL!Importing(o, n, {}) /\ RL!Unlocked(o) /\ rStatus' = [rStatus EXCEPT ![o] = "live"]
  BY DEF RL!MigrateCatalog
<1>2. UNCHANGED rReq
  BY DEF RL!MigrateCatalog
<1>3. rStatus'[o] = "live" /\ \A p \in Objects : p # o => rStatus'[p] = rStatus[p]
  BY <1>1, Known DEF RuntimeInv
<1>4. KeysApart'
  <2>1. RL!Open(o) \/ RL!KeyFree(o)
    BY <1>1 DEF RL!Importing, RL!Importable
  <2>2. /\ \A p \in Objects : There(p) => RL!Open(p) \/ RL!KeyFree(p)
        /\ \A p, q \in Objects : There(p) /\ There(q) /\ ~RL!Open(p) /\ ~RL!Open(q) /\ Key[p] = Key[q] =>
             p = q
    BY <1>3, <2>1 DEF RL!Open, There
  <2>3. KeysApart
    BY DEF RuntimeInv
  <2> QED BY <2>2, <2>3, ApartStays
<1>5. CASE chosen
  <2>1. /\ RL!Installed(o, r) /\ rMuddled' = rMuddled \ {Key[o]}
        /\ rCurrent' = [rCurrent EXCEPT ![o] = r]
    BY <1>5 DEF RL!MigrateCatalog, RL!Settled
  <2> HIDE DEF r
  <2>2. rCurrent'[o] = r /\ \A p \in Objects : p # o => rCurrent'[p] = rCurrent[p]
    BY <2>1, Known DEF RuntimeInv
  <2>3. \A p \in Objects : p # o /\ There(p) /\ rCurrent'[p] # 0 =>
          RL!Open(p) /\ rCurrent'[p] = rCurrent[p]
    BY <1>3, <2>2 DEF RL!Open, There
  <2>4. \/ rMuddled' = rMuddled \ {Key[o]} /\ rCurrent'[o] = r
        \/ rMuddled' = rMuddled \cup {Key[o]}
    BY <2>1, <2>2
  <2>5. RL!Installed(o, r) /\ RL!Unlocked(o) /\ rStatus'[o] = "live"
    BY <1>1, <1>3, <2>1
  <2> QED BY <1>2, <1>4, <2>3, <2>4, <2>5, ImportMounts
<1>6. CASE ~chosen
  <2>1. UNCHANGED rCurrent
    BY <1>6 DEF RL!MigrateCatalog
  <2>2. UNCHANGED <<rRuntime, rMuddled>>
    BY <1>6 DEF RL!MigrateCatalog
  <2>3. \A p \in Objects : There(p) /\ rCurrent'[p] # 0 =>
          RL!Open(p) /\ rCurrent'[p] = rCurrent[p]
    BY <2>1, Closed DEF RuntimeInv
  <2> QED BY <1>2, <1>4, <2>2, <2>3, QuietObjects
<1> QED BY <1>5, <1>6

LEMMA BootstrapRuns ==
  ASSUME RL!CatalogueAssumption, RuntimeInv, HistoryInv', NEW o \in Objects, RL!Bootstrap(o)
  PROVE  RuntimeInv'
<1>1. /\ \A p \in Objects : ~RL!Open(p)
      /\ rStatus' = [rStatus EXCEPT ![o] = "live"] /\ rCurrent' = [rCurrent EXCEPT ![o] = 1]
      /\ RL!Installed(o, 1) /\ rMuddled' = rMuddled \ {Key[o]}
  BY DEF RL!Bootstrap, RL!Settled
<1>2. UNCHANGED rReq
  BY DEF RL!Bootstrap
<1>3. /\ rStatus'[o] = "live" /\ rCurrent'[o] = 1
      /\ \A p \in Objects : p # o => rStatus'[p] = rStatus[p]
  BY <1>1, Known DEF RuntimeInv
<1>4. \A p \in Objects : There(p) => p = o
  BY <1>1, <1>3 DEF RL!Open, There
<1>5. KeysApart'
  BY <1>4 DEF KeysApart, RL!Open, There
<1>6. RL!Unlocked(o)
  BY <1>1, Closed DEF RL!Unlocked, RuntimeInv
<1>7. \A p \in Objects : p # o /\ There(p) /\ rCurrent'[p] # 0 =>
        RL!Open(p) /\ rCurrent'[p] = rCurrent[p]
  BY <1>4
<1>8. \/ rMuddled' = rMuddled \ {Key[o]} /\ rCurrent'[o] = 1
      \/ rMuddled' = rMuddled \cup {Key[o]}
  BY <1>1, <1>3
<1>9. RL!Installed(o, 1) /\ rStatus'[o] = "live"
  BY <1>1, <1>3
<1> QED BY <1>2, <1>5, <1>6, <1>7, <1>8, <1>9, ImportMounts

LEMMA RestartRuns ==
  ASSUME RL!CatalogueAssumption, RuntimeInv, HistoryInv', RL!Restart
  PROVE  RuntimeInv'
<1> DEFINE owners(k) == {o \in Objects : /\ Key[o] = k /\ rStatus[o] = "live" /\ rCurrent[o] # 0
                                         /\ ~rRels[o][rCurrent[o]].archived}
           entry(k) == IF owners(k) = {} THEN Nothing
                       ELSE LET o == CHOOSE p \in owners(k) : TRUE IN <<o, rCurrent[o]>>
<1>1. /\ rReq' = [e \in Editors |-> RL!Idle] /\ UNCHANGED <<rStatus, rRevs, rRels, rCurrent>>
      /\ rRuntime' = [k \in RL!KeysInUse |-> entry(k)]
  BY DEF RL!Restart
<1>2. KeysApart'
  BY <1>1, SameKeys DEF RL!Open, There
<1>3. Mounted'
  BY <1>1, IdleFields DEF Mounted
<1>4. ASSUME NEW o \in Objects, There(o)
      PROVE  rRuntime'[Key[o]] \in {Nothing, <<o, rCurrent'[o]>>}
  <2>1. rRuntime'[Key[o]] = entry(Key[o])
    BY <1>1, Numbers
  <2>2. CASE owners(Key[o]) = {}
    BY <2>1, <2>2
  <2>3. CASE owners(Key[o]) # {}
    <3> DEFINE p == CHOOSE q \in owners(Key[o]) : TRUE
    <3>1. p \in owners(Key[o])
      BY <2>3
    <3>2. p \in Objects /\ Key[p] = Key[o] /\ rStatus[p] = "live"
      BY <3>1
    <3>3. entry(Key[o]) = <<p, rCurrent[p]>>
      BY <2>3
    <3> HIDE DEF p, entry
    <3>4. p = o
      BY <1>1, <1>4, <3>2 DEF RuntimeInv, KeysApart, RL!Open, There
    <3> QED BY <1>1, <2>1, <3>3, <3>4
  <2> QED BY <2>2, <2>3
<1>5. RL!RuntimeIsCurrent'
  BY <1>4 DEF RL!RuntimeIsCurrent, RL!Open, There
<1> QED BY <1>2, <1>3, <1>5 DEF RuntimeInv

LEMMA InitRuns == ASSUME RL!CatalogueAssumption, RL!Init PROVE RuntimeInv
<1>1. HistoryInv
  BY InitHistory
<1>2. /\ \A o \in Objects : ~RL!Open(o)
      /\ \A e \in Editors : rReq[e] = RL!Idle
  BY DEF RL!Init, RL!Open
<1> QED BY <1>1, <1>2, IdleFields DEF RuntimeInv, KeysApart, Mounted, RL!RuntimeIsCurrent

LEMMA NextRuns == ASSUME RL!CatalogueAssumption, RuntimeInv, [RL!Next]_RL!vars PROVE RuntimeInv'
<1>1. HistoryInv'
  BY NextHistory DEF RuntimeInv
<1>2. Edited \subseteq Objects
  BY DEF RL!CatalogueAssumption
<1>3. CASE RL!Catalogue
  BY <1>1, <1>2, <1>3, ObjectRuns, ImportRuns, MigrateCatalogRuns, BootstrapRuns DEF RL!Catalogue
<1>4. CASE \E old, new \in {r \in RL!Releases : RL!Exists(r)} : RL!MigrateReferences(old, new)
  BY <1>1, <1>4, MigrateReferencesRuns
<1>5. CASE \E e \in Editors : RL!Edit(e)
  BY <1>1, <1>5, StartRuns, CommitRuns, InstallRuns, PublishRuns, SelectRuns, SelectInstallRuns
     DEF RL!Edit
<1>6. CASE RL!Restart
  BY <1>1, <1>6, RestartRuns
<1>7. CASE UNCHANGED RL!vars
  <2>1. UNCHANGED <<rStatus, rCurrent, rReq>> /\ UNCHANGED <<rRuntime, rMuddled>>
    BY <1>7 DEF RL!vars
  <2>2. \A o \in Objects : There(o) => RL!Open(o)
    BY <2>1 DEF RL!Open, There
  <2>3. KeysApart'
    BY <2>2, SameKeys
  <2>4. \A p \in Objects : There(p) /\ rCurrent'[p] # 0 =>
          RL!Open(p) /\ rCurrent'[p] = rCurrent[p]
    BY <2>1, <2>2
  <2>5. UNCHANGED rReq
    BY <2>1
  <2>6. UNCHANGED <<rRuntime, rMuddled>>
    BY <2>1
  <2> QED BY <1>1, <2>3, <2>4, <2>5, <2>6, QuietObjects
<1> QED BY <1>3, <1>4, <1>5, <1>6, <1>7 DEF RL!Next

\* What runs under the key of an object that is there is its current release, or nothing,
\* unless a publication or selection of it is being installed, or one was overlapped or a
\* version was imported that was not selected: whatever the requests at the same time and
\* whenever the process restarts (_install_runtime_entry and its callers,
\* install_runtime_catalog).
THEOREM RuntimeTheorem == RL!Spec => []RuntimeIsCurrent
<1>1. RL!Init => RuntimeInv
  BY ReleasesAssumption, InitRuns
<1>2. RuntimeInv /\ [RL!Next]_RL!vars => RuntimeInv'
  BY ReleasesAssumption, NextRuns
<1>3. RuntimeInv => RuntimeIsCurrent
  BY DEF RuntimeInv, RuntimeIsCurrent
<1> QED BY <1>1, <1>2, <1>3, PTL DEF RL!Spec

-----------------------------------------------------------------------------
(* Tests of unpublished revisions.                                         *)

\* The shapes.
TestPlaces == {"idle", "register", "mount", "run", "restore", "abandon", "judge", "commit",
               "leave", "stored", "done"}
StoredTest == [open : BOOLEAN, transcript : SUBSET Turns, context : SUBSET Turns]
TestLocks == [owner : Turns \cup {Nobody}, held : Nat]

MountTyped ==
  /\ cRegistry \in [TestSkills -> Nat \cup Tests]
  /\ cInstalled \in [TestSkills -> Nat]
  /\ cLock \in TestLocks
  /\ cPc \in [Turns -> TestPlaces]
  /\ cPrevious = [t \in Turns |-> cPrevious[t]]
  /\ \A t \in Turns : /\ DOMAIN cPrevious[t] \subseteq TestSkills
                      /\ \A k \in DOMAIN cPrevious[t] : cPrevious[t][k] \in Nat

\* The lock is free or held by a turn.
LockShape ==
  /\ cLock.owner = Nobody => cLock = CT!Free
  /\ cLock.owner # Nobody => cLock.held # 0

\* Who has mounted, or is about to restore, has the lock.
InMount == {"run", "restore", "abandon"}
BeforeRun == {"idle", "register", "mount"}
MountHolds ==
  \A t \in Turns :
    /\ cPrevious[t] # <<>> => cLock.owner = t /\ (cPc[t] \in InMount \/ CT!LeftBehind(t))
    /\ cPc[t] \in {"restore", "abandon"} => cLock.owner = t
    /\ cPc[t] = "run" => IF cLock.owner = t THEN cPrevious[t] # <<>> ELSE ~CT!Nested(t)
    /\ cPc[t] \in BeforeRun => cLock.owner # t

\* An overlay is served by the turn that has the lock, over what it found.
OverlayHeld ==
  \A k \in TestSkills : cRegistry[k] \in Tests =>
    /\ CT!Occupied(k)
    /\ cRegistry[k] = TestOf[cLock.owner]

\* What was installed last is served, or kept by the turn that has the lock.
KeptInstalled ==
  \A k \in TestSkills \ cOvertaken :
    cInstalled[k] = IF CT!Occupied(k) THEN cPrevious[cLock.owner][k] ELSE cRegistry[k]

\* Without a Skill that is switched off nobody keeps the lock.
LockGivenBack ==
  TestSkills \subseteq Enabled /\ cLock.owner # Nobody
    => cLock.held = 1 /\ cPc[cLock.owner] \in InMount

MountInv ==
  MountTyped /\ LockShape /\ MountHolds /\ OverlayHeld /\ KeptInstalled /\ LockGivenBack

LEMMA MountStarts == ASSUME CT!CandidateAssumption, CT!Init PROVE MountInv
<1> USE DEF CT!Init
<1>1. MountTyped
  <2>1. cInstalled \in [TestSkills -> Nat]
    BY SMT
  <2> QED BY <2>1 DEF MountTyped, TestPlaces, TestLocks, CT!Free
<1>2. LockShape
  BY DEF LockShape, CT!Free
<1>3. MountHolds
  BY DEF MountHolds, CT!Free, CT!CandidateAssumption
<1>4. OverlayHeld
  BY DEF OverlayHeld, CT!CandidateAssumption
<1>5. KeptInstalled
  BY DEF KeptInstalled, CT!Occupied, CT!Free
<1>6. LockGivenBack
  BY DEF LockGivenBack, CT!Free
<1> QED BY <1>1, <1>2, <1>3, <1>4, <1>5, <1>6 DEF MountInv

\* A turn that neither mounts nor restores goes on.
LEMMA MountStays ==
  ASSUME MountInv, CT!RegistryStays, NEW t \in Turns, NEW p \in TestPlaces,
         cPc[t] \notin InMount \cup {"done"}, p \notin {"restore", "abandon"},
         p = "run" => ~CT!Nested(t), p \in BeforeRun \cup {"run"} => cPc[t] \in BeforeRun,
         CT!Goto(t, p)
  PROVE  MountInv'
<1> USE DEF CT!RegistryStays, CT!Goto
<1>1. MountTyped'
  BY DEF MountInv, MountTyped
<1>2. LockShape'
  BY DEF MountInv, LockShape, CT!Free
<1>3. \A u \in Turns : cPc[u] \in InMount \/ CT!LeftBehind(u) => u # t
  BY DEF InMount, CT!LeftBehind
<1>4. \A u \in Turns : u # t => cPc'[u] = cPc[u]
  BY DEF MountInv, MountTyped
<1>5. cPc'[t] = p
  BY DEF MountInv, MountTyped
<1>6. MountHolds'
  BY <1>3, <1>4, <1>5 DEF MountInv, MountHolds, InMount, BeforeRun, CT!LeftBehind, CT!Nested
<1>7. OverlayHeld'
  BY DEF MountInv, OverlayHeld, CT!Occupied
<1>8. KeptInstalled'
  BY DEF MountInv, KeptInstalled, CT!Occupied
<1>9. LockGivenBack'
  BY <1>3, <1>4 DEF MountInv, LockGivenBack, MountTyped, TestLocks
<1> QED BY <1>1, <1>2, <1>6, <1>7, <1>8, <1>9 DEF MountInv

LEMMA MountRests ==
  ASSUME MountInv, UNCHANGED <<cRegistry, cInstalled, cLock, cPc, cPrevious, cOvertaken>>
  PROVE  MountInv'
BY DEF MountInv, MountTyped, LockShape, MountHolds, OverlayHeld, KeptInstalled, LockGivenBack,
       CT!Free, CT!Occupied, CT!LeftBehind, CT!Nested

LEMMA MountInstall ==
  ASSUME CT!CandidateAssumption, MountInv, NEW k \in TestSkills, NEW v \in Nat, CT!Install(k, v)
  PROVE  MountInv'
<1> USE DEF CT!Install
<1>1. MountTyped'
  BY DEF MountInv, MountTyped
<1>2. LockShape'
  BY DEF MountInv, LockShape, CT!Free
<1>3. MountHolds'
  BY DEF MountInv, MountHolds, CT!LeftBehind, CT!Nested
<1>4. OverlayHeld'
  BY DEF MountInv, MountTyped, OverlayHeld, CT!Occupied, CT!CandidateAssumption
<1>5. KeptInstalled'
  BY DEF MountInv, MountTyped, KeptInstalled, CT!Occupied
<1>6. LockGivenBack'
  BY DEF MountInv, LockGivenBack
<1> QED BY <1>1, <1>2, <1>3, <1>4, <1>5, <1>6 DEF MountInv

\* Mounting takes a free lock over a registry of versions.
LEMMA MountOverlay ==
  ASSUME CT!CandidateAssumption, MountInv, NEW t \in Turns, NEW K \in SUBSET TestSkills,
         NEW p \in TestPlaces, cPc[t] = "mount",
         K # {}, CT!Overlay(t, K), CT!Goto(t, p), UNCHANGED <<cInstalled, cOvertaken>>,
         p \in InMount \/ (t \in Evaluations /\ CT!Nested(t) /\ p = "done")
  PROVE  MountInv'
<1> USE DEF CT!Overlay, CT!Goto
<1>1. \A k \in TestSkills : cRegistry[k] \in Nat /\ ~CT!Occupied(k)
  BY DEF MountInv, MountTyped, OverlayHeld, CT!Occupied, CT!Free
<1>2. /\ cLock'.owner = t /\ cLock'.held = 1 /\ t # Nobody
      /\ cPc'[t] = p /\ cPrevious'[t] = [k \in K |-> cRegistry[k]]
      /\ \A u \in Turns : u # t => cPc'[u] = cPc[u] /\ cPrevious'[u] = cPrevious[u]
  BY DEF MountInv, MountTyped, CT!CandidateAssumption
<1>3. \A k \in TestSkills : CT!Occupied(k)' <=> k \in K
  BY <1>2 DEF CT!Occupied
<1>4. MountTyped'
  <2>1. cRegistry' \in [TestSkills -> Nat \cup Tests]
    BY DEF MountInv, MountTyped, CT!CandidateAssumption
  <2>2. cLock' \in TestLocks
    BY DEF TestLocks
  <2>3. cPc' \in [Turns -> TestPlaces]
    BY DEF MountInv, MountTyped
  <2>4. cPrevious' = [u \in Turns |-> cPrevious'[u]]
    BY DEF MountInv, MountTyped
  <2>5. ASSUME NEW u \in Turns
        PROVE  /\ DOMAIN cPrevious'[u] \subseteq TestSkills
               /\ \A k \in DOMAIN cPrevious'[u] : cPrevious'[u][k] \in Nat
    <3>1. CASE u = t
      BY <1>1, <1>2, <3>1
    <3>2. CASE u # t
      BY <1>2, <3>2 DEF MountInv, MountTyped
    <3> QED BY <3>1, <3>2
  <2> QED BY <2>1, <2>2, <2>3, <2>4, <2>5 DEF MountInv, MountTyped
<1>5. LockShape'
  BY <1>2 DEF LockShape
<1>6. MountHolds'
  <2>1. \A u \in Turns : cLock.owner # u
    BY DEF CT!Free, CT!CandidateAssumption
  <2>2. ASSUME NEW u \in Turns, u # t
        PROVE  /\ cPrevious'[u] = <<>> /\ cPc'[u] \notin {"restore", "abandon"}
               /\ cPc'[u] = "run" => ~CT!Nested(u)
    BY <1>2, <2>1, <2>2 DEF MountInv, MountHolds
  <2>3. cPc'[t] \in InMount \/ CT!LeftBehind(t)'
    BY <1>2 DEF CT!LeftBehind, CT!Nested
  <2>4. cPrevious'[t] # <<>> /\ cPc'[t] \notin BeforeRun
    <3>1. DOMAIN cPrevious'[t] = K /\ DOMAIN <<>> = {}
      BY <1>2
    <3> QED BY <1>2, <3>1 DEF InMount, BeforeRun
  <2> QED BY <1>2, <2>2, <2>3, <2>4 DEF MountHolds, CT!Nested
<1>7. OverlayHeld'
  <2>1. ASSUME NEW k \in TestSkills, cRegistry'[k] \in Tests
        PROVE  k \in K
    BY <1>1, <2>1 DEF CT!CandidateAssumption
  <2>2. \A k \in K : cRegistry'[k] = TestOf[t]
    OBVIOUS
  <2> QED BY <1>2, <1>3, <2>1, <2>2 DEF OverlayHeld
<1>8. KeptInstalled'
  BY <1>1, <1>2, <1>3 DEF MountInv, KeptInstalled
<1>9. LockGivenBack'
  BY <1>2 DEF LockGivenBack, CT!Nested, CT!CandidateAssumption
<1> QED BY <1>4, <1>5, <1>6, <1>7, <1>8, <1>9 DEF MountInv

\* A run ends under the lock it has, which a nested mount takes once more.
LEMMA MountRan ==
  ASSUME CT!CandidateAssumption, MountInv, NEW t \in Turns, cPc[t] = "run", CT!Ran(t),
         NEW p \in TestPlaces, NEW q \in {"restore", "abandon"},
         p \notin InMount \cup BeforeRun, CT!Goto(t, IF cPrevious[t] = <<>> THEN p ELSE q),
         UNCHANGED <<cRegistry, cInstalled, cPrevious, cOvertaken>>
  PROVE  MountInv'
<1> USE DEF CT!Ran, CT!Goto, CT!Held
<1>1. cLock'.owner = cLock.owner /\ cLock' \in TestLocks
      /\ (cLock.owner # Nobody => cLock'.held # 0)
      /\ (~CT!Nested(t) => cLock' = cLock)
      /\ (cLock.owner = Nobody => cLock' = cLock)
  BY DEF MountInv, MountTyped, MountHolds, LockShape, TestLocks, CT!CandidateAssumption
<1>2. /\ cPc'[t] = (IF cPrevious[t] = <<>> THEN p ELSE q)
      /\ \A u \in Turns : u # t => cPc'[u] = cPc[u]
  BY DEF MountInv, MountTyped
<1>3. MountTyped'
  BY <1>1 DEF MountInv, MountTyped, TestPlaces
<1>4. LockShape'
  BY <1>1 DEF MountInv, LockShape, CT!Free
<1>5. MountHolds'
  BY <1>1, <1>2 DEF MountInv, MountHolds, InMount, BeforeRun, CT!LeftBehind, CT!Nested
<1>6. OverlayHeld'
  BY <1>1 DEF MountInv, OverlayHeld, CT!Occupied
<1>7. KeptInstalled'
  BY <1>1 DEF MountInv, KeptInstalled, CT!Occupied
<1>8. LockGivenBack'
  <2>1. ASSUME TestSkills \subseteq Enabled, cLock.owner # Nobody
        PROVE  cLock'.held = 1 /\ cPc'[cLock.owner] \in InMount
    <3>1. cLock.owner \in Turns /\ cLock.held = 1 /\ cPc[cLock.owner] \in InMount
      BY <2>1 DEF MountInv, MountTyped, TestLocks, LockGivenBack
    <3>2. ~CT!Nested(t)
      BY <2>1 DEF CT!Nested, CT!CandidateAssumption
    <3>3. cLock.owner = t => cPrevious[t] # <<>>
      BY DEF MountInv, MountHolds
    <3> QED BY <1>1, <1>2, <3>1, <3>2, <3>3 DEF InMount
  <2> QED BY <1>1, <2>1 DEF LockGivenBack
<1> QED BY <1>3, <1>4, <1>5, <1>6, <1>7, <1>8 DEF MountInv

\* What a restored turn leaves: the registry as the turn found it.
LEMMA MountRestored ==
  ASSUME CT!CandidateAssumption, MountInv, NEW t \in Turns, CT!Restore(t)
  PROVE  MountInv'
<1> USE DEF CT!Restore, CT!Goto, CT!Held
<1>1. cLock.owner = t /\ t # Nobody /\ cLock.held # 0 /\ cLock.held \in Nat
  BY DEF MountInv, MountTyped, TestLocks, MountHolds, LockShape, CT!CandidateAssumption
<1>2. /\ cLock' \in TestLocks
      /\ cLock' = CT!Free \/ (cLock'.owner = t /\ cLock'.held # 0 /\ cLock.held # 1)
  BY <1>1 DEF TestLocks, CT!Free
<1>3. /\ cPc'[t] \in {"judge", "done"} /\ cPrevious'[t] = <<>>
      /\ \A u \in Turns : u # t => cPc'[u] = cPc[u] /\ cPrevious'[u] = cPrevious[u]
  BY DEF MountInv, MountTyped
<1>4. \A u \in Turns : cPrevious'[u] = <<>>
  <2>1. \A u \in Turns : u # t => cPrevious[u] = <<>>
    BY <1>1 DEF MountInv, MountHolds
  <2> QED BY <1>3, <2>1
<1>5. \A k \in TestSkills : ~CT!Occupied(k)'
  <2>1. cLock'.owner # Nobody => cLock'.owner = t
    BY <1>2 DEF CT!Free
  <2>2. DOMAIN cPrevious'[t] = {}
    BY <1>4
  <2> QED BY <2>1, <2>2 DEF CT!Occupied
<1>6. \A k \in TestSkills : CT!Occupied(k) <=> k \in DOMAIN cPrevious[t]
  BY <1>1 DEF CT!Occupied
<1>7. \A k \in TestSkills :
        /\ cRegistry'[k] = IF CT!Occupied(k) THEN cPrevious[t][k] ELSE cRegistry[k]
        /\ cRegistry'[k] \in Nat
  BY <1>6 DEF MountInv, MountTyped, OverlayHeld
<1>8. MountTyped'
  <2>1. cRegistry' \in [TestSkills -> Nat \cup Tests]
    BY <1>7
  <2>2. cPc' \in [Turns -> TestPlaces]
    BY DEF MountInv, MountTyped, TestPlaces
  <2>3. cPrevious' = [u \in Turns |-> cPrevious'[u]]
    BY DEF MountInv, MountTyped
  <2>4. \A u \in Turns : DOMAIN cPrevious'[u] = {}
    BY <1>4
  <2> QED BY <1>2, <2>1, <2>2, <2>3, <2>4 DEF MountInv, MountTyped
<1>9. LockShape'
  BY <1>1, <1>2 DEF LockShape, CT!Free
<1>10. MountHolds'
  <2>1. \A u \in Turns : u # t => cLock'.owner # u
    BY <1>1, <1>2 DEF CT!Free, CT!CandidateAssumption
  <2>2. \A u \in Turns : u # t =>
          /\ cPc[u] \notin {"restore", "abandon"}
          /\ cPc[u] = "run" => ~CT!Nested(u)
    BY <1>1 DEF MountInv, MountHolds
  <2> HIDE DEF CT!Restore, CT!Goto, CT!Held
  <2>3. ASSUME NEW u \in Turns
        PROVE  /\ cPc'[u] \notin {"restore", "abandon"}
               /\ cPc'[u] = "run" => cLock'.owner # u /\ ~CT!Nested(u)
               /\ cPc'[u] \in BeforeRun => cLock'.owner # u
    <3>1. CASE u = t
      BY <1>3, <3>1 DEF BeforeRun
    <3>2. CASE u # t
      BY <1>3, <2>1, <2>2, <3>2
    <3> QED BY <3>1, <3>2
  <2> QED BY <1>4, <2>3 DEF MountHolds, CT!Nested
<1>11. OverlayHeld'
  BY <1>7 DEF OverlayHeld, CT!CandidateAssumption
<1>12. KeptInstalled'
  BY <1>1, <1>5, <1>7 DEF MountInv, KeptInstalled
<1>13. LockGivenBack'
  BY <1>1, <1>2 DEF MountInv, LockGivenBack, CT!Free
<1> QED BY <1>8, <1>9, <1>10, <1>11, <1>12, <1>13 DEF MountInv

\* A turn goes on without the registry: it has none, or cannot get it.
LEMMA MountQuiet ==
  ASSUME CT!CandidateAssumption, MountInv, NEW t \in Turns,
         \/ CT!Begin(t) \/ CT!Reject(t) \/ CT!Register(t) \/ CT!MountFails(t)
         \/ CT!Judge(t) \/ CT!Commit(t) \/ CT!Leave(t) \/ CT!Evaluate(t)
  PROVE  MountInv'
<1> USE DEF InMount, BeforeRun, TestPlaces
<1>1. CASE CT!Begin(t)
  <2>1. PICK p \in {"register", "mount"} : CT!Goto(t, p)
    BY <1>1 DEF CT!Begin
  <2> QED BY <1>1, <2>1, MountStays DEF CT!Begin
<1>2. CASE CT!Reject(t)
  BY <1>2, MountStays DEF CT!Reject
<1>3. CASE CT!Register(t)
  BY <1>3, MountStays DEF CT!Register
<1>4. CASE CT!MountFails(t)
  BY <1>4, MountStays DEF CT!MountFails
<1>5. CASE CT!Judge(t)
  <2>1. PICK p \in {"done", "commit"} : CT!Goto(t, p)
    BY <1>5 DEF CT!Judge
  <2> QED BY <1>5, <2>1, MountStays DEF CT!Judge
<1>6. CASE CT!Commit(t)
  BY <1>6, MountStays DEF CT!Commit
<1>7. CASE CT!Leave(t)
  BY <1>7, MountStays DEF CT!Leave
<1>8. CASE CT!Evaluate(t)
  <2>1. PICK p \in {"run", "mount"} : CT!Goto(t, p) /\ (p = "run" => ~CT!Nested(t))
    BY <1>8 DEF CT!Evaluate, CT!Nested
  <2> QED BY <1>8, <2>1, MountStays DEF CT!Evaluate
<1> QED BY <1>1, <1>2, <1>3, <1>4, <1>5, <1>6, <1>7, <1>8

\* A turn that mounts, runs and restores.
LEMMA MountWorks ==
  ASSUME CT!CandidateAssumption, MountInv, NEW t \in Turns,
         \/ CT!Mount(t) \/ CT!EvaluationMount(t) \/ CT!Succeed(t) \/ CT!Fail(t) \/ CT!Restore(t)
  PROVE  MountInv'
<1> USE DEF InMount, BeforeRun, TestPlaces
<1>1. CASE CT!Mount(t) /\ CT!Mounts(t) = {}
  <2>1. ~CT!Nested(t)
    BY <1>1 DEF CT!Mounts, CT!Nested, CT!CandidateAssumption
  <2>2. CT!RegistryStays /\ CT!Goto(t, "run") /\ cPc[t] = "mount"
    BY <1>1 DEF CT!Mount, CT!RegistryStays
  <2> QED BY <2>1, <2>2, MountStays
<1>2. CASE CT!Mount(t) /\ CT!Mounts(t) # {}
  <2>1. CT!Mounts(t) \in SUBSET TestSkills
    BY DEF CT!Mounts, CT!CandidateAssumption
  <2> QED BY <1>2, <2>1, MountOverlay DEF CT!Mount
<1>3. CASE CT!EvaluationMount(t)
  <2>1. {TestRoot[TestOf[t]]} \in SUBSET TestSkills
    BY <1>3 DEF CT!EvaluationMount, CT!CandidateAssumption
  <2>2. PICK p \in {"done", "restore"} : CT!Goto(t, p) /\ (p = "done" => CT!Nested(t))
    BY <1>3 DEF CT!EvaluationMount
  <2> QED BY <1>3, <2>1, <2>2, MountOverlay DEF CT!EvaluationMount
<1>4. CASE CT!Succeed(t)
  BY <1>4, MountRan DEF CT!Succeed
<1>5. CASE CT!Fail(t)
  BY <1>5, MountRan DEF CT!Fail
<1>6. CASE CT!Restore(t)
  BY <1>6, MountRestored
<1> QED BY <1>1, <1>2, <1>3, <1>4, <1>5, <1>6

LEMMA MountNext == ASSUME CT!CandidateAssumption, MountInv, [CT!Next]_(CT!vars) PROVE MountInv'
<1>1. CASE \E t \in Turns : CT!Begin(t) \/ CT!Reject(t) \/ CT!Step(t) \/ CT!Evaluate(t)
  BY <1>1, MountQuiet, MountWorks DEF CT!Step
<1>2. CASE \/ \E t \in Turns : CT!Stop(t)
           \/ \E s \in Tests : CT!Close(s)
           \/ UNCHANGED CT!vars
  <2>1. UNCHANGED <<cRegistry, cInstalled, cLock, cPc, cPrevious, cOvertaken>>
    BY <1>2 DEF CT!Stop, CT!Close, CT!RegistryStays, CT!vars
  <2> QED BY <2>1, MountRests
<1>3. CASE \E k \in TestSkills : CT!Publish(k) \/ CT!Delete(k)
  <2>1. PICK k \in TestSkills, v \in Nat : CT!Install(k, v)
    BY <1>3 DEF CT!Publish, CT!Delete, MountInv, MountTyped
  <2> QED BY <2>1, MountInstall
<1> QED BY <1>1, <1>2, <1>3 DEF CT!Next

\* Whatever the Skills, tests and turns, and whichever of them fail, are stopped, or meet a
\* publication: the registry serves an overlay only to the test that has mounted it, and
\* what was installed last when nobody has; unless a Skill is switched off, failed turns and
\* failed mounts give the lock back too (_mount_candidate_snapshot_skills,
\* _restore_candidate_snapshot_skills, _execute_candidate_skill).
THEOREM OverlaysTheorem == CT!Spec => []OverlaysComeAndGo
<1>1. CT!Init => MountInv
  BY WorkbenchAssumption, MountStarts
<1>2. MountInv /\ [CT!Next]_(CT!vars) => MountInv'
  BY WorkbenchAssumption, MountNext
<1>3. MountInv => OverlaysComeAndGo
  <2> SUFFICES ASSUME MountInv PROVE OverlaysComeAndGo
    OBVIOUS
  <2>1. \A k \in TestSkills : CT!Occupied(k) =>
          cLock.owner \in Turns /\ cPrevious[cLock.owner] # <<>>
    BY DEF MountInv, MountTyped, TestLocks, CT!Occupied
  <2>2. CT!OverlayOfTheOwner
    BY <2>1 DEF MountInv, OverlayHeld, MountHolds, InMount, CT!OverlayOfTheOwner, CT!Occupied
  <2>3. CT!InstalledIsServed
    BY DEF MountInv, KeptInstalled, CT!InstalledIsServed, CT!Occupied
  <2>4. ASSUME TestSkills \subseteq Enabled PROVE CT!MountedForTheCall
    BY <2>4, WorkbenchAssumption
       DEF MountInv, MountTyped, LockGivenBack, InMount, CT!MountedForTheCall,
           CT!CandidateAssumption
  <2> QED BY <2>2, <2>3, <2>4 DEF OverlaysComeAndGo
<1> QED BY <1>1, <1>2, <1>3, PTL DEF CT!Spec

-----------------------------------------------------------------------------
(* What a test has stored of the turns that met no other one.              *)

StoreTyped ==
  /\ cRow \in [Tests -> StoredTest]
  /\ cSeen \in [Turns -> StoredTest]
  /\ cPc \in [Turns -> TestPlaces]

\* Turns of a test (those of an evaluation store nothing) that can still write its row.
UnderWay(t) == t \notin Evaluations /\ cPc[t] \notin {"idle", "done", "stored"}
Together(t, u) == t # u /\ TestOf[t] = TestOf[u]
InTest(t, r) == t \in r.transcript \cap r.context

\* Turns that are under way together have met; one that is stored, and met none, is in the row
\* and in what later turns have read; evaluations do not store.
MetTogether ==
  \A t, u \in Turns : Together(t, u) /\ UnderWay(t) /\ UnderWay(u) => t \in cMet
StoredStay ==
  \A t \in Turns \ cMet : cPc[t] \in {"leave", "stored"} =>
    /\ InTest(t, cRow[TestOf[t]])
    /\ \A u \in Turns : Together(t, u) /\ UnderWay(u) => InTest(t, cSeen[u])
StoringTurns ==
  \A t \in Turns : cPc[t] \in {"register", "commit", "leave", "stored"} => t \notin Evaluations

StoreInv == StoreTyped /\ MetTogether /\ StoredStay /\ StoringTurns

LEMMA StoreStarts == ASSUME CT!CandidateAssumption, CT!Init PROVE StoreInv
BY DEF CT!Init, CT!Blank, StoreInv, StoreTyped, StoredTest, TestPlaces, MetTogether, StoredStay,
       StoringTurns, UnderWay

\* A turn that is under way goes on without writing.
LEMMA StoreStays ==
  ASSUME StoreInv, CT!StoreStays, NEW t \in Turns, NEW p \in TestPlaces, CT!Goto(t, p),
         t \in Evaluations \/ cPc[t] \notin {"idle", "done", "stored"},
         p \notin {"idle", "register", "commit", "leave", "stored"} \/ t \notin Evaluations,
         p = "leave" => FALSE,
         p = "stored" => cPc[t] = "leave"
  PROVE  StoreInv'
<1> USE DEF CT!StoreStays, CT!Goto
<1>1. StoreTyped'
  BY DEF StoreInv, StoreTyped
<1>2. /\ cPc'[t] = p
      /\ \A u \in Turns : u # t => cPc'[u] = cPc[u]
      /\ \A u \in Turns : UnderWay(u)' => UnderWay(u)
  BY DEF StoreInv, StoreTyped, UnderWay
<1>3. MetTogether'
  BY <1>2 DEF StoreInv, MetTogether, Together
<1>4. StoredStay'
  <2>1. \A u \in Turns : cPc'[u] \in {"leave", "stored"} => cPc[u] \in {"leave", "stored"}
    BY <1>2
  <2> QED BY <1>2, <2>1 DEF StoreInv, StoredStay, Together, InTest
<1>5. StoringTurns'
  BY <1>2 DEF StoreInv, StoringTurns
<1> QED BY <1>1, <1>3, <1>4, <1>5 DEF StoreInv

\* Stops, ends and installations leave what the turns of a test have stored.
LEMMA StoreRests ==
  ASSUME StoreInv, UNCHANGED <<cPc, cSeen, cMet>>, cRow' \in [Tests -> StoredTest],
         \A s \in Tests : /\ cRow'[s].transcript = cRow[s].transcript
                          /\ cRow'[s].context = cRow[s].context
  PROVE  StoreInv'
<1>1. StoreTyped'
  BY DEF StoreInv, StoreTyped
<1>2. MetTogether' /\ StoringTurns'
  BY DEF StoreInv, MetTogether, StoringTurns, UnderWay, Together
<1>3. StoredStay'
  BY WorkbenchAssumption
     DEF StoreInv, StoredStay, UnderWay, Together, InTest, CT!CandidateAssumption
<1> QED BY <1>1, <1>2, <1>3 DEF StoreInv

\* A turn reads the row and meets the turns of the test that are under way.
LEMMA StoreBegin ==
  ASSUME CT!CandidateAssumption, StoreInv, NEW t \in Turns, CT!Begin(t)
  PROVE  StoreInv'
<1> USE DEF CT!Begin
<1>1. PICK p \in {"register", "mount"} : CT!Goto(t, p)
  OBVIOUS
<1>2. /\ cPc'[t] = p /\ cSeen'[t] = cRow[TestOf[t]]
      /\ \A u \in Turns : u # t => cPc'[u] = cPc[u] /\ cSeen'[u] = cSeen[u]
      /\ cRow' = cRow
  BY <1>1 DEF StoreInv, StoreTyped, CT!Goto
<1>3. StoreTyped'
  BY <1>1 DEF StoreInv, StoreTyped, CT!Goto, TestPlaces, CT!CandidateAssumption
<1>4. /\ cMet \subseteq cMet'
      /\ \A u \in Turns : Together(t, u) /\ UnderWay(u) => u \in cMet' /\ t \in cMet'
  BY DEF CT!Underway, UnderWay, Together
<1>5. MetTogether'
  BY <1>2, <1>4 DEF StoreInv, MetTogether, Together, UnderWay
<1>6. StoredStay'
  <2> SUFFICES ASSUME NEW v \in Turns \ cMet', cPc'[v] \in {"leave", "stored"}
               PROVE  /\ InTest(v, cRow'[TestOf[v]])
                      /\ \A u \in Turns : Together(v, u) /\ UnderWay(u)' => InTest(v, cSeen'[u])
    BY DEF StoredStay, Together, InTest
  <2>1. v # t /\ cPc[v] \in {"leave", "stored"} /\ v \notin cMet
    BY <1>2, <1>4
  <2>2. InTest(v, cRow[TestOf[v]])
    BY <2>1 DEF StoreInv, StoredStay
  <2>3. ASSUME NEW u \in Turns, Together(v, u), UnderWay(u)', u # t PROVE InTest(v, cSeen'[u])
    BY <1>2, <2>1, <2>3 DEF StoreInv, StoredStay, UnderWay
  <2>4. Together(v, t) => InTest(v, cSeen'[t])
    BY <1>2, <2>2 DEF Together
  <2> QED BY <1>2, <2>2, <2>3, <2>4
<1>7. StoringTurns'
  BY <1>2 DEF StoreInv, StoringTurns
<1> QED BY <1>3, <1>5, <1>6, <1>7 DEF StoreInv

\* A turn writes the context, or the transcript with it, from what it has read.
LEMMA StoreWrite ==
  ASSUME CT!CandidateAssumption, StoreInv, NEW t \in Turns, t \notin Evaluations,
         NEW p \in {"done", "abandon", "leave"}, CT!Goto(t, p), UNCHANGED <<cSeen, cMet>>,
         cPc[t] \in {"run", "commit"},
         NEW row \in StoredTest, cRow' = [cRow EXCEPT ![TestOf[t]] = row],
         row.context = cSeen[t].context \cup {t},
         \/ row.transcript = cSeen[t].transcript \cup {t}
         \/ row.transcript = cRow[TestOf[t]].transcript /\ p # "leave"
  PROVE  StoreInv'
<1> USE DEF CT!Goto
<1>1. /\ cPc'[t] = p
      /\ \A u \in Turns : u # t => cPc'[u] = cPc[u]
      /\ \A u \in Turns : UnderWay(u)' => UnderWay(u)
      /\ UnderWay(t)
  BY DEF StoreInv, StoreTyped, UnderWay
<1>2. TestOf \in [Turns -> Tests]
  BY DEF CT!CandidateAssumption
<1>3. StoreTyped'
  BY <1>2 DEF StoreInv, StoreTyped, TestPlaces
<1>4. MetTogether'
  BY <1>1 DEF StoreInv, MetTogether, Together
<1>5. StoredStay'
  <2> SUFFICES ASSUME NEW v \in Turns \ cMet, cPc'[v] \in {"leave", "stored"}
               PROVE  /\ InTest(v, cRow'[TestOf[v]])
                      /\ \A u \in Turns : Together(v, u) /\ UnderWay(u)' => InTest(v, cSeen[u])
    BY DEF StoredStay, Together, InTest
  <2>1. CASE v = t
    <3>1. p = "leave"
      BY <1>1, <2>1
    <3>2. cRow'[TestOf[t]] = row
      BY <1>2 DEF StoreInv, StoreTyped
    <3>3. InTest(t, row)
      BY <3>1 DEF InTest
    <3>4. \A u \in Turns : ~(Together(t, u) /\ UnderWay(u)')
      BY <1>1, <2>1 DEF StoreInv, MetTogether
    <3> QED BY <2>1, <3>2, <3>3, <3>4
  <2>2. CASE v # t
    <3>1. cPc[v] \in {"leave", "stored"}
      BY <1>1, <2>2
    <3>2. /\ InTest(v, cRow[TestOf[v]])
          /\ \A u \in Turns : Together(v, u) /\ UnderWay(u) => InTest(v, cSeen[u])
      BY <3>1 DEF StoreInv, StoredStay
    <3>3. TestOf[v] = TestOf[t] => InTest(v, row)
      BY <1>1, <2>2, <3>2 DEF Together, InTest
    <3>4. InTest(v, cRow'[TestOf[v]])
      BY <1>2, <3>2, <3>3 DEF StoreInv, StoreTyped
    <3> QED BY <1>1, <3>2, <3>4
  <2> QED BY <2>1, <2>2
<1>6. StoringTurns'
  BY <1>1 DEF StoreInv, StoringTurns
<1> QED BY <1>3, <1>4, <1>5, <1>6 DEF StoreInv

LEMMA StoreQuiet ==
  ASSUME CT!CandidateAssumption, StoreInv, NEW t \in Turns,
         \/ CT!Reject(t) \/ CT!Register(t) \/ CT!Mount(t) \/ CT!MountFails(t) \/ CT!Succeed(t)
         \/ CT!Restore(t) \/ CT!Judge(t) \/ CT!Leave(t) \/ CT!Evaluate(t) \/ CT!EvaluationMount(t)
  PROVE  StoreInv'
<1>1. PICK p \in {"mount", "run", "restore", "judge", "commit", "stored", "done"} :
        /\ CT!StoreStays /\ CT!Goto(t, p)
        /\ t \in Evaluations \/ cPc[t] \notin {"idle", "done", "stored"}
        /\ p \in {"commit", "stored"} => t \notin Evaluations
        /\ p = "stored" => cPc[t] = "leave"
  BY DEF CT!Reject, CT!Register, CT!Mount, CT!MountFails, CT!Succeed, CT!Restore, CT!Judge,
         CT!Leave, CT!Evaluate, CT!EvaluationMount, StoreInv, StoringTurns
<1> QED BY <1>1, StoreStays DEF TestPlaces

LEMMA StoreWrites ==
  ASSUME CT!CandidateAssumption, StoreInv, NEW t \in Turns, CT!Fail(t) \/ CT!Commit(t)
  PROVE  StoreInv'
<1>1. TestOf[t] \in Tests /\ cRow[TestOf[t]] \in StoredTest /\ cSeen[t] \in StoredTest
  BY DEF StoreInv, StoreTyped, CT!CandidateAssumption
<1>2. CASE CT!Fail(t)
  <2> DEFINE row == [cRow[TestOf[t]] EXCEPT !.context = cSeen[t].context \cup {t}]
  <2>1. /\ row \in StoredTest
        /\ row.transcript = cRow[TestOf[t]].transcript /\ row.context = cSeen[t].context \cup {t}
    BY <1>1 DEF StoredTest
  <2>2. cRow' = [cRow EXCEPT ![TestOf[t]] = row]
    BY <1>2 DEF CT!Fail
  <2>3. PICK p \in {"done", "abandon"} : CT!Goto(t, p)
    BY <1>2 DEF CT!Fail
  <2> HIDE DEF row
  <2> QED BY <1>2, <2>1, <2>2, <2>3, StoreWrite DEF CT!Fail
<1>3. CASE CT!Commit(t)
  <2> DEFINE row == [cRow[TestOf[t]] EXCEPT !.transcript = cSeen[t].transcript \cup {t},
                                            !.context = cSeen[t].context \cup {t}]
  <2>1. /\ row \in StoredTest
        /\ row.transcript = cSeen[t].transcript \cup {t}
        /\ row.context = cSeen[t].context \cup {t}
    BY <1>1 DEF StoredTest
  <2>2. cRow' = [cRow EXCEPT ![TestOf[t]] = row]
    BY <1>3 DEF CT!Commit
  <2>3. t \notin Evaluations
    BY <1>3 DEF CT!Commit, StoreInv, StoringTurns
  <2> HIDE DEF row
  <2> QED BY <1>3, <2>1, <2>2, <2>3, StoreWrite DEF CT!Commit
<1> QED BY <1>2, <1>3

LEMMA StoreNext == ASSUME CT!CandidateAssumption, StoreInv, [CT!Next]_(CT!vars) PROVE StoreInv'
<1>1. CASE \E t \in Turns : CT!Begin(t) \/ CT!Reject(t) \/ CT!Step(t) \/ CT!Evaluate(t)
  BY <1>1, StoreBegin, StoreQuiet, StoreWrites DEF CT!Step
<1>2. CASE \/ \E t \in Turns : CT!Stop(t)
           \/ \E k \in TestSkills : CT!Publish(k) \/ CT!Delete(k)
           \/ UNCHANGED CT!vars
  <2>1. UNCHANGED <<cPc, cSeen, cMet, cRow>>
    BY <1>2 DEF CT!Stop, CT!Publish, CT!Delete, CT!Install, CT!StoreStays, CT!vars
  <2>2. cRow' \in [Tests -> StoredTest]
    BY <2>1 DEF StoreInv, StoreTyped
  <2> QED BY <2>1, <2>2, StoreRests
<1>3. CASE \E s \in Tests : CT!Close(s)
  <2>1. PICK s \in Tests : CT!Close(s)
    BY <1>3
  <2> DEFINE row == [cRow[s] EXCEPT !.open = FALSE]
  <2>2. row \in StoredTest /\ row.transcript = cRow[s].transcript /\ row.context = cRow[s].context
    <3>1. cRow[s] \in [open : BOOLEAN, transcript : SUBSET Turns, context : SUBSET Turns]
      BY DEF StoreInv, StoreTyped, StoredTest
    <3> QED BY <3>1 DEF StoredTest
  <2>3. cRow' = [cRow EXCEPT ![s] = row] /\ UNCHANGED <<cPc, cSeen, cMet>>
    BY <2>1 DEF CT!Close
  <2> HIDE DEF row
  <2>4. cRow' \in [Tests -> StoredTest]
    BY <2>2, <2>3 DEF StoreInv, StoreTyped
  <2>5. ASSUME NEW r \in Tests
        PROVE  cRow'[r].transcript = cRow[r].transcript /\ cRow'[r].context = cRow[r].context
    BY <2>2, <2>3 DEF StoreInv, StoreTyped
  <2> QED BY <2>3, <2>4, <2>5, StoreRests
<1> QED BY <1>1, <1>2, <1>3 DEF CT!Next

\* A turn of a test that met no other turn of it stays in transcript and context.
LEMMA StoreTheorem == CT!Spec => []CT!LoneTurnsKept
<1>1. CT!Init => StoreInv
  BY WorkbenchAssumption, StoreStarts
<1>2. StoreInv /\ [CT!Next]_(CT!vars) => StoreInv'
  BY WorkbenchAssumption, StoreNext
<1>3. StoreInv => CT!LoneTurnsKept
  BY DEF StoreInv, StoredStay, InTest, CT!LoneTurnsKept
<1> QED BY <1>1, <1>2, <1>3, PTL DEF CT!Spec

-----------------------------------------------------------------------------
(* What a test of a team stores.                                           *)

TeamReply == [by : Members, to : SUBSET Members, confirmed : Nat,
              card : {Nobody, "active", "expired", "selected"},
              form : {Nobody, "active", "expired", "submitted"}]
TeamContext == [expert : Members \cup {Nobody}, said : Seq(Nat), replies : Seq(TeamReply),
                visible : Nat]

\* Forms belong to the expert, cards that lead on have not been confirmed.
FormsFit(c) == \A i \in DOMAIN c.replies :
  c.expert \in Members /\ (c.replies[i].form = "active" => c.replies[i].by = c.expert)
CardsFit(c) == \A i \in DOMAIN c.replies :
  c.replies[i].confirmed <= IF c.replies[i].card = "active" THEN 0 ELSE 1

\* The words are those of turns before n, in their order; words to be shown are later ones.
WordsBefore(c, n) ==
  /\ \A i \in DOMAIN c.said : c.said[i] < n /\ (c.visible # 0 => c.said[i] < c.visible)
  /\ \A i, j \in DOMAIN c.said : i < j => c.said[i] < c.said[j]
  /\ c.visible <= n

TeamSound(c, n) == c \in TeamContext /\ FormsFit(c) /\ CardsFit(c) /\ WordsBefore(c, n)

\* The words of a turn become part of what is said while it is answered.
TeamInv ==
  /\ mTurn \in Nat
  /\ TeamSound(mRow, mTurn + 1)
  /\ mPc \in {"idle", "run", "reply"}
  /\ mPc = "run" => TeamSound(mCtx, mTurn) /\ mCtx.expert \in Members
  /\ mPc = "reply" => TeamSound(mCtx, mTurn + 1) /\ mCtx.expert \in Members

LEMMA TeamShape ==
  ASSUME NEW c \in TeamContext
  PROVE  /\ c \in [expert : Members \cup {Nobody}, said : Seq(Nat), replies : Seq(TeamReply),
                   visible : Nat]
         /\ c.expert \in Members \cup {Nobody} /\ c.said \in Seq(Nat) /\ c.visible \in Nat
         /\ c.replies \in [1 .. Len(c.replies) -> TeamReply] /\ Len(c.replies) \in Nat
BY DEF TeamContext

LEMMA SeqMade ==
  ASSUME NEW S, NEW n \in Nat, NEW f \in [1 .. n -> S]
  PROVE  f \in Seq(S) /\ DOMAIN f = 1 .. n
OBVIOUS

\* Other replies, as many.
LEMMA RepliesChanged ==
  ASSUME NEW c \in TeamContext, NEW r \in [DOMAIN c.replies -> TeamReply]
  PROVE  LET d == [c EXCEPT !.replies = r] IN
         /\ d \in TeamContext
         /\ d.expert = c.expert /\ d.said = c.said /\ d.visible = c.visible /\ d.replies = r
<1>1. r \in Seq(TeamReply)
  BY TeamShape, SeqMade
<1>2. c \in [expert : Members \cup {Nobody}, said : Seq(Nat), replies : Seq(TeamReply),
              visible : Nat]
  BY TeamShape
<1> QED BY <1>1, <1>2 DEF TeamContext

\* Another expert, and other words to be shown.
LEMMA ExpertChanged ==
  ASSUME NEW c \in TeamContext, NEW e \in Members, mTurn \in Nat
  PROVE  LET d == CM!TakenOver(c, e) IN
         /\ d \in TeamContext
         /\ d.expert = e /\ d.said = c.said /\ d.visible = mTurn + 1 /\ d.replies = c.replies
<1> DEFINE w == mTurn + 1
           d == [c EXCEPT !.expert = e, !.visible = w]
<1>1. c \in [expert : Members \cup {Nobody}, said : Seq(Nat), replies : Seq(TeamReply),
              visible : Nat]
  BY TeamShape
<1>2. w \in Nat
  OBVIOUS
<1>3. CM!TakenOver(c, e) = d
  BY DEF CM!TakenOver
<1> HIDE DEF w
<1>4. /\ d \in TeamContext
      /\ d.expert = e /\ d.said = c.said /\ d.visible = w /\ d.replies = c.replies
  BY <1>1, <1>2 DEF TeamContext
<1> HIDE DEF d
<1> QED BY <1>3, <1>4 DEF w

LEMMA ExpertFound ==
  ASSUME NEW c \in TeamContext, NEW e \in Members
  PROVE  LET d == [c EXCEPT !.expert = e] IN
         /\ d \in TeamContext
         /\ d.expert = e /\ d.said = c.said /\ d.visible = c.visible /\ d.replies = c.replies
<1>1. c \in [expert : Members \cup {Nobody}, said : Seq(Nat), replies : Seq(TeamReply),
              visible : Nat]
  BY TeamShape
<1> QED BY <1>1 DEF TeamContext

\* A reply whose form, card or both are left, or that is answered.
LEMMA ReplyChanged ==
  ASSUME NEW r \in TeamReply
  PROVE  /\ LET q == CM!FormLeft(r) IN
            /\ q \in TeamReply /\ q.form # "active"
            /\ q.by = r.by /\ q.card = r.card /\ q.confirmed = r.confirmed
         /\ LET q == CM!CardLeft(r) IN
            /\ q \in TeamReply /\ q.card # "active"
            /\ q.by = r.by /\ q.form = r.form /\ q.confirmed = r.confirmed
         /\ LET q == CM!Confirmed(r) IN
            /\ q \in TeamReply /\ q.card = "selected"
            /\ q.by = r.by /\ q.form = r.form /\ q.confirmed = r.confirmed + 1
         /\ LET q == [r EXCEPT !.form = "submitted"] IN
            /\ q \in TeamReply /\ q.form = "submitted"
            /\ q.by = r.by /\ q.card = r.card /\ q.confirmed = r.confirmed
<1>1. r \in [by : Members, to : SUBSET Members, confirmed : Nat,
             card : {Nobody, "active", "expired", "selected"},
             form : {Nobody, "active", "expired", "submitted"}]
  BY DEF TeamReply
<1>2. LET q == CM!FormLeft(r) IN
        /\ q \in TeamReply /\ q.form # "active"
        /\ q.by = r.by /\ q.card = r.card /\ q.confirmed = r.confirmed
  BY <1>1 DEF TeamReply, CM!FormLeft, CM!Expired
<1>3. LET q == CM!CardLeft(r) IN
        /\ q \in TeamReply /\ q.card # "active"
        /\ q.by = r.by /\ q.form = r.form /\ q.confirmed = r.confirmed
  BY <1>1 DEF TeamReply, CM!CardLeft, CM!Expired
<1>4. LET q == CM!Confirmed(r) IN
        /\ q \in TeamReply /\ q.card = "selected"
        /\ q.by = r.by /\ q.form = r.form /\ q.confirmed = r.confirmed + 1
  <2> DEFINE n == r.confirmed + 1
             q == [r EXCEPT !.card = "selected", !.confirmed = n]
  <2>1. n \in Nat
    BY <1>1
  <2>2. CM!Confirmed(r) = q
    BY DEF CM!Confirmed
  <2> HIDE DEF n
  <2>3. q \in TeamReply /\ q.card = "selected" /\ q.by = r.by /\ q.form = r.form /\ q.confirmed = n
    BY <1>1, <2>1 DEF TeamReply
  <2> HIDE DEF q
  <2> QED BY <2>2, <2>3 DEF n
<1>5. LET q == [r EXCEPT !.form = "submitted"] IN
        /\ q \in TeamReply /\ q.form = "submitted"
        /\ q.by = r.by /\ q.card = r.card /\ q.confirmed = r.confirmed
  BY <1>1 DEF TeamReply
<1> QED BY <1>2, <1>3, <1>4, <1>5

LEMMA ReplyLeft ==
  ASSUME NEW r \in TeamReply
  PROVE  /\ LET q == CM!CardLeft(CM!FormLeft(r)) IN
            /\ q \in TeamReply /\ q.form # "active" /\ q.card # "active"
            /\ q.by = r.by /\ q.confirmed = r.confirmed
         /\ LET q == CM!Confirmed(CM!FormLeft(r)) IN
            /\ q \in TeamReply /\ q.form # "active" /\ q.card = "selected"
            /\ q.by = r.by /\ q.confirmed = r.confirmed + 1
<1> DEFINE f == CM!FormLeft(r)
<1>1. f \in TeamReply /\ f.form # "active" /\ f.by = r.by /\ f.confirmed = r.confirmed
  BY ReplyChanged
<1> HIDE DEF f
<1>2. LET q == CM!CardLeft(f) IN
        /\ q \in TeamReply /\ q.form # "active" /\ q.card # "active"
        /\ q.by = r.by /\ q.confirmed = r.confirmed
  BY <1>1, ReplyChanged
<1>3. LET q == CM!Confirmed(f) IN
        /\ q \in TeamReply /\ q.form # "active" /\ q.card = "selected"
        /\ q.by = r.by /\ q.confirmed = r.confirmed + 1
  <2>1. LET q == CM!Confirmed(f) IN
          /\ q \in TeamReply /\ q.card = "selected"
          /\ q.by = f.by /\ q.form = f.form /\ q.confirmed = f.confirmed + 1
    BY <1>1, ReplyChanged
  <2> QED BY <1>1, <2>1
<1> QED BY <1>2, <1>3 DEF f

\* An operation on a context keeps it sound if it keeps the expert, or leaves no form.
LEMMA SoundAfter ==
  ASSUME NEW c, NEW n \in Nat, TeamSound(c, n), NEW d \in TeamContext, NEW m \in Nat, n <= m,
         d.expert \in Members, d.said = c.said,
         d.visible = c.visible \/ (d.visible = m /\ n <= m),
         DOMAIN d.replies = DOMAIN c.replies,
         \A i \in DOMAIN c.replies :
           /\ d.replies[i].by = c.replies[i].by
           /\ d.replies[i].form = "active" => c.replies[i].form = "active" /\ d.expert = c.expert
           /\ \/ /\ d.replies[i].confirmed = c.replies[i].confirmed
                 /\ d.replies[i].card = "active" => c.replies[i].card = "active"
              \/ /\ c.replies[i].card = "active" /\ d.replies[i].card = "selected"
                 /\ d.replies[i].confirmed = c.replies[i].confirmed + 1
  PROVE  TeamSound(d, m)
<1>1. FormsFit(d)
  BY DEF TeamSound, FormsFit
<1>2. CardsFit(d)
  <2> SUFFICES ASSUME NEW i \in DOMAIN c.replies
               PROVE  d.replies[i].confirmed <= IF d.replies[i].card = "active" THEN 0 ELSE 1
    BY DEF CardsFit
  <2>1. c.replies[i].confirmed \in Nat
    BY TeamShape DEF TeamSound, TeamReply
  <2> QED BY <2>1 DEF TeamSound, CardsFit
<1>3. WordsBefore(d, m)
  <2>1. \A i \in DOMAIN c.said : c.said[i] \in Nat
    BY TeamShape DEF TeamSound
  <2>2. c.visible \in Nat
    BY TeamShape DEF TeamSound
  <2> QED BY <2>1, <2>2 DEF TeamSound, WordsBefore
<1> QED BY <1>1, <1>2, <1>3 DEF TeamSound

\* A context is sound for later turns too.
LEMMA SoundLater ==
  ASSUME NEW c, NEW n \in Nat, NEW m \in Nat, n <= m, TeamSound(c, n)
  PROVE  TeamSound(c, m)
<1>1. \A i \in DOMAIN c.said : c.said[i] \in Nat
  BY TeamShape DEF TeamSound
<1>2. c.visible \in Nat
  BY TeamShape DEF TeamSound
<1> QED BY <1>1, <1>2 DEF TeamSound, FormsFit, CardsFit, WordsBefore

\* A context is restored with an expert of the team, the one its forms are of.
LEMMA RestoredSound ==
  ASSUME CM!TeamAssumption, TeamInv
  PROVE  /\ TeamSound(CM!Restored, mTurn + 1) /\ CM!Restored.expert \in Members
         /\ CM!Restored.replies = mRow.replies /\ CM!Restored \in TeamContext
         /\ \A i \in DOMAIN mRow.replies : CM!Restored.expert = mRow.expert
<1> DEFINE e == IF mRow.expert \in Members THEN mRow.expert ELSE TestCoordinator
<1>1. e \in Members /\ mRow \in TeamContext
  BY DEF CM!TeamAssumption, TeamInv, TeamSound
<1>2. CM!Restored = [mRow EXCEPT !.expert = e]
  BY DEF CM!Restored
<1>3. \A i \in DOMAIN mRow.replies : e = mRow.expert
  BY DEF TeamInv, TeamSound, FormsFit
<1> HIDE DEF e
<1>4. /\ CM!Restored \in TeamContext
      /\ CM!Restored.expert = e /\ CM!Restored.said = mRow.said
      /\ CM!Restored.visible = mRow.visible /\ CM!Restored.replies = mRow.replies
  BY <1>1, <1>2, ExpertFound
<1>5. TeamSound(CM!Restored, mTurn + 1)
  BY <1>1, <1>3, <1>4, SoundAfter DEF TeamInv
<1> QED BY <1>1, <1>3, <1>4, <1>5

\* A turn begins with a sound context.
LEMMA TeamBegins ==
  ASSUME TeamInv, NEW c, TeamSound(c, mTurn + 1), c.expert \in Members, CM!Begin(c)
  PROVE  TeamInv'
<1>1. mTurn' = mTurn + 1 /\ mTurn \in Nat /\ mCtx' = c /\ mPc' = "run" /\ mRow' = mRow
  BY DEF TeamInv, CM!Begin
<1>2. TeamSound(mRow, mTurn + 1 + 1)
  BY <1>1, SoundLater DEF TeamInv
<1>3. TeamSound(mRow', mTurn' + 1)
  BY <1>1, <1>2
<1>4. TeamSound(mCtx', mTurn')
  BY <1>1
<1>5. mTurn' \in Nat /\ mPc' = "run" /\ mCtx'.expert \in Members
  BY <1>1
<1> QED BY <1>3, <1>4, <1>5 DEF TeamInv

\* It ends with one.
LEMMA TeamStores ==
  ASSUME TeamInv, NEW c, TeamSound(c, mTurn + 1), CM!Store(c)
  PROVE  TeamInv'
<1>1. mTurn' = mTurn /\ mTurn \in Nat /\ mRow' = c /\ mPc' = "idle"
  BY DEF TeamInv, CM!Store
<1>2. TeamSound(mRow', mTurn' + 1)
  BY <1>1
<1> QED BY <1>1, <1>2 DEF TeamInv

\* What the tester does keeps the context sound: a text leaves the forms, a form is answered,
\* another expert leaves cards and forms.
LEMMA TextSound == ASSUME CM!TeamAssumption, TeamInv, CM!Text PROVE TeamInv'
<1> DEFINE c == CM!Restored
           r == [i \in DOMAIN c.replies |-> CM!FormLeft(c.replies[i])]
           d == [c EXCEPT !.replies = r]
<1>1. c \in TeamContext /\ TeamSound(c, mTurn + 1) /\ c.expert \in Members
  BY RestoredSound
<1>2. CM!Begin(d)
  BY DEF CM!Text, CM!FormsExpired
<1> HIDE DEF c
<1>3. ASSUME NEW i \in DOMAIN c.replies
      PROVE  /\ r[i] \in TeamReply /\ r[i].form # "active"
             /\ r[i].by = c.replies[i].by /\ r[i].card = c.replies[i].card
             /\ r[i].confirmed = c.replies[i].confirmed
  <2>1. c.replies[i] \in TeamReply
    BY <1>1, TeamShape
  <2> QED BY <2>1, ReplyChanged
<1>4. r \in [DOMAIN c.replies -> TeamReply] /\ DOMAIN r = DOMAIN c.replies
  BY <1>3
<1> HIDE DEF r
<1>5. /\ d \in TeamContext
      /\ d.expert = c.expert /\ d.said = c.said /\ d.visible = c.visible /\ d.replies = r
  BY <1>1, <1>4, RepliesChanged
<1> HIDE DEF d
<1>6. mTurn \in Nat
  BY DEF TeamInv
<1>7. TeamSound(d, mTurn + 1)
  BY <1>1, <1>3, <1>4, <1>5, <1>6, SoundAfter
<1> QED BY <1>1, <1>2, <1>5, <1>7, TeamBegins

LEMMA FormSound ==
  ASSUME CM!TeamAssumption, TeamInv, NEW k \in DOMAIN mRow.replies, CM!Form(k)
  PROVE  TeamInv'
<1> DEFINE c == CM!Restored
           q == [c.replies[k] EXCEPT !.form = "submitted"]
           r == [c.replies EXCEPT ![k] = q]
           d == [c EXCEPT !.replies = r]
<1>1. /\ c \in TeamContext /\ TeamSound(c, mTurn + 1) /\ c.expert \in Members
      /\ c.replies = mRow.replies
  BY RestoredSound
<1>2. CM!Begin(d)
  BY <1>1 DEF CM!Form, CM!Replaced
<1> HIDE DEF c
<1>3. c.replies \in [DOMAIN c.replies -> TeamReply] /\ k \in DOMAIN c.replies
  BY <1>1, TeamShape
<1>4. /\ q \in TeamReply /\ q.form # "active"
      /\ q.by = c.replies[k].by /\ q.card = c.replies[k].card /\ q.confirmed = c.replies[k].confirmed
  BY <1>3, ReplyChanged
<1> HIDE DEF q
<1>5. /\ r \in [DOMAIN c.replies -> TeamReply] /\ DOMAIN r = DOMAIN c.replies
      /\ r[k] = q /\ \A i \in DOMAIN c.replies : i # k => r[i] = c.replies[i]
  BY <1>3, <1>4
<1> HIDE DEF r
<1>6. /\ d \in TeamContext
      /\ d.expert = c.expert /\ d.said = c.said /\ d.visible = c.visible /\ d.replies = r
  BY <1>1, <1>5, RepliesChanged
<1> HIDE DEF d
<1>7. mTurn \in Nat
  BY DEF TeamInv
<1>8. ASSUME NEW i \in DOMAIN c.replies
      PROVE  /\ r[i].by = c.replies[i].by /\ r[i].confirmed = c.replies[i].confirmed
             /\ r[i].form = "active" => c.replies[i].form = "active"
             /\ r[i].card = c.replies[i].card
  BY <1>4, <1>5
<1>9. TeamSound(d, mTurn + 1)
  BY <1>1, <1>5, <1>6, <1>7, <1>8, SoundAfter
<1> QED BY <1>1, <1>2, <1>6, <1>9, TeamBegins

\* Cards and forms left, but for a card that may be confirmed, and the next expert.
LEMMA HandoffSound ==
  ASSUME CM!TeamAssumption, TeamInv, NEW k \in DOMAIN mRow.replies, NEW e \in Members,
         CM!Handoff(k, e)
  PROVE  TeamInv'
<1> DEFINE c == CM!Restored
           a == [i \in DOMAIN c.replies |-> CM!CardLeft(CM!FormLeft(c.replies[i]))]
           q == CM!Confirmed(CM!FormLeft(c.replies[k]))
           r == [a EXCEPT ![k] = q]
           b == [c EXCEPT !.replies = a]
           h == [b EXCEPT !.replies = r]
           d == CM!TakenOver(h, e)
<1>1. /\ c \in TeamContext /\ TeamSound(c, mTurn + 1) /\ c.expert \in Members
      /\ c.replies = mRow.replies
  BY RestoredSound
<1> HIDE DEF c
<1>2. c.replies \in [DOMAIN c.replies -> TeamReply] /\ k \in DOMAIN c.replies
  BY <1>1, TeamShape
<1>3. ASSUME NEW i \in DOMAIN c.replies
      PROVE  /\ a[i] \in TeamReply /\ a[i].form # "active" /\ a[i].card # "active"
             /\ a[i].by = c.replies[i].by /\ a[i].confirmed = c.replies[i].confirmed
  <2>1. c.replies[i] \in TeamReply
    BY <1>2
  <2>2. a[i] = CM!CardLeft(CM!FormLeft(c.replies[i]))
    OBVIOUS
  <2> HIDE DEF a
  <2> QED BY <2>1, <2>2, ReplyLeft
<1>4. /\ q \in TeamReply /\ q.form # "active" /\ q.card = "selected"
      /\ q.by = c.replies[k].by /\ q.confirmed = c.replies[k].confirmed + 1
  <2>1. c.replies[k] \in TeamReply
    BY <1>2
  <2> QED BY <2>1, ReplyLeft
<1>5. a \in [DOMAIN c.replies -> TeamReply]
  BY <1>3
<1>6. b \in TeamContext /\ b.replies = a
      /\ b.expert = c.expert /\ b.said = c.said /\ b.visible = c.visible
  <2> HIDE DEF a
  <2> QED BY <1>1, <1>5, RepliesChanged
<1>7. CM!Begin(d)
  BY <1>1, <1>6 DEF CM!Handoff, CM!Replaced, CM!Abandoned, c
<1> HIDE DEF a, q
<1>8. /\ r \in [DOMAIN b.replies -> TeamReply] /\ DOMAIN r = DOMAIN c.replies
      /\ r[k] = q /\ \A i \in DOMAIN c.replies : i # k => r[i] = a[i]
  BY <1>2, <1>4, <1>5, <1>6
<1> HIDE DEF r, b
<1>9. /\ h \in TeamContext
      /\ h.expert = c.expert /\ h.said = c.said /\ h.visible = c.visible /\ h.replies = r
  BY <1>6, <1>8, RepliesChanged
<1> HIDE DEF h
<1>10. mTurn \in Nat /\ mTurn + 1 \in Nat
  BY DEF TeamInv
<1>11. /\ d \in TeamContext
       /\ d.expert = e /\ d.said = c.said /\ d.visible = mTurn + 1 /\ d.replies = r
  BY <1>9, <1>10, ExpertChanged
<1> HIDE DEF d
<1>12. c.replies[k].card = "active"
  BY <1>1 DEF CM!Handoff
<1>13. ASSUME NEW i \in DOMAIN c.replies
       PROVE  /\ d.replies[i].by = c.replies[i].by
              /\ d.replies[i].form # "active"
              /\ \/ /\ d.replies[i].confirmed = c.replies[i].confirmed
                    /\ d.replies[i].card # "active"
                 \/ /\ c.replies[i].card = "active" /\ d.replies[i].card = "selected"
                    /\ d.replies[i].confirmed = c.replies[i].confirmed + 1
  BY <1>3, <1>4, <1>8, <1>11, <1>12
<1>14. TeamSound(d, mTurn + 1)
  BY <1>1, <1>8, <1>10, <1>11, <1>13, SoundAfter
<1> QED BY <1>7, <1>11, <1>14, TeamBegins

LEMMA AtSound ==
  ASSUME CM!TeamAssumption, TeamInv, NEW e \in Members, CM!At(e)
  PROVE  TeamInv'
<1> DEFINE c == CM!Restored
           a == [i \in DOMAIN c.replies |-> CM!CardLeft(CM!FormLeft(c.replies[i]))]
           b == [c EXCEPT !.replies = a]
<1>1. c \in TeamContext /\ TeamSound(c, mTurn + 1) /\ c.expert \in Members
  BY RestoredSound
<1>2. mTurn \in Nat /\ mTurn + 1 \in Nat
  BY DEF TeamInv
<1>3. CASE CM!Begin(c)
  BY <1>1, <1>3, TeamBegins
<1>4. CASE e = c.expert /\ CM!Begin(CM!TakenOver(c, e))
  <2> DEFINE d == CM!TakenOver(c, e)
  <2>1. CM!Begin(d)
    BY <1>4
  <2> HIDE DEF c
  <2>2. /\ d \in TeamContext
        /\ d.expert = e /\ d.said = c.said /\ d.visible = mTurn + 1 /\ d.replies = c.replies
    BY <1>1, <1>2, ExpertChanged
  <2> HIDE DEF d
  <2>3. TeamSound(d, mTurn + 1)
    BY <1>1, <1>2, <1>4, <2>2, SoundAfter
  <2> QED BY <2>1, <2>2, <2>3, TeamBegins
<1>5. CASE CM!Begin(CM!TakenOver(CM!Abandoned(c), e))
  <2> DEFINE d == CM!TakenOver(b, e)
  <2>1. CM!Begin(d)
    BY <1>5 DEF CM!Abandoned
  <2> HIDE DEF c
  <2>2. ASSUME NEW i \in DOMAIN c.replies
        PROVE  /\ a[i] \in TeamReply /\ a[i].form # "active" /\ a[i].card # "active"
               /\ a[i].by = c.replies[i].by /\ a[i].confirmed = c.replies[i].confirmed
    <3>1. c.replies[i] \in TeamReply
      BY <1>1, TeamShape
    <3>2. a[i] = CM!CardLeft(CM!FormLeft(c.replies[i]))
      OBVIOUS
    <3> HIDE DEF a
    <3> QED BY <3>1, <3>2, ReplyLeft
  <2>3. a \in [DOMAIN c.replies -> TeamReply] /\ DOMAIN a = DOMAIN c.replies
    BY <2>2
  <2> HIDE DEF a
  <2>4. b \in TeamContext /\ b.replies = a
        /\ b.expert = c.expert /\ b.said = c.said /\ b.visible = c.visible
    BY <1>1, <2>3, RepliesChanged
  <2> HIDE DEF b
  <2>5. /\ d \in TeamContext
        /\ d.expert = e /\ d.said = c.said /\ d.visible = mTurn + 1 /\ d.replies = a
    BY <1>2, <2>4, ExpertChanged
  <2> HIDE DEF d
  <2>6. TeamSound(d, mTurn + 1)
    BY <1>1, <1>2, <2>2, <2>3, <2>5, SoundAfter
  <2> QED BY <2>1, <2>5, <2>6, TeamBegins
<1> QED BY <1>3, <1>4, <1>5 DEF CM!At

\* The words of the turn, or those to be shown, come after all others.
LEMMA RecordSound == ASSUME TeamInv, CM!Record PROVE TeamInv'
<1> DEFINE w == IF mCtx.visible # 0 THEN mCtx.visible ELSE mTurn
           d == [mCtx EXCEPT !.said = Append(mCtx.said, w), !.visible = 0]
<1>1. /\ mPc = "run" /\ mCtx' = d /\ mPc' = "reply" /\ UNCHANGED <<mRow, mTurn>>
  BY DEF CM!Record
<1>2. /\ TeamSound(mCtx, mTurn) /\ mCtx \in TeamContext /\ mTurn \in Nat
      /\ mCtx.expert \in Members
  BY <1>1 DEF TeamInv, TeamSound
<1>3. mCtx.said \in Seq(Nat) /\ mCtx.visible \in Nat
  BY <1>2, TeamShape
<1>4. w \in Nat /\ w <= mTurn /\ \A i \in DOMAIN mCtx.said : mCtx.said[i] < w
  BY <1>2, <1>3 DEF TeamSound, WordsBefore
<1> HIDE DEF w
<1>5. Append(mCtx.said, w) \in Seq(Nat)
  BY <1>3, <1>4
<1>6. mCtx \in [expert : Members \cup {Nobody}, said : Seq(Nat), replies : Seq(TeamReply),
                 visible : Nat]
  BY <1>2, TeamShape
<1>7. /\ d \in TeamContext
      /\ d.expert = mCtx.expert /\ d.said = Append(mCtx.said, w) /\ d.visible = 0
      /\ d.replies = mCtx.replies
  <2> DEFINE said == Append(mCtx.said, w)
  <2> HIDE DEF said
  <2>1. said \in Seq(Nat)
    BY <1>5 DEF said
  <2>2. LET e == [mCtx EXCEPT !.said = said, !.visible = 0] IN
        /\ e \in TeamContext /\ e.expert = mCtx.expert /\ e.said = said /\ e.visible = 0
        /\ e.replies = mCtx.replies
    BY <1>6, <2>1 DEF TeamContext
  <2> QED BY <2>2 DEF said
<1> HIDE DEF d
<1>8. FormsFit(d) /\ CardsFit(d)
  BY <1>2, <1>7 DEF TeamSound, FormsFit, CardsFit
<1>9. WordsBefore(d, mTurn + 1)
  <2>1. /\ DOMAIN d.said = 1 .. (Len(mCtx.said) + 1) /\ DOMAIN mCtx.said = 1 .. Len(mCtx.said)
        /\ Len(mCtx.said) \in Nat
        /\ d.said[Len(mCtx.said) + 1] = w
        /\ \A i \in DOMAIN mCtx.said : d.said[i] = mCtx.said[i] /\ mCtx.said[i] \in Nat
    BY <1>3, <1>4, <1>7
  <2>2. \A i, j \in DOMAIN mCtx.said : i < j => mCtx.said[i] < mCtx.said[j]
    BY <1>2 DEF TeamSound, WordsBefore
  <2>3. \A i, j \in DOMAIN d.said : i < j => d.said[i] < d.said[j]
    BY <1>4, <2>1, <2>2
  <2>4. \A i \in DOMAIN d.said : d.said[i] < mTurn + 1
    BY <1>2, <1>4, <2>1
  <2> QED BY <1>2, <1>7, <2>3, <2>4 DEF WordsBefore
<1>10. TeamSound(d, mTurn + 1)
  BY <1>7, <1>8, <1>9 DEF TeamSound
<1> QED BY <1>1, <1>2, <1>7, <1>10 DEF TeamInv

LEMMA ReplySound ==
  ASSUME TeamInv, NEW to \in SUBSET (Members \ {TestCoordinator}), NEW asks \in BOOLEAN,
         CM!Reply(to, asks)
  PROVE  TeamInv'
<1> DEFINE q == [by |-> mCtx.expert, to |-> to, confirmed |-> 0,
                 card |-> IF to = {} THEN Nobody ELSE "active",
                 form |-> IF asks THEN "active" ELSE Nobody]
           r == Append(mCtx.replies, q)
           d == [mCtx EXCEPT !.replies = r]
<1>1. mPc = "reply" /\ CM!Store(d)
  BY DEF CM!Reply
<1>2. /\ TeamSound(mCtx, mTurn + 1) /\ mCtx \in TeamContext /\ mTurn \in Nat
      /\ mCtx.expert \in Members
  BY <1>1 DEF TeamInv, TeamSound
<1>3. q \in TeamReply /\ q.by = mCtx.expert /\ q.confirmed = 0
  BY <1>2 DEF TeamReply
<1> HIDE DEF q
<1>4. mCtx \in [expert : Members \cup {Nobody}, said : Seq(Nat), replies : Seq(TeamReply),
                 visible : Nat]
  BY <1>2, TeamShape
<1>5. /\ r \in Seq(TeamReply) /\ DOMAIN r = 1 .. (Len(mCtx.replies) + 1)
      /\ DOMAIN mCtx.replies = 1 .. Len(mCtx.replies) /\ Len(mCtx.replies) \in Nat
      /\ r[Len(mCtx.replies) + 1] = q
      /\ \A i \in DOMAIN mCtx.replies : r[i] = mCtx.replies[i]
  BY <1>3, <1>4
<1> HIDE DEF r
<1>6. /\ d \in TeamContext
      /\ d.expert = mCtx.expert /\ d.said = mCtx.said /\ d.visible = mCtx.visible /\ d.replies = r
  BY <1>4, <1>5 DEF TeamContext
<1> HIDE DEF d
<1>7. FormsFit(d)
  BY <1>2, <1>3, <1>5, <1>6 DEF TeamSound, FormsFit
<1>8. CardsFit(d)
  BY <1>2, <1>3, <1>5, <1>6 DEF TeamSound, CardsFit
<1>9. WordsBefore(d, mTurn + 1)
  BY <1>2, <1>6 DEF TeamSound, WordsBefore
<1>10. TeamSound(d, mTurn + 1)
  BY <1>6, <1>7, <1>8, <1>9 DEF TeamSound
<1> QED BY <1>1, <1>10, TeamStores

\* A failed turn stores what it has, a lost one nothing.
LEMMA EndSound == ASSUME TeamInv, CM!Fail \/ CM!Lose PROVE TeamInv'
<1>1. TeamSound(mRow, mTurn + 1) /\ mTurn \in Nat
  BY DEF TeamInv
<1>2. CASE CM!Lose
  BY <1>1, <1>2, TeamStores DEF CM!Lose
<1>3. CASE CM!Fail
  <2>1. TeamSound(mCtx, mTurn) \/ TeamSound(mCtx, mTurn + 1)
    BY <1>3 DEF CM!Fail, TeamInv
  <2>2. TeamSound(mCtx, mTurn + 1)
    BY <1>1, <2>1, SoundLater
  <2> QED BY <1>3, <2>2, TeamStores DEF CM!Fail
<1> QED BY <1>2, <1>3

LEMMA TeamStarts == ASSUME CM!Init PROVE TeamInv
<1>1. mTurn = 0 /\ mPc = "idle" /\ mRow = CM!Blank
  BY DEF CM!Init
<1>2. CM!Blank \in TeamContext
  BY DEF CM!Blank, TeamContext
<1>3. FormsFit(CM!Blank) /\ CardsFit(CM!Blank) /\ WordsBefore(CM!Blank, 1)
  BY DEF CM!Blank, FormsFit, CardsFit, WordsBefore
<1> QED BY <1>1, <1>2, <1>3 DEF TeamInv, TeamSound

LEMMA TeamNext == ASSUME CM!TeamAssumption, TeamInv, [CM!Next]_(CM!vars) PROVE TeamInv'
<1>1. CASE UNCHANGED CM!vars
  BY <1>1 DEF CM!vars, TeamInv
<1> QED BY <1>1, TextSound, FormSound, HandoffSound, AtSound, RecordSound, ReplySound, EndSound
        DEF CM!Next

\* Whatever the team and however the tester changes between its experts, fills in forms,
\* confirms cards and meets failures: a form that can still be answered was shown by the
\* expert who gets the answer, a card is confirmed once, and no words are recorded twice.
LEMMA TeamTheorem ==
  CM!Spec => [](CM!FormsOfTheExpert /\ CM!CardsConfirmedOnce /\ CM!WordsRecordedOnce)
<1>1. CM!Init => TeamInv
  BY TeamStarts
<1>2. TeamInv /\ [CM!Next]_(CM!vars) => TeamInv'
  BY WorkbenchAssumption, TeamNext
<1>3. TeamInv => CM!FormsOfTheExpert /\ CM!CardsConfirmedOnce /\ CM!WordsRecordedOnce
  <2> SUFFICES ASSUME TeamInv
               PROVE  CM!FormsOfTheExpert /\ CM!CardsConfirmedOnce /\ CM!WordsRecordedOnce
    OBVIOUS
  <2>1. CM!FormsOfTheExpert
    BY DEF TeamInv, TeamSound, FormsFit, CM!FormsOfTheExpert
  <2>2. CM!WordsRecordedOnce
    BY DEF TeamInv, TeamSound, WordsBefore, CM!WordsRecordedOnce
  <2>3. \A i \in DOMAIN mRow.replies : mRow.replies[i].confirmed \in Nat
    BY TeamShape DEF TeamInv, TeamSound, TeamReply
  <2>4. CM!CardsConfirmedOnce
    BY <2>3 DEF TeamInv, TeamSound, CardsFit, CM!CardsConfirmedOnce
  <2> QED BY <2>1, <2>2, <2>4
<1> QED BY <1>1, <1>2, <1>3, PTL DEF CM!Spec

\* Both together: what tests have stored is sound whenever their turns fail, are stopped or
\* meet (run_revision_test_turn, _apply_candidate_team_handoff,
\* _apply_candidate_manual_expert_selection).
THEOREM StoredTestsTheorem == CT!Spec /\ CM!Spec => []StoredTestsSound
BY StoreTheorem, TeamTheorem, PTL DEF StoredTestsSound

-----------------------------------------------------------------------------
(* Packages between installations.                                         *)

\* The shapes.
PackedIds == CP!Keys \X Nat
PackedEntries == [id : PackedIds, key : CP!Keys, content : PackedContents \cup {Nobody},
                  locks : SUBSET PackedIds]
Packages == [root : PackedIds, entries : SUBSET PackedEntries]
PackedRevisions == [content : PackedContents \cup {Nobody}, media : {"own", "generic"},
                    locks : SUBSET PackedIds]
LocalIds == [revision : Nat, release : PackedIds]
LocalMaps == UNION {[D -> LocalIds] : D \in SUBSET PackedIds}
PackedHistories == [CP!Keys -> Seq(PackedRevisions)]
PackedReleases == [CP!Keys -> Seq(Nat)]
PackedPointers == [CP!Keys -> Nat]
OpenImports == [at : Servers, package : Packages, left : SUBSET PackedEntries, local : LocalMaps,
            revs : PackedHistories, rels : PackedReleases, current : PackedPointers]
Arrivals == [at : Servers, package : Packages, local : LocalMaps, untouched : BOOLEAN]

\* A catalogue: each revision is released once at most, a key with releases has a current
\* one, and locks are releases of the layer below.
Orderly(R, L, C) ==
  /\ R \in PackedHistories /\ L \in PackedReleases /\ C \in PackedPointers
  /\ \A k \in CP!Keys :
       /\ \A i \in DOMAIN L[k] : L[k][i] \in DOMAIN R[k]
       /\ \A i, j \in DOMAIN L[k] : L[k][i] = L[k][j] => i = j
       /\ C[k] = 0 => L[k] = << >>
       /\ \A n \in DOMAIN R[k] : \A r \in R[k][n].locks :
            r[1] \in CP!DependsOn(k) /\ r[2] \in DOMAIN L[r[1]]

\* A package: one entry for an id, with everything an entry locks, in the layer below; the
\* root is above all others.
Sendable(p) ==
  /\ p \in Packages
  /\ \A e \in p.entries :
       /\ e.key = e.id[1]
       /\ \A f \in p.entries : f.id = e.id => f = e
       /\ \A i \in e.locks : i[1] \in CP!DependsOn(e.key) /\ \E f \in p.entries : f.id = i
       /\ e.id = p.root \/ CP!Layer(e.key) < CP!Layer(p.root[1])

\* What an entry that is not left became: a revision with its content, whose locks are what
\* its locks became; below the root it is released.
Became(p, e, local, R, L) ==
  /\ e.locks \subseteq DOMAIN local
  /\ local[e.id].revision \in DOMAIN R[e.key]
  /\ R[e.key][local[e.id].revision]
       = CP!Revision(e.content, "generic", {local[i].release : i \in e.locks})
  /\ local[e.id].release[1] = e.key
  /\ e.id # p.root => /\ local[e.id].release[2] \in DOMAIN L[e.key]
                      /\ L[e.key][local[e.id].release[2]] = local[e.id].revision

Delivered(p, left, local, R, L) ==
  /\ local \in LocalMaps /\ DOMAIN local = {e.id : e \in p.entries \ left}
  /\ \A e \in p.entries \ left : Became(p, e, local, R, L)

\* A catalogue nobody touched since finds the same again.
FoundAgain(e, l, R, L) ==
  /\ \A m \in DOMAIN R[e.key] : R[e.key][m] = R[e.key][l.revision] => m <= l.revision
  /\ l.release = <<e.key, CP!At(L[e.key], l.revision)>>

Settled(p, left, local, R, L) ==
  \A e \in p.entries \ left : FoundAgain(e, local[e.id], R, L)

Coming(im) ==
  /\ im \in OpenImports /\ Sendable(im.package) /\ im.left \subseteq im.package.entries
  /\ Orderly(im.revs, im.rels, im.current)
  /\ Delivered(im.package, im.left, im.local, im.revs, im.rels)
  /\ Settled(im.package, im.left, im.local, im.revs, im.rels)

\* The pointers stay, but for keys that had none, and the root's key has what it had.
StillUnpublished(im, L, C) ==
  /\ \A k \in CP!Keys : im.current[k] # C[k] => C[k] = 0
  /\ im.rels[im.package.root[1]] = L[im.package.root[1]]
  /\ im.current[im.package.root[1]] = C[im.package.root[1]]

\* The last import is repeated.
Repeats(im, a, R, L) ==
  /\ a.untouched /\ a.at = im.at /\ a.package = im.package
  /\ im.revs = R /\ im.rels = L
  /\ \A id \in DOMAIN im.local : im.local[id] = a.local[id]

Came(a, R, L) ==
  /\ a \in Arrivals /\ Sendable(a.package)
  /\ Delivered(a.package, {}, a.local, R, L)
  /\ a.untouched => Settled(a.package, {}, a.local, R, L)

PackedInv ==
  /\ pRevs \in [Servers -> PackedHistories]
  /\ pRels \in [Servers -> PackedReleases]
  /\ pCurrent \in [Servers -> PackedPointers]
  /\ \A s \in Servers : Orderly(pRevs[s], pRels[s], pCurrent[s])
  /\ pImport # Nobody =>
       /\ Coming(pImport)
       /\ StillUnpublished(pImport, pRels[pImport.at], pCurrent[pImport.at])
       /\ pArrived # Nobody =>
            Repeats(pImport, pArrived, pRevs[pImport.at], pRels[pImport.at])
  /\ pArrived # Nobody => Came(pArrived, pRevs[pArrived.at], pRels[pArrived.at])

-----------------------------------------------------------------------------
(* Sequences and layers.                                                   *)

Extends(s, t) == DOMAIN s \subseteq DOMAIN t /\ \A i \in DOMAIN s : t[i] = s[i]

\* Numbers below a bound have a greatest one.
LEMMA GreatestOf ==
  ASSUME NEW n \in Nat, NEW T \in SUBSET (1..n), T # {}
  PROVE  \E m \in T : \A k \in T : k <= m
<1> DEFINE U == {m..n : m \in T}
<1>1. U \subseteq FiniteSubsetsOf(Nat) /\ U # {}
  <2>1. \A m \in T : IsFiniteSet(m..n) /\ m..n \subseteq Nat
    BY FS_Interval
  <2> QED BY <2>1 DEF FiniteSubsetsOf
<1>2. IsWellFoundedOn(StrictSubsetOrdering(Nat), FiniteSubsetsOf(Nat))
  BY FS_StrictSubsetOrderingWellFounded
<1>3. PICK X \in U : \A Y \in U : <<Y, X>> \notin StrictSubsetOrdering(Nat)
  <2> HIDE DEF U
  <2> QED BY <1>1, <1>2, WFMin
<1>4. PICK m \in T : X = m..n
  OBVIOUS
<1>5. ASSUME NEW k \in T, ~(k <= m) PROVE FALSE
  <2>1. k..n \in U /\ k..n \subseteq m..n /\ m \notin k..n /\ m \in m..n
    BY <1>5
  <2>2. <<k..n, X>> \in StrictSubsetOrdering(Nat)
    BY <2>1, <1>4, <1>5 DEF StrictSubsetOrdering
  <2> QED BY <2>1, <2>2, <1>3
<1> QED BY <1>5

LEMMA LayerOf == ASSUME NEW k PROVE CP!Layer(k) \in 0..2
BY DEF CP!Layer

\* The revision that is found is the latest of its content.
LEMMA FoundLatest ==
  ASSUME NEW S, NEW s \in Seq(S), NEW v
  PROVE  /\ CP!Found(s, v) \in Nat
         /\ CP!Found(s, v) = 0 => \A m \in DOMAIN s : s[m] # v
         /\ CP!Found(s, v) # 0 =>
              /\ CP!Found(s, v) \in DOMAIN s /\ s[CP!Found(s, v)] = v
              /\ \A m \in DOMAIN s : s[m] = v => m <= CP!Found(s, v)
<1> DEFINE same == {n \in DOMAIN s : CP!SameContent(s[n], v)}
<1>1. DOMAIN s = 1..Len(s) /\ Len(s) \in Nat
  OBVIOUS
<1>2. \A n : n \in same <=> n \in DOMAIN s /\ s[n] = v
  BY DEF CP!SameContent
<1>3. CASE same = {}
  <2>1. CP!Found(s, v) = 0
    BY <1>3 DEF CP!Found
  <2> QED BY <2>1, <1>2, <1>3
<1>4. CASE same # {}
  <2>1. CP!Found(s, v) = CHOOSE n \in same : \A m \in same : m <= n
    BY <1>4 DEF CP!Found
  <2>2. same \in SUBSET (1..Len(s))
    BY <1>1
  <2> HIDE DEF same
  <2>3. \E n \in same : \A m \in same : m <= n
    BY <1>1, <1>4, <2>2, GreatestOf
  <2>4. CP!Found(s, v) \in same /\ \A m \in same : m <= CP!Found(s, v)
    BY <2>1, <2>3
  <2> QED BY <1>1, <1>2, <2>4
<1> QED BY <1>3, <1>4

LEMMA AtWhere ==
  ASSUME NEW s \in Seq(Nat), NEW v
  PROVE  /\ CP!At(s, v) \in Nat
         /\ CP!At(s, v) = 0 => \A i \in DOMAIN s : s[i] # v
         /\ CP!At(s, v) # 0 => CP!At(s, v) \in DOMAIN s /\ s[CP!At(s, v)] = v
<1>1. DOMAIN s = 1..Len(s) /\ Len(s) \in Nat
  OBVIOUS
<1>2. CASE \E i \in DOMAIN s : s[i] = v
  <2>1. CP!At(s, v) = CHOOSE i \in DOMAIN s : s[i] = v
    BY <1>2 DEF CP!At
  <2>2. CP!At(s, v) \in DOMAIN s /\ s[CP!At(s, v)] = v
    BY <1>2, <2>1
  <2> QED BY <1>1, <2>2
<1>3. CASE ~\E i \in DOMAIN s : s[i] = v
  <2>1. CP!At(s, v) = 0
    BY <1>3 DEF CP!At
  <2> QED BY <2>1, <1>3
<1> QED BY <1>2, <1>3

\* What a sequence without repeats gains leaves the others where they were.
LEMMA AtKept ==
  ASSUME NEW s \in Seq(Nat), NEW v \in Nat, NEW i \in DOMAIN s,
         \A j \in DOMAIN s : s[j] # v,
         \A j, m \in DOMAIN s : s[j] = s[m] => j = m
  PROVE  /\ CP!At(s, s[i]) = i
         /\ CP!At(Append(s, v), s[i]) = i
<1>1. /\ Append(s, v) \in Seq(Nat) /\ DOMAIN Append(s, v) = 1..Len(s) + 1
      /\ DOMAIN s = 1..Len(s) /\ Len(s) \in Nat
      /\ \A j \in DOMAIN s : Append(s, v)[j] = s[j]
      /\ Append(s, v)[Len(s) + 1] = v
  OBVIOUS
<1>2. CP!At(s, s[i]) = i
  BY AtWhere, <1>1
<1>3. CP!At(Append(s, v), s[i]) = i
  <2> DEFINE x == CP!At(Append(s, v), s[i])
  <2>1. x \in Nat /\ (x = 0 => \A j \in DOMAIN Append(s, v) : Append(s, v)[j] # s[i])
        /\ (x # 0 => x \in DOMAIN Append(s, v) /\ Append(s, v)[x] = s[i])
    BY AtWhere, <1>1
  <2>2. x # 0
    BY <2>1, <1>1
  <2>3. x # Len(s) + 1
    BY <2>1, <2>2, <1>1
  <2> HIDE DEF x
  <2>4. x \in DOMAIN s /\ s[x] = s[i]
    BY <2>1, <2>2, <2>3, <1>1
  <2>5. x = i
    BY <2>4
  <2> QED BY <2>5 DEF x
<1> QED BY <1>2, <1>3

LEMMA Appended ==
  ASSUME NEW S, NEW s \in Seq(S), NEW v \in S
  PROVE  /\ Append(s, v) \in Seq(S) /\ Extends(s, Append(s, v))
         /\ DOMAIN Append(s, v) = DOMAIN s \cup {Len(s) + 1}
         /\ Append(s, v)[Len(s) + 1] = v /\ Len(s) + 1 \in Nat \ {0}
         /\ Len(s) + 1 \notin DOMAIN s
         /\ \A m \in DOMAIN s : m <= Len(s) + 1 /\ m \in Nat
BY DEF Extends

-----------------------------------------------------------------------------
(* What an export writes.                                                  *)

LEMMA ReleasedIds ==
  ASSUME NEW s \in Servers, NEW r,
         pRels \in [Servers -> PackedReleases]
  PROVE  r \in CP!Released(s) <=>
           r \in PackedIds /\ r[2] \in DOMAIN pRels[s][r[1]]
<1>1. \A k \in CP!Keys : DOMAIN pRels[s][k] \subseteq Nat
  BY DEF PackedReleases
<1>2. ASSUME NEW k \in CP!Keys, r \in {k} \X DOMAIN pRels[s][k]
      PROVE  r \in PackedIds /\ r[2] \in DOMAIN pRels[s][r[1]]
  BY <1>1, <1>2 DEF PackedIds
<1>3. ASSUME r \in PackedIds, r[2] \in DOMAIN pRels[s][r[1]]
      PROVE  \E k \in CP!Keys : r \in {k} \X DOMAIN pRels[s][k]
  <2>1. r[1] \in CP!Keys /\ r = <<r[1], r[2]>>
    BY <1>3 DEF PackedIds
  <2> QED BY <1>3, <2>1
<1> QED BY <1>2, <1>3 DEF CP!Released

\* A release has a revision, whose locks are releases of the layer below.
LEMMA ReleaseOfRevision ==
  ASSUME PackedInv, NEW s \in Servers, NEW r \in CP!Released(s)
  PROVE  /\ r \in PackedIds /\ CP!RevisionOf(s, r) \in PackedRevisions
         /\ \A q \in CP!RevisionOf(s, r).locks :
              q \in CP!Released(s) /\ q[1] \in CP!DependsOn(r[1])
<1> DEFINE k == r[1]
           n == pRels[s][k][r[2]]
<1>1. Orderly(pRevs[s], pRels[s], pCurrent[s]) /\ pRels \in [Servers -> PackedReleases]
  BY DEF PackedInv
<1>2. r \in PackedIds /\ r[2] \in DOMAIN pRels[s][k] /\ k \in CP!Keys
  BY <1>1, ReleasedIds DEF PackedIds
<1>3. CP!RevisionOf(s, r) = pRevs[s][k][n]
  BY DEF CP!RevisionOf
<1>4. n \in DOMAIN pRevs[s][k] /\ pRevs[s][k] \in Seq(PackedRevisions)
  BY <1>1, <1>2 DEF Orderly, PackedHistories
<1>5. pRevs[s][k][n] \in PackedRevisions
  BY <1>4
<1>6. ASSUME NEW q \in pRevs[s][k][n].locks
      PROVE  q \in CP!Released(s) /\ q[1] \in CP!DependsOn(k)
  <2>1. q \in PackedIds
    BY <1>5 DEF PackedRevisions
  <2>2. q[1] \in CP!DependsOn(k) /\ q[2] \in DOMAIN pRels[s][q[1]]
    BY <1>1, <1>2, <1>4 DEF Orderly
  <2> QED BY <1>1, <2>1, <2>2, ReleasedIds
<1> HIDE DEF n
<1> QED BY <1>2, <1>3, <1>5, <1>6

\* A closure has the locks of all its releases.
LEMMA ClosureOf ==
  ASSUME PackedInv, NEW s \in Servers, NEW r \in CP!Released(s)
  PROVE  /\ r \in CP!Closure(s, {r}) /\ CP!Closure(s, {r}) \subseteq CP!Released(s)
         /\ \A q \in CP!Closure(s, {r}) :
              /\ CP!RevisionOf(s, q).locks \subseteq CP!Closure(s, {r})
              /\ q = r \/ CP!Layer(q[1]) < CP!Layer(r[1])
<1> DEFINE A == CP!Locked(s, {r})
           B == CP!Locked(s, A)
<1>1. CP!Closure(s, {r}) = {r} \cup A \cup B
  BY DEF CP!Closure
<1>2. A = CP!RevisionOf(s, r).locks
  BY DEF CP!Locked
<1>3. \A q : q \in B <=> \E a \in A : q \in CP!RevisionOf(s, a).locks
  BY DEF CP!Locked
<1> HIDE DEF A, B
<1>4. ASSUME NEW k, NEW d \in CP!DependsOn(k) PROVE CP!Layer(d) + 1 = CP!Layer(k)
  BY DEF CP!DependsOn
<1>5. ASSUME NEW a \in A
      PROVE  a \in CP!Released(s) /\ CP!Layer(a[1]) + 1 = CP!Layer(r[1])
  BY <1>2, <1>4, ReleaseOfRevision
<1>6. ASSUME NEW q \in B
      PROVE  q \in CP!Released(s) /\ CP!Layer(q[1]) + 2 = CP!Layer(r[1])
  <2>1. PICK a \in A : q \in CP!RevisionOf(s, a).locks
    BY <1>3
  <2>2. q \in CP!Released(s) /\ CP!Layer(q[1]) + 1 = CP!Layer(a[1])
    BY <1>4, <1>5, <2>1, ReleaseOfRevision
  <2> QED BY <1>5, <2>2, LayerOf
<1>7. ASSUME NEW q \in B PROVE CP!RevisionOf(s, q).locks = {}
  <2>1. CP!Layer(q[1]) = 0
    BY <1>6, LayerOf
  <2>2. ASSUME NEW x \in CP!RevisionOf(s, q).locks PROVE FALSE
    <3>1. CP!Layer(x[1]) + 1 = CP!Layer(q[1])
      BY <1>4, <1>6, ReleaseOfRevision
    <3> QED BY <2>1, <3>1, LayerOf
  <2> QED BY <2>2
<1>8. ASSUME NEW q \in CP!Closure(s, {r})
      PROVE  /\ q \in CP!Released(s)
             /\ CP!RevisionOf(s, q).locks \subseteq CP!Closure(s, {r})
             /\ q = r \/ CP!Layer(q[1]) < CP!Layer(r[1])
  <2>1. CASE q = r
    BY <2>1, <1>1, <1>2
  <2>2. CASE q \in A
    <3>1. q \in CP!Released(s) /\ CP!Layer(q[1]) + 1 = CP!Layer(r[1])
      BY <2>2, <1>5
    <3>2. CP!RevisionOf(s, q).locks \subseteq B
      BY <2>2, <1>3
    <3> QED BY <3>1, <3>2, <1>1, LayerOf
  <2>3. CASE q \in B
    BY <2>3, <1>1, <1>6, <1>7, LayerOf
  <2> QED BY <1>1, <2>1, <2>2, <2>3
<1> QED BY <1>1, <1>8

LEMMA EntryShape ==
  ASSUME NEW i \in PackedIds, NEW v \in PackedRevisions
  PROVE  LET e == CP!Entry(i, i[1], v) IN
         /\ e \in PackedEntries /\ e.id = i /\ e.key = i[1] /\ e.locks = v.locks
BY DEF CP!Entry, PackedEntries, PackedRevisions, PackedIds

\* What is published.
LEMMA ReleaseSendable ==
  ASSUME PackedInv, NEW s \in Servers, NEW p \in CP!ReleasePackages(s)
  PROVE  Sendable(p)
<1>1. PICK r \in CP!Released(s) :
        p = CP!Package(r, {CP!Entry(q, q[1], CP!RevisionOf(s, q)) : q \in CP!Closure(s, {r})})
  BY DEF CP!ReleasePackages
<1> DEFINE Q == CP!Closure(s, {r})
           E == {CP!Entry(q, q[1], CP!RevisionOf(s, q)) : q \in Q}
<1>2. p = [root |-> r, entries |-> E]
  BY <1>1 DEF CP!Package
<1>3. ASSUME NEW e \in E
      PROVE  \E q \in Q : /\ e = CP!Entry(q, q[1], CP!RevisionOf(s, q)) /\ e \in PackedEntries
                          /\ e.id = q /\ e.key = q[1] /\ e.locks = CP!RevisionOf(s, q).locks
  <2>1. PICK q \in Q : e = CP!Entry(q, q[1], CP!RevisionOf(s, q))
    OBVIOUS
  <2>2. q \in PackedIds /\ CP!RevisionOf(s, q) \in PackedRevisions
    BY ClosureOf, ReleaseOfRevision
  <2>3. e \in PackedEntries /\ e.id = q /\ e.key = q[1] /\ e.locks = CP!RevisionOf(s, q).locks
    BY <2>1, <2>2, EntryShape
  <2> QED BY <2>1, <2>3
<1>4. ASSUME NEW q \in Q PROVE \E e \in E : e.id = q
  <2>1. CP!Entry(q, q[1], CP!RevisionOf(s, q)) \in E
    OBVIOUS
  <2>2. CP!Entry(q, q[1], CP!RevisionOf(s, q)).id = q
    BY DEF CP!Entry
  <2> QED BY <2>1, <2>2
<1>5. /\ Q \subseteq CP!Released(s)
      /\ \A q \in Q : /\ CP!RevisionOf(s, q).locks \subseteq Q
                      /\ q = r \/ CP!Layer(q[1]) < CP!Layer(r[1])
  BY ClosureOf
<1>6. \A q \in Q : \A i \in CP!RevisionOf(s, q).locks : i[1] \in CP!DependsOn(q[1])
  BY <1>5, ReleaseOfRevision
<1>7. r \in PackedIds
  BY ReleaseOfRevision
<1> HIDE DEF E, Q
<1>8. p \in Packages /\ p.root = r /\ p.entries = E
  BY <1>2, <1>3, <1>7 DEF Packages
<1>9. ASSUME NEW e \in E
      PROVE  /\ e.key = e.id[1]
             /\ \A f \in E : f.id = e.id => f = e
             /\ \A i \in e.locks : i[1] \in CP!DependsOn(e.key) /\ \E f \in E : f.id = i
             /\ e.id = r \/ CP!Layer(e.key) < CP!Layer(r[1])
  <2>1. PICK q \in Q : /\ e = CP!Entry(q, q[1], CP!RevisionOf(s, q))
                       /\ e.id = q /\ e.key = q[1] /\ e.locks = CP!RevisionOf(s, q).locks
    BY <1>3
  <2>2. \A f \in E : f.id = e.id => f = e
    BY <1>3, <2>1
  <2>3. \A i \in e.locks : i[1] \in CP!DependsOn(e.key) /\ \E f \in E : f.id = i
    BY <1>4, <1>5, <1>6, <2>1
  <2> QED BY <1>5, <2>1, <2>2, <2>3
<1> QED BY <1>8, <1>9 DEF Sendable

\* What a draft brings: its locks are releases.
LEMMA DraftSendable ==
  ASSUME PackedInv, NEW s \in Servers, NEW p \in CP!DraftPackages(s)
  PROVE  Sendable(p)
<1>1. PICK x \in UNION {{k} \X DOMAIN pRevs[s][k] : k \in CP!Keys} :
        p = CP!DraftPackage(s, x[1], pRevs[s][x[1]][x[2]])
  BY DEF CP!DraftPackages
<1> DEFINE k == x[1]
           v == pRevs[s][k][x[2]]
<1>2. k \in CP!Keys /\ x[2] \in DOMAIN pRevs[s][k]
  OBVIOUS
<1>3. Orderly(pRevs[s], pRels[s], pCurrent[s]) /\ pRels \in [Servers -> PackedReleases]
  BY DEF PackedInv
<1>4. v \in PackedRevisions
  <2>1. pRevs[s][k] \in Seq(PackedRevisions)
    BY <1>2, <1>3 DEF Orderly, PackedHistories
  <2> QED BY <1>2, <2>1
<1>5. ASSUME NEW r \in v.locks PROVE r \in CP!Released(s) /\ r[1] \in CP!DependsOn(k)
  <2>1. r \in PackedIds
    BY <1>4 DEF PackedRevisions
  <2>2. r[1] \in CP!DependsOn(k) /\ r[2] \in DOMAIN pRels[s][r[1]]
    BY <1>2, <1>3 DEF Orderly
  <2> QED BY <1>3, <2>1, <2>2, ReleasedIds
<1> DEFINE Q == UNION {CP!Closure(s, {r}) : r \in v.locks}
           root == CP!Entry(<<k, 0>>, k, v)
           E == {root} \cup {CP!Entry(q, q[1], CP!RevisionOf(s, q)) : q \in Q}
<1>6. p = [root |-> <<k, 0>>, entries |-> E]
  BY <1>1 DEF CP!DraftPackage, CP!Package
<1>7. /\ root \in PackedEntries /\ root.id = <<k, 0>> /\ root.key = k /\ root.locks = v.locks
      /\ <<k, 0>> \in PackedIds /\ <<k, 0>>[1] = k
  BY <1>2, <1>4 DEF CP!Entry, PackedEntries, PackedRevisions, PackedIds
<1> HIDE DEF v, k
<1>8. ASSUME NEW q \in Q
      PROVE  /\ q \in CP!Released(s) /\ CP!RevisionOf(s, q).locks \subseteq Q
             /\ CP!Layer(q[1]) < CP!Layer(k)
  <2>1. PICK r \in v.locks : q \in CP!Closure(s, {r})
    OBVIOUS
  <2>2. r \in CP!Released(s) /\ CP!Layer(r[1]) + 1 = CP!Layer(k)
    BY <1>5 DEF CP!DependsOn
  <2>3. /\ q \in CP!Released(s) /\ CP!RevisionOf(s, q).locks \subseteq CP!Closure(s, {r})
        /\ q = r \/ CP!Layer(q[1]) < CP!Layer(r[1])
    BY <2>1, <2>2, ClosureOf
  <2>4. CP!Closure(s, {r}) \subseteq Q
    OBVIOUS
  <2> HIDE DEF Q
  <2>5. CP!Layer(q[1]) < CP!Layer(k)
    BY <2>2, <2>3, LayerOf
  <2> QED BY <2>3, <2>4, <2>5
<1>9. v.locks \subseteq Q
  BY <1>5, ClosureOf
<1> HIDE DEF Q
<1>10. ASSUME NEW q \in Q
       PROVE  LET e == CP!Entry(q, q[1], CP!RevisionOf(s, q)) IN
              /\ e \in E /\ e \in PackedEntries /\ e.id = q /\ e.key = q[1]
              /\ e.locks = CP!RevisionOf(s, q).locks
  <2>1. q \in PackedIds /\ CP!RevisionOf(s, q) \in PackedRevisions
    BY <1>8, ReleaseOfRevision
  <2>2. CP!Entry(q, q[1], CP!RevisionOf(s, q)) \in E
    OBVIOUS
  <2> HIDE DEF E
  <2> QED BY <2>1, <2>2, EntryShape
<1>11. ASSUME NEW e \in E
       PROVE  e = root \/ \E q \in Q :
                /\ e = CP!Entry(q, q[1], CP!RevisionOf(s, q)) /\ e \in PackedEntries
                /\ e.id = q /\ e.key = q[1] /\ e.locks = CP!RevisionOf(s, q).locks
  BY <1>10
<1>12. \A q \in Q : q \in PackedIds /\ q # <<k, 0>>
  <2>1. ASSUME NEW q \in Q PROVE q \in PackedIds /\ q # <<k, 0>>
    <3>1. q \in CP!Released(s)
      BY <1>8
    <3>2. q \in PackedIds /\ q[2] \in DOMAIN pRels[s][q[1]]
      BY <1>3, <3>1, ReleasedIds
    <3>3. q[1] \in CP!Keys /\ 0 \notin DOMAIN pRels[s][q[1]]
      BY <1>3, <3>2 DEF PackedIds, PackedReleases
    <3> QED BY <3>2, <3>3
  <2> QED BY <2>1
<1>13. \A q \in Q : \A i \in CP!RevisionOf(s, q).locks : i[1] \in CP!DependsOn(q[1])
  BY <1>8, ReleaseOfRevision
<1>14. root \in E
  OBVIOUS
<1> HIDE DEF E, root
<1>15. p \in Packages /\ p.root = <<k, 0>> /\ p.entries = E
  BY <1>6, <1>7, <1>11 DEF Packages
<1>16. ASSUME NEW e \in E
       PROVE  /\ e.key = e.id[1]
              /\ \A f \in E : f.id = e.id => f = e
              /\ \A i \in e.locks : i[1] \in CP!DependsOn(e.key) /\ \E f \in E : f.id = i
              /\ e.id = <<k, 0>> \/ CP!Layer(e.key) < CP!Layer(<<k, 0>>[1])
  <2>1. CASE e = root
    <3>1. \A f \in E : f.id = e.id => f = e
      BY <2>1, <1>7, <1>11, <1>12
    <3>2. \A i \in e.locks : i[1] \in CP!DependsOn(e.key) /\ \E f \in E : f.id = i
      BY <2>1, <1>5, <1>7, <1>9, <1>10
    <3> QED BY <2>1, <3>1, <3>2, <1>7
  <2>2. ASSUME NEW q \in Q, e = CP!Entry(q, q[1], CP!RevisionOf(s, q)),
               e.id = q, e.key = q[1], e.locks = CP!RevisionOf(s, q).locks
        PROVE  /\ e.key = e.id[1]
               /\ \A f \in E : f.id = e.id => f = e
               /\ \A i \in e.locks : i[1] \in CP!DependsOn(e.key) /\ \E f \in E : f.id = i
               /\ CP!Layer(e.key) < CP!Layer(<<k, 0>>[1])
    <3>1. \A f \in E : f.id = e.id => f = e
      BY <2>2, <1>7, <1>11, <1>12
    <3>2. \A i \in e.locks : i[1] \in CP!DependsOn(e.key) /\ \E f \in E : f.id = i
      BY <2>2, <1>8, <1>10, <1>13
    <3>3. CP!Layer(e.key) < CP!Layer(<<k, 0>>[1])
      BY <2>2, <1>7, <1>8
    <3> QED BY <2>2, <3>1, <3>2, <3>3
  <2> QED BY <1>11, <2>1, <2>2
<1> QED BY <1>15, <1>16 DEF Sendable

-----------------------------------------------------------------------------
(* What an import makes of an entry.                                       *)

NewOf(im, e) == CP!Revision(e.content, "generic", CP!Local(im, e.locks))
NumberOf(im, e) ==
  IF CP!Found(im.revs[e.key], NewOf(im, e)) = 0
    THEN Len(im.revs[e.key]) + 1 ELSE CP!Found(im.revs[e.key], NewOf(im, e))
RevsOf(im, e) ==
  IF CP!Found(im.revs[e.key], NewOf(im, e)) = 0
    THEN Append(im.revs[e.key], NewOf(im, e)) ELSE im.revs[e.key]
RelsOf(im, e) ==
  IF CP!At(im.rels[e.key], NumberOf(im, e)) = 0
    THEN CP!Kept(im.package.root, e, im.rels[e.key], NumberOf(im, e)) ELSE im.rels[e.key]
ReleaseOf(im, e) == <<e.key, CP!At(RelsOf(im, e), NumberOf(im, e))>>

TakenOf(im, e) ==
  [at |-> im.at, package |-> im.package, left |-> im.left \ {e},
   revs |-> [im.revs EXCEPT ![e.key] = RevsOf(im, e)],
   rels |-> [im.rels EXCEPT ![e.key] = RelsOf(im, e)],
   current |-> [im.current EXCEPT ![e.key] =
                  IF im.current[e.key] = 0 THEN ReleaseOf(im, e)[2] ELSE im.current[e.key]],
   local |-> [id \in DOMAIN im.local \cup {e.id} |->
                IF id = e.id THEN [revision |-> NumberOf(im, e), release |-> ReleaseOf(im, e)]
                             ELSE im.local[id]]]

\* Install, spelled out.
LEMMA TakeShape ==
  ASSUME NEW im \in OpenImports, NEW e
  PROVE  [CP!Install(im.package.root, im, e) EXCEPT !.left = @ \ {e}] = TakenOf(im, e)
<1> DEFINE n == NumberOf(im, e)
           rv == RevsOf(im, e)
           rl == RelsOf(im, e)
           x == ReleaseOf(im, e)
           c == IF im.current[e.key] = 0 THEN x[2] ELSE im.current[e.key]
           l == [id \in DOMAIN im.local \cup {e.id} |->
                   IF id = e.id THEN [revision |-> n, release |-> x] ELSE im.local[id]]
<1>1. CP!Install(im.package.root, im, e)
        = [im EXCEPT !.revs[e.key] = rv, !.rels[e.key] = rl, !.current[e.key] = c, !.local = l]
  BY DEF CP!Install, NumberOf, RevsOf, RelsOf, ReleaseOf, NewOf
<1> HIDE DEF n, rv, rl, x, c, l
<1>2. im \in [at : Servers, package : Packages, left : SUBSET PackedEntries, local : LocalMaps,
              revs : PackedHistories, rels : PackedReleases, current : PackedPointers]
  BY DEF OpenImports
<1>3. [[im EXCEPT !.revs[e.key] = rv, !.rels[e.key] = rl, !.current[e.key] = c, !.local = l]
         EXCEPT !.left = @ \ {e}]
       = [at |-> im.at, package |-> im.package, left |-> im.left \ {e},
          revs |-> [im.revs EXCEPT ![e.key] = rv], rels |-> [im.rels EXCEPT ![e.key] = rl],
          current |-> [im.current EXCEPT ![e.key] = c], local |-> l]
  <2> DEFINE X == [im EXCEPT !.revs[e.key] = rv, !.rels[e.key] = rl, !.current[e.key] = c,
                             !.local = l]
  <2> DEFINE rvs == [im.revs EXCEPT ![e.key] = rv]
             rls == [im.rels EXCEPT ![e.key] = rl]
             cur == [im.current EXCEPT ![e.key] = c]
  <2>1. X.revs = rvs
    BY <1>2
  <2>2. X.rels = rls
    BY <1>2
  <2>3. X.current = cur
    BY <1>2
  <2>4. DOMAIN X = DOMAIN im
    OBVIOUS
  <2>5. DOMAIN X = {"at", "package", "left", "local", "revs", "rels", "current"}
    BY <1>2, <2>4
  <2>6. X.at = im.at /\ X.package = im.package /\ X.left = im.left /\ X.local = l
    BY <1>2
  <2>9. X = [i \in DOMAIN X |-> X[i]]
    OBVIOUS
  <2> HIDE DEF X, rvs, rls, cur
  <2>7. X = [at |-> im.at, package |-> im.package, left |-> im.left, local |-> l,
             revs |-> rvs, rels |-> rls, current |-> cur]
    BY <2>1, <2>2, <2>3, <2>5, <2>6, <2>9
  <2>8. [X EXCEPT !.left = X.left \ {e}]
          = [at |-> im.at, package |-> im.package, left |-> im.left \ {e}, local |-> l,
             revs |-> rvs, rels |-> rls, current |-> cur]
    BY <2>7
  <2> QED BY <2>8 DEF X, rvs, rls, cur
<1> QED BY <1>1, <1>3 DEF TakenOf, n, rv, rl, x, c, l

\* The entry comes after all it locks.
NextUp(im, e) == e \in im.left /\ \A f \in im.left : CP!Layer(e.key) <= CP!Layer(f.key)

\* Its locks have become releases.
LEMMA LocksBecame ==
  ASSUME NEW im, Coming(im), NEW e, NextUp(im, e)
  PROVE  /\ e \in PackedEntries /\ e.key \in CP!Keys /\ e.id \in PackedIds /\ e.id[1] = e.key
         /\ e.locks \subseteq DOMAIN im.local
         /\ e.id \notin e.locks
         /\ \A i \in e.locks :
              LET r == im.local[i].release IN
              /\ r \in PackedIds /\ r[1] \in CP!DependsOn(e.key) /\ r[2] \in DOMAIN im.rels[r[1]]
<1> DEFINE p == im.package
<1>1. e \in p.entries /\ e \in im.left /\ Sendable(p)
  BY DEF Coming, NextUp
<1>2. e \in PackedEntries /\ e.key \in CP!Keys /\ e.id \in PackedIds /\ e.id[1] = e.key
  BY <1>1 DEF Sendable, Packages, PackedEntries
<1>3. ASSUME NEW i \in e.locks
      PROVE  LET r == im.local[i].release IN
             /\ i \in DOMAIN im.local /\ i # e.id
             /\ r \in PackedIds /\ r[1] \in CP!DependsOn(e.key) /\ r[2] \in DOMAIN im.rels[r[1]]
  <2>1. i[1] \in CP!DependsOn(e.key) /\ \E f \in p.entries : f.id = i
    BY <1>1 DEF Sendable
  <2>2. PICK f \in p.entries : f.id = i
    BY <2>1
  <2>3. f.key = i[1] /\ CP!Layer(f.key) + 1 = CP!Layer(e.key)
    BY <1>1, <2>1, <2>2 DEF Sendable, CP!DependsOn
  <2>4. CP!Layer(f.key) < CP!Layer(e.key)
    BY <2>3, LayerOf
  <2>5. f \notin im.left
    BY <2>4, LayerOf DEF NextUp
  <2>6. f.id # p.root
    <3>1. CASE e.id = p.root
      <4>1. p.root[1] = e.key
        BY <3>1, <1>2
      <4> QED BY <2>2, <2>3, <2>4, <4>1, LayerOf
    <3>2. CASE CP!Layer(e.key) < CP!Layer(p.root[1])
      BY <2>2, <2>3, <2>4, <3>2, LayerOf
    <3> QED BY <1>1, <3>1, <3>2 DEF Sendable
  <2>7. Delivered(p, im.left, im.local, im.revs, im.rels)
    BY DEF Coming
  <2>8. i \in DOMAIN im.local /\ im.local \in LocalMaps
    BY <2>2, <2>5, <2>7 DEF Delivered
  <2>9. im.local[i].release \in PackedIds
    BY <2>8 DEF LocalMaps, LocalIds
  <2>10. Became(p, f, im.local, im.revs, im.rels)
    BY <2>5, <2>7 DEF Delivered
  <2>11. im.local[i].release[1] = f.key /\ im.local[i].release[2] \in DOMAIN im.rels[f.key]
    BY <2>2, <2>6, <2>10 DEF Became
  <2>12. i # e.id
    BY <2>3, <2>4, <1>2, LayerOf
  <2> QED BY <2>1, <2>3, <2>8, <2>9, <2>11, <2>12
<1> QED BY <1>2, <1>3

\* The revision it becomes.
LEMMA RevisionTaken ==
  ASSUME NEW im, Coming(im), NEW e, NextUp(im, e)
  PROVE  LET k == e.key
             R == im.revs[k]
             n == NumberOf(im, e)
             rv == RevsOf(im, e) IN
         /\ NewOf(im, e) \in PackedRevisions
         /\ n \in Nat \ {0} /\ rv \in Seq(PackedRevisions) /\ Extends(R, rv)
         /\ n \in DOMAIN rv /\ rv[n] = NewOf(im, e)
         /\ \A m \in DOMAIN rv : m \in Nat /\ (rv[m] = NewOf(im, e) => m <= n)
         /\ \A m \in DOMAIN rv : m \in DOMAIN R \/ m = n
         /\ \A j \in DOMAIN R : (\A m \in DOMAIN R : R[m] = R[j] => m <= j)
              => \A m \in DOMAIN rv : rv[m] = rv[j] => m <= j
<1> DEFINE k == e.key
           R == im.revs[k]
           v == NewOf(im, e)
           f == CP!Found(R, v)
<1>1. /\ e \in PackedEntries /\ k \in CP!Keys /\ e.locks \subseteq DOMAIN im.local
      /\ \A i \in e.locks : im.local[i].release \in PackedIds
  BY LocksBecame
<1>2. v \in PackedRevisions
  <2>1. e.content \in PackedContents \cup {Nobody}
    BY <1>1 DEF PackedEntries
  <2>2. CP!Local(im, e.locks) \in SUBSET PackedIds
    BY <1>1 DEF CP!Local
  <2> QED BY <2>1, <2>2 DEF NewOf, CP!Revision, PackedRevisions
<1>3. R \in Seq(PackedRevisions)
  BY <1>1 DEF Coming, Orderly, PackedHistories
<1>4. /\ f \in Nat
      /\ f = 0 => \A m \in DOMAIN R : R[m] # v
      /\ f # 0 => f \in DOMAIN R /\ R[f] = v /\ \A m \in DOMAIN R : R[m] = v => m <= f
  BY <1>3, FoundLatest
<1>5. \A m \in DOMAIN R : m \in Nat \ {0}
  BY <1>3
<1>6. CASE f = 0
  <2>1. NumberOf(im, e) = Len(R) + 1 /\ RevsOf(im, e) = Append(R, v)
    BY <1>6 DEF NumberOf, RevsOf
  <2> HIDE DEF v, f, R
  <2>2. /\ Append(R, v) \in Seq(PackedRevisions) /\ Extends(R, Append(R, v))
        /\ DOMAIN Append(R, v) = DOMAIN R \cup {Len(R) + 1}
        /\ Append(R, v)[Len(R) + 1] = v /\ Len(R) + 1 \in Nat \ {0}
        /\ Len(R) + 1 \notin DOMAIN R
        /\ \A m \in DOMAIN R : m <= Len(R) + 1 /\ m \in Nat
    BY <1>2, <1>3, Appended
  <2>3. \A m \in DOMAIN Append(R, v) : m \in Nat /\ m <= Len(R) + 1
    BY <2>2
  <2>4. ASSUME NEW j \in DOMAIN R, \A m \in DOMAIN R : R[m] = R[j] => m <= j,
               NEW m \in DOMAIN Append(R, v), Append(R, v)[m] = Append(R, v)[j]
        PROVE  m <= j
    <3>1. Append(R, v)[j] = R[j]
      BY <2>2 DEF Extends
    <3>2. m # Len(R) + 1
      BY <1>4, <1>6, <2>2, <2>4, <3>1
    <3>3. m \in DOMAIN R /\ Append(R, v)[m] = R[m]
      BY <2>2, <3>2 DEF Extends
    <3> QED BY <2>4, <3>1, <3>3
  <2> HIDE DEF k
  <2> QED BY <1>2, <2>1, <2>2, <2>3, <2>4 DEF k, v, R
<1>7. CASE f # 0
  <2>1. NumberOf(im, e) = f /\ RevsOf(im, e) = R
    BY <1>7 DEF NumberOf, RevsOf
  <2>2. Extends(R, R)
    BY DEF Extends
  <2> HIDE DEF f
  <2> QED BY <1>2, <1>3, <1>4, <1>5, <1>7, <2>1, <2>2
<1> QED BY <1>6, <1>7

\* Its release: the root gets none.
LEMMA ReleaseTaken ==
  ASSUME NEW im, Coming(im), NEW e, NextUp(im, e)
  PROVE  LET L == im.rels[e.key]
             n == NumberOf(im, e)
             rl == RelsOf(im, e)
             x == ReleaseOf(im, e) IN
         /\ rl \in Seq(Nat) /\ Extends(L, rl)
         /\ \A i \in DOMAIN rl : i \in DOMAIN L \/ rl[i] = n
         /\ \A i, j \in DOMAIN rl : rl[i] = rl[j] => i = j
         /\ e.id = im.package.root => rl = L
         /\ e.id # im.package.root => x[2] \in DOMAIN rl /\ rl[x[2]] = n
         /\ x \in PackedIds /\ x = <<e.key, CP!At(rl, n)>> /\ x[1] = e.key
         /\ x[2] = 0 => rl = L
         /\ L = << >> /\ x[2] = 0 => rl = << >>
         /\ \A i \in DOMAIN L : CP!At(L, L[i]) = i /\ CP!At(rl, L[i]) = i
<1> DEFINE k == e.key
           L == im.rels[k]
           n == NumberOf(im, e)
           rl == RelsOf(im, e)
           a == CP!At(L, n)
<1>1. k \in CP!Keys /\ n \in Nat \ {0}
  BY LocksBecame, RevisionTaken
<1>2. L \in Seq(Nat) /\ \A i, j \in DOMAIN L : L[i] = L[j] => i = j
  BY <1>1 DEF Coming, Orderly, PackedReleases
<1>3. /\ a \in Nat /\ (a = 0 => \A i \in DOMAIN L : L[i] # n)
      /\ a # 0 => a \in DOMAIN L /\ L[a] = n
  BY <1>2, AtWhere
<1>4. ReleaseOf(im, e) = <<k, CP!At(rl, n)>>
  BY DEF ReleaseOf
<1>5. \A i \in DOMAIN L : CP!At(L, L[i]) = i
  <2>1. ASSUME NEW i \in DOMAIN L PROVE CP!At(L, L[i]) = i
    <3>1. /\ CP!At(L, L[i]) = 0 => \A j \in DOMAIN L : L[j] # L[i]
          /\ CP!At(L, L[i]) # 0 => CP!At(L, L[i]) \in DOMAIN L /\ L[CP!At(L, L[i])] = L[i]
      BY <1>2, AtWhere
    <3> HIDE DEF L
    <3> QED BY <1>2, <3>1
  <2> QED BY <2>1
<1> HIDE DEF n, a
<1>6. CASE a # 0 \/ e.id = im.package.root
  <2>1. rl = L
    BY <1>6 DEF RelsOf, CP!Kept, a, n
  <2>2. Extends(L, L)
    BY DEF Extends
  <2>3. CP!At(L, n) = a
    BY DEF a
  <2> HIDE DEF rl, L, k
  <2>4. ReleaseOf(im, e) \in PackedIds
    BY <1>1, <1>3, <1>4, <2>1, <2>3 DEF PackedIds
  <2> QED BY <1>1, <1>2, <1>3, <1>4, <1>5, <1>6, <2>1, <2>2, <2>3, <2>4 DEF rl, L, k, n
<1>7. CASE a = 0 /\ e.id # im.package.root
  <2>1. rl = Append(L, n)
    BY <1>7 DEF RelsOf, CP!Kept, a, n
  <2> DEFINE t == Append(L, n)
             y == CP!At(t, n)
  <2>2. /\ t \in Seq(Nat) /\ Extends(L, t) /\ DOMAIN t = DOMAIN L \cup {Len(L) + 1}
        /\ t[Len(L) + 1] = n /\ Len(L) + 1 \notin DOMAIN L
    <3> HIDE DEF L, y, k
    <3> QED BY <1>1, <1>2, Appended
  <2>3. \A i \in DOMAIN L : L[i] # n
    BY <1>3, <1>7
  <2>4. \A i \in DOMAIN L : CP!At(t, L[i]) = i
    BY <1>1, <1>2, <2>3, AtKept
  <2>5. y \in Nat /\ y # 0 /\ y \in DOMAIN t /\ t[y] = n
    <3>1. /\ y \in Nat /\ (y = 0 => \A i \in DOMAIN t : t[i] # n)
          /\ y # 0 => y \in DOMAIN t /\ t[y] = n
      BY <2>2, AtWhere
    <3> HIDE DEF y, t
    <3> QED BY <2>2, <3>1
  <2> HIDE DEF y
  <2>6. \A i, j \in DOMAIN t : t[i] = t[j] => i = j
    <3> HIDE DEF t, L
    <3> QED BY <1>2, <2>2, <2>3 DEF Extends
  <2>7. \A i \in DOMAIN t : i \in DOMAIN L \/ t[i] = n
    <3> HIDE DEF t, L
    <3> QED BY <2>2
  <2>8. ReleaseOf(im, e) = <<k, y>> /\ <<k, y>> \in PackedIds
    BY <1>1, <1>4, <2>1, <2>5 DEF PackedIds, y
  <2>9. <<k, y>>[1] = k /\ <<k, y>>[2] = y /\ y = CP!At(t, n)
    BY DEF y
  <2> HIDE DEF rl, L, k, t
  <2> QED BY <1>5, <1>7, <2>1, <2>2, <2>4, <2>5, <2>6, <2>7, <2>8, <2>9 DEF rl, L, k, n, t
<1> QED BY <1>6, <1>7

\* What was delivered stays, whatever is added.
LEMMA BecameStays ==
  ASSUME NEW p, NEW f, NEW l, NEW R, NEW L, NEW l2, NEW R2, NEW L2,
         Became(p, f, l, R, L), f.id \in DOMAIN l,
         Extends(R[f.key], R2[f.key]), Extends(L[f.key], L2[f.key]),
         DOMAIN l \subseteq DOMAIN l2, \A i \in DOMAIN l : l2[i] = l[i]
  PROVE  Became(p, f, l2, R2, L2)
<1>1. l2[f.id] = l[f.id] /\ f.locks \subseteq DOMAIN l2
  BY DEF Became
<1>2. {l2[i].release : i \in f.locks} = {l[i].release : i \in f.locks}
  BY DEF Became
<1>3. /\ l2[f.id].revision \in DOMAIN R2[f.key]
      /\ R2[f.key][l2[f.id].revision] = R[f.key][l[f.id].revision]
  BY <1>1 DEF Became, Extends
<1>4. R2[f.key][l2[f.id].revision]
        = CP!Revision(f.content, "generic", {l2[i].release : i \in f.locks})
  BY <1>2, <1>3 DEF Became
<1>5. l2[f.id].release[1] = f.key
  BY <1>1 DEF Became
<1>6. f.id # p.root => /\ l2[f.id].release[2] \in DOMAIN L2[f.key]
                       /\ L2[f.key][l2[f.id].release[2]] = l2[f.id].revision
  BY <1>1 DEF Became, Extends
<1> QED BY <1>1, <1>3, <1>4, <1>5, <1>6 DEF Became

\* What it leaves of the catalogue.
LEMMA TakenCatalogue ==
  ASSUME NEW im, Coming(im), NEW e, NextUp(im, e)
  PROVE  /\ TakenOf(im, e).revs \in PackedHistories /\ TakenOf(im, e).rels \in PackedReleases
         /\ TakenOf(im, e).current \in PackedPointers
         /\ TakenOf(im, e).revs[e.key] = RevsOf(im, e)
         /\ TakenOf(im, e).rels[e.key] = RelsOf(im, e)
         /\ im.current[e.key] = 0 => TakenOf(im, e).current[e.key] = ReleaseOf(im, e)[2]
         /\ im.current[e.key] # 0 => TakenOf(im, e).current[e.key] = im.current[e.key]
         /\ \A d \in CP!Keys : d # e.key => /\ TakenOf(im, e).revs[d] = im.revs[d]
                                            /\ TakenOf(im, e).rels[d] = im.rels[d]
                                            /\ TakenOf(im, e).current[d] = im.current[d]
<1> DEFINE w == TakenOf(im, e)
           k == e.key
           rv == RevsOf(im, e)
           rl == RelsOf(im, e)
           x == ReleaseOf(im, e)
           c == IF im.current[k] = 0 THEN x[2] ELSE im.current[k]
<1>1. /\ w.revs = [im.revs EXCEPT ![k] = rv] /\ w.rels = [im.rels EXCEPT ![k] = rl]
      /\ w.current = [im.current EXCEPT ![k] = c]
  BY DEF TakenOf
<1> HIDE DEF w
<1>2. k \in CP!Keys
  BY LocksBecame
<1>3. rv \in Seq(PackedRevisions)
  BY RevisionTaken
<1>4. rl \in Seq(Nat) /\ x \in PackedIds
  BY ReleaseTaken
<1>5. /\ im.revs \in PackedHistories /\ im.rels \in PackedReleases
      /\ im.current \in PackedPointers
  BY DEF Coming, Orderly
<1>6. c \in Nat
  BY <1>2, <1>4, <1>5 DEF PackedIds, PackedPointers
<1> HIDE DEF rv, rl, x, c, k
<1>7. /\ w.revs \in PackedHistories /\ w.revs[k] = rv
      /\ \A d \in CP!Keys : d # k => w.revs[d] = im.revs[d]
  BY <1>1, <1>2, <1>3, <1>5 DEF PackedHistories
<1>8. /\ w.rels \in PackedReleases /\ w.rels[k] = rl
      /\ \A d \in CP!Keys : d # k => w.rels[d] = im.rels[d]
  BY <1>1, <1>2, <1>4, <1>5 DEF PackedReleases
<1>9. /\ w.current \in PackedPointers /\ w.current[k] = c
      /\ \A d \in CP!Keys : d # k => w.current[d] = im.current[d]
  BY <1>1, <1>2, <1>5, <1>6 DEF PackedPointers
<1> QED BY <1>7, <1>8, <1>9 DEF w, k, rv, rl, x, c

\* The other fields of what is taken.
LEMMA TakenFields ==
  ASSUME NEW im, Coming(im), NEW e, NextUp(im, e)
  PROVE  LET w == TakenOf(im, e) IN
         /\ w.at = im.at /\ w.package = im.package /\ w.left = im.left \ {e}
         /\ w.local \in LocalMaps /\ DOMAIN w.local = DOMAIN im.local \cup {e.id}
         /\ w.local[e.id] = [revision |-> NumberOf(im, e), release |-> ReleaseOf(im, e)]
         /\ e.id \notin DOMAIN im.local
         /\ \A i \in DOMAIN im.local : w.local[i] = im.local[i]
<1> DEFINE w == TakenOf(im, e)
           n == NumberOf(im, e)
           x == ReleaseOf(im, e)
           l == [id \in DOMAIN im.local \cup {e.id} |->
                   IF id = e.id THEN [revision |-> n, release |-> x] ELSE im.local[id]]
<1>1. w.at = im.at /\ w.package = im.package /\ w.left = im.left \ {e} /\ w.local = l
  BY DEF TakenOf
<1> HIDE DEF w
<1>2. e.id \in PackedIds
  BY LocksBecame
<1>3. n \in Nat /\ x \in PackedIds
  BY RevisionTaken, ReleaseTaken
<1>4. im.local \in LocalMaps
  BY DEF Coming, Delivered
<1>5. e.id \notin DOMAIN im.local
  <2>1. DOMAIN im.local = {f.id : f \in im.package.entries \ im.left} /\ e \in im.left
        /\ im.left \subseteq im.package.entries
    BY DEF Coming, Delivered, NextUp
  <2>2. \A f \in im.package.entries : f.id = e.id => f = e
    BY <2>1 DEF Coming, Sendable
  <2> QED BY <2>1, <2>2
<1> HIDE DEF n, x
<1>6. /\ DOMAIN l = DOMAIN im.local \cup {e.id}
      /\ l[e.id] = [revision |-> n, release |-> x]
      /\ \A i \in DOMAIN im.local : l[i] = im.local[i]
  BY <1>5
<1>7. l \in LocalMaps
  <2>1. PICK D \in SUBSET PackedIds : im.local \in [D -> LocalIds]
    BY <1>4 DEF LocalMaps
  <2>2. [revision |-> n, release |-> x] \in LocalIds
    BY <1>3 DEF LocalIds
  <2>3. l \in [D \cup {e.id} -> LocalIds]
    BY <2>1, <2>2
  <2>4. D \cup {e.id} \in SUBSET PackedIds
    BY <1>2
  <2> HIDE DEF l
  <2> QED BY <2>3, <2>4 DEF LocalMaps
<1> HIDE DEF l
<1> QED BY <1>1, <1>5, <1>6, <1>7 DEF w, n, x

LEMMA TakeOrderly ==
  ASSUME NEW im, Coming(im), NEW e, NextUp(im, e)
  PROVE  LET w == TakenOf(im, e) IN
         /\ Orderly(w.revs, w.rels, w.current)
         /\ \A k \in CP!Keys : /\ Extends(im.revs[k], w.revs[k]) /\ Extends(im.rels[k], w.rels[k])
<1> DEFINE w == TakenOf(im, e)
           k == e.key
           R == im.revs
           L == im.rels
           n == NumberOf(im, e)
<1>1. /\ w.revs \in PackedHistories /\ w.rels \in PackedReleases /\ w.current \in PackedPointers
      /\ w.revs[k] = RevsOf(im, e) /\ w.rels[k] = RelsOf(im, e)
      /\ im.current[k] = 0 => w.current[k] = ReleaseOf(im, e)[2]
      /\ im.current[k] # 0 => w.current[k] = im.current[k]
      /\ \A d \in CP!Keys : d # k => /\ w.revs[d] = im.revs[d] /\ w.rels[d] = im.rels[d]
                                     /\ w.current[d] = im.current[d]
  <2>1. /\ w.revs \in PackedHistories /\ w.rels \in PackedReleases
        /\ w.revs[k] = RevsOf(im, e) /\ w.rels[k] = RelsOf(im, e)
        /\ \A d \in CP!Keys : d # k => w.revs[d] = im.revs[d] /\ w.rels[d] = im.rels[d]
    BY TakenCatalogue
  <2>2. w.current \in PackedPointers
    BY TakenCatalogue
  <2>3. im.current[k] = 0 => w.current[k] = ReleaseOf(im, e)[2]
    BY TakenCatalogue
  <2>4. im.current[k] # 0 => w.current[k] = im.current[k]
    BY TakenCatalogue
  <2>5. ASSUME NEW d \in CP!Keys, d # k PROVE w.current[d] = im.current[d]
    BY <2>5, TakenCatalogue
  <2> QED BY <2>1, <2>2, <2>3, <2>4, <2>5
<1>2. /\ Extends(R[k], w.revs[k])
      /\ n \in DOMAIN w.revs[k] /\ w.revs[k][n] = NewOf(im, e)
      /\ \A m \in DOMAIN w.revs[k] : m \in DOMAIN R[k] \/ m = n
  BY <1>1, RevisionTaken
<1>3. /\ Extends(L[k], w.rels[k])
      /\ \A i \in DOMAIN w.rels[k] : i \in DOMAIN L[k] \/ w.rels[k][i] = n
      /\ \A i, j \in DOMAIN w.rels[k] : w.rels[k][i] = w.rels[k][j] => i = j
      /\ L[k] = << >> /\ ReleaseOf(im, e)[2] = 0 => w.rels[k] = << >>
      /\ ReleaseOf(im, e)[2] = 0 => w.rels[k] = L[k]
      /\ w.rels[k] \in Seq(Nat)
  BY <1>1, ReleaseTaken
<1>4. /\ k \in CP!Keys
      /\ \A i \in e.locks :
           LET r == im.local[i].release IN
           r \in PackedIds /\ r[1] \in CP!DependsOn(k) /\ r[2] \in DOMAIN L[r[1]]
  BY LocksBecame
<1>5. Orderly(R, L, im.current)
  BY DEF Coming
<1> HIDE DEF w, k, n
<1>6. \A d \in CP!Keys : Extends(R[d], w.revs[d]) /\ Extends(L[d], w.rels[d])
  BY <1>1, <1>2, <1>3 DEF Extends
<1>7. ASSUME NEW d \in CP!Keys
      PROVE  /\ \A i \in DOMAIN w.rels[d] : w.rels[d][i] \in DOMAIN w.revs[d]
             /\ \A i, j \in DOMAIN w.rels[d] : w.rels[d][i] = w.rels[d][j] => i = j
             /\ w.current[d] = 0 => w.rels[d] = << >>
  <2>1. CASE d # k
    <3>1. w.revs[d] = R[d] /\ w.rels[d] = L[d] /\ w.current[d] = im.current[d]
      BY <1>1, <2>1
    <3> QED BY <3>1, <1>5 DEF Orderly
  <2>2. CASE d = k
    <3>1. \A i \in DOMAIN w.rels[k] : w.rels[k][i] \in DOMAIN w.revs[k]
      BY <1>2, <1>3, <1>4, <1>5 DEF Extends, Orderly
    <3>2. w.current[k] = 0 => w.rels[k] = << >>
      BY <1>1, <1>3, <1>4, <1>5 DEF Orderly
    <3> QED BY <2>2, <1>3, <3>1, <3>2
  <2> QED BY <2>1, <2>2
<1>8. ASSUME NEW d \in CP!Keys, NEW m \in DOMAIN w.revs[d], NEW r \in w.revs[d][m].locks
      PROVE  r[1] \in CP!DependsOn(d) /\ r[2] \in DOMAIN w.rels[r[1]]
  <2>1. CASE m \in DOMAIN R[d] /\ w.revs[d][m] = R[d][m]
    <3>1. r[1] \in CP!DependsOn(d) /\ r[2] \in DOMAIN L[r[1]]
      BY <2>1, <1>5, <1>8 DEF Orderly
    <3>2. r[1] \in CP!Keys
      BY <3>1 DEF CP!DependsOn
    <3> QED BY <3>1, <3>2, <1>6 DEF Extends
  <2>2. CASE d = k /\ m = n
    <3>1. w.revs[d][m].locks = {im.local[i].release : i \in e.locks}
      BY <2>2, <1>2 DEF NewOf, CP!Revision, CP!Local
    <3>2. PICK i \in e.locks : r = im.local[i].release
      BY <3>1, <1>8
    <3>3. r[1] \in CP!DependsOn(d) /\ r[2] \in DOMAIN L[r[1]]
      BY <2>2, <3>2, <1>4
    <3>4. r[1] \in CP!Keys
      BY <3>3 DEF CP!DependsOn
    <3> QED BY <3>3, <3>4, <1>6 DEF Extends
  <2> QED BY <2>1, <2>2, <1>1, <1>2, <1>8 DEF Extends
<1>9. Orderly(w.revs, w.rels, w.current)
  BY <1>1, <1>7, <1>8 DEF Orderly
<1> QED BY <1>6, <1>9 DEF w

\* Everything else stays as it was delivered, and the entry is what it is to be.
LEMMA TakeDelivers ==
  ASSUME NEW im, Coming(im), NEW e, NextUp(im, e)
  PROVE  LET w == TakenOf(im, e) IN
         /\ Delivered(w.package, w.left, w.local, w.revs, w.rels)
         /\ Settled(w.package, w.left, w.local, w.revs, w.rels)
<1> DEFINE w == TakenOf(im, e)
           p == im.package
           k == e.key
           n == NumberOf(im, e)
           x == ReleaseOf(im, e)
<1>1. /\ w.package = p /\ w.left = im.left \ {e} /\ w.local \in LocalMaps
      /\ w.revs[k] = RevsOf(im, e) /\ w.rels[k] = RelsOf(im, e)
      /\ \A d \in CP!Keys : d # k => w.revs[d] = im.revs[d] /\ w.rels[d] = im.rels[d]
      /\ DOMAIN w.local = DOMAIN im.local \cup {e.id}
      /\ w.local[e.id] = [revision |-> n, release |-> x]
      /\ e.id \notin DOMAIN im.local
      /\ \A i \in DOMAIN im.local : w.local[i] = im.local[i]
  BY TakenFields, TakenCatalogue
<1>2. \A d \in CP!Keys : Extends(im.revs[d], w.revs[d]) /\ Extends(im.rels[d], w.rels[d])
  BY TakeOrderly
<1>3. /\ k \in CP!Keys /\ e.id[1] = k /\ e.locks \subseteq DOMAIN im.local /\ e.id \notin e.locks
  BY LocksBecame
<1>4. /\ n \in DOMAIN w.revs[k] /\ w.revs[k][n] = NewOf(im, e)
      /\ \A m \in DOMAIN w.revs[k] : m \in Nat /\ (w.revs[k][m] = NewOf(im, e) => m <= n)
      /\ \A j \in DOMAIN im.revs[k] :
           (\A m \in DOMAIN im.revs[k] : im.revs[k][m] = im.revs[k][j] => m <= j)
             => \A m \in DOMAIN w.revs[k] : w.revs[k][m] = w.revs[k][j] => m <= j
  BY <1>1, RevisionTaken
<1>5. /\ e.id = p.root => w.rels[k] = im.rels[k]
      /\ e.id # p.root => x[2] \in DOMAIN w.rels[k] /\ w.rels[k][x[2]] = n
      /\ x = <<k, CP!At(w.rels[k], n)>> /\ x[1] = k
      /\ \A i \in DOMAIN im.rels[k] :
           /\ CP!At(im.rels[k], im.rels[k][i]) = i
           /\ CP!At(w.rels[k], im.rels[k][i]) = i
  BY <1>1, ReleaseTaken
<1>6. /\ Sendable(p) /\ im.left \subseteq p.entries /\ e \in im.left
      /\ Delivered(p, im.left, im.local, im.revs, im.rels)
      /\ Settled(p, im.left, im.local, im.revs, im.rels)
  BY DEF Coming, NextUp
<1>7. p.entries \ w.left = (p.entries \ im.left) \cup {e}
  BY <1>1, <1>6
<1>8. CP!Local(im, e.locks) = {im.local[i].release : i \in e.locks}
  BY DEF CP!Local
<1> HIDE DEF w, p, k, n, x
<1>9. Became(p, e, w.local, w.revs, w.rels)
  <2>1. {w.local[i].release : i \in e.locks} = {im.local[i].release : i \in e.locks}
    BY <1>1, <1>3
  <2>2. w.revs[k][n] = CP!Revision(e.content, "generic", {w.local[i].release : i \in e.locks})
    BY <1>4, <1>8, <2>1 DEF NewOf
  <2>3. w.local[e.id].revision = n /\ w.local[e.id].release = x
    BY <1>1
  <2>4. e.locks \subseteq DOMAIN w.local
    BY <1>1, <1>3
  <2> QED BY <2>2, <2>3, <2>4, <1>4, <1>5 DEF Became, k
<1>10. ASSUME NEW f \in p.entries \ im.left
       PROVE  /\ f.key \in CP!Keys /\ f.id \in DOMAIN im.local
              /\ Became(p, f, im.local, im.revs, im.rels)
              /\ Became(p, f, w.local, w.revs, w.rels)
  <2>1. f.key \in CP!Keys
    BY <1>6 DEF Sendable, Packages, PackedEntries
  <2>2. f.id \in DOMAIN im.local /\ Became(p, f, im.local, im.revs, im.rels)
    BY <1>6 DEF Delivered
  <2>3. Became(p, f, w.local, w.revs, w.rels)
    BY <1>1, <1>2, <2>1, <2>2, BecameStays
  <2> QED BY <2>1, <2>2, <2>3
<1>11. DOMAIN w.local = {f.id : f \in p.entries \ w.left}
  BY <1>1, <1>6, <1>7 DEF Delivered
<1>12. Delivered(p, w.left, w.local, w.revs, w.rels)
  BY <1>1, <1>7, <1>9, <1>10, <1>11 DEF Delivered
<1>13. FoundAgain(e, w.local[e.id], w.revs, w.rels)
  <2>1. w.local[e.id].revision = n /\ w.local[e.id].release = x
    BY <1>1
  <2> QED BY <2>1, <1>4, <1>5 DEF FoundAgain, k
<1>14. ASSUME NEW f \in p.entries \ im.left
       PROVE  FoundAgain(f, w.local[f.id], w.revs, w.rels)
  <2>1. FoundAgain(f, im.local[f.id], im.revs, im.rels)
    BY <1>6 DEF Settled
  <2>2. f.key \in CP!Keys /\ w.local[f.id] = im.local[f.id]
    BY <1>1, <1>10
  <2>3. CASE f.key # k
    <3>1. w.revs[f.key] = im.revs[f.key] /\ w.rels[f.key] = im.rels[f.key]
      BY <1>1, <2>2, <2>3
    <3> QED BY <2>1, <2>2, <3>1 DEF FoundAgain
  <2>4. CASE f.key = k
    <3> DEFINE j == im.local[f.id].revision
               y == im.local[f.id].release
    <3>1. j \in DOMAIN im.revs[k]
      BY <1>10, <2>4 DEF Became
    <3>2. \A m \in DOMAIN im.revs[k] : im.revs[k][m] = im.revs[k][j] => m <= j
      BY <2>1, <2>4 DEF FoundAgain
    <3>3. \A m \in DOMAIN w.revs[k] : w.revs[k][m] = w.revs[k][j] => m <= j
      BY <1>4, <3>1, <3>2
    <3>4. y = <<k, CP!At(im.rels[k], j)>>
      BY <2>1, <2>4 DEF FoundAgain
    <3>5. CP!At(w.rels[k], j) = CP!At(im.rels[k], j)
      <4>1. CASE f.id # p.root
        <5>1. y[2] \in DOMAIN im.rels[k] /\ im.rels[k][y[2]] = j
          BY <1>10, <2>4, <4>1 DEF Became
        <5> HIDE DEF y, j
        <5> QED BY <5>1, <1>5
      <4>2. CASE f.id = p.root
        <5>1. p.root[1] = k
          BY <4>2, <2>4, <1>6 DEF Sendable
        <5>2. e.id = p.root
          <6>1. e.key = k /\ (e.id = p.root \/ CP!Layer(e.key) < CP!Layer(p.root[1]))
            BY <1>6 DEF Sendable, k
          <6> QED BY <6>1, <5>1, LayerOf
        <5> QED BY <5>2, <1>5
      <4> QED BY <4>1, <4>2
    <3> HIDE DEF j, y
    <3> QED BY <2>2, <2>4, <3>3, <3>4, <3>5 DEF FoundAgain, j, y
  <2> QED BY <2>3, <2>4
<1>15. Settled(p, w.left, w.local, w.revs, w.rels)
  BY <1>7, <1>13, <1>14 DEF Settled
<1> QED BY <1>1, <1>12, <1>15 DEF w

LEMMA TakeComing ==
  ASSUME NEW im, Coming(im), NEW e, NextUp(im, e)
  PROVE  Coming(TakenOf(im, e))
<1> DEFINE w == TakenOf(im, e)
<1>1. /\ w.at = im.at /\ w.package = im.package /\ w.left = im.left \ {e}
      /\ w.revs \in PackedHistories /\ w.rels \in PackedReleases
      /\ w.current \in PackedPointers /\ w.local \in LocalMaps
  <2>1. w.at = im.at /\ w.package = im.package /\ w.left = im.left \ {e}
    BY DEF TakenOf
  <2>2. /\ w.revs \in PackedHistories /\ w.rels \in PackedReleases
        /\ w.current \in PackedPointers /\ w.local \in LocalMaps
    BY TakenFields, TakenCatalogue
  <2> QED BY <2>1, <2>2
<1>2. im \in OpenImports /\ Sendable(im.package) /\ im.left \subseteq im.package.entries
  BY DEF Coming
<1>3. w \in OpenImports
  <2>1. w = [at |-> w.at, package |-> w.package, left |-> w.left, revs |-> w.revs,
             rels |-> w.rels, current |-> w.current, local |-> w.local]
    BY DEF TakenOf
  <2>2. w.at \in Servers /\ w.package \in Packages /\ w.left \in SUBSET PackedEntries
    BY <1>1, <1>2 DEF OpenImports
  <2> HIDE DEF w
  <2> QED BY <1>1, <2>1, <2>2 DEF OpenImports
<1>4. Orderly(w.revs, w.rels, w.current)
  BY TakeOrderly
<1>5. /\ Delivered(w.package, w.left, w.local, w.revs, w.rels)
      /\ Settled(w.package, w.left, w.local, w.revs, w.rels)
  BY TakeDelivers
<1> HIDE DEF w
<1>6. Coming(w)
  BY <1>1, <1>2, <1>3, <1>4, <1>5 DEF Coming
<1> QED BY <1>6 DEF w

\* It publishes nothing.
LEMMA TakeQuiet ==
  ASSUME NEW im, Coming(im), NEW e, NextUp(im, e), NEW L, NEW C, StillUnpublished(im, L, C)
  PROVE  StillUnpublished(TakenOf(im, e), L, C)
<1> DEFINE w == TakenOf(im, e)
           k == e.key
           z == im.package.root[1]
<1>1. /\ w.package = im.package /\ w.rels[k] = RelsOf(im, e)
      /\ im.current[k] = 0 => w.current[k] = ReleaseOf(im, e)[2]
      /\ im.current[k] # 0 => w.current[k] = im.current[k]
      /\ \A d \in CP!Keys : d # k => /\ w.rels[d] = im.rels[d] /\ w.current[d] = im.current[d]
  <2>1. /\ w.rels[k] = RelsOf(im, e)
        /\ \A d \in CP!Keys : d # k => w.rels[d] = im.rels[d]
    BY TakenCatalogue
  <2>2. w.package = im.package
    BY DEF TakenOf
  <2>3. im.current[k] = 0 => w.current[k] = ReleaseOf(im, e)[2]
    BY TakenCatalogue
  <2>4. im.current[k] # 0 => w.current[k] = im.current[k]
    BY TakenCatalogue
  <2>5. ASSUME NEW d \in CP!Keys, d # k PROVE w.current[d] = im.current[d]
    BY <2>5, TakenCatalogue
  <2> QED BY <2>1, <2>2, <2>3, <2>4, <2>5
<1>2. k \in CP!Keys /\ e.id[1] = k
  BY LocksBecame
<1>3. /\ e.id = im.package.root => w.rels[k] = im.rels[k]
      /\ ReleaseOf(im, e) = <<k, CP!At(w.rels[k], NumberOf(im, e))>>
  BY <1>1, ReleaseTaken
<1>4. e \in im.package.entries /\ Sendable(im.package) /\ Orderly(im.revs, im.rels, im.current)
  BY DEF Coming, NextUp
<1>5. k = z => e.id = im.package.root
  BY <1>4, LayerOf DEF Sendable
<1>6. z \in CP!Keys
  BY <1>4 DEF Sendable, Packages, PackedIds
<1> HIDE DEF w, k, z
<1>7. w.rels[z] = im.rels[z] /\ w.current[z] = im.current[z]
  <2>1. CASE z # k
    BY <2>1, <1>1, <1>6
  <2>2. CASE z = k
    <3>1. w.rels[k] = im.rels[k]
      BY <2>2, <1>3, <1>5
    <3>2. CASE im.current[k] = 0
      <4>1. w.rels[k] = << >>
        BY <3>1, <3>2, <1>2, <1>4 DEF Orderly
      <4>2. CP!At(w.rels[k], NumberOf(im, e)) = 0
        BY <4>1 DEF CP!At
      <4> QED BY <2>2, <3>1, <3>2, <4>2, <1>1, <1>3
    <3>3. CASE im.current[k] # 0
      BY <2>2, <3>1, <3>3, <1>1
    <3> QED BY <3>2, <3>3
  <2> QED BY <2>1, <2>2
<1>8. ASSUME NEW d \in CP!Keys, w.current[d] # C[d] PROVE C[d] = 0
  <2>1. CASE im.current[d] # C[d]
    BY <2>1 DEF StillUnpublished
  <2>2. CASE im.current[d] = C[d]
    <3>1. d = k /\ im.current[k] = 0
      BY <1>1, <1>8, <2>2
    <3> QED BY <2>2, <3>1
  <2> QED BY <2>1, <2>2
<1>9. /\ w.rels[z] = L[z] /\ w.current[z] = C[z]
  BY <1>7 DEF StillUnpublished, z
<1>10. StillUnpublished(w, L, C)
  BY <1>1, <1>8, <1>9 DEF StillUnpublished, z
<1> QED BY <1>10 DEF w

\* A repeated import finds what it made before.
LEMMA TakeRepeats ==
  ASSUME NEW im, Coming(im), NEW e, NextUp(im, e), NEW a,
         Came(a, im.revs, im.rels), Repeats(im, a, im.revs, im.rels)
  PROVE  Repeats(TakenOf(im, e), a, im.revs, im.rels)
<1> DEFINE w == TakenOf(im, e)
           k == e.key
           n == NumberOf(im, e)
           x == ReleaseOf(im, e)
           l == a.local[e.id]
<1>1. /\ w.at = im.at /\ w.package = im.package
      /\ w.revs \in PackedHistories /\ w.rels \in PackedReleases
      /\ w.revs[k] = RevsOf(im, e) /\ w.rels[k] = RelsOf(im, e)
      /\ \A d \in CP!Keys : d # k => w.revs[d] = im.revs[d] /\ w.rels[d] = im.rels[d]
      /\ DOMAIN w.local = DOMAIN im.local \cup {e.id}
      /\ w.local[e.id] = [revision |-> n, release |-> x]
      /\ \A i \in DOMAIN im.local : w.local[i] = im.local[i]
  BY TakenFields, TakenCatalogue
<1>2. k \in CP!Keys /\ e.locks \subseteq DOMAIN im.local
  BY LocksBecame
<1>3. /\ a.package = im.package /\ a.at = im.at /\ a.untouched
      /\ \A i \in DOMAIN im.local : im.local[i] = a.local[i]
  BY DEF Repeats
<1>4. e \in a.package.entries \ {}
  BY <1>3 DEF Coming, NextUp
<1>5. /\ Became(a.package, e, a.local, im.revs, im.rels)
      /\ FoundAgain(e, l, im.revs, im.rels)
      /\ a.local \in LocalMaps /\ e.id \in DOMAIN a.local
  BY <1>3, <1>4 DEF Came, Delivered, Settled
<1>6. l \in LocalIds
  BY <1>5 DEF LocalMaps
<1>7. im.revs[k] \in Seq(PackedRevisions) /\ im.revs \in PackedHistories
      /\ im.rels[k] \in Seq(Nat) /\ im.rels \in PackedReleases
  BY <1>2 DEF Coming, Orderly, PackedHistories, PackedReleases
<1>8. NewOf(im, e) = im.revs[k][l.revision]
  <2>1. CP!Local(im, e.locks) = {a.local[i].release : i \in e.locks}
    BY <1>2, <1>3 DEF CP!Local
  <2> QED BY <1>5, <2>1 DEF NewOf, Became
<1>9. n = l.revision /\ RevsOf(im, e) = im.revs[k]
  <2> DEFINE f == CP!Found(im.revs[k], NewOf(im, e))
  <2>1. /\ f \in Nat
        /\ f = 0 => \A m \in DOMAIN im.revs[k] : im.revs[k][m] # NewOf(im, e)
        /\ f # 0 => /\ f \in DOMAIN im.revs[k] /\ im.revs[k][f] = NewOf(im, e)
                    /\ \A m \in DOMAIN im.revs[k] : im.revs[k][m] = NewOf(im, e) => m <= f
    BY <1>7, FoundLatest
  <2>2. l.revision \in DOMAIN im.revs[k] /\ l.revision \in Nat
    BY <1>5, <1>6 DEF Became, LocalIds
  <2>3. \A m \in DOMAIN im.revs[k] : im.revs[k][m] = NewOf(im, e) => m <= l.revision
    BY <1>5, <1>8 DEF FoundAgain
  <2>4. NumberOf(im, e) = IF f = 0 THEN Len(im.revs[k]) + 1 ELSE f
    BY DEF NumberOf
  <2>5. RevsOf(im, e) = IF f = 0 THEN Append(im.revs[k], NewOf(im, e)) ELSE im.revs[k]
    BY DEF RevsOf
  <2> HIDE DEF f, k, l
  <2>6. f # 0
    BY <2>1, <2>2, <1>8
  <2>7. f = l.revision
    BY <2>1, <2>2, <2>3, <2>6, <1>8
  <2> QED BY <2>4, <2>5, <2>6, <2>7
<1>10. RelsOf(im, e) = im.rels[k]
  <2>1. CASE e.id = im.package.root
    BY <2>1, ReleaseTaken
  <2>2. CASE e.id # im.package.root
    <3>1. l.release[2] \in DOMAIN im.rels[k] /\ im.rels[k][l.release[2]] = n
      BY <2>2, <1>3, <1>5, <1>9 DEF Became
    <3>2. CP!At(im.rels[k], n) # 0
      BY <3>1, <1>7, AtWhere
    <3> QED BY <3>2 DEF RelsOf
  <2> QED BY <2>1, <2>2
<1>11. x = l.release
  BY <1>5, <1>9, <1>10 DEF ReleaseOf, FoundAgain
<1>12. w.local[e.id] = l
  <2>1. l = [revision |-> l.revision, release |-> l.release]
    BY <1>6 DEF LocalIds
  <2> QED BY <1>1, <1>9, <1>11, <2>1
<1>13. w.revs = im.revs /\ w.rels = im.rels
  <2>1. \A d \in CP!Keys : w.revs[d] = im.revs[d] /\ w.rels[d] = im.rels[d]
    BY <1>1, <1>9, <1>10
  <2> HIDE DEF w
  <2> QED BY <1>1, <1>7, <2>1 DEF PackedHistories, PackedReleases
<1> HIDE DEF w
<1>14. \A i \in DOMAIN w.local : w.local[i] = a.local[i]
  BY <1>1, <1>3, <1>12
<1>15. Repeats(w, a, im.revs, im.rels)
  BY <1>1, <1>3, <1>13, <1>14 DEF Repeats
<1> QED BY <1>15 DEF w

-----------------------------------------------------------------------------
(* The steps.                                                              *)

LEMMA PackedStart == ASSUME CP!Init PROVE PackedInv
<1> USE DEF CP!Init
<1> DEFINE none == [k \in CP!Keys |-> << >>]
           zero == [k \in CP!Keys |-> 0]
<1>1. none \in PackedHistories /\ none \in PackedReleases /\ zero \in PackedPointers
  BY DEF PackedHistories, PackedReleases, PackedPointers
<1>2. Orderly(none, none, zero)
  BY <1>1 DEF Orderly
<1> HIDE DEF none, zero
<1>3. \A s \in Servers : pRevs[s] = none /\ pRels[s] = none /\ pCurrent[s] = zero
  BY DEF none, zero
<1>4. /\ pRevs \in [Servers -> PackedHistories] /\ pRels \in [Servers -> PackedReleases]
      /\ pCurrent \in [Servers -> PackedPointers]
  BY <1>1 DEF none, zero
<1> QED BY <1>2, <1>3, <1>4 DEF PackedInv

\* What came stays, whatever its server adds; only an untouched catalogue is as it was.
LEMMA CameStays ==
  ASSUME NEW a, NEW R, NEW L, NEW R2, NEW L2, Came(a, R, L),
         \A k \in CP!Keys : Extends(R[k], R2[k]) /\ Extends(L[k], L2[k])
  PROVE  Came([a EXCEPT !.untouched = FALSE], R2, L2)
<1> DEFINE b == [a EXCEPT !.untouched = FALSE]
<1>1. a \in [at : Servers, package : Packages, local : LocalMaps, untouched : BOOLEAN]
  BY DEF Came, Arrivals
<1>2. b \in Arrivals /\ b.package = a.package /\ b.local = a.local /\ ~b.untouched
  BY <1>1 DEF Arrivals
<1>3. Delivered(a.package, {}, a.local, R2, L2)
  <2>1. ASSUME NEW f \in a.package.entries \ {} PROVE Became(a.package, f, a.local, R2, L2)
    <3>1. f.key \in CP!Keys
      BY DEF Came, Sendable, Packages, PackedEntries
    <3>2. f.id \in DOMAIN a.local /\ Became(a.package, f, a.local, R, L)
      BY DEF Came, Delivered
    <3> QED BY <3>1, <3>2, BecameStays
  <2> QED BY <2>1 DEF Came, Delivered
<1>4. Sendable(b.package) /\ Delivered(b.package, {}, b.local, R2, L2)
  BY <1>2, <1>3 DEF Came
<1> HIDE DEF b
<1>5. Came(b, R2, L2)
  BY <1>2, <1>4 DEF Came
<1> QED BY <1>5 DEF b

\* Something is added to the catalogue of a server.
LEMMA Added ==
  ASSUME PackedInv, NEW s \in Servers, CP!Touched(s), pImport = Nobody, pImport' = Nobody,
         pRevs' \in [Servers -> PackedHistories], pRels' \in [Servers -> PackedReleases],
         pCurrent' \in [Servers -> PackedPointers],
         \A t \in Servers : t # s =>
           pRevs'[t] = pRevs[t] /\ pRels'[t] = pRels[t] /\ pCurrent'[t] = pCurrent[t],
         Orderly(pRevs'[s], pRels'[s], pCurrent'[s]),
         \A k \in CP!Keys : Extends(pRevs[s][k], pRevs'[s][k]) /\ Extends(pRels[s][k], pRels'[s][k])
  PROVE  PackedInv'
<1>1. \A t \in Servers : Orderly(pRevs'[t], pRels'[t], pCurrent'[t])
  BY DEF PackedInv
<1>2. ASSUME pArrived' # Nobody
      PROVE  Came(pArrived', pRevs'[pArrived'.at], pRels'[pArrived'.at])
  <2>1. pArrived # Nobody
    BY <1>2 DEF CP!Touched
  <2>2. Came(pArrived, pRevs[pArrived.at], pRels[pArrived.at]) /\ pArrived.at \in Servers
    BY <2>1 DEF PackedInv, Came, Arrivals
  <2>3. pArrived \in [at : Servers, package : Packages, local : LocalMaps, untouched : BOOLEAN]
    BY <2>2 DEF Came, Arrivals
  <2>4. CASE pArrived.at = s
    <3>1. pArrived' = [pArrived EXCEPT !.untouched = FALSE]
      BY <2>1, <2>4 DEF CP!Touched
    <3>2. pArrived'.at = s /\ ~pArrived'.untouched
      BY <2>3, <2>4, <3>1
    <3> QED
      <4> DEFINE b == pArrived'
                 R2 == pRevs'[s]
                 L2 == pRels'[s]
                 R1 == pRevs[s]
                 L1 == pRels[s]
      <4>1. b = [pArrived EXCEPT !.untouched = FALSE]
        BY <3>1
      <4>2. \A d \in CP!Keys : Extends(R1[d], R2[d]) /\ Extends(L1[d], L2[d])
        OBVIOUS
      <4>3. Came(pArrived, R1, L1)
        BY <2>2, <2>4
      <4> HIDE DEF b, R1, L1, R2, L2
      <4>4. Came(b, R2, L2)
        BY <4>1, <4>2, <4>3, CameStays
      <4> QED BY <4>4, <3>2 DEF b, R2, L2
  <2>5. CASE pArrived.at # s
    <3>1. pArrived' = pArrived
      BY <2>5 DEF CP!Touched
    <3> QED BY <2>2, <2>5, <3>1
  <2> QED BY <2>4, <2>5
<1> QED BY <1>1, <1>2 DEF PackedInv

LEMMA SavedKeeps ==
  ASSUME PackedInv, NEW s \in Servers, NEW k \in CP!Keys, NEW v \in PackedRevisions,
         CP!Saved(s, k, v),
         \A r \in v.locks : r[1] \in CP!DependsOn(k) /\ r[2] \in DOMAIN pRels[s][r[1]]
  PROVE  PackedInv'
<1> USE DEF CP!Saved
<1> DEFINE R == pRevs[s]
           L == pRels[s]
           h == [R EXCEPT ![k] = Append(R[k], v)]
<1>1. Orderly(R, L, pCurrent[s]) /\ R \in PackedHistories
  BY DEF PackedInv
<1>2. /\ Append(R[k], v) \in Seq(PackedRevisions) /\ Extends(R[k], Append(R[k], v))
      /\ DOMAIN Append(R[k], v) = DOMAIN R[k] \cup {Len(R[k]) + 1}
      /\ Append(R[k], v)[Len(R[k]) + 1] = v
  <2>1. R[k] \in Seq(PackedRevisions)
    BY <1>1 DEF PackedHistories
  <2> HIDE DEF R
  <2> QED BY <2>1, Appended
<1>3. pRevs' = [pRevs EXCEPT ![s] = h]
  OBVIOUS
<1> DEFINE w == Append(R[k], v)
<1> HIDE DEF w
<1>4. h \in PackedHistories /\ h[k] = w /\ \A d \in CP!Keys : d # k => h[d] = R[d]
  BY <1>1, <1>2 DEF PackedHistories, w
<1>5. /\ pRevs' \in [Servers -> PackedHistories] /\ pRevs'[s] = h
      /\ \A t \in Servers : t # s => pRevs'[t] = pRevs[t]
  <2> HIDE DEF h
  <2> QED BY <1>3, <1>4 DEF PackedInv
<1> HIDE DEF h, R
<1>6. \A d \in CP!Keys : Extends(R[d], h[d]) /\ Extends(L[d], L[d])
  BY <1>2, <1>4 DEF Extends, w
<1>7. Orderly(h, L, pCurrent[s])
  <2>1. ASSUME NEW d \in CP!Keys, NEW n \in DOMAIN h[d], NEW r \in h[d][n].locks
        PROVE  r[1] \in CP!DependsOn(d) /\ r[2] \in DOMAIN L[r[1]]
    <3>1. CASE n \in DOMAIN R[d] /\ h[d][n] = R[d][n]
      BY <2>1, <3>1, <1>1 DEF Orderly
    <3>2. CASE d = k /\ h[d][n] = v
      BY <2>1, <3>2
    <3>3. \/ n \in DOMAIN R[d] /\ h[d][n] = R[d][n]
          \/ d = k /\ h[d][n] = v
      BY <2>1, <1>2, <1>4 DEF Extends, w
    <3> QED BY <3>1, <3>2, <3>3
  <2>2. \A d \in CP!Keys : \A i \in DOMAIN L[d] : L[d][i] \in DOMAIN h[d]
    BY <1>1, <1>6 DEF Orderly, Extends
  <2> HIDE DEF L
  <2> QED BY <1>1, <1>4, <2>1, <2>2 DEF Orderly
<1>8. pRels \in [Servers -> PackedReleases] /\ pCurrent \in [Servers -> PackedPointers]
  BY DEF PackedInv
<1> QED BY <1>5, <1>6, <1>7, <1>8, Added DEF R

LEMMA SaveKeeps ==
  ASSUME PackedInv, NEW s \in Servers, NEW k \in CP!Keys, NEW locks \in CP!Lockable(s, k),
         CP!Save(s, k, locks)
  PROVE  PackedInv'
<1>1. CASE k \in PackedSkills
  <2>1. PICK c \in PackedContents :
          CP!Saved(s, k, CP!Revision(c, IF c \in PackedTyped THEN "own" ELSE "generic", {}))
    BY <1>1 DEF CP!Save
  <2> DEFINE v == CP!Revision(c, IF c \in PackedTyped THEN "own" ELSE "generic", {})
  <2>2. v \in PackedRevisions /\ v.locks = {}
    BY DEF CP!Revision, PackedRevisions
  <2> HIDE DEF v
  <2>3. CP!Saved(s, k, v)
    BY <2>1 DEF v
  <2> QED BY <2>2, <2>3, SavedKeeps
<1>2. CASE k \notin PackedSkills
  <2> DEFINE v == CP!Revision(Nobody, "generic", locks)
  <2>1. CP!Saved(s, k, v)
    BY <1>2 DEF CP!Save
  <2>2. \A r \in locks : r \in CP!Released(s) /\ r[1] \in CP!DependsOn(k)
    BY DEF CP!Lockable
  <2>3. \A r \in locks : r \in PackedIds /\ r[2] \in DOMAIN pRels[s][r[1]]
    BY <2>2, ReleasedIds DEF PackedInv
  <2>4. v \in PackedRevisions /\ v.locks = locks
    BY <2>3 DEF CP!Revision, PackedRevisions
  <2> HIDE DEF v
  <2> QED BY <2>1, <2>2, <2>3, <2>4, SavedKeeps
<1> QED BY <1>1, <1>2

LEMMA PublishKeeps ==
  ASSUME PackedInv, NEW s \in Servers, NEW k \in CP!Keys, NEW n \in Nat, CP!Publish(s, k, n)
  PROVE  PackedInv'
<1> USE DEF CP!Publish
<1> DEFINE R == pRevs[s]
           L == pRels[s]
           w == Append(L[k], n)
           c == Len(L[k]) + 1
           h == [L EXCEPT ![k] = w]
           g == [pCurrent[s] EXCEPT ![k] = c]
<1>1. /\ Orderly(R, L, pCurrent[s]) /\ L \in PackedReleases /\ L[k] \in Seq(Nat)
      /\ pCurrent[s] \in PackedPointers
  BY DEF PackedInv, PackedReleases
<1>2. /\ w \in Seq(Nat) /\ Extends(L[k], w) /\ DOMAIN w = DOMAIN L[k] \cup {c} /\ w[c] = n
      /\ c \notin DOMAIN L[k] /\ c \in Nat \ {0}
  <2> HIDE DEF L
  <2> QED BY <1>1, Appended
<1>3. pRels' = [pRels EXCEPT ![s] = h] /\ pCurrent' = [pCurrent EXCEPT ![s] = g]
  OBVIOUS
<1> HIDE DEF w, c
<1>4. h \in PackedReleases /\ h[k] = w /\ \A d \in CP!Keys : d # k => h[d] = L[d]
  BY <1>1, <1>2 DEF PackedReleases
<1>5. /\ g \in PackedPointers /\ g[k] = c
      /\ \A d \in CP!Keys : d # k => g[d] = pCurrent[s][d]
  BY <1>1, <1>2 DEF PackedPointers
<1> HIDE DEF h, g
<1>6. /\ pRels' \in [Servers -> PackedReleases] /\ pRels'[s] = h
      /\ pCurrent' \in [Servers -> PackedPointers] /\ pCurrent'[s] = g
      /\ \A t \in Servers : t # s => pRels'[t] = pRels[t] /\ pCurrent'[t] = pCurrent[t]
  BY <1>3, <1>4, <1>5 DEF PackedInv
<1>7. n \in DOMAIN R[k] /\ \A m \in DOMAIN L[k] : L[k][m] # n
  OBVIOUS
<1> HIDE DEF L, R
<1>8. \A d \in CP!Keys : Extends(R[d], R[d]) /\ Extends(L[d], h[d])
  BY <1>2, <1>4 DEF Extends
<1>9. Orderly(R, h, g)
  <2>1. ASSUME NEW d \in CP!Keys, NEW m \in DOMAIN R[d], NEW r \in R[d][m].locks
        PROVE  r[1] \in CP!DependsOn(d) /\ r[2] \in DOMAIN h[r[1]]
    <3>1. r[1] \in CP!DependsOn(d) /\ r[2] \in DOMAIN L[r[1]]
      BY <1>1 DEF Orderly
    <3>2. r[1] \in CP!Keys
      BY <3>1 DEF CP!DependsOn
    <3> QED BY <3>1, <3>2, <1>8 DEF Extends
  <2>2. ASSUME NEW d \in CP!Keys
        PROVE  /\ \A i \in DOMAIN h[d] : h[d][i] \in DOMAIN R[d]
               /\ \A i, j \in DOMAIN h[d] : h[d][i] = h[d][j] => i = j
               /\ g[d] = 0 => h[d] = << >>
    <3>1. CASE d = k
      BY <3>1, <1>1, <1>2, <1>4, <1>5, <1>7 DEF Orderly, Extends
    <3>2. CASE d # k
      BY <3>2, <1>1, <1>4, <1>5 DEF Orderly
    <3> QED BY <3>1, <3>2
  <2> QED BY <1>1, <1>4, <1>5, <2>1, <2>2 DEF Orderly
<1>10. pRevs \in [Servers -> PackedHistories] /\ pRevs' = pRevs /\ pImport' = Nobody
  BY DEF PackedInv
<1> QED BY <1>6, <1>8, <1>9, <1>10, Added DEF L, R

LEMMA OpenKeeps ==
  ASSUME PackedInv, NEW s \in Servers, NEW p, Sendable(p), CP!Open(s, p)
  PROVE  PackedInv'
<1> USE DEF CP!Open
<1> DEFINE im == [at |-> s, package |-> p, left |-> p.entries, local |-> << >>,
                  revs |-> pRevs[s], rels |-> pRels[s], current |-> pCurrent[s]]
<1>1. /\ im.at = s /\ im.package = p /\ im.left = p.entries /\ im.local = << >>
      /\ im.revs = pRevs[s] /\ im.rels = pRels[s] /\ im.current = pCurrent[s]
  OBVIOUS
<1>2. pImport' = im /\ UNCHANGED <<pRevs, pRels, pCurrent>>
  OBVIOUS
<1>3. << >> \in LocalMaps /\ DOMAIN << >> = {}
  <2>1. << >> \in [{} -> LocalIds] /\ {} \in SUBSET PackedIds
    OBVIOUS
  <2> QED BY <2>1 DEF LocalMaps
<1>4. im \in OpenImports
  <2>1. p \in Packages /\ p.entries \in SUBSET PackedEntries
    BY DEF Sendable, Packages
  <2> QED BY <1>3, <2>1 DEF PackedInv, OpenImports
<1> HIDE DEF im
<1>5. Coming(im)
  <2>1. Orderly(im.revs, im.rels, im.current)
    BY <1>1 DEF PackedInv
  <2>2. Delivered(im.package, im.left, im.local, im.revs, im.rels)
    BY <1>1, <1>3 DEF Delivered
  <2>3. Settled(im.package, im.left, im.local, im.revs, im.rels)
    BY <1>1 DEF Settled
  <2> QED BY <1>1, <1>4, <2>1, <2>2, <2>3 DEF Coming
<1>6. StillUnpublished(im, pRels[im.at], pCurrent[im.at])
  BY <1>1 DEF StillUnpublished
<1>7. ASSUME pArrived' # Nobody
      PROVE  /\ pArrived' = pArrived /\ pArrived # Nobody
             /\ Repeats(im, pArrived, pRevs[im.at], pRels[im.at])
  <2>1. CP!Again(s, p) /\ pArrived' = pArrived
    BY <1>7
  <2> QED BY <1>1, <1>3, <2>1 DEF CP!Again, Repeats
<1> QED BY <1>2, <1>5, <1>6, <1>7 DEF PackedInv

LEMMA TakeKeeps == ASSUME PackedInv, CP!Take PROVE PackedInv'
<1> USE DEF CP!Take
<1> DEFINE im == pImport
<1>1. PICK e \in im.left :
        /\ \A f \in im.left : CP!Layer(e.key) <= CP!Layer(f.key)
        /\ pImport' = [CP!Install(im.package.root, im, e) EXCEPT !.left = @ \ {e}]
  OBVIOUS
<1>2. Coming(im) /\ NextUp(im, e) /\ im \in OpenImports
  BY <1>1 DEF PackedInv, NextUp, Coming
<1> DEFINE w == TakenOf(im, e)
<1>3. pImport' = w
  BY <1>1, <1>2, TakeShape
<1>4. w.at = im.at /\ w.package = im.package
  BY <1>2, TakenFields
<1>5. Coming(w) /\ StillUnpublished(w, pRels[w.at], pCurrent[w.at])
  BY <1>2, <1>4, TakeComing, TakeQuiet DEF PackedInv
<1>6. ASSUME pArrived # Nobody
      PROVE  Repeats(w, pArrived, pRevs[w.at], pRels[w.at])
  <2>1. /\ Repeats(im, pArrived, pRevs[im.at], pRels[im.at])
        /\ Came(pArrived, pRevs[pArrived.at], pRels[pArrived.at])
    BY <1>6 DEF PackedInv
  <2>2. pArrived.at = im.at /\ im.revs = pRevs[im.at] /\ im.rels = pRels[im.at]
    BY <2>1 DEF Repeats
  <2> HIDE DEF im, w
  <2>3. Came(pArrived, im.revs, im.rels) /\ Repeats(im, pArrived, im.revs, im.rels)
    BY <2>1, <2>2
  <2>4. Repeats(TakenOf(im, e), pArrived, im.revs, im.rels)
    BY <1>2, <2>3, TakeRepeats
  <2> QED BY <1>4, <2>2, <2>4 DEF w
<1> HIDE DEF w, im
<1> QED BY <1>3, <1>5, <1>6 DEF PackedInv

LEMMA CommitKeeps == ASSUME PackedInv, CP!Commit PROVE PackedInv'
<1> USE DEF CP!Commit
<1> DEFINE im == pImport
           a == [at |-> im.at, package |-> im.package, local |-> im.local, untouched |-> TRUE]
<1>1. Coming(im) /\ im \in OpenImports /\ im.left = {}
  BY DEF PackedInv, Coming
<1>2. /\ im.at \in Servers /\ im.package \in Packages /\ im.local \in LocalMaps
      /\ im.revs \in PackedHistories /\ im.rels \in PackedReleases
      /\ im.current \in PackedPointers
  BY <1>1 DEF OpenImports
<1>3. /\ pRevs' \in [Servers -> PackedHistories] /\ pRels' \in [Servers -> PackedReleases]
      /\ pCurrent' \in [Servers -> PackedPointers]
      /\ pRevs'[im.at] = im.revs /\ pRels'[im.at] = im.rels /\ pCurrent'[im.at] = im.current
      /\ \A t \in Servers : t # im.at =>
           pRevs'[t] = pRevs[t] /\ pRels'[t] = pRels[t] /\ pCurrent'[t] = pCurrent[t]
  <2>1. /\ pRevs' = [pRevs EXCEPT ![im.at] = im.revs]
        /\ pRels' = [pRels EXCEPT ![im.at] = im.rels]
        /\ pCurrent' = [pCurrent EXCEPT ![im.at] = im.current]
    OBVIOUS
  <2>2. /\ pRevs \in [Servers -> PackedHistories] /\ pRels \in [Servers -> PackedReleases]
        /\ pCurrent \in [Servers -> PackedPointers]
    BY DEF PackedInv
  <2> HIDE DEF im
  <2> QED BY <1>2, <2>1, <2>2
<1>4. \A t \in Servers : Orderly(pRevs'[t], pRels'[t], pCurrent'[t])
  BY <1>1, <1>3 DEF PackedInv, Coming
<1>5. pArrived' = a /\ pImport' = Nobody
  OBVIOUS
<1>6. /\ a \in Arrivals /\ a.at = im.at /\ a.package = im.package /\ a.local = im.local
  BY <1>2 DEF Arrivals
<1> HIDE DEF a
<1>7. Came(a, im.revs, im.rels)
  BY <1>1, <1>6 DEF Came, Coming
<1>8. Came(pArrived', pRevs'[pArrived'.at], pRels'[pArrived'.at])
  BY <1>3, <1>5, <1>6, <1>7
<1> HIDE DEF im
<1> QED BY <1>3, <1>4, <1>5, <1>8 DEF PackedInv

LEMMA PackedRests ==
  ASSUME PackedInv, UNCHANGED <<pRevs, pRels, pCurrent, pArrived>>,
         pImport' = Nobody \/ UNCHANGED pImport
  PROVE  PackedInv'
BY DEF PackedInv

LEMMA PackedStep == ASSUME PackedInv, [CP!Next]_(CP!vars) PROVE PackedInv'
<1>1. CASE UNCHANGED CP!vars
  BY <1>1, PackedRests DEF CP!vars
<1>2. ASSUME NEW s \in Servers, NEW k \in CP!Keys, NEW locks \in CP!Lockable(s, k),
             CP!Save(s, k, locks)
      PROVE  PackedInv'
  BY <1>2, SaveKeeps
<1>3. ASSUME NEW s \in Servers, NEW k \in CP!Keys, NEW n \in 1..MaxPackedRevs,
             CP!Publish(s, k, n)
      PROVE  PackedInv'
  BY <1>3, PublishKeeps
<1>4. ASSUME NEW s \in Servers, CP!Send(s) PROVE PackedInv'
  <2>1. PICK t \in Servers \ {s} :
          \E p \in CP!ReleasePackages(t) \cup CP!DraftPackages(t) : CP!Open(s, p)
    BY <1>4 DEF CP!Send
  <2>2. PICK p \in CP!ReleasePackages(t) \cup CP!DraftPackages(t) : CP!Open(s, p)
    BY <2>1
  <2>3. Sendable(p)
    BY ReleaseSendable, DraftSendable
  <2> QED BY <2>2, <2>3, OpenKeeps
<1>5. ASSUME NEW s \in Servers, CP!SendAgain(s) PROVE PackedInv'
  <2>1. pArrived # Nobody /\ CP!Open(s, pArrived.package)
    BY <1>5 DEF CP!SendAgain
  <2>2. Sendable(pArrived.package)
    BY <2>1 DEF PackedInv, Came
  <2> QED BY <2>1, <2>2, OpenKeeps
<1>6. CASE CP!Take
  BY <1>6, TakeKeeps
<1>7. CASE CP!RollBack
  BY <1>7, PackedRests DEF CP!RollBack
<1>8. CASE CP!Commit
  BY <1>8, CommitKeeps
<1> QED BY <1>1, <1>2, <1>3, <1>4, <1>5, <1>6, <1>7, <1>8 DEF CP!Next

-----------------------------------------------------------------------------
(* The properties.                                                         *)

\* Whatever the installations, keys and contents: each entry of an imported package is
\* a revision with its content, over what its locks became (ConfigPackages,
\* DeliveredAsSent).
THEOREM PackagesTheorem == CP!Spec => []DeliveredAsSent
<1>1. CP!Init => PackedInv
  BY PackedStart
<1>2. PackedInv /\ [CP!Next]_(CP!vars) => PackedInv'
  BY PackedStep
<1>3. PackedInv => DeliveredAsSent
  <2> SUFFICES ASSUME PackedInv, pArrived # Nobody, NEW e \in pArrived.package.entries
               PROVE  CP!Stored(pArrived.at, e.key, pArrived.local[e.id].revision)
                        = CP!Sent(pArrived.package, e.id)
    BY DEF DeliveredAsSent, CP!DeliveredAsSent
  <2> DEFINE p == pArrived.package
             l == pArrived.local
             s == pArrived.at
             R == pRevs[s]
             L == pRels[s]
             Entry(i) == CHOOSE x \in p.entries : x.id = i
             Of(i) == [key |-> Entry(i).key, content |-> Entry(i).content]
             In(r) == [key |-> r[1], content |-> CP!RevisionOf(s, r).content]
  <2>1. Sendable(p) /\ \A f \in p.entries : Became(p, f, l, R, L)
    BY DEF PackedInv, Came, Delivered
  <2>2. ASSUME NEW f \in p.entries PROVE Entry(f.id) = f
    BY <2>1 DEF Sendable
  <2>3. ASSUME NEW f \in p.entries
        PROVE  /\ R[f.key][l[f.id].revision].content = f.content
               /\ R[f.key][l[f.id].revision].locks = {l[i].release : i \in f.locks}
    <3>1. R[f.key][l[f.id].revision]
            = CP!Revision(f.content, "generic", {l[i].release : i \in f.locks})
      BY <2>1 DEF Became
    <3> HIDE DEF R, l, p
    <3> QED BY <3>1 DEF CP!Revision
  <2>4. ASSUME NEW f \in p.entries, NEW i \in f.locks
        PROVE  \E g \in p.entries :
                 /\ g.id = i /\ CP!Layer(g.key) < CP!Layer(f.key) /\ g.id # p.root
    <3>1. i[1] \in CP!DependsOn(f.key) /\ \E g \in p.entries : g.id = i
      BY <2>1 DEF Sendable
    <3>2. PICK g \in p.entries : g.id = i
      BY <3>1
    <3>3. g.key = i[1] /\ CP!Layer(g.key) + 1 = CP!Layer(f.key)
      BY <2>1, <3>1, <3>2 DEF Sendable, CP!DependsOn
    <3>4. f.id[1] = f.key /\ (f.id = p.root \/ CP!Layer(f.key) < CP!Layer(p.root[1]))
      BY <2>1 DEF Sendable
    <3> HIDE DEF p
    <3>5. g.id # p.root
      BY <3>2, <3>3, <3>4, LayerOf
    <3> QED BY <3>2, <3>3, <3>5, LayerOf
  <2>5. ASSUME NEW g \in p.entries, g.id # p.root
        PROVE  /\ CP!RevisionOf(s, l[g.id].release) = R[g.key][l[g.id].revision]
               /\ In(l[g.id].release) = Of(g.id)
    <3>1. l[g.id].release[1] = g.key /\ L[g.key][l[g.id].release[2]] = l[g.id].revision
      BY <2>1, <2>5 DEF Became
    <3>2. CP!RevisionOf(s, l[g.id].release) = R[g.key][l[g.id].revision]
      BY <3>1 DEF CP!RevisionOf
    <3>3. Entry(g.id) = g
      BY <2>2
    <3>4. R[g.key][l[g.id].revision].content = g.content
      BY <2>3
    <3> HIDE DEF R, L, l, s, p, Entry
    <3> QED BY <3>1, <3>2, <3>3, <3>4
  <2>6. ASSUME NEW f \in p.entries, NEW i \in f.locks
        PROVE  In(l[i].release) = Of(i)
    BY <2>4, <2>5
  <2>7. ASSUME NEW f \in p.entries, NEW i \in f.locks
        PROVE  {In(q) : q \in CP!RevisionOf(s, l[i].release).locks} = {Of(j) : j \in Entry(i).locks}
    <3>1. PICK g \in p.entries : g.id = i /\ g.id # p.root
      BY <2>4
    <3>2. CP!RevisionOf(s, l[i].release).locks = {l[j].release : j \in g.locks}
      <4>1. R[g.key][l[g.id].revision].locks = {l[j].release : j \in g.locks}
        BY <2>3
      <4>2. CP!RevisionOf(s, l[g.id].release) = R[g.key][l[g.id].revision]
        BY <3>1, <2>5
      <4> HIDE DEF R, l, s, p
      <4> QED BY <3>1, <4>1, <4>2
    <3>3. Entry(i) = g
      BY <3>1, <2>2
    <3>4. \A j \in g.locks : In(l[j].release) = Of(j)
      BY <2>6
    <3> HIDE DEF In, Of, Entry, R, L, l, s, p
    <3> QED BY <3>2, <3>3, <3>4
  <2> DEFINE A(i) == [top |-> Of(i), locks |-> {Of(j) : j \in Entry(i).locks}]
             B(r) == [top |-> In(r), locks |-> {In(q) : q \in CP!RevisionOf(s, r).locks}]
  <2>8. \A i \in e.locks : B(l[i].release) = A(i)
    <3>1. ASSUME NEW i \in e.locks PROVE B(l[i].release) = A(i)
      <4>1. /\ In(l[i].release) = Of(i)
            /\ {In(q) : q \in CP!RevisionOf(s, l[i].release).locks} = {Of(j) : j \in Entry(i).locks}
        BY <2>6, <2>7
      <4> HIDE DEF In, Of, Entry, l, s
      <4> QED BY <4>1
    <3> QED BY <3>1
  <2>9. CP!Sent(p, e.id) = [top |-> Of(e.id), locks |-> {A(i) : i \in Entry(e.id).locks}]
    BY DEF CP!Sent
  <2>10. CP!Stored(s, e.key, l[e.id].revision)
           = [top |-> [key |-> e.key, content |-> R[e.key][l[e.id].revision].content],
              locks |-> {B(r) : r \in R[e.key][l[e.id].revision].locks}]
    BY DEF CP!Stored
  <2>11. Of(e.id) = [key |-> e.key, content |-> R[e.key][l[e.id].revision].content]
    <3>1. Entry(e.id) = e /\ R[e.key][l[e.id].revision].content = e.content
      BY <2>2, <2>3
    <3> HIDE DEF Entry, R, l
    <3> QED BY <3>1
  <2>12. {B(r) : r \in R[e.key][l[e.id].revision].locks} = {A(i) : i \in Entry(e.id).locks}
    <3>1. Entry(e.id) = e /\ R[e.key][l[e.id].revision].locks = {l[i].release : i \in e.locks}
      BY <2>2, <2>3
    <3> HIDE DEF Entry, R, l, A, B
    <3> QED BY <2>8, <3>1
  <2> HIDE DEF A, B, Of, R, Entry
  <2> QED BY <2>9, <2>10, <2>11, <2>12
<1> QED BY <1>1, <1>2, <1>3, PTL DEF CP!Spec

\* A package that is imported again into a catalogue nobody touched makes nothing new.
LEMMA OnceStep == ASSUME PackedInv, CP!Next PROVE CP!ImportedOnce
<1> SUFFICES ASSUME pArrived # Nobody, pArrived.untouched, pArrived' # Nobody,
                    pArrived'.at = pArrived.at, pArrived'.untouched
             PROVE  pRevs'[pArrived.at] = pRevs[pArrived.at] /\ pRels'[pArrived.at] = pRels[pArrived.at]
  BY DEF CP!ImportedOnce
<1> DEFINE s == pArrived.at
<1>1. pArrived \in [at : Servers, package : Packages, local : LocalMaps, untouched : BOOLEAN]
  BY DEF PackedInv, Came, Arrivals
<1>2. ASSUME NEW t \in Servers, CP!Touched(t) PROVE t # s
  BY <1>1, <1>2 DEF CP!Touched
<1>3. CASE CP!Commit
  <2>1. Repeats(pImport, pArrived, pRevs[pImport.at], pRels[pImport.at])
    BY <1>3 DEF PackedInv, CP!Commit
  <2>2. pImport.at = s /\ pImport.revs = pRevs[s] /\ pImport.rels = pRels[s]
    BY <2>1 DEF Repeats
  <2>3. /\ pRevs' = [pRevs EXCEPT ![s] = pRevs[s]] /\ pRels' = [pRels EXCEPT ![s] = pRels[s]]
    BY <1>3, <2>2 DEF CP!Commit
  <2>4. pRevs \in [Servers -> PackedHistories] /\ pRels \in [Servers -> PackedReleases]
        /\ s \in Servers
    BY <1>1 DEF PackedInv
  <2> HIDE DEF s
  <2>5. pRevs'[s] = pRevs[s] /\ pRels'[s] = pRels[s]
    BY <2>3, <2>4
  <2> QED BY <2>5 DEF s
<1>4. ASSUME NEW t \in Servers, NEW k \in CP!Keys, NEW v, CP!Saved(t, k, v)
      PROVE  pRevs'[s] = pRevs[s] /\ pRels'[s] = pRels[s]
  <2>1. t # s
    BY <1>2, <1>4 DEF CP!Saved
  <2> QED BY <1>1, <1>4, <2>1 DEF CP!Saved, PackedInv
<1>5. ASSUME NEW t \in Servers, NEW k \in CP!Keys, NEW locks, CP!Save(t, k, locks)
      PROVE  pRevs'[s] = pRevs[s] /\ pRels'[s] = pRels[s]
  BY <1>4, <1>5 DEF CP!Save
<1>6. ASSUME NEW t \in Servers, NEW k \in CP!Keys, NEW n, CP!Publish(t, k, n)
      PROVE  pRevs'[s] = pRevs[s] /\ pRels'[s] = pRels[s]
  <2>1. t # s
    BY <1>2, <1>6 DEF CP!Publish
  <2> QED BY <1>1, <1>6, <2>1 DEF CP!Publish, PackedInv
<1>7. CASE UNCHANGED <<pRevs, pRels>>
  BY <1>7
<1>8. ASSUME NEW t \in Servers, CP!Send(t) \/ CP!SendAgain(t) PROVE UNCHANGED <<pRevs, pRels>>
  BY <1>8 DEF CP!Send, CP!SendAgain, CP!Open
<1>9. CP!Take \/ CP!RollBack => UNCHANGED <<pRevs, pRels>>
  BY DEF CP!Take, CP!RollBack
<1> QED BY <1>3, <1>5, <1>6, <1>7, <1>8, <1>9 DEF CP!Next

\* An import moves no pointer and does not release its root.
LEMMA QuietStep == ASSUME PackedInv, CP!Next PROVE CP!ImportPublishesNothing
<1> SUFFICES ASSUME pArrived' # Nobody, pArrived'.untouched, pArrived'.at \in Servers,
                    NEW k \in CP!Keys
             PROVE  LET s == pArrived'.at IN
                    /\ pCurrent'[s][k] # pCurrent[s][k] => pCurrent[s][k] = 0
                    /\ k = pArrived'.package.root[1] =>
                         pRels'[s][k] = pRels[s][k] /\ pCurrent'[s][k] = pCurrent[s][k]
  BY DEF CP!ImportPublishesNothing
<1> DEFINE s == pArrived'.at
<1>1. CASE CP!Commit
  <2>1. StillUnpublished(pImport, pRels[pImport.at], pCurrent[pImport.at])
    BY <1>1 DEF PackedInv, CP!Commit
  <2>2. pArrived' = [at |-> pImport.at, package |-> pImport.package, local |-> pImport.local,
                     untouched |-> TRUE]
    BY <1>1 DEF CP!Commit
  <2>3. s = pImport.at /\ pArrived'.package = pImport.package
    BY <2>2
  <2>4. /\ pRels' = [pRels EXCEPT ![s] = pImport.rels]
        /\ pCurrent' = [pCurrent EXCEPT ![s] = pImport.current]
    BY <1>1, <2>3 DEF CP!Commit
  <2>5. /\ pRels \in [Servers -> PackedReleases] /\ pCurrent \in [Servers -> PackedPointers]
        /\ s \in Servers
    BY DEF PackedInv
  <2> HIDE DEF s
  <2>6. pRels'[s] = pImport.rels /\ pCurrent'[s] = pImport.current
    BY <2>4, <2>5
  <2>7. /\ pCurrent'[s][k] # pCurrent[s][k] => pCurrent[s][k] = 0
        /\ k = pArrived'.package.root[1] =>
             pRels'[s][k] = pRels[s][k] /\ pCurrent'[s][k] = pCurrent[s][k]
    BY <2>1, <2>3, <2>6 DEF StillUnpublished
  <2> QED BY <2>7 DEF s
<1>2. CASE UNCHANGED <<pRels, pCurrent>>
  BY <1>2
<1>3. ASSUME NEW t \in Servers, NEW d \in CP!Keys, NEW n, CP!Publish(t, d, n)
      PROVE  pRels'[s] = pRels[s] /\ pCurrent'[s] = pCurrent[s]
  <2>1. pArrived # Nobody /\ CP!Touched(t)
    BY <1>3 DEF CP!Publish, CP!Touched
  <2>2. pArrived \in [at : Servers, package : Packages, local : LocalMaps, untouched : BOOLEAN]
    BY <2>1 DEF PackedInv, Came, Arrivals
  <2>3. t # s
    BY <2>1, <2>2 DEF CP!Touched
  <2>4. pRels \in [Servers -> PackedReleases] /\ pCurrent \in [Servers -> PackedPointers]
    BY DEF PackedInv
  <2>5. /\ pRels' = [pRels EXCEPT ![t] = pRels'[t]]
        /\ pCurrent' = [pCurrent EXCEPT ![t] = pCurrent'[t]]
    BY <1>3, <2>4 DEF CP!Publish
  <2> HIDE DEF s
  <2>6. s \in Servers
    BY DEF s
  <2> QED BY <2>3, <2>4, <2>5, <2>6
<1>4. CP!Take \/ CP!RollBack => UNCHANGED <<pRels, pCurrent>>
  BY DEF CP!Take, CP!RollBack
<1>5. ASSUME NEW t \in Servers, CP!Send(t) \/ CP!SendAgain(t) PROVE UNCHANGED <<pRels, pCurrent>>
  BY <1>5 DEF CP!Send, CP!SendAgain, CP!Open
<1>6. ASSUME NEW t \in Servers, NEW d \in CP!Keys, NEW locks, CP!Save(t, d, locks)
      PROVE  UNCHANGED <<pRels, pCurrent>>
  BY <1>6 DEF CP!Save, CP!Saved
<1> QED BY <1>1, <1>2, <1>3, <1>4, <1>5, <1>6 DEF CP!Next

\* An import that is repeated makes nothing new, and none publishes anything
\* (ConfigPackages, ImportedOnce and ImportPublishesNothing).
THEOREM QuietTheorem == CP!Spec => ImportsAreQuiet
<1>1. PackedInv /\ [CP!Next]_(CP!vars) => [CP!ImportedOnce /\ CP!ImportPublishesNothing]_pVars
  <2>1. UNCHANGED CP!vars => UNCHANGED pVars
    BY DEF pVars, CP!vars
  <2> QED BY <2>1, OnceStep, QuietStep
<1>2. CP!Init => PackedInv
  BY PackedStart
<1>3. PackedInv /\ [CP!Next]_(CP!vars) => PackedInv'
  BY PackedStep
<1> QED BY <1>1, <1>2, <1>3, PTL DEF CP!Spec, ImportsAreQuiet
=============================================================================
