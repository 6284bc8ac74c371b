------------------------------ MODULE Releases ------------------------------
(***************************************************************************)
(* The workbench catalogue (workbench/service.py): business objects        *)
(* (skills, experts, expert teams), their numbered revisions, the releases *)
(* published from them, the pointer to an object's current release, and    *)
(* the in-memory registry of one service process that runs what is         *)
(* published.                                                              *)
(*                                                                         *)
(* Editors work concurrently in PostgreSQL transactions (READ COMMITTED):  *)
(* an operation reads and checks, and writes when it commits; what lies    *)
(* between is another editor's chance.  The unique constraints and the row *)
(* locks of the schema are part of the steps they guard.  A release is the *)
(* pair <<object, release_no>>; payloads, names, files, validation texts   *)
(* and the audit log are left out.                                         *)
(***************************************************************************)
EXTENDS Naturals, Sequences, FiniteSets

CONSTANTS
  Objects,   \* object ids: an id is never used again
  Type,      \* their types
  Key,       \* their keys, each for one type, as each type has a registry of its own: a
             \* deleted object's key may be used again
  Editors,   \* requests that run at the same time
  Edited,    \* bound: the objects the editors work on
  Limit,     \* bound: revisions of each object
  MaxRevs,   \* bound: the largest of them
  Nothing    \* no release is installed under a key

\* What the constants are; an instance assumes it.
CatalogueAssumption ==
  /\ Objects \subseteq DOMAIN Type /\ Objects \subseteq DOMAIN Key
  /\ \A o \in Objects : Type[o] \in {"skill", "expert", "expert_team"}
  /\ \A o, p \in Objects : Key[o] = Key[p] => Type[o] = Type[p]
  /\ Edited \subseteq Objects
  /\ MaxRevs \in Nat \ {0}
  /\ Objects \subseteq DOMAIN Limit /\ \A o \in Objects : Limit[o] \in 0..MaxRevs

KeysInUse == {Key[o] : o \in Objects}
Releases == Objects \X (1..MaxRevs)

\* The type an object's dependencies have: {"skill": None, "expert": "skill",
\* "expert_team": "expert"}.
DependsOn(t) == CASE t = "expert" -> "skill" [] t = "expert_team" -> "expert"
                  [] OTHER -> "nothing"

Revision == [base : 0..MaxRevs, locks : SUBSET Releases, tested : BOOLEAN]
Release == [rev : 1..MaxRevs, locks : SUBSET Releases, archived : BOOLEAN]

VARIABLES
  status,  \* none, live, archived or deleted
  revs,    \* revisions of an object, by revision_no
  rels,    \* its releases, by release_no
  current, \* current_release_id, as a release_no; 0 is NULL
  runtime, \* what the process runs under each key
  req,     \* what an editor's open transaction has read
  muddled  \* history: keys whose entry was put there by an overlapped or an
           \* unselected installation

vars == <<status, revs, rels, current, runtime, req, muddled>>

Idle == [op |-> "idle"]
Ops == {"save", "publish", "installed", "archive", "select", "selected", "delete"}
Request == {Idle} \cup
  [op : Ops, obj : Objects, n : 0..MaxRevs, seen : 0..MaxRevs, locks : SUBSET Releases]

Open(o) == status[o] \in {"live", "archived"}
Exists(r) == Open(r[1]) /\ r[2] <= Len(rels[r[1]])
LatestRev(o) == Len(revs[o])
LatestRel(o) == Len(rels[o])
ReleasedAs(o, n) == {k \in DOMAIN rels[o] : rels[o][k].rev = n}

\* _validate_dependencies: unarchived releases of unarchived objects of the
\* right type, one release per object.
Lockable(t, locks) ==
  /\ \A r \in locks : /\ Exists(r) /\ status[r[1]] = "live"
                      /\ Type[r[1]] = DependsOn(t)
                      /\ ~rels[r[1]][r[2]].archived
  /\ \A r, q \in locks : r[1] = q[1] => r = q

\* _release_closure: the releases a release needs, found by visiting its locks.
\* Three levels are all there are.
Needs(S) == S \cup UNION {rels[r[1]][r[2]].locks : r \in {q \in S : Exists(q)}}
Closure(r) == Needs(Needs({r}))
Complete(r) == \A q \in Closure(r) : Exists(q)

\* The object row is locked from a publication's flush to its commit.
Unlocked(o) == \A e \in Editors : ~(req[e].op = "installed" /\ req[e].obj = o)

Begin(e, r) == req' = [req EXCEPT ![e] = r]
Finish(e) == req' = [req EXCEPT ![e] = Idle]

Init ==
  /\ status = [o \in Objects |-> "none"]
  /\ revs = [o \in Objects |-> <<>>]
  /\ rels = [o \in Objects |-> <<>>]
  /\ current = [o \in Objects |-> 0]
  /\ runtime = [k \in KeysInUse |-> Nothing]
  /\ req = [e \in Editors |-> Idle]
  /\ muddled = {}

-----------------------------------------------------------------------------
(* Objects.                                                                *)

KeyFree(o) == \A p \in Objects : Open(p) => ~(Type[p] = Type[o] /\ Key[p] = Key[o])

Create(o) ==
  /\ status[o] = "none" /\ KeyFree(o)
  /\ status' = [status EXCEPT ![o] = "live"]
  /\ UNCHANGED <<revs, rels, current, runtime, req, muddled>>

SetArchived(o) ==
  /\ Open(o)
  /\ status' = [status EXCEPT ![o] = IF @ = "live" THEN "archived" ELSE "live"]
  /\ UNCHANGED <<revs, rels, current, runtime, req, muddled>>

\* _deletion_blockers: only the current releases of unarchived objects count,
\* and only what they lock themselves.
Blocked(o) ==
  \E p \in Objects \ {o} :
    /\ status[p] = "live" /\ current[p] # 0
    /\ ~rels[p][current[p]].archived
    /\ \E r \in rels[p][current[p]].locks : r[1] = o

DeleteBegin(e, o) ==
  /\ Open(o) /\ ~Blocked(o)
  /\ Begin(e, [op |-> "delete", obj |-> o, n |-> 0, seen |-> 0, locks |-> {}])
  /\ UNCHANGED <<status, revs, rels, current, runtime, muddled>>

\* The registry keeps the entry: "Do not tear down the shared code shell".
DeleteCommit(e) ==
  LET o == req[e].obj
  IN /\ req[e].op = "delete" /\ Unlocked(o)
     /\ Finish(e)
     /\ IF Open(o)
          THEN /\ status' = [status EXCEPT ![o] = "deleted"]
               /\ revs' = [revs EXCEPT ![o] = <<>>]
               /\ rels' = [rels EXCEPT ![o] = <<>>]
               /\ current' = [current EXCEPT ![o] = 0]
          ELSE UNCHANGED <<status, revs, rels, current>>
     /\ UNCHANGED <<runtime, muddled>>

-----------------------------------------------------------------------------
(* Revisions.                                                              *)

Drafted(o, locks) == [base |-> LatestRev(o), locks |-> locks, tested |-> FALSE]

\* save_revision reads the latest revision, which must be the editor's base,
\* and validates the locks it is given.
SaveBegin(e, o, locks) ==
  /\ Open(o) /\ Lockable(Type[o], locks) /\ LatestRev(o) < Limit[o]
  /\ Begin(e, [op |-> "save", obj |-> o, n |-> LatestRev(o), seen |-> 0, locks |-> locks])
  /\ UNCHANGED <<status, revs, rels, current, runtime, muddled>>

\* draft_from_release copies the locks of a release, which must still be valid.
DraftBegin(e, o, n) ==
  /\ status[o] = "live" /\ n \in DOMAIN rels[o]
  /\ SaveBegin(e, o, rels[o][n].locks)

\* Mutant: the revision is numbered when it is written, whatever its base was.
SaveCommitUnchecked(e) ==
  LET o == req[e].obj
  IN /\ req[e].op = "save"
     /\ Finish(e)
     /\ IF Open(o) /\ LatestRev(o) < Limit[o]
          THEN revs' = [revs EXCEPT ![o] =
                 Append(@, [base |-> req[e].n, locks |-> req[e].locks, tested |-> FALSE])]
          ELSE UNCHANGED revs
     /\ UNCHANGED <<status, rels, current, runtime, muddled>>

\* The unique constraint on (object_id, revision_no) refuses a second child of
\* the same base.
SaveCommit(e) ==
  LET o == req[e].obj
  IN /\ req[e].op = "save"
     /\ Finish(e)
     /\ IF Open(o) /\ LatestRev(o) = req[e].n
          THEN revs' = [revs EXCEPT ![o] = Append(@, Drafted(o, req[e].locks))]
          ELSE UNCHANGED revs
     /\ UNCHANGED <<status, rels, current, runtime, muddled>>

\* migrate_object_id: a successor object with a copy of the latest revision.
MigrateObject(o, p) ==
  /\ Open(o) /\ revs[o] # <<>>
  /\ status[p] = "none" /\ Type[p] = Type[o] /\ KeyFree(p)
  /\ Lockable(Type[o], revs[o][LatestRev(o)].locks)
  /\ status' = [status EXCEPT ![p] = "live"]
  /\ revs' = [revs EXCEPT ![p] = <<Drafted(p, revs[o][LatestRev(o)].locks)>>]
  /\ UNCHANGED <<rels, current, runtime, req, muddled>>

\* migrate_references: each owner whose latest revision locks the old release
\* gets a candidate that locks the new one.
MigrateReferences(old, new) ==
  LET owners == {o \in Objects : Open(o) /\ revs[o] # <<>>
                                   /\ old \in revs[o][LatestRev(o)].locks}
      moved(o) == (revs[o][LatestRev(o)].locks \ {old}) \cup {new}
  IN /\ old # new /\ Exists(old) /\ Exists(new)
     /\ Type[old[1]] = Type[new[1]]
     /\ ~rels[old[1]][old[2]].archived /\ ~rels[new[1]][new[2]].archived
     /\ owners # {}
     /\ \A o \in owners : Lockable(Type[o], moved(o)) /\ LatestRev(o) < Limit[o]
     /\ revs' = [o \in Objects |->
                   IF o \in owners THEN Append(revs[o], Drafted(o, moved(o))) ELSE revs[o]]
     /\ UNCHANGED <<status, rels, current, runtime, req, muddled>>

\* A debug session or evaluation of the revision is completed and accepted.
Test(o, n) ==
  /\ n \in DOMAIN revs[o] /\ ~revs[o][n].tested
  /\ revs' = [revs EXCEPT ![o][n].tested = TRUE]
  /\ UNCHANGED <<status, rels, current, runtime, req, muddled>>

-----------------------------------------------------------------------------
(* Releases.                                                               *)

Installed(o, n) == runtime' = [runtime EXCEPT ![Key[o]] = <<o, n>>]
Settled(o) == muddled' = muddled \ {Key[o]}

\* publish_revision: a revision that has its release is answered with it.
PublishBegin(e, o, n) ==
  /\ Open(o) /\ n \in DOMAIN revs[o] /\ revs[o][n].tested
  /\ ReleasedAs(o, n) = {}
  /\ Begin(e, [op |-> "publish", obj |-> o, n |-> n, seen |-> LatestRel(o), locks |-> revs[o][n].locks])
  /\ UNCHANGED <<status, revs, rels, current, runtime, muddled>>

\* Mutant: the revision's release is only looked for before the insert.
PublishInstallTwice(e) ==
  LET o == req[e].obj
  IN /\ req[e].op = "publish" /\ Unlocked(o)
     /\ IF Open(o) /\ req[e].n \in DOMAIN revs[o] /\ LatestRel(o) < MaxRevs
          THEN /\ Installed(o, LatestRel(o) + 1) /\ Settled(o)
               /\ req' = [req EXCEPT ![e].op = "installed", ![e].seen = LatestRel(o)]
          ELSE Finish(e) /\ UNCHANGED <<runtime, muddled>>
     /\ UNCHANGED <<status, revs, rels, current>>

\* The row is inserted, the pointer moved and the registry changed, before the
\* commit; the unique constraints on the number and on the revision decide.
PublishInstall(e) ==
  LET o == req[e].obj
  IN /\ req[e].op = "publish" /\ Unlocked(o)
     /\ IF Open(o) /\ req[e].n \in DOMAIN revs[o]
              /\ LatestRel(o) = req[e].seen /\ ReleasedAs(o, req[e].n) = {}
          THEN /\ Installed(o, req[e].seen + 1) /\ Settled(o)
               /\ req' = [req EXCEPT ![e].op = "installed"]
          ELSE Finish(e) /\ UNCHANGED <<runtime, muddled>>
     /\ UNCHANGED <<status, revs, rels, current>>

\* Mutant: the pointer is left to the next selection.
PublishCommitOnly(e) ==
  LET o == req[e].obj
  IN /\ req[e].op = "installed"
     /\ Finish(e)
     /\ rels' = [rels EXCEPT ![o] =
          Append(@, [rev |-> req[e].n, locks |-> req[e].locks, archived |-> FALSE])]
     /\ UNCHANGED <<status, revs, current, runtime, muddled>>

PublishCommit(e) ==
  LET o == req[e].obj
  IN /\ req[e].op = "installed"
     /\ Finish(e)
     /\ rels' = [rels EXCEPT ![o] =
          Append(@, [rev |-> req[e].n, locks |-> req[e].locks, archived |-> FALSE])]
     /\ current' = [current EXCEPT ![o] = req[e].seen + 1]
     /\ UNCHANGED <<status, revs, runtime, muddled>>

\* archive_release compares with the pointer as it read it, without a lock.
ArchiveBegin(e, o, n) ==
  /\ Open(o) /\ n \in DOMAIN rels[o] /\ current[o] # n
  /\ Begin(e, [op |-> "archive", obj |-> o, n |-> n, seen |-> 0, locks |-> {}])
  /\ UNCHANGED <<status, revs, rels, current, runtime, muddled>>

ArchiveCommit(e) ==
  LET o == req[e].obj
  IN /\ req[e].op = "archive"
     /\ Finish(e)
     /\ IF req[e].n \in DOMAIN rels[o]
          THEN rels' = [rels EXCEPT ![o][req[e].n].archived = TRUE] ELSE UNCHANGED rels
     /\ UNCHANGED <<status, revs, current, runtime, muddled>>

\* select_current_release: the release is read before the row lock is had, the
\* object, its pointer and the closure under it.
SelectBegin(e, o, n) ==
  /\ Open(o) /\ n \in DOMAIN rels[o] /\ ~rels[o][n].archived
  /\ Begin(e, [op |-> "select", obj |-> o, n |-> n, seen |-> current[o], locks |-> {}])
  /\ UNCHANGED <<status, revs, rels, current, runtime, muddled>>

SelectCommit(e) ==
  LET o == req[e].obj
  IN /\ req[e].op = "select" /\ Unlocked(o)
     /\ IF /\ status[o] = "live" /\ current[o] = req[e].seen
           /\ Complete(<<o, req[e].n>>)
          THEN /\ current' = [current EXCEPT ![o] = req[e].n]
               /\ req' = [req EXCEPT ![e].op = "selected"]
          ELSE Finish(e) /\ UNCHANGED current
     /\ UNCHANGED <<status, revs, rels, runtime, muddled>>

\* Installed after the commit, when the row lock is gone.
SelectInstall(e) ==
  LET o == req[e].obj
  IN /\ req[e].op = "selected"
     /\ Finish(e)
     /\ Installed(o, req[e].n)
     /\ IF Open(o) /\ current[o] = req[e].n /\ Unlocked(o)
          THEN Settled(o) ELSE muddled' = muddled \cup {Key[o]}
     /\ UNCHANGED <<status, revs, rels, current>>

-----------------------------------------------------------------------------
(* Packages and the files of the installation (_import_workbench_entry):   *)
(* an object is found by its key or created, and unarchived; a revision of *)
(* the same content is reused, and so is its release.                      *)

Importable(o) == Open(o) \/ (status[o] = "none" /\ KeyFree(o))

ImportedRevs(o, n, locks) ==
  IF n <= LatestRev(o) THEN revs[o] ELSE Append(revs[o], Drafted(o, locks))

\* The release of revision n of o, made if there is none.
ImportedAs(o, n) ==
  IF ReleasedAs(o, n) = {} THEN LatestRel(o) + 1 ELSE CHOOSE k \in ReleasedAs(o, n) : TRUE
ImportedRels(o, n, locks) ==
  IF ReleasedAs(o, n) # {} THEN rels[o]
  ELSE Append(rels[o], [rev |-> n, locks |-> locks, archived |-> FALSE])

Importing(o, n, locks) ==
  /\ Importable(o)
  /\ n \in 1..(LatestRev(o) + 1) /\ n <= Limit[o]
  /\ n <= LatestRev(o) => revs[o][n].locks = locks
  /\ (ReleasedAs(o, n) = {} \/ current[o] = 0 \/ status[o] # "live") => Unlocked(o)

\* import_object_package, of a root and the dependency it locks, in one
\* transaction: the release of the dependency becomes current if there is none
\* and is installed (after the commit; here in the same step) if it is new or
\* became current; the root stays a draft.
Import(root, dep, n) ==
  LET r == ImportedAs(dep, n)
      chosen == current[dep] = 0
  IN /\ Type[dep] = DependsOn(Type[root])
     /\ Importing(dep, n, {})
     /\ Importable(root) /\ LatestRev(root) < Limit[root]
     /\ status' = [status EXCEPT ![root] = "live", ![dep] = "live"]
     /\ revs' = [revs EXCEPT ![dep] = ImportedRevs(dep, n, {}),
                             ![root] = Append(@, Drafted(root, {<<dep, r>>}))]
     /\ rels' = [rels EXCEPT ![dep] = ImportedRels(dep, n, {})]
     /\ current' = [current EXCEPT ![dep] = IF chosen THEN r ELSE @]
     /\ IF chosen \/ ReleasedAs(dep, n) = {}
          THEN /\ Installed(dep, r)
               /\ IF chosen THEN Settled(dep) ELSE muddled' = muddled \cup {Key[dep]}
          ELSE UNCHANGED <<runtime, muddled>>
     /\ UNCHANGED req

\* migrate_runtime_catalog: "Importing and selecting a publication pointer are
\* intentionally separate"; what is selected is installed.
MigrateCatalog(o, n, makeCurrent) ==
  /\ Type[o] = "skill" /\ Importing(o, n, {}) /\ Unlocked(o)
  /\ status' = [status EXCEPT ![o] = "live"]
  /\ revs' = [revs EXCEPT ![o] = ImportedRevs(o, n, {})]
  /\ rels' = [rels EXCEPT ![o] = ImportedRels(o, n, {})]
  /\ IF makeCurrent
       THEN /\ current' = [current EXCEPT ![o] = ImportedAs(o, n)]
            /\ Installed(o, ImportedAs(o, n)) /\ Settled(o)
       ELSE UNCHANGED <<current, runtime, muddled>>
  /\ UNCHANGED req

\* bootstrap_from_runtime: an empty catalogue is filled from the files, which
\* the process already runs.
Bootstrap(o) ==
  /\ \A p \in Objects : ~Open(p)
  /\ status[o] = "none" /\ Type[o] = "skill"
  /\ status' = [status EXCEPT ![o] = "live"]
  /\ revs' = [revs EXCEPT ![o] = <<Drafted(o, {})>>]
  /\ rels' = [rels EXCEPT ![o] = <<[rev |-> 1, locks |-> {}, archived |-> FALSE]>>]
  /\ current' = [current EXCEPT ![o] = 1]
  /\ Installed(o, 1) /\ Settled(o)
  /\ UNCHANGED req

\* The process restarts: open transactions are rolled back and the registry is
\* filled from the pointers (install_runtime_catalog).
Restart ==
  /\ req' = [e \in Editors |-> Idle]
  /\ runtime' = [k \in KeysInUse |->
       LET owners == {o \in Objects : /\ Key[o] = k /\ status[o] = "live" /\ current[o] # 0
                                      /\ ~rels[o][current[o]].archived}
       IN IF owners = {} THEN Nothing
          ELSE LET o == CHOOSE p \in owners : TRUE IN <<o, current[o]>>]
  /\ muddled' = {}
  /\ UNCHANGED <<status, revs, rels, current>>

Catalogue ==
  \E o \in Objects :
    \/ o \in Edited /\ (Create(o) \/ SetArchived(o) \/ \E n \in 1..MaxRevs : Test(o, n))
    \/ \E p \in Objects : MigrateObject(o, p)
    \/ \E p \in Edited, n \in 1..MaxRevs : Import(o, p, n)
    \/ \E n \in 1..MaxRevs, current_too \in BOOLEAN :
         o \in Edited /\ MigrateCatalog(o, n, current_too)
    \/ o \in Edited /\ Bootstrap(o)

Start(e) ==
  \/ \E o \in Edited : DeleteBegin(e, o)
  \/ \E o \in Edited, locks \in {{}} \cup {{r} : r \in Releases} : SaveBegin(e, o, locks)
  \/ \E o \in Edited, n \in 1..MaxRevs :
       DraftBegin(e, o, n) \/ PublishBegin(e, o, n) \/ ArchiveBegin(e, o, n) \/ SelectBegin(e, o, n)

Edit(e) ==
  \/ req[e] = Idle /\ Start(e)
  \/ SaveCommit(e) \/ PublishInstall(e) \/ PublishCommit(e) \/ ArchiveCommit(e)
  \/ SelectCommit(e) \/ SelectInstall(e) \/ DeleteCommit(e)

Next ==
  \/ Catalogue
  \/ \E old, new \in {r \in Releases : Exists(r)} : MigrateReferences(old, new)
  \/ \E e \in Editors : Edit(e)
  \/ Restart

Spec == Init /\ [][Next]_vars

-----------------------------------------------------------------------------
(* Properties.                                                             *)

\* Rows and requests keep their shapes.
TypeOK ==
  /\ status \in [Objects -> {"none", "live", "archived", "deleted"}]
  /\ revs \in [Objects -> Seq(Revision)]
  /\ rels \in [Objects -> Seq(Release)]
  /\ current \in [Objects -> 0..MaxRevs]
  /\ runtime \in [KeysInUse -> Releases \cup {Nothing}]
  /\ req \in [Editors -> Request]
  /\ muddled \subseteq KeysInUse

\* Concurrent saves, drafts, migrations and imports never fork or skip: each
\* revision was made from the one before it.
RevisionChain ==
  \A o \in Objects : \A n \in DOMAIN revs[o] : revs[o][n].base = n - 1

\* However publications and imports overlap, a revision is released once, with
\* the dependencies it was tested with, and a pointer names a release.
ReleasedOnce ==
  \A o \in Objects :
    /\ current[o] <= Len(rels[o])
    /\ \A k \in DOMAIN rels[o] :
         /\ ReleasedAs(o, rels[o][k].rev) = {k}
         /\ rels[o][k].rev \in DOMAIN revs[o]
         /\ rels[o][k].locks = revs[o][rels[o][k].rev].locks

\* The history of every object is in order, whoever worked on it at the same time.
HistoryInOrder == TypeOK /\ RevisionChain /\ ReleasedOnce

\* What runs under the key of an object is its current release, or nothing (it, or its
\* release, was archived when the process started), except while a publication or
\* selection is being installed, or after one that was overlapped, or after an import
\* of a version that was not selected.
RuntimeIsCurrent ==
  \A o \in Objects :
    \/ ~Open(o) \/ current[o] = 0 \/ Key[o] \in muddled
    \/ \E e \in Editors : req[e].op \in {"installed", "selected"} /\ req[e].obj = o
    \/ runtime[Key[o]] \in {Nothing, <<o, current[o]>>}
=============================================================================
