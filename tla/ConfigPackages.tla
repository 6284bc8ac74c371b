---------------------------- MODULE ConfigPackages ----------------------------
(***************************************************************************)
(* Configuration packages between two installations of the workbench       *)
(* (workbench/service.py: export_configuration, _validated_package_contents, *)
(* import_object_package, _import_workbench_entry).                        *)
(*                                                                         *)
(* A package holds a release or a draft and every release it locks, under  *)
(* the ids of where it was made.  Importing it finds or makes an object by *)
(* its key, a revision by its content and a release of that revision, and  *)
(* rewrites the locks to them; the root stays a draft.  It takes one entry *)
(* after the other in a transaction that may still fail; while one is open *)
(* nothing else happens, because what a server does with its catalogue     *)
(* besides (archiving, deleting, selecting, two editors at once) is        *)
(* Releases', and activating a package is Deployments'.                    *)
(***************************************************************************)
EXTENDS Naturals, Sequences, FiniteSets

CONSTANTS
  Servers,               \* installations
  Skills, Experts, Teams,\* keys of objects, the same on every server
  Contents,              \* what the payload and files of a Skill may be
  Typed,                 \* contents with files whose media type an import would not guess
  Foreign,               \* contents that declare a capability of another Skill's script
  Edited,                \* <<server, key>>: who edits what
  MaxRevs,               \* bound: revisions of a key on a server
  None                   \* no package, no content

VARIABLES
  revs,     \* server, key -> sequence of revisions
  rels,     \* server, key -> sequence of the revisions' numbers released
  current,  \* server, key -> number of the current release, 0 if none
  import,   \* the transaction of an import: the server, the package, the entries left, and
            \* the catalogue and the local ids as they are so far
  arrived   \* the last import: the package, the server and what became of it

vars == <<revs, rels, current, import, arrived>>

Keys == Skills \cup Experts \cup Teams
Layer(k) == IF k \in Skills THEN 0 ELSE IF k \in Experts THEN 1 ELSE 2
DependsOn(k) == {d \in Keys : Layer(d) + 1 = Layer(k)}

\* A revision's locks are releases, a release is <<key, number>>. The media types of its
\* files are part of its content hash.
Revision(content, media, locks) == [content |-> content, media |-> media, locks |-> locks]

Init ==
  /\ revs = [s \in Servers |-> [k \in Keys |-> <<>>]]
  /\ rels = [s \in Servers |-> [k \in Keys |-> <<>>]]
  /\ current = [s \in Servers |-> [k \in Keys |-> 0]]
  /\ import = None
  /\ arrived = None

Released(s) == UNION {{k} \X DOMAIN rels[s][k] : k \in Keys}
RevisionOf(s, r) == revs[s][r[1]][rels[s][r[1]][r[2]]]

-----------------------------------------------------------------------------
(* Editing.                                                                *)

\* A later import meets another catalogue.
Touched(s) ==
  arrived' = IF arrived # None /\ arrived.at = s THEN [arrived EXCEPT !.untouched = FALSE] ELSE arrived

Saved(s, k, revision) ==
  /\ import = None
  /\ Len(revs[s][k]) < MaxRevs
  /\ revs' = [revs EXCEPT ![s][k] = Append(@, revision)]
  /\ Touched(s)
  /\ UNCHANGED <<rels, current, import>>

\* _validate_dependencies: releases of the layer below, one of each object.
Lockable(s, k) ==
  {locks \in SUBSET {r \in Released(s) : r[1] \in DependsOn(k)} :
     \A r, q \in locks : r[1] = q[1] => r = q}

\* save_revision. Files keep the media types the editor sent; only Skills have files.
Save(s, k, locks) ==
  /\ <<s, k>> \in Edited /\ locks \in Lockable(s, k)
  /\ IF k \in Skills
       THEN \E content \in Contents :
              Saved(s, k, Revision(content, IF content \in Typed THEN "own" ELSE "generic", {}))
       ELSE Saved(s, k, Revision(None, "generic", locks))

\* _validate_payload: an expert needs a Skill, a team two experts.
Valid(k, revision) == Cardinality(revision.locks) >= Layer(k)

\* publish_revision, with evidence.
Publish(s, k, n) ==
  /\ import = None
  /\ <<s, k>> \in Edited /\ n \in DOMAIN revs[s][k] /\ Valid(k, revs[s][k][n])
  /\ \A m \in DOMAIN rels[s][k] : rels[s][k][m] # n
  /\ rels' = [rels EXCEPT ![s][k] = Append(@, n)]
  /\ current' = [current EXCEPT ![s][k] = Len(rels[s][k]) + 1]
  /\ Touched(s)
  /\ UNCHANGED <<revs, import>>

-----------------------------------------------------------------------------
(* Export.                                                                 *)

\* _release_closure: a release, what it locks and what that locks.
Locked(s, rs) == UNION {RevisionOf(s, r).locks : r \in rs}
Closure(s, rs) == rs \cup Locked(s, rs) \cup Locked(s, Locked(s, rs))

\* Two versions of one object in one closure are refused (DEPENDENCY_VERSION_CONFLICT).
Unified(rs) == \A r, q \in rs : r[1] = q[1] => r = q

Entry(id, k, revision) == [id |-> id, key |-> k, content |-> revision.content, locks |-> revision.locks]

Package(root, entries) == [root |-> root, entries |-> entries]

\* What was published, with its closure.
ReleasePackages(s) ==
  {Package(r, {Entry(q, q[1], RevisionOf(s, q)) : q \in Closure(s, {r})}) :
     r \in {r \in Released(s) : Unified(Closure(s, {r}))}}

\* A draft with the closures of its locks, each without conflict in itself. The id of
\* its entry is no release's.
DraftPackage(s, k, revision) ==
  Package(<<k, 0>>, {Entry(<<k, 0>>, k, revision)} \cup
                    {Entry(q, q[1], RevisionOf(s, q)) : q \in UNION {Closure(s, {r}) : r \in revision.locks}})

DraftPackages(s) ==
  {DraftPackage(s, x[1], revs[s][x[1]][x[2]]) :
     x \in {x \in UNION {{k} \X DOMAIN revs[s][k] : k \in Keys} :
              \A r \in revs[s][x[1]][x[2]].locks : Unified(Closure(s, {r}))}}

-----------------------------------------------------------------------------
(* Import.                                                                 *)

\* _validated_package_contents: what an export writes is complete and its hashes agree;
\* but a Skill may only declare capabilities of scripts in its own entry.
Accepted(package) == \A entry \in package.entries : entry.content \notin Foreign

\* Mutant: the lock becomes the newest local release of the object.
LocalNewest(acc, locks) == {<<id[1], Len(acc.rels[id[1]])>> : id \in locks}

\* The locks of an entry under local ids: what each locked entry became.
Local(acc, locks) == {acc.local[id].release : id \in locks}

\* Mutant: a revision is found by its payload and files, whatever it locks.
SameContentUnlocked(known, new) == known.content = new.content /\ known.media = new.media

\* content_hash: the payload, the files with their media types, and the locks.
SameContent(known, new) == known = new

\* Mutant: every import makes a revision.
FoundNever(known, new) == 0

\* The latest revision of that content, 0 if there is none.
Found(known, new) ==
  LET same == {n \in DOMAIN known : SameContent(known[n], new)} IN
  IF same = {} THEN 0 ELSE CHOOSE n \in same : \A m \in same : m <= n

\* Where a value is in a sequence, 0 if nowhere.
At(seq, value) ==
  IF \E i \in DOMAIN seq : seq[i] = value THEN CHOOSE i \in DOMAIN seq : seq[i] = value ELSE 0

\* Mutant: the release made for the root of the package stays.
KeptRootReleased(root, entry, released, n) == Append(released, n)

\* The release of revision n. That made for the root of the package is deleted again:
\* "Keep the root as a candidate revision so the receiving environment must run its
\* own tests and publish decision."
Kept(root, entry, released, n) == IF entry.id = root THEN released ELSE Append(released, n)

\* _import_workbench_entry: a revision of the same content and its release are used
\* again. The first release of a key is its current one.
Install(root, acc, entry) ==
  LET k == entry.key
      new == Revision(entry.content, "generic", Local(acc, entry.locks))
      found == Found(acc.revs[k], new)
      n == IF found = 0 THEN Len(acc.revs[k]) + 1 ELSE found
      known == At(acc.rels[k], n)
      released == IF known = 0 THEN Kept(root, entry, acc.rels[k], n) ELSE acc.rels[k]
      release == <<k, At(released, n)>> IN
  [acc EXCEPT
     !.revs[k] = IF found = 0 THEN Append(acc.revs[k], new) ELSE acc.revs[k],
     !.rels[k] = released,
     !.current[k] = IF acc.current[k] = 0 THEN release[2] ELSE acc.current[k],
     !.local = [id \in DOMAIN acc.local \cup {entry.id} |->
                  IF id = entry.id THEN [revision |-> n, release |-> release] ELSE acc.local[id]]]

\* import_object_package opens its transaction. What the last import brought is kept in
\* mind if this one has the same package and catalogue before it.
Again(s, package) ==
  arrived # None /\ arrived.at = s /\ arrived.package = package /\ arrived.untouched

Open(s, package) ==
  /\ import = None /\ Accepted(package)
  /\ import' = [at |-> s, package |-> package, left |-> package.entries, local |-> << >>,
                revs |-> revs[s], rels |-> rels[s], current |-> current[s]]
  /\ arrived' = IF Again(s, package) THEN arrived ELSE None
  /\ UNCHANGED <<revs, rels, current>>

\* The next entry: Skills come before experts, and experts before the team.
Take ==
  /\ import # None
  /\ \E entry \in import.left :
       /\ \A other \in import.left : Layer(entry.key) <= Layer(other.key)
       /\ import' = [Install(import.package.root, import, entry) EXCEPT !.left = @ \ {entry}]
       /\ Len(import'.revs[entry.key]) <= MaxRevs
  /\ UNCHANGED <<revs, rels, current, arrived>>

\* Whatever goes wrong on the way rolls the transaction back.
RollBack ==
  /\ import # None /\ import' = None
  /\ UNCHANGED <<revs, rels, current, arrived>>

Commit ==
  /\ import # None /\ import.left = {}
  /\ revs' = [revs EXCEPT ![import.at] = import.revs]
  /\ rels' = [rels EXCEPT ![import.at] = import.rels]
  /\ current' = [current EXCEPT ![import.at] = import.current]
  /\ arrived' = [at |-> import.at, package |-> import.package, local |-> import.local,
                 untouched |-> TRUE]
  /\ import' = None

\* A package is exported on one server and imported on another.
Send(s) == \E t \in Servers \ {s} : \E p \in ReleasePackages(t) \cup DraftPackages(t) : Open(s, p)

\* The package that was imported last is imported again, there or where it came from.
SendAgain(s) == arrived # None /\ Open(s, arrived.package)

Next ==
  \/ \E s \in Servers :
       \/ \E k \in Keys : \E locks \in Lockable(s, k) : Save(s, k, locks)
       \/ \E k \in Keys, n \in 1..MaxRevs : Publish(s, k, n)
       \/ Send(s) \/ SendAgain(s)
  \/ Take \/ RollBack \/ Commit

Spec == Init /\ [][Next]_vars

-----------------------------------------------------------------------------
(* Properties.                                                             *)

\* The entries of a package below an id, down to the Skills.
Sent(p, id) ==
  LET entry(i) == CHOOSE x \in p.entries : x.id = i
      below(i) == [key |-> entry(i).key, content |-> entry(i).content] IN
  [top |-> below(id),
   locks |-> {[top |-> below(i), locks |-> {below(j) : j \in entry(i).locks}] : i \in entry(id).locks}]

\* The same of a revision of a server.
Stored(s, k, n) ==
  LET below(r) == [key |-> r[1], content |-> RevisionOf(s, r).content] IN
  [top |-> [key |-> k, content |-> revs[s][k][n].content],
   locks |-> {[top |-> below(r), locks |-> {below(q) : q \in RevisionOf(s, r).locks}] :
                r \in revs[s][k][n].locks}]

\* Every entry of an imported package became a revision with the content of the entry
\* that locks, down to the Skills, what the entry locked, be the revisions and
\* releases new or found there, and whatever either server does later.
DeliveredAsSent ==
  arrived # None =>
    \A entry \in arrived.package.entries :
      Stored(arrived.at, entry.key, arrived.local[entry.id].revision) = Sent(arrived.package, entry.id)

\* A package that is imported again into a catalogue nobody touched since makes nothing
\* new: what it made the first time is found by content although the ids differ.
ImportedOnce ==
  LET s == arrived.at IN
    /\ arrived # None /\ arrived.untouched /\ arrived' # None
    /\ arrived'.at = s /\ arrived'.untouched /\ arrived'.package = arrived.package
    => revs'[s] = revs[s] /\ rels'[s] = rels[s]

\* An import never moves a publication pointer, and never releases its root.
ImportPublishesNothing ==
  \A s \in Servers, k \in Keys :
    arrived' # None /\ arrived'.untouched /\ arrived'.at = s =>
      /\ current'[s][k] # current[s][k] => current[s][k] = 0
      /\ k = arrived'.package.root[1] => rels'[s][k] = rels[s][k] /\ current'[s][k] = current[s][k]
=============================================================================
