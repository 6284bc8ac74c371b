------------------------------ MODULE Deployments ------------------------------
(***************************************************************************)
(* Production deployments (workbench/service.py) and the start of a        *)
(* service process (api/main.py).                                          *)
(*                                                                         *)
(* A deployment is a row with an immutable package.  Operators activate,   *)
(* deactivate, restore and roll back rows; each request reads the rows,    *)
(* may change the registry of the process, and then commits.  Sessions see *)
(* the team that Snapshot names.  There is one environment; the content of *)
(* packages is a version under each key; wording, hashes, zip checks and   *)
(* the audit log are left out.                                             *)
(***************************************************************************)
EXTENDS Naturals, Sequences, FiniteSets

CONSTANTS
  Rows,         \* deployment rows
  Kind,         \* the type of a row's root object
  Root,         \* a row's root object
  Package,      \* a row's package: the version of each key in it
  Keys,         \* keys of the runtime registry
  Published,    \* versions the workbench may publish under a key
  Operators,    \* requests to the deployment routes that run at the same time
  None          \* no row; under a key: what the files of the installation say

ASSUME DeploymentAssumption ==
  /\ None \notin Rows
  /\ \A d, e \in Rows : Root[d] = Root[e] => Kind[d] = Kind[e]

VARIABLES
  status,    \* absent, staged, active, superseded, rolled_back or deactivated
  previous,  \* previous_deployment_id
  order,     \* the active rows by activated_at, the latest last
  published, \* the current release of each key in the workbench
  runtime,   \* what the process runs under each key
  req,       \* what an operator's request has read
  raced      \* history: an activation committed over rows it had not read

vars == <<status, previous, order, published, runtime, req, raced>>

Statuses == {"absent", "staged", "active", "superseded", "rolled_back", "deactivated"}
Past == {"superseded", "rolled_back", "deactivated"}

Idle == [op |-> "idle"]
Reads == [op : {"activate", "rollback", "installed", "deactivate"},
          target : Rows, was : Statuses, leaves : Rows \cup {None},
          left : {"superseded", "rolled_back"}, seen : SUBSET Rows]
Request == {Idle} \cup Reads

\* _deployment_root_team_id
IsTeam(d) == Kind[d] = "expert_team"

\* Mutant: only a deployment of the same object gives way.
RivalsByRoot(d, e) == Root[d] = Root[e]

\* Who an activation of d supersedes: any team for a team, any deployment of
\* the same object for an expert or a skill.
Rivals(d, e) == IF IsTeam(d) THEN IsTeam(e) ELSE Root[d] = Root[e]

Active == {d \in Rows : status[d] = "active"}

Eligible(d, active) == {e \in active \ {d} : Rivals(d, e)}

\* The most recently activated of a set of rows, or None.
Latest(S) ==
  IF S = {} THEN None
  ELSE CHOOSE d \in S : \A i, j \in DOMAIN order :
         (order[i] = d /\ order[j] \in S) => j <= i

\* active_deployment_snapshot: only a team is served to sessions.
Snapshot == Latest({d \in Active : IsTeam(d)})

\* _install_deployment_runtime, over what the registry holds.
Over(base, package) == [k \in Keys |-> IF k \in DOMAIN package THEN package[k] ELSE base[k]]
Unloaded == [k \in Keys |-> None]

Begin(w, r) == req[w] = Idle /\ req' = [req EXCEPT ![w] = r]
Finish(w) == req' = [req EXCEPT ![w] = Idle]

Init ==
  /\ status = [d \in Rows |-> "absent"]
  /\ previous = [d \in Rows |-> None]
  /\ order = <<>>
  /\ published = Unloaded
  /\ runtime = Unloaded
  /\ req = [w \in Operators |-> Idle]
  /\ raced = FALSE

-----------------------------------------------------------------------------
(* Operators.                                                              *)

Reading(w, op, d, leaves, left) ==
  Begin(w, [op |-> op, target |-> d, was |-> status[d], leaves |-> leaves,
            left |-> left, seen |-> Active])

\* import_package: a package that is in the table is answered with its row.
Import(d) ==
  /\ status[d] = "absent"
  /\ \A e \in Rows : status[e] # "absent" => Package[e] # Package[d]
  /\ status' = [status EXCEPT ![d] = "staged"]
  /\ UNCHANGED <<previous, order, published, runtime, req, raced>>

\* activate_deployment takes a row in any state, restore_deployment one that was
\* active before; they go on alike.  Of several rivals the first is superseded,
\* in whatever order the rows come.
ActivateBegin(w, d) ==
  /\ status[d] # "absent"
  /\ \E e \in Eligible(d, Active) \cup {None} :
       /\ e = None => Eligible(d, Active) = {}
       /\ Reading(w, "activate", d, e, "superseded")
  /\ UNCHANGED <<status, previous, order, published, runtime, raced>>

RestoreBegin(w, d) == status[d] \in Past /\ ActivateBegin(w, d)

\* rollback_deployment: the row that d replaced is active again.
RollbackBegin(w, d) ==
  /\ status[d] = "active" /\ previous[d] # None
  /\ Begin(w, [op |-> "rollback", target |-> previous[d], was |-> status[previous[d]],
               leaves |-> d, left |-> "rolled_back", seen |-> Active])
  /\ UNCHANGED <<status, previous, order, published, runtime, raced>>

Installed(r) == [op |-> "installed", target |-> r.target, was |-> r.was, leaves |-> r.leaves,
                 left |-> r.left, seen |-> r.seen]

\* The registry is changed before the commit.
Install(w) ==
  /\ req[w].op \in {"activate", "rollback"}
  /\ req' = [req EXCEPT ![w] = Installed(@)]
  /\ runtime' = Over(runtime, Package[req[w].target])
  /\ UNCHANGED <<status, previous, order, published, raced>>

\* The active rows when d has got the latest activated_at.
Reordered(d, newStatus) ==
  SelectSeq(Append(SelectSeq(order, LAMBDA e : e # d), d), LAMBDA e : newStatus[e] = "active")

\* Mutant: what was active is left to be deactivated by hand.
ActivateCommitBeside(w) ==
  LET r == req[w]
  IN /\ r.op = "installed"
     /\ Finish(w)
     /\ status' = [status EXCEPT ![r.target] = IF r.was = "active" THEN @ ELSE "active"]
     /\ previous' = IF r.left = "superseded" /\ r.leaves # None
                      THEN [previous EXCEPT ![r.target] = r.leaves] ELSE previous
     /\ order' = Reordered(r.target, status')
     /\ raced' = (raced \/ Active # r.seen)
     /\ UNCHANGED <<published, runtime>>

\* Only columns whose value changed since they were read are written: a row that
\* was read as active is not made active again.
ActivateCommit(w) ==
  LET r == req[w]
  IN /\ r.op = "installed"
     /\ Finish(w)
     /\ status' = [d \in Rows |-> IF d = r.leaves THEN r.left
                                  ELSE IF d = r.target /\ r.was # "active" THEN "active"
                                  ELSE status[d]]
     /\ previous' = IF r.left = "superseded" /\ r.leaves # None
                      THEN [previous EXCEPT ![r.target] = r.leaves] ELSE previous
     /\ order' = Reordered(r.target, status')
     /\ raced' = (raced \/ Active # r.seen)
     /\ UNCHANGED <<published, runtime>>

\* The transaction fails; what was installed stays.
Fail(w) ==
  /\ req[w] # Idle
  /\ Finish(w)
  /\ UNCHANGED <<status, previous, order, published, runtime, raced>>

DeactivateBegin(w, d) ==
  /\ IsTeam(d) /\ status[d] = "active"
  /\ Reading(w, "deactivate", d, None, "superseded")
  /\ UNCHANGED <<status, previous, order, published, runtime, raced>>

DeactivateCommit(w) ==
  /\ req[w].op = "deactivate"
  /\ Finish(w)
  /\ status' = [status EXCEPT ![req[w].target] = "deactivated"]
  /\ order' = SelectSeq(order, LAMBDA d : d # req[w].target)
  /\ UNCHANGED <<previous, published, runtime, raced>>

-----------------------------------------------------------------------------
(* The process.                                                            *)

\* The workbench publishes a version of a key, and installs it (see Releases).
Publish(k, v) ==
  /\ published[k] # v
  /\ published' = [published EXCEPT ![k] = v]
  /\ runtime' = [runtime EXCEPT ![k] = v]
  /\ UNCHANGED <<status, previous, order, req, raced>>

Current == [k \in {j \in Keys : published[j] # None} |-> published[k]]

\* create_app, with business configuration from the database if a team is active:
\* its package, then the current releases, then the package of the deployment
\* that was activated last; otherwise the files.
Restart ==
  /\ req' = [w \in Operators |-> Idle]
  /\ runtime' = IF Snapshot = None THEN Unloaded
                ELSE Over(Over(Over(Unloaded, Package[Snapshot]), Current), Package[Latest(Active)])
  /\ UNCHANGED <<status, previous, order, published, raced>>

Operator(w) ==
  \/ \E d \in Rows : ActivateBegin(w, d) \/ RestoreBegin(w, d) \/ RollbackBegin(w, d) \/ DeactivateBegin(w, d)
  \/ Install(w) \/ ActivateCommit(w) \/ DeactivateCommit(w) \/ Fail(w)

Next ==
  \/ \E d \in Rows : Import(d)
  \/ \E w \in Operators : Operator(w)
  \/ \E k \in Keys, v \in Published : Publish(k, v)
  \/ Restart

Spec == Init /\ [][Next]_vars

-----------------------------------------------------------------------------
(* Properties.                                                             *)

\* Rows and requests keep their shapes, and no row is its own predecessor.
TypeOK ==
  /\ status \in [Rows -> Statuses]
  /\ previous \in [Rows -> Rows \cup {None}] /\ \A d \in Rows : previous[d] # d
  /\ order \in Seq(Rows)
  /\ published \in [Keys -> Published \cup {None}]
  /\ DOMAIN runtime = Keys
  /\ req \in [Operators -> Request]
  /\ raced \in BOOLEAN

\* However activations, restorations, rollbacks and deactivations follow each
\* other, fail or are cut off by a restart, two deployments that exclude each
\* other are never both active - unless one was activated over rows that had
\* changed since it read them.
OneActive ==
  raced \/ \A d, e \in Active : Rivals(d, e) => d = e

\* "Only the production expert team that is active can be taken offline", and
\* then it is: no other team comes up from below, unless activations raced.
DeactivationStops ==
  [][(\E w \in Operators : DeactivateCommit(w) /\ status[req[w].target] = "active" /\ ~raced)
       => Snapshot' = None]_vars
=============================================================================
