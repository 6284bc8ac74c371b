------------------------------- MODULE Catalogue -------------------------------
(***************************************************************************)
(* What is published and what is deployed: the deployments of the workbench *)
(* (Deployments), and the catalogue of objects, revisions and releases they  *)
(* are made from (Releases).  The two share no variable: a deployment is an   *)
(* immutable package.                                                       *)
(***************************************************************************)
EXTENDS Deployments

CONSTANTS Objects, Type, Key, Editors, Edited, Limit, MaxRevs, Nothing

VARIABLES rStatus, rRevs, rRels, rCurrent, rRuntime, rReq, rMuddled

RL == INSTANCE Releases WITH
  status <- rStatus, revs <- rRevs, rels <- rRels, current <- rCurrent,
  runtime <- rRuntime, req <- rReq, muddled <- rMuddled

ASSUME ReleasesAssumption == RL!CatalogueAssumption

rVars == <<rStatus, rRevs, rRels, rCurrent, rRuntime, rReq, rMuddled>>

\* The catalogue numbers its revisions and releases without gaps or repeats, and the
\* process runs what is published (workbench/service.py, Releases).
HistoryInOrder == RL!HistoryInOrder
RuntimeIsCurrent == RL!RuntimeIsCurrent
=============================================================================
