------------------------------- MODULE Workbench -------------------------------
(***************************************************************************)
(* The tests of unpublished revisions: their turns in the process that     *)
(* serves all conversations (CandidateTests), and what a test of a team    *)
(* stores from turn to turn (CandidateTeams); and the packages in which    *)
(* revisions travel between installations (ConfigPackages).  They share no *)
(* variable: CandidateTests tells which turns are stored, CandidateTeams   *)
(* what, and the catalogues of the installations are not the process's.    *)
(***************************************************************************)
EXTENDS Naturals

CONSTANTS
  TestSkills, Enabled, Tests, TestSnapshot, TestRoot, Turns, TestOf, Evaluations, MaxVersion,
  Members, TestCoordinator, MaxTurns,
  Servers, PackedSkills, PackedExperts, PackedTeams, PackedContents, PackedTyped,
  PackedForeign, EditedOn, MaxPackedRevs,
  Nobody

VARIABLES cRegistry, cInstalled, cLock, cActive, cCancelled, cRow, cPc, cSeen, cPrevious,
          cOvertaken, cMet,
          mRow, mCtx, mPc, mTurn,
          pRevs, pRels, pCurrent, pImport, pArrived

CT == INSTANCE CandidateTests WITH
  Skills <- TestSkills, Snapshot <- TestSnapshot, Root <- TestRoot, None <- Nobody,
  registry <- cRegistry, installed <- cInstalled, lock <- cLock, active <- cActive,
  cancelled <- cCancelled, row <- cRow, pc <- cPc, seen <- cSeen, previous <- cPrevious,
  overtaken <- cOvertaken, met <- cMet

CM == INSTANCE CandidateTeams WITH
  Coordinator <- TestCoordinator, None <- Nobody,
  row <- mRow, ctx <- mCtx, pc <- mPc, turn <- mTurn

CP == INSTANCE ConfigPackages WITH
  Skills <- PackedSkills, Experts <- PackedExperts, Teams <- PackedTeams,
  Contents <- PackedContents, Typed <- PackedTyped, Foreign <- PackedForeign,
  Edited <- EditedOn, MaxRevs <- MaxPackedRevs, None <- Nobody,
  revs <- pRevs, rels <- pRels, current <- pCurrent, import <- pImport, arrived <- pArrived

ASSUME WorkbenchAssumption == CT!CandidateAssumption /\ CM!TeamAssumption

cVars == <<cRegistry, cInstalled, cLock, cActive, cCancelled, cRow, cPc, cSeen, cPrevious,
           cOvertaken, cMet>>
mVars == <<mRow, mCtx, mPc, mTurn>>
pVars == <<pRevs, pRels, pCurrent, pImport, pArrived>>

\* The registry serves a test's overlay to that test alone and what was installed last
\* afterwards; as long as no Skill is switched off, a turn that ended keeps no mount and no
\* lock (workbench/service.py:2756, CandidateTests).
OverlaysComeAndGo ==
  /\ CT!OverlayOfTheOwner /\ CT!InstalledIsServed
  /\ TestSkills \subseteq Enabled => CT!MountedForTheCall

\* What a test has stored holds from turn to turn: a turn that met no other one, whose form
\* it is, which card was confirmed, and the words of the tester (workbench/service.py,
\* CandidateTests and CandidateTeams).
StoredTestsSound ==
  /\ CT!LoneTurnsKept
  /\ CM!FormsOfTheExpert /\ CM!CardsConfirmedOnce /\ CM!WordsRecordedOnce

\* Importing a package delivers what was exported, makes nothing a second time and
\* publishes nothing (workbench/service.py, ConfigPackages).
DeliveredAsSent == CP!DeliveredAsSent
ImportsAreQuiet == [][CP!ImportedOnce /\ CP!ImportPublishesNothing]_pVars

\* An accepted turn of a test ends (workbench/service.py, CandidateTests).
TurnsEnd == CT!TurnsEnd
=============================================================================
