---------------------------- MODULE StreamedSession ----------------------------
(***************************************************************************)
(* What a session keeps of its turns besides the row that ChatStream is     *)
(* about: what the frames of a run show and the history serves              *)
(* (StreamEvents), the memory that goes into the next prompt                *)
(* (ConversationMemory), and the stored session under the requests that     *)
(* come without a stream (SessionRecord).  The three share no variable:     *)
(* one run, one checkpoint row, and one session row.                        *)
(***************************************************************************)
EXTENDS Naturals

CONSTANTS
  MaxParts, LabelOf,
  MemoryProcs, Script, Window, AsyncAt, SyncAt, Bound, DisplacedTurns, MemoryCrashes,
  PlainRequests,    \* the requests without a stream
  Branches, First, Unbound,
  Nobody

VARIABLES eKind, eView, eW, eP, eI, eS, eSummary, eQuiet, eLive, eCurrent, eCancelled,
          eFinalized, eStreamed, eMessage, eStored, eFresh,
          mStore, mAt, mOn, mCopy, mRead, mJobs, mSpoken, mOvertaken, mCrashes,
          sRow, sBranch, sItems, sLog, sFacts, sReq

SE == INSTANCE StreamEvents WITH
  kind <- eKind, view <- eView, wpc <- eW, ppc <- eP, ipc <- eI, spc <- eS,
  summary <- eSummary, quiet <- eQuiet, live <- eLive, current <- eCurrent,
  cancelled <- eCancelled, finalized <- eFinalized, streamed <- eStreamed,
  message <- eMessage, stored <- eStored, fresh <- eFresh

CM == INSTANCE ConversationMemory WITH
  Procs <- MemoryProcs, Displaced <- DisplacedTurns, Crashes <- MemoryCrashes,
  store <- mStore, at <- mAt, on <- mOn, copy <- mCopy, read <- mRead, jobs <- mJobs,
  spoken <- mSpoken, overtaken <- mOvertaken, crashes <- mCrashes

SD == INSTANCE SessionRecord WITH
  Requests <- PlainRequests, Gone <- Nobody, None <- Nobody,
  row <- sRow, branch <- sBranch, items <- sItems, log <- sLog, facts <- sFacts, req <- sReq

ASSUME StreamedAssumption == CM!MemoryAssumption /\ SD!SessionAssumption

eVars == <<eKind, eView, eW, eP, eI, eS, eSummary, eQuiet, eLive, eCurrent, eCancelled,
           eFinalized, eStreamed, eMessage, eStored, eFresh>>
mVars == <<mStore, mAt, mOn, mCopy, mRead, mJobs, mSpoken, mOvertaken, mCrashes>>
sVars == <<sRow, sBranch, sItems, sLog, sFacts, sReq>>

\* The timeline of a run stays finished under its answer, and the history serves what the
\* frames had shown (sse_protocol.py, streaming_runner.py, StreamEvents).
HistoryMatchesFrames == SE!ThinkingEnds /\ SE!ReloadedAsShown

\* A blocked answer is not shown again (streaming_runner.py, StreamEvents).
BlockedStays == [][SE!BlockedStays]_eVars

\* Crashes, failed summaries and displaced turns lose nothing of the memory by themselves
\* (conversation_memory.py, ConversationMemory).
MemoryComplete == CM!TypeOK /\ CM!CompleteUnlessOvertaken

\* A request that succeeds has changed the stored session as if it had been alone, and a
\* deleted one stays deleted (chat.py, postgres_repo.py, SessionRecord).
AsIfAlone == [][SD!AsIfAlone /\ SD!DeletedStaysDeleted]_sVars

\* Only the last reply of a branch may have an open form (core/context.py, SessionRecord).
OnlyLastFormOpen == SD!OnlyLastFormOpen
=============================================================================
