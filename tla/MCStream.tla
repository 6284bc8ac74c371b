------------------------------- MODULE MCStream -------------------------------
(* The requests for a stream, what its frames say and what the conversation's *)
(* memory keeps of its turns, side by side: part says which of the four is    *)
(* explored, the others stay as they start.                                   *)
(*  - ChatStream: handlers only; stream.cfg says of what instance.            *)
(*  - StreamEvents: the frames of one run, its answer in at most one part. A  *)
(*    chat differs from the entry into a Skill in the skill that is shown.    *)
(*  - ConversationMemory: four turns that pass both thresholds and a skill    *)
(*    exit, in two processes, one of which may die; the third is displaced.   *)
(*  - SessionRecord: three requests without a stream on a session with two     *)
(*    branches.                                                               *)
EXTENDS MCChatStream, StreamedSession

VARIABLE part

MCLabelOf == [reader |-> "facts"]
MCScript == <<"turn", "turn", "turn", "turn", "exit">>

MCInit ==
  /\ Init /\ SE!Init /\ CM!Init /\ SD!Init
  /\ part \in {"requests", "events", "memory", "record"}
  /\ IF part = "events" THEN eKind # "chat" ELSE eKind = "exit"
  /\ part # "memory" => \A s \in CM!Steps : mOn[s] = p1

MCNext ==
  \/ part = "requests" /\ Next /\ UNCHANGED <<part, eVars, mVars, sVars>>
  \/ part = "events" /\ SE!Next /\ UNCHANGED <<part, vars, mVars, sVars>>
  \/ part = "memory" /\ CM!Next /\ UNCHANGED <<part, vars, eVars, sVars>>
  \/ part = "record" /\ SD!Next /\ UNCHANGED <<part, vars, eVars, mVars>>

MCSpec == MCInit /\ [][MCNext]_<<part, vars, eVars, mVars, sVars>>
=============================================================================
