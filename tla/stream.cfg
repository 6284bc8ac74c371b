\* ChatStream: a POST delivered twice races with another turn over two processes, one of
\* which may die; the other turn is for the other child.  No stream is admitted, so only
\* the handlers run.
CONSTANTS
  r1 = r1  r2 = r2
  q1 = q1  q2 = q2  q3 = q3
  session = session  user = user
  None = None
  p1 = p1  p2 = p2
  Procs = {p1, p2}
  Runs = {r1, r2}
  Requests = {q1, q2, q3}
  RunOf <- Redelivered
  Switching = {q2}
  Stoppable = {}
  Disconnecting = {}
  Failing = {}
  Moderated = {}
  MaxStreams = 0
  PerUser = 0
  RedisEnabled = FALSE
  MaxCrashes = 1
  MaxParts = 1
  LabelOf <- MCLabelOf
  MemoryProcs = {p1, p2}
  Script <- MCScript
  Window = 1
  AsyncAt = 1
  SyncAt = 3
  Bound = FALSE
  DisplacedTurns = {3}
  MemoryCrashes = 1
  PlainRequests = {"r1", "r2", "r3"}
  Branches = {"b1", "b2"}
  First = "b1"
  Unbound = "b2"
  Nobody = Nobody
SPECIFICATION MCSpec
INVARIANTS OneExecutionPerRun  MemoryComplete OnlyLastFormOpen
PROPERTIES BlockedStays AsIfAlone
\* A finite number of requests, one run: every part of the instance ends.
CHECK_DEADLOCK FALSE
