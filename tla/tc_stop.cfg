\* Turns of one session racing with stop requests to either process, over
\* expiring keys, one Redis error and one crash.
CONSTANTS
  r1 = r1  r2 = r2  r3 = r3
  s1 = s1  s2 = s2
  u1 = u1  u2 = u2
  p1 = p1  p2 = p2
  None = None
  Procs = {p1, p2}
  Sessions = {s1}
  Users = {u1}
  Runs <- TwoRuns
  SessionOf <- TwoOneSession
  UserOf <- TwoOneUser
  MaxStreams = 2
  PerUser = 2
  RedisEnabled = TRUE
  LeasesOutliveTTL = TRUE
  Stoppable <- TwoRuns
  MaxFaults = 1
  MaxCrashes = 1
SPECIFICATION Spec
INVARIANTS AckedStopSticks
PROPERTIES DisplacedForGood
SYMMETRY ProcSymmetry
\* Every run is acquired once: the instance ends when all of them are settled.
CHECK_DEADLOCK FALSE
