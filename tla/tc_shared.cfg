\* Two processes over one Redis: one stream per user, two in all; up to
\* two Redis errors and one crash, anywhere; fairness for the last property.
CONSTANTS
  r1 = r1  r2 = r2  r3 = r3
  s1 = s1  s2 = s2
  u1 = u1  u2 = u2
  p1 = p1  p2 = p2
  None = None
  Procs = {p1, p2}
  Sessions = {s1, s2}
  Users = {u1, u2}
  Runs <- MCRuns
  SessionOf <- MCSessionOf
  UserOf <- MCUserOf
  MaxStreams = 2
  PerUser = 1
  RedisEnabled = TRUE
  LeasesOutliveTTL = FALSE
  Stoppable <- NoRuns
  MaxFaults = 2
  MaxCrashes = 1
SPECIFICATION FairSpec
INVARIANTS PermitsConserved CapacityCovered
PROPERTIES ImplementsGate CapacityRecovers
\* Every run is acquired once: the instance ends when all of them are settled.
CHECK_DEADLOCK FALSE
