\* One stream at a time: the second turn is claimed, then refused.
CONSTANTS
  r1 = r1  r2 = r2
  q1 = q1  q2 = q2  q3 = q3
  session = session  user = user
  None = None
  p1 = p1  p2 = p2
  Procs = {p1}
  Runs = {r1, r2}
  Requests = {q1, q2}
  RunOf <- Distinct
  Switching = {}
  Stoppable = {}
  Disconnecting = {}
  Failing = {}
  Moderated = {}
  MaxStreams = 1
  PerUser = 1
  RedisEnabled = FALSE
  MaxCrashes = 0
SPECIFICATION FairSpec
PROPERTIES RefusedRunCloses
\* A finite number of requests: the instance ends when all are answered.
CHECK_DEADLOCK FALSE
