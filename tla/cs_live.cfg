\* One stream at a time: a second turn interferes with the first, which may
\* select the other child, fail, be blocked or lose its client.
CONSTANTS
  r1 = r1  r2 = r2
  q1 = q1  q2 = q2  q3 = q3
  session = session  user = user
  None = None
  p1 = p1  p2 = p2
  Procs = {p1}
  Runs = {r1, r2}
  Requests = {q1, q2}
  RunOf <- Distinct
  Switching = {q1}
  Stoppable = {}
  Disconnecting = {r1}
  Failing = {r1}
  Moderated = {r1}
  MaxStreams = 1
  PerUser = 1
  RedisEnabled = FALSE
  MaxCrashes = 0
SPECIFICATION FairSpec
PROPERTIES  StreamedLeaseReturns
\* A finite number of requests: the instance ends when all are answered.
CHECK_DEADLOCK FALSE
