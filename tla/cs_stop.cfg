\* Two turns of one session over Redis, the first one is stopped, fails, is
\* blocked, loses its client or dies with its process while the second one arrives.
CONSTANTS
  r1 = r1  r2 = r2
  q1 = q1  q2 = q2  q3 = q3
  session = session  user = user
  None = None
  p1 = p1  p2 = p2
  Procs = {p1}
  Runs = {r1, r2}
  Requests = {q1, q2}
  RunOf <- Distinct
  Switching = {}
  Stoppable = {r1}
  Disconnecting = {r1}
  Failing = {r1}
  Moderated = {r1}
  MaxStreams = 2
  PerUser = 2
  RedisEnabled = TRUE
  MaxCrashes = 1
SPECIFICATION Spec
INVARIANTS TypeOK
PROPERTIES NoTurnErased 
CONSTRAINTS SecondAfterFirst DiesInTurn
\* A finite number of requests: the instance ends when all are answered.
CHECK_DEADLOCK FALSE
