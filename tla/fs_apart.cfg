\* Turns about two children and about none, next to edits of the stores.
CONSTANTS
  a = a  b = b
  s1 = s1  s2 = s2
  t1 = t1  t2 = t2  t3 = t3
  e1 = e1  e2 = e2  e3 = e3
  family = family  grade = grade  goal = goal
  None = None  Unbound = Unbound
  Children = {a, b}
  Sessions = {s1, s2}
  Keys = {family, grade, goal}
  Scope <- OneOfEach
  Turns = {t1, t2, t3}
  SessionOf <- OneSession
  ChildOf <- Subjects
  SeedKeys = {grade}
  SchoolKeys = {grade}
  Told <- AllOrNothing
  Racing = {}
  Asked = {family, grade}
  Puts = {e1}
  Clears = {e2}
  ChildEdits = {e3}
  EditChild <- OfA
SPECIFICATION Spec
INVARIANTS ChildrenApart UnboundApart
PROPERTIES GoneForGood
\* Every request is made once: the instance ends when all are answered.
CHECK_DEADLOCK FALSE
