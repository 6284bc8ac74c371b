\* Tests, packages, and tests of a team.
CONSTANTS
  goals = goals
  skill = skill  other = other
  t1 = t1  t2 = t2  e1 = e1
  Nobody = Nobody
  TestSkills = {goals}
  Enabled = {goals}
  Tests = {skill, other}
  TestSnapshot <- MCSnapshot
  TestRoot <- MCRoot
  Turns = {t1, t2, e1}
  TestOf <- MCTestOf
  Evaluations = {e1}
  MaxVersion = 1
  Members = {"lead", "maths", "arts"}
  TestCoordinator = "lead"
  MaxTurns = 4
  Servers = {"a", "b"}
  PackedSkills = {"skill"}
  PackedExperts = {"expert"}
  PackedTeams = {}
  PackedContents = {"x", "y", "z"}
  PackedTyped = {"x"}
  PackedForeign = {"z"}
  EditedOn <- MCEdited
  MaxPackedRevs = 2
SPECIFICATION MCSpec
INVARIANTS  StoredTestsSound DeliveredAsSent
  
\* Every turn is taken once: the tests end when all of them have ended.
CHECK_DEADLOCK FALSE
