\* A session that changes experts, and the turns of an expert.
CONSTANTS
  None = None
  coach = coach  ann = ann
  d1 = d1  d2 = d2
  goals = goals  career = career
  Unbound = unbound
  Branches = {unbound, child}
  Configs = {d1, d2}
  Experts = {coach, ann}
  Team <- MCTeam
  Members <- MCMembers
  Coordinator <- MCCoordinator
  Picks <- MCPicks
  Skills = {goals, career}
  TurnExperts = {"coord", "member", "solo"}
  TurnTeam = {"coord", "member"}
  TurnCoordinator = "coord"
  Authorized <- MCAuthorized
  MaxSkillCalls = 1
  MaxRounds = 2
SPECIFICATION MCSpec
INVARIANTS AnswersAsServed 
PROPERTIES FormsEnd HandoffsStay
