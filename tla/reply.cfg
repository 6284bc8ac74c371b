SPECIFICATION MCSpec
CONSTANTS
  general = general
  career = career
  junior = junior
  senior = senior
  grade = grade
  wish = wish
  Complete = Complete
  Direct = Direct
  None = None
  General <- general
  Career <- career
  Junior <- junior
  Senior <- senior
  Skills <- MCSkills
  Asking <- MCAsking
  Native <- MCNative
  Authorized <- MCAuthorized
  Registries <- MCRegistries
  Questions <- MCQuestions
  OnSubmit <- MCOnSubmit
  OnCompletion <- MCOnCompletion
  MaxFields = 2
  MaxMessages = 3
  NativeSkills = {"calc", "ruled", "plain"}
  WithScripts = {"calc"}
  Ruled = {"ruled"}
  Facts = {"f0", "f1"}
  Tools = {"web", "track"}
  Looked = {"web"}
  Track = "track"
  Web = "web"
  Modes = {"standalone", "fallback", "closed"}
  Stages = {"senior", "junior"}
  Scope <- MCScope
  MaxCards = 2
INVARIANTS ChosenSkill FormsAreShown RepliesRestOnThisTurn CardsFitTheReply
PROPERTY RefusalsLeaveNoTrace
\* RouteCards ends where no Skill but Career is left.
CHECK_DEADLOCK FALSE
