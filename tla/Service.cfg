SPECIFICATION ServiceSpec
CONSTANTS
  Duties = {"surveys", "answers", "quota", "schema", "frames"}
  SessionIds = {"s1", "s2"}
  LogUsers = {"ann"}
  Anonymous = "anonymous"
  Shapes <- MCShapes
  Today = 1
  Starts = {0}
  MaxItems = 2
  Horizon = 5
  SurveyIds = {"v1"}
  NoSurvey = NoSurvey
  Deleted = Deleted
  Drafts <- MCDrafts
  Changes <- MCChanges
  Editors = {"e1"}
  Devices = {"phone", "laptop"}
  SessionOfDevice <- MCSessionOf
  DueWindow = 1
  MaxDelay = 1
  Scores = {0, 3, 4, 6, 7, 8, 9, 10, 11}
  NoScore = NoScore
  MaxEdits = 1
  MaxAnswers = 3
  Projects = {"p1"}
  Quotas = {0, 2}
  DefaultLimit = 1
  Senders = {"x1", "x2"}
  ItemCounts = {1, 2}
  Minute = 2
  Fine = 2
  MaxRequests = 4
  Replicas = {"r1", "r2"}
  Files <- MCFiles
  MayFail <- MCMayFail
  MaxMishaps = 2
  Keys = {1, 2}
  Length <- MCLength
  MaxStops = 2
CHECK_DEADLOCK FALSE
INVARIANTS ReportAddsUp QuotaKept ServesWholeSchema MoveIsComplete
PROPERTIES NotBroughtBack RetryIsEnough ReplicasComeUp
