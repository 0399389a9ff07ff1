SPECIFICATION AnalyticsSpec
CONSTANTS
  Areas = {"reports", "cohorts", "experiments"}
  SessionIds = {s1, s2}
  LogUsers = {u1, u2}
  Anonymous = "anonymous"
  Shapes <- MCShapes
  Today = 3
  Starts = {1}
  MaxItems = 4
  FunnelIds = {"checkout"}
  NoFunnel = NoFunnel
  StepLists <- MCStepLists
  FunnelWindows = {0, 1}
  DefaultWindow = 2
  PathDefaults <- MCPathDefaults
  DayUnits = 2
  WeekDays = 2
  FirstWeekday = 2
  LastPeriod <- MCLastPeriod
  CohortIds = {"payers"}
  NoCohort = NoCohort
  Gone = Gone
  People = {"ann", "ben"}
  Callers = {"c1", "c2"}
  Rules <- MCRules
  RuleLists <- MCRuleLists
  Initials <- MCInitials
  MostSeen = 1
  MaxCohortCalls = 4
  FlagKeys = {"button"}
  NoFlag = NoFlag
  Ids = {"a", "b", "c"}
  NoId = "none"
  Buckets = 4
  Hash <- MCHash
  VariantHash <- MCVariantHash
  FlagFilters <- MCFlagFilters
  FlagPercents = {0, 1, 3}
  FlagVariants <- MCFlagVariants
  ExperimentIds = {"x1"}
  NoExperiment = NoExperiment
  ExperimentVariants <- MCExperimentVariants
  Judges = {"j1", "j2"}
  FlagPool = 3
  MaxFlagCalls = 4
SYMMETRY MCSymmetry
CHECK_DEADLOCK FALSE
INVARIANTS FunnelFollowsPassages LinkCountsItsSessions RetentionFollowsCalendar WinnerIsServed
PROPERTIES LoneRefreshIsExact RaisingKeepsVariants
