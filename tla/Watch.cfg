SPECIFICATION MCSpec
CONSTANTS
  Parts = {"crons", "uptime", "metrics"}
  Horizon = 2
  CronJobs = {"backup"}
  Evaluators = {"e1", "e2"}
  Pings = {"p1"}
  Periods = {1}
  Graces = {0}
  Runtimes = {1}
  MaxPings = 1
  MaxEdits = 1
  MaxCronFaults = 1
  Sites = {"api", "www"}
  Watched = {"api"}
  Runners = {"r1"}
  Visits = {"v1"}
  Intervals = {2}
  DayLength = 2
  RoundBudget = 1
  MaxOutages = 1
  MaxRequests = 1
  MetricRules = {"slow"}
  MetricWorkers = {"w1"}
  RuleKinds <- MCKinds
  Windows <- MCWindows
  Pasts <- MCPasts
  MinCount = 5
  MaxIncidents = 3
  MaxRuleEdits = 1
  MaxShifts = 3
  MaxMetricFaults = 1
CHECK_DEADLOCK FALSE
INVARIANTS MissedIsAnnouncedUnlessFailed RunnerTellsAll StripIsComplete OneIncidentWhileFiring
PROPERTIES SilenceIsNoticed AutoResolvesUnlessFailed
