SPECIFICATION Spec
CONSTANTS
    t1 = t1  t2 = t2  t3 = t3
    a = a  b = b  s1 = s1  s2 = s2  p = p
    Issues = {a, b}
    NoIssue = NoIssue
    Ingests = {t1, t2}
    Merges = {}
    NoTx = NoTx
    Projects <- MCProjects
    Sessions = {s1, s2}
    Releases = {0, 1, 2}
    Envelopes <- SameRelease
    InitialIssues <- AnyTables
    InitialErrorCounts <- ErrorCounts
    SnoozeDates = {0, 2}
    SnoozeThresholds = {0, 1}
    MaxEdits = 0
    StatementsMayFail = TRUE
INVARIANTS NewIssueOnce SnoozeEndsAtThreshold
PROPERTIES ImplementsTracker
