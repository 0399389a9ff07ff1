SPECIFICATION FairSpec
CONSTANTS
    t1 = t1  t2 = t2  t3 = t3
    a = a  b = b  s1 = s1  s2 = s2  p = p
    Issues = {a, b}
    NoIssue = NoIssue
    Ingests = {t1, t2}
    Merges = {}
    NoTx = NoTx
    Projects <- MCProjects
    Sessions = {s1, s2}
    Releases = {0, 1, 2}
    Envelopes <- MixedReleases
    InitialIssues <- OneFound
    InitialErrorCounts <- ErrorCounts
    SnoozeDates = {0, 2}
    SnoozeThresholds = {0, 1}
    MaxEdits = 1
    StatementsMayFail = TRUE
INVARIANTS TypeOK CountIsItems SessionsBillEveryError ResolvedFlagAgrees AnnouncedIsStored
