SPECIFICATION FairMergeSpec
CONSTANTS
    a = a  b = b  c = c  s1 = s1  s2 = s2  p = p
    t1 = t1  t2 = t2  m1 = m1  m2 = m2
    Issues = {a, b}
    NoIssue = NoIssue
    Ingests = {t1}
    Merges = {m1, m2}
    NoTx = NoTx
    Projects <- MCProjects
    ProjectOf <- MCProjectOf
    Sessions = {s1, s2}
    Releases = {0, 1}
    Envelopes <- BothWays
    InitialIssues <- Tables
    InitialErrorCounts <- ErrorCounts
    SnoozeDates = {0}
    SnoozeThresholds = {1}
    MaxEdits = 1
    StatementsMayFail = TRUE
    MergesOverlap = FALSE
INVARIANTS MergeAcyclic NoErrorCountedTwice
