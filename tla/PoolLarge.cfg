SPECIFICATION FairSpec
CONSTANTS
  r1 = r1  r2 = r2  r3 = r3  e1 = e1  v1 = v1
  Requests = {r1, r2, r3}
  Evaluators = {e1}
  Releases = {v1}
  NoRelease = NoRelease
  ReleaseOf <- MCReleaseOf
  Work <- MCWork
  Size = 5
CHECK_DEADLOCK FALSE
PROPERTIES AllAnswered
