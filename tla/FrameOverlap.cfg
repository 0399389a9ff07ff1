SPECIFICATION Spec
CONSTANTS
  s1 = s1  s2 = s2  i1 = i1  i2 = i2  j1 = j1  j2 = j2  d1 = d1  e1 = e1
  Sessions = {s1}
  Seqs = {1, 2}
  Calls = {i1, i2}
  SessionOf <- MCSameSession
  FramesOf <- MCTwoFrames
  Dated = {i1}
  FutureDated = {i1}
  Janitors = {j1, j2}
  Deletions = {d1}
  Erasures = {e1}
  UserSessions = {s1}
  MaxFailures = 1
INVARIANTS FramesHaveObjects
PROPERTIES YoungSessionsKept
