SPECIFICATION FairSpec
CONSTANTS
  s1 = s1  s2 = s2  i1 = i1  i2 = i2  j1 = j1  j2 = j2  d1 = d1  e1 = e1
  Sessions = {s1, s2}
  Seqs = {1, 2}
  Calls = {i1, i2}
  SessionOf <- MCSessionOf
  FramesOf <- MCFramesOf
  Dated = {i1, i2}
  FutureDated = {}
  Janitors = {j1}
  Deletions = {d1}
  Erasures = {}
  UserSessions = {}
  MaxFailures = 1
PROPERTIES OrphansSwept ExpiredPurged
