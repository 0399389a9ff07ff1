SPECIFICATION FairSpec
CONSTANTS
  n1 = n1  n2 = n2  x1 = x1  x2 = x2  c1 = c1  c2 = c2  new = new  back = back  spike = spike
  Replicas = {n1}
  Issues = {x1}
  Channels = {c1, c2}
  Events <- MCEvents
  Rules = {back, spike}
  KindOf <- MCKindOf
  ChannelsOf <- MCChannelsOf
  Silent = {}
  Capacity = 2
  Cooldown = 2
  MaxTime = 2
  MaxLookupFailures = 1
  MaxCooldownFailures = 1
  MaxRecordFailures = 1
CHECK_DEADLOCK FALSE
INVARIANTS AlertedOnce CooldownKept
PROPERTIES StopReturns
