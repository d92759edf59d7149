CONSTANTS
  s1 = s1
  s2 = s2
  k1 = k1
  k2 = k2
  v1 = v1
  v2 = v2
  Servers = {s1, s2}
  Keys = {k1}
  NoKey = NoKey
  Values = {v1, v2}
  NoValue = NoValue
  Ops = {"get_or_set"}
  TTLs = {0}
  CText <- MCWhole
  TsMod = 64
  StartTime = 2
  MaxTime = 3
  MaxReqs = 2
  MaxFaults = 0
  RetryDelay = 1
  OldRows <- MCNothing
  OldTable = {TRUE}
\* the clock and the requests are bounded
CHECK_DEADLOCK FALSE
SPECIFICATION Spec
PROPERTIES GetOrSetKeeps
