CONSTANTS
  s1 = s1
  s2 = s2
  k1 = k1
  k2 = k2
  v1 = v1
  v2 = v2
  Servers = {s1}
  Keys = {k1}
  NoKey = NoKey
  Values = {v1}
  NoValue = NoValue
  Ops = {"get", "post", "delete"}
  TTLs = {0, 2}
  CText <- MCWhole
  TsMod = 64
  StartTime = 2
  MaxTime = 4
  MaxReqs = 3
  MaxFaults = 0
  RetryDelay = 1
  OldRows <- MCKept
  OldTable = {TRUE}
\* the clock, the requests and the faults are bounded
CHECK_DEADLOCK FALSE
SPECIFICATION Spec
INVARIANTS DeletedStaysDeleted
