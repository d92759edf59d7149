CONSTANTS
  set1 = set1
  del1 = del1
  del2 = del2
  SetIds = {set1}
  DelIds = {del1}
  Deadlines = {1, 2}
  Anything = Anything
  Nothing = Nothing
  MaxTime = 3
  RetryDelay = 2
  MaxEnqueues = 2
  MaxRemovals = 1
  MaxBusy = 1
  MaxSigints = 3
\* the program may stop, and its environment is bounded
CHECK_DEADLOCK FALSE
SPECIFICATION FairSpec
INVARIANTS TypeOK TerminatedBySigint
PROPERTIES DueIsTaken SigintStops DrainRunsDue
