CONSTANTS
  s1 = s1
  s2 = s2
  h1 = h1
  h2 = h2
  h3 = h3
  h4 = h4
  Servers = {s1, s2}
  Main = Main
  Handles = {h1, h2, h3}
  Null = Null
  Codes = {5, 10, 101}
  MaxQueries = 2
\* the program exits, and queries are bounded
CHECK_DEADLOCK FALSE
SPECIFICATION Spec
INVARIANTS TypeOK OwnLiveStatement NoStatementLost IdleHoldsNoLock MainCloses
PROPERTIES QueriesEnd
