CONSTANTS
  c1 = c1
  c2 = c2
  k1 = k1
  site = site
  other = other
  host = host
  None = None
  NoKey = NoKey
  Star = Star
  Conns = {c1, c2}
  Keys = {k1}
  Origins = {site, other, Star}
  Enabled = {site}
  Hosts = {host}
  StartsWith <- MCStartsWith
  RequireOrigin = TRUE
  MaxChunks = 2
  MaxReqs = 2
\* requests are bounded
CHECK_DEADLOCK FALSE
SPECIFICATION Spec
INVARIANTS TypeOK EnabledCanRead
PROPERTIES ChangesAreReplied SuccessMeansStored EveryRequestEnds
