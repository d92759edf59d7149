CONSTANTS
  a = a
  b = b
  t1 = t1
  t2 = t2
  t3 = t3
  t4 = t4
  d1 = d1
  d2 = d2
  Space = Space
  Characters = {a, b, Space, Comma}
  Comma = Comma
  IntSize = 8
  LongSize = 16
  PortMax = 2
  Numbers <- MCNumbers
  Texts = {NoText, t1, t2, t3, t4}
  NoText = NoText
  Chars <- MCChars
  Paths = {NoPath, d1, d2}
  NoPath = NoPath
  Absent = Absent
  Wrong = Wrong
  Cores = 1
  DefaultPort = 2
  DefaultDb = d1
  MaxValues = 3
\* the program leaves the model when it serves or ends
CHECK_DEADLOCK FALSE
SPECIFICATION Spec
INVARIANTS TypeOK PortUsable LastSourceWins HoldsTheOrigins
