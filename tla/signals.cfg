CONSTANTS
  s1 = s1
  Main = Main
  Servers = {s1}
  MaxEnqueues = 3
  MaxSigints = 3
\* the program may end
CHECK_DEADLOCK FALSE
SPECIFICATION Spec
INVARIANTS TypeOK NoLostWakeup TwoAreHarmless

PROPERTIES HandlersReturn
