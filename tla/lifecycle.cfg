CONSTANTS
  Concurrency = 3
  MaxWrites = 1
\* the program may end
CHECK_DEADLOCK FALSE
SPECIFICATION Spec
INVARIANTS TypeOK ServesOnOpenDb
PROPERTIES StopsWhenUp AllOrNothing
