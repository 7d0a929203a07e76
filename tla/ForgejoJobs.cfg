\* Two server processes on one database, each with a request at a time; every
\* bound lets each case happen once.
SPECIFICATION Spec
CONSTANTS
  p1 = p1
  p2 = p2
  c1 = c1
  c2 = c2
  Processes = {p1, p2}
  Requests = {c1, c2}
  ProcessOf <- RequestOfEach
  MaxTries = 1
  MaxHead = 2
  MaxGen = 1
SYMMETRY Symmetry
VIEW View
INVARIANTS
  PendingHasWork
  ProjectedRecorded
PROPERTY TerminalKept
CHECK_DEADLOCK FALSE
