\* One process, one request at a time; the pull request is never reopened.
SPECIFICATION Spec
CONSTANTS
  p1 = p1
  p2 = p2
  c1 = c1
  c2 = c2
  Processes = {p1}
  Requests = {c1}
  ProcessOf <- RequestOfEach
  MaxTries = 2
  MaxHead = 2
  MaxGen = 0
INVARIANT QueuedIsScheduled
