SPECIFICATION Spec
CONSTANTS
  None = None
  Calls = {1, 2, 3}
  Conns = {1, 2}
  Workers = 1
  MaxQueued = 2
  Clients = {p1, p2}
  MaxCli = 1
  MaxSeen = 1
  Faults = 2
  Extras = 2
INVARIANTS
  AnswerTrue
  InOrder
  CliOnce
PROPERTIES
  GivenUpIsSkipped
  ThreadsFreed
CHECK_DEADLOCK FALSE
