SPECIFICATION SupervisorSpec
CONSTANTS
  MaxFailures = 3
  Window = 2
  BackoffCap = 1
  MaxRuns = 2
  MaxConsole = 1
INVARIANTS
  NothingLeft
  StoppedMeansStopped
PROPERTIES
  RestartPolicy
  StopServed
CHECK_DEADLOCK FALSE
