SPECIFICATION Spec
CONSTANTS
  Players = {p}
  Overlap = FALSE
  MaxLinks = 2
  MaxSessions = 2
  MaxCommands = 1
  MaxOps = 1
  MaxQueue = 2
INVARIANTS
  PresenceIsTrue
  ConsolePermissionsConverge
PROPERTIES
  RunsInOwnSession
CHECK_DEADLOCK FALSE
