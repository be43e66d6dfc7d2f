SPECIFICATION Spec
CONSTANTS
  Versions = {"v1", "v2", "v3"}
  Later = {"v2", "v3"}
  Lock <- MCLock
  First = "v2"
  Scripts = {"s1", "s2"}
  MaxEdits = 2
  MaxCommands = 5
  MaxBad = 1
INVARIANTS
  NoLostEdits
  ScriptsKept
PROPERTIES
  LegacyKept
CHECK_DEADLOCK FALSE
