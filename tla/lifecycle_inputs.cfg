SPECIFICATION Spec
CONSTANTS
  Ids = {a}
  Names = {n1, n2}
  Sessions = {s1, s2}
  NoName = NoName
  NoSession = NoSession
  NoId = NoId
  MaxGen = 3
  MaxAttempts = 1
  MaxQueue = 2
  MaxRestarts = 0
SYMMETRY Symmetry
PROPERTIES
  InputNotReplayed
CHECK_DEADLOCK FALSE
