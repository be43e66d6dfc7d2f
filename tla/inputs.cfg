SPECIFICATION InputsSpec
CONSTANTS
  run1 = run1
  run2 = run2
  player = player
  nobody = nobody
  Runs = {run1, run2}
  Player = player
  Nobody = nobody
  Channels = {"move", "mine"}
  MaxOps = 2
  MaxEvents = 1
  MaxRestarts = 1
SYMMETRY RunSymmetry
INVARIANTS
  Tracked
PROPERTIES
  LaterInputsPreserved
CHECK_DEADLOCK FALSE
