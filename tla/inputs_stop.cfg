SPECIFICATION InputsSpec
CONSTANTS
  run1 = run1
  run2 = run2
  player = player
  nobody = nobody
  Runs = {run1, run2}
  Player = player
  Nobody = nobody
  Channels = {"move", "mine"}
  MaxOps = 2
  MaxEvents = 0
  MaxRestarts = 0
SYMMETRY RunSymmetry
INVARIANTS
  CleanStopAccounts
CHECK_DEADLOCK FALSE
