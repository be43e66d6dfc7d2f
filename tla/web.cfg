SPECIFICATION Spec
CONSTANTS
  Workers = {w1, w2}
  Conns = {c1, c2}
  MaxPasskeys = 2
  MaxCeremonies = 2
  MaxConnections = 1
  WrongLimit = 2
  Budgets <- MCBudgets
SYMMETRY Symmetry
INVARIANTS
  NoRevival
  RemovedStaysRemoved
  SlotsExact
CHECK_DEADLOCK FALSE
