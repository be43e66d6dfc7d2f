SPECIFICATION Spec
CONSTANTS
  A = A
  B = B
  N1 = N1
  N2 = N2
  Players = {A, B}
  Console = Console
  None = None
  Names = {N1, N2}
  Ids = {1, 2, 3}
  Gids = {1, 2}
  MaxBots = 2
  PerController = 2
  Slots = 3
  UnreachableLimit = 2
  Lease = 2
  Scenarios <- MCScenarios
INVARIANTS
  RowsTrue
PROPERTIES
  PrivateKept
  ActsOnShown
  PollSparesOthers
  LoopsEnd
CHECK_DEADLOCK FALSE
