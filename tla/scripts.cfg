SPECIFICATION Spec
CONSTANTS
  alex = alex
  sam = sam
  console = console
  none = none
  dig = dig
  walk = walk
  wrong = wrong
  b1 = b1
  s1 = s1
  s2 = s2
  Players = {alex, sam}
  Console = console
  None = none
  Bodies = {dig, walk, wrong}
  Broken = wrong
  BotNames = {b1}
  RunIds = {1, 2, 3}
  ServerRuns = 2
  ControllerRuns = 1
  QueueSize = 2
  PipeSize = 1
  Names = {s1, s2}
  Authors = {alex}
  History = 2
  MaxScripts = 2
  Scenarios <- MCScenarios
INVARIANTS
  SlotsKept
  ActsOnChosen
PROPERTIES
  RunsEnd
  ShownIsReplaced
CHECK_DEADLOCK FALSE
