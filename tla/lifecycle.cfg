SPECIFICATION FairSpec
CONSTANTS
  Ids = {a}
  Names = {n1, n2}
  Sessions = {s1, s2}
  NoName = NoName
  NoSession = NoSession
  NoId = NoId
  MaxGen = 3
  MaxAttempts = 1
  MaxQueue = 2
  MaxRestarts = 1
INVARIANTS
  TypeOK
  OneTransport
  WantedIsServed
  ForgottenIsGone
PROPERTIES
  OneCountPerLoss
  ImplementsTransport
  WantedSettles
  ShutdownEnds
CHECK_DEADLOCK FALSE
