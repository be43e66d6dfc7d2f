SPECIFICATION Spec
CONSTANTS
  alice = alice
  bob = bob
  bot = bot
  tag1 = tag1
  tag2 = tag2
  Accounts = {alice, bob, bot}
  Bots = {bot}
  Names = {tag1, tag2}
  NameOf <- FixedNames
  Configured = {tag2}
  Legacy = {}
  NoName = NoName
  MaxOps = 2
  MaxFaults = 1
  MaxRestarts = 1
  MaxWork = 1
INVARIANTS
  NoRevival
  KeptNameGrantHasRole
PROPERTIES
  RevocationSticks
CHECK_DEADLOCK FALSE
