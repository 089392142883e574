CONSTANTS
  alice = alice
  bob = bob
  Account = {alice, bob}
  Publisher = {alice}
  Self = trail
  Symbol = {VOTE, GOLD, GEM}
  VOTE = VOTE
  Quantity = {1}
  MaxSupplies = {0, 1, 2}
  Settings <- SettingsUsed
  Groups <- GroupsUsed
  DECAY_RATE = 1
  Staked <- StakedByAll
  MaxRaised = 1
  MaxStranded = 1
  MaxCb = 1
  MaxVotes = 3
  COUNTER_RANGE = 2
  MaxTime = 2
  Nil = Nil
SPECIFICATION MCSpec
INVARIANTS SupplyIsHeld TlosSupplyIsHeld
CHECK_DEADLOCK FALSE
