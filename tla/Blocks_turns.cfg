CONSTANTS
  alice = alice
  bob = bob
  p1 = p1
  p2 = p2
  p3 = p3
  Account = {alice, bob}
  Producer = {p1, p2, p3}
  VoteWeight <- VoteWeights
  MAX_VOTE_PRODUCERS = 30
  Penalties = {1}
  SLOTS_PER_HOUR = 1
  MaxTimesKicked = 0
  MaxTime = 30
  Maturity = {}
  EOSIO = eosio
  tedp_account = tedp
  works_account = works
  bpay_account = bpay
  block_num_network_activation = 1
  TOP_PRODUCERS = 2
  MAX_PRODUCERS = 3
  MAX_BLOCK_PER_CYCLE = 2
  KICK_SHARE = 2
  SCHEDULE_SLOTS = 2
  ROTATION_SLOTS = 12
  SNAPSHOT_SLOTS = 4
  ToProducers = 1
  ToWorkers = 1
  unissued = unissued
  Saved = 3
  Issuable = 20
  TedpAmounts = {2}
  Restakes = {2}
  Width = 256
  Nil = Nil
SPECIFICATION MCSpec
INVARIANTS PayHeld ChargedForOwnMisses OnblockRuns
CHECK_DEADLOCK FALSE
