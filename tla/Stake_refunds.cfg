CONSTANTS
  alice = alice
  bob = bob
  bp2 = bp2
  Account = {alice, bob}
  Producer = {bp1, bp2}
  VoteWeight <- VoteWeights
  MAX_VOTE_PRODUCERS = 30
  Penalties = {1}
  SLOTS_PER_HOUR = 1
  MaxTimesKicked = 1
  MaxTime = 3
  Maturity = {}
  STAKE_ACCOUNT = stake
  REX_ACCOUNT = rex
  NAMES_ACCOUNT = names
  RAM_ACCOUNT = ram
  RAMFEE_ACCOUNT = ramfee
  ram_gift_bytes = 0
  Delta = {0, 1}
  Limits = {2}
  refund_delay_sec = 1
  LastCall = 2
  Nil = Nil
SPECIFICATION MCSpec
INVARIANTS VotesCounted StakeHeld VotesWeighStake LimitsFollow
PROPERTY RefundArrives
CHECK_DEADLOCK FALSE
