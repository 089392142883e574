CONSTANTS
  alice = alice
  bob = bob
  bp1 = bp1
  n1 = n1
  n2 = n2
  Account = {alice, bob}
  Producer = {bp1}
  VoteWeight <- VoteWeights
  MAX_VOTE_PRODUCERS = 30
  Penalties = {1}
  SLOTS_PER_HOUR = 1
  MaxTimesKicked = 0
  MaxTime = 6
  Maturity = {1, 2, 3, 4, 5, 6, 7, 99}
  STAKE_ACCOUNT = stake
  REX_ACCOUNT = rex
  NAMES_ACCOUNT = names
  RAM_ACCOUNT = ram
  RAMFEE_ACCOUNT = ramfee
  ram_gift_bytes = 1
  InitialRam = 24
  InitialQuote = 6
  Quant = {1, 5}
  Bytes = {6}
  Sizes = {26}
  Rates = {1}
  Delta = {0, 1}
  Limits = {}
  refund_delay_sec = 1
  LastCall = 3
  Amount = {1, 2, 3, 4}
  Maxes = {1}
  rex_ratio = 1
  init_total_rent = 1
  LOAN_TIME = 1
  seconds_per_day = 1
  num_of_maturity_buckets = 1
  end_of_days = 99
  MaxLoans = 2
  NewName = {n1, n2}
  blocks_per_day = 0
  AUCTION_TIME = 1
  Nil = Nil
SPECIFICATION MCSpec
INVARIANTS RexBacked RexOwned StakeAndLoansCount NamesBacked
           RamBacked RamSellable RamLimits
CHECK_DEADLOCK FALSE
