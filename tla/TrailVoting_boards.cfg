CONSTANTS
  Publisher = {p1}
  Voter = {v1, v2}
  Member = {m1, m2}
  Nil = Nil
  m1 = m1
  m2 = m2
  MaxBallotId = 1
  MaxTime = 2
  MaxCycle = 1
  Weight = {0, 1}
  Recastable = {TRUE}
  CandidateLists <- Lists
  NumDeletes = {1, 2}
  NumSeats = {1}
  Status = {0}
SPECIFICATION Spec
SYMMETRY Symmetries
INVARIANTS BallotsOwnRows ReceiptsFit VotersCounted
PROPERTY BoardVotesRecorded
