CONSTANTS
  Account = {n1, n2}
  Self = arb
  Configs <- ShortElections
  Seats = {1, 256}
  Term = 1
  Windows <- FirstSeconds
  Publisher = {pub}
  Voter = {v1}
  Member = {n1, n2}
  Nil = Nil
  MaxBallotId = 1
  MaxTime = 6
  MaxCycle = 1
  Weight = {0, 1}
  Recastable = {FALSE}
  CandidateLists = {}
  NumDeletes = {1}
  NumSeats = {1}
  Status = {0, 3}
SPECIFICATION Spec
CONSTRAINT QuietOthers
SYMMETRY Symmetries
INVARIANTS NomineesHaveNoTerm
PROPERTIES SeatedByVoters CasesSpec ResultsKept
