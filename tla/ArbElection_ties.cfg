CONSTANTS
  Account = {n1, n2, n3}
  Self = arb
  Configs <- ShortElections
  Seats = {1, 2}
  Term = 1
  Windows <- FirstSeconds
  Publisher = {}
  Voter = {v1}
  Member = {n1, n2, n3}
  Nil = Nil
  MaxBallotId = 1
  MaxTime = 6
  MaxCycle = 0
  Weight = {0, 1, 2}
  Recastable = {FALSE}
  CandidateLists = {}
  NumDeletes = {}
  NumSeats = {1}
  Status = {0, 3}
SPECIFICATION Spec
CONSTRAINT Prompt
SYMMETRY Symmetries
PROPERTY MostVotesWin
