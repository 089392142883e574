CONSTANTS
  Publisher = {p1}
  Voter = {v1, v2}
  Member = {m1, m2}
  Nil = Nil
  m1 = m1
  m2 = m2
  MaxBallotId = 0
  MaxTime = 3
  MaxCycle = 1
  Weight = {0, 1, 2}
  Recastable = {FALSE}
  CandidateLists <- NoLists
  NumDeletes = {1}
  NumSeats = {1}
  Status = {0, 1}
SPECIFICATION Spec
SYMMETRY Symmetries
INVARIANTS CountsAreReceipts
PROPERTIES ReceiptsKept ResultsFinal
