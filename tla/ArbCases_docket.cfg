CONSTANTS
  Account = {alice, bob}
  Arb = {a1}
  Hash = {h1}
  Link = {ruling}
  Nil = Nil
  MaxCaseId = 1
  MaxClaimId = 1
  MAX_UNREAD_CLAIMS = 2
  Fees = {1}
  Deposits = {1}
  MaxTreasury = 2
SPECIFICATION Spec
SYMMETRY Symmetries
INVARIANTS ClaimsOwnedOnce OpenCasesKnown DepositsCovered
PROPERTIES DismissalIsComplete
