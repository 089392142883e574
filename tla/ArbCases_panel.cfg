CONSTANTS
  Account = {alice}
  Arb = {a1, a2}
  Hash = {h1, h2}
  Link = {ruling}
  Nil = Nil
  MaxCaseId = 0
  MaxClaimId = 1
  MAX_UNREAD_CLAIMS = 2
  Fees = {1}
  Deposits = {1}
  MaxTreasury = 2
SPECIFICATION Spec
SYMMETRY Symmetries
INVARIANTS TypeOK DecidedOnce ClosedCasesRuled
PROPERTIES LifecycleSpec ClaimsSettled
