CONSTANTS
  alice = alice
  bob = bob
  active = active
  owner = owner
  backup = backup
  pay = pay
  grant = grant
  Proposer = {alice}
  ProposalName = {p1}
  Account = {alice, bob}
  Level = {active, owner, backup}
  ActorOf <- Actor
  Trx = {pay, grant}
  Quorums <- QuorumsOf
  Delay <- Delays
  Window = 1
  RequestLists <- Lists
  MaxTime = 3
  Nil = Nil
SPECIFICATION Spec
INVARIANT ApprovalsFollowProposals
PROPERTIES PromiseSpec
