# Verification of the Telos contracts

TLA+ models, TLC runs and TLAPS proofs for the EOSIO contracts of this
repository (`src/contracts`). This is a working project: what is modelled,
checked and proved is listed first, the plan for the rest at the end.

## The system

Five contracts run on one chain. An action is one transaction: it runs alone,
reads and writes the tables of its contract, and sends *inline* actions to
other contracts, which run in the same transaction after it. A failed `check`
anywhere reverts everything. Only *deferred* transactions (the execution of a
multi-signature proposal, the refunds of stake and of name bids) run later, in
an order nobody controls. So the hard behaviours are not threads but long
sequences of legal calls by independent actors, rows that are stale because
another contract or an earlier call left them, ids given out twice, windows of
time, and counters kept beside the tables they count.

| component | state | operations | interacts with | what makes it correct |
|---|---|---|---|---|
| arbitration: cases (`eosio.arbitration.cpp` 286-767) | case files, claims, arbitrators' open cases, deposits | file, claims, ready, assign, respond, decide claims, advance, rule, dismiss, recuse, delete, dismiss an arbitrator | `eosio.token` (deposits), `updateauth` | a case moves forward only with its panel's consent and is closed only with a ruling; the tables agree; deposits are covered |
| arbitration: elections (21-283, 814-919) | nominees, arbitrators' terms, the current ballot | register, run, end and restart elections | `eosio.trail` leaderboards | the seats go to the candidates with the most votes, once per election |
| trail: ballots (`eosio.trail.cpp` 606-1336) | ballots, proposals, leaderboards, receipts | register, candidates, vote, close, cycle, delete receipts | its own balances | one vote per voter, cycle and candidate; results final |
| trail: tokens (29-604, 1340-1413) | registries, balances, airgrabs, counterbalances | issue, claim, transfer, burn, seize, mirrorcast | `eosio.token` transfers | the supply is the sum of what is held |
| `eosio.token` | supply, balances | create, issue, retire, transfer, open, close | everything | the supply is the sum of the balances |
| `eosio.msig` | proposals, approvals, invalidations | propose, approve, unapprove, cancel, exec, invalidate | deferred transaction | only what is approved now is executed, once |
| system: bandwidth, RAM | delegations, totals, refunds, RAM market | delegate, undelegate, refund, buy, sell | `eosio.token`, deferred refund | staked plus refunding is what the stake account holds |
| system: producers | voters, producers, schedule, rotation, pay | vote, elect, rotate, kick, pay | `onblock` | totals are the sums of the votes; nobody is scheduled or paid twice |
| system: name bids, REX, limits | auctions, pool, loans, orders | bid, refund; deposit, buy, rent, sell | `eosio.token`, deferred refund | refunds are paid once; the pool is what it lent and holds |

`PROJECT.json` lists every component with its status and every hazard of the
code with the line where it bites and the property that watches over it.

## Modules

| module | what it is |
|---|---|
| `ArbCases` | the case side of the arbitration contract |
| `CaseLifecycle` | what that contract promises of a case: stages, panel, ruling |
| `ArbCasesProofs` | its invariants and the refinement of `CaseLifecycle`, proved for every value of the constants |
| `Collections` | lemmas on sums over finite sets and on sequences, for all proofs |
| `TrailVoting` | ballots, candidates, votes and receipts of the trail contract |
| `TrailVotingProofs` | its invariants and action properties, proved |
| `ArbElection` | nominees, seats and elections, composed with the two |
| `ArbElectionProofs` | its invariants, action properties and what elections are for the cases, proved |
| `Token` | `eosio.token`, one token |
| `TrailTokens` | registries, balances, airgrabs, counterbalances of trail, composed with `Token` |
| `TokensProofs` | the supplies of both, proved |
| `Msig` | proposals, approvals, invalidations and deferred executions of `eosio.msig` |
| `MsigPromise` | what `eosio.msig` promises of an execution |
| `MsigProofs` | the types and tables of `Msig`, and that it implements `MsigPromise`, proved |
| `Voting` | producers, votes and their weights |
| `Bandwidth` | extends `Voting`: delegations, totals, limits, refunds, composed with `Token` |
| `SystemProofs` | votes, stakes, totals and limits of `Voting` and `Bandwidth`, proved; what the steps of `Rex` do to the tables, and that funding, buying, selling and lending keep the invariant of the contract |
| `Rex` | extends `Bandwidth`: the REX pool, loans, orders, maturities |
| `NameBids` | extends `Rex`: auctions of names, whose proceeds go to the pool |
| `RamMarket` | extends `NameBids`: RAM, whose fees go to the pool; `ContractSpec`, the four together |
| `ContractProofs` | what eosio.rex, eosio.names, eosio.ram and eosio.stake hold, REX, stake, loans and RAM under `ContractSpec`, and types, pay and failures of `onblock` under `BlocksSpec`, proved |
| `Blocks` | extends `Voting`: `onblock` (missed blocks, kicks, rotation, schedules, pay) and the chain around it |
| `MC_*` | accounts, lists, weights and first states for TLC |

`ContractNext` in `RamMarket` is all that the system contract's users can do;
`BlocksNext` is all that its blocks do. The two share `Voting`.

Conventions. A table is a function from all possible keys to rows, `Nil` where
there is no row; `Rows` are the keys in use. `IsNextKey` is
`available_primary_key`: the largest key plus one, zero in an empty table, so a
key erased last is given out again. An action of a module is an action of the
contract with everything it changes; a `check` is a guard; authorisation is in
the parameters (the account whose authority the contract asks for).

### ArbCases

`casefiles`, `claims`, `arbitrators` and `accounts` are the tables of the same
names; `fee` is the first entry of the configured fees, the only one the code
reads; `treasury` is the balance of the contract in `eosio.token`, raised by the
deposits and lowered by withdrawals; `major` are the actors of the permission
`eosio.arb@major`, as the last `updateauth` set it.

* `FileCase` without a respondant: the code dereferences the empty optional
  (line 325) and stores what is there. The respondant is therefore any name.
* `DeleteCase`: the accepted claims are read through a reference to the row
  just erased (line 707). Both outcomes of that build are allowed: the list is
  still there, or it reads as empty.
* `ElectionOutcome` is what an election transaction does to the arbitrators
  table, for any set of winners and of ended terms. `ArbElection` models the
  elections themselves, and its property `CasesSpec` says that each of its steps
  is this action, another action of `ArbCases`, or a stutter.
* Left out: `addarbs`, `execfile` and `execclaim`, which check and print and
  change nothing; languages, `last_edit`, the link of a decision, terms and
  classes of claims, which no guard modelled here reads.
* `setconfig` does not check the fees, and a negative one raises a deposit in
  `readycase` without any tokens. `Fees` is therefore any set of integers;
  `DepositsCovered` is proved for as long as no configured fee is negative, and
  checked with a fee of 1.

### TrailVoting

`ballots`, `proposals`, `leaderboards` and `receipts` are the tables (`receipts`
are scoped by voter), `totals` the counts in the environment row, `now` the
second of the clock. `weight` is a voter's balance in the voting token; its
changes, by any token action, are `WeightChanges`. There is one registry, which
stays registered; `recastable` is its setting. Elections, the third type of
ballot, are rejected by the code. `CandidateLists` bounds the lists `setallcands`
takes as they are, a candidate with votes included; votes in another symbol than
the board's make every vote for the candidate fail and are left out.
`cycle_count` is bounded by `MaxCycle`, well below the range of its `uint16_t`.

`NextCycle` is open to every account: the code asks for the publisher's
authority but does not compare it with the proposal's publisher (line 934),
while the contract's README says "Only this account is authorized to call
`nextcycle`". The model follows the code.

### ArbElection

`nominees` and `arbitrators` are the tables, the latter with status and end of
term; `config`, `current_ballot_id` and `auto_start_election` the configuration.
The module composes two others:

* `Trail == INSTANCE TrailVoting`. The contract is the publisher `Self` of its
  boards. Where an action sends one inline action (`candaddlead`,
  `candrmvlead`), the action of `TrailVoting` is a conjunct. `endelection` sends
  `closeballot`, `regballot`, `setseats` and one `addcandidate` per nominee,
  which run one after the other on the same row: `StartNewElection` is their
  joint effect on the boards as `closeballot` leaves them, with the checks of
  each as guards. The property `ResultsKept` is `TrailVoting`'s `ResultsFinal`
  over these steps.
* `Cases == INSTANCE ArbCases`, with no cases and the arbitrators' table, for
  the property `CasesSpec`.

`TrailNext` and `VoteForCandidate` are what happens in trail between the actions
of the contract, all of `TrailVoting`'s `Next` by anybody but the contract: the
clock, balances, votes on any ballot, receipts deleted, and other publishers who
register and unregister ballots, so that the ids move, and list candidates on their
own boards. A vote for a candidate is an action apart only for the history variable
`cast`, who has voted on which ballot for whom: `deloldvotes` takes a receipt from
the second on in which `endelection` is allowed, so receipts do not tell who voted
for the new arbitrators. `std::sort` orders
candidates with as many votes arbitrarily: `Ranked` is the set of all orders.
`dismissarb` is here only with what it does to the arbitrators.
`setlangcodes` changes only languages and is left out.

Where the code and its documentation part, the model follows the code:

* `initelection` without a free seat sets `current_ballot_id` to an id that is
  not registered and turns elections on; the contract's README says it "will
  register an election".
* `max_elected_arbs` is "the max number of arbs allowed to be elected at any
  given time", but `setconfig` may lower it below the occupied seats, and the
  difference in `uint8_t` then wraps to 255 seats, more or less; and
  `newarbstatus` gives an expired or dismissed arbitrator an occupied seat again.
* `unregnominee` leaves the candidate on the board. The candidate is passed over
  when the votes are counted, and the seat stays empty.

### Token, TrailTokens

`stat` and `accounts` are the tables of one token; tokens of different symbols
never meet. `TrailTokens` has TLOS as `INSTANCE Token`: an action of the contract
that is notified of a transfer has the transfer as a conjunct
(`NotifiedOfTransfer`). `eosio.token` notifies the two parties only, so trail
hears of the transfers of its own account (`Self`). A row of `balances` or
`airgrabs` carries its symbol, as in the code, since a row may be found in the
scope of another. `stranded` is a history variable: what `unregtoken` leaves
behind and a later registry of the symbol finds. `total_voters` wraps at
`COUNTER_RANGE`.

### Msig, MsigPromise

A proposal is known by proposer and name; `approvals` and `old_approvals` are the
two tables approvals may lie in; rows of the first version of the contract may be
there from the beginning. An approval has the time of its block, an invalidation
too, so both orders within a block give the same times. `deferred` is the
transaction handed to the chain, which runs it after its delay, or lets it expire
`Window` blocks later; a proposal of the same name can be opened meanwhile.
`MsigPromise` takes an approval back at once; the contract keeps it and compares
times when it executes. `behind` is a history variable, the levels whose approval
stands, and the refinement mapping of `PromiseSpec`.

### Voting, Bandwidth

`voters`, `producers` and the two totals are the tables and globals the code
keeps. `UpdateVotes` is `update_votes` for votes and for changes of stake;
`UpdateVotingPower` is called by every action that moves stake. Proxies cannot
come into being: `regproxy` refuses to register one and `voteproducer` refuses one
that is not registered, so what the code does with proxied weights is dead and
left out. Weights are integers.

`ChangeBw` is `changebw` with all it calls. `deferred[owner]` is the time the
owner's refund transaction is due; a new one replaces it. The deferred
transaction is used up even when `refund` fails. `cancelled` is a history
variable: owners whose request outlived its transaction. `eosio.stake` does not
delegate for itself here.

### Rex, NameBids, RamMarket

`Tables` is the record of all tables in the course of one action, so that the
code's order of effects is kept: `runrex`, which most actions call first, is a
function from such records to such records (closing or renewing loans, filling
queued orders, channelling name proceeds), and the action goes on with its
result. `Require` and a transfer that cannot be made fail the whole action.
Prices, doubles in the code, are integers divided downwards. Ties between equal
expirations and order times follow the primary keys. `b1`, whose orders are not
queued, is not among the accounts. `unweighed` and `retained` are history
variables, for the places where the code drops an amount (see below), and `taken`
is one for what `distviarex` moves to the pool from the contract's own accounts:
the action asks for nobody's authority, so `DistViaRex` takes any `Payer`. (A
transfer from `eosio.rex` to itself always fails, and so does `distviarex` of it.)

The code keeps maturities in a deque ordered by time; `rex_maturities` is the
function from times (`Maturity`) to amounts which that deque is, with 0 where it
has no bucket, so that taking from its back is taking what is not covered by
`Later` buckets. `InTurns` is the loops of `runrex` over the loans of one resource
and over the queue of orders, cut at `max` turns.

In `NameBids`, `CloseName` is the part of `onblock` that closes an auction; which
of two highest bids it takes is left open. `NewAccount` is `newaccount` by the
winner of a closed auction.

`ContractSpec` is all that these modules and `Bandwidth` do, from tables that are
empty but for tokens among the users: what the theorems are about. In `RamMarket`,
`ram` holds the market (`base`, `quote`) and the global counters.
`update_ram_supply` runs first in every purchase and sale, as in the code, and
`buyrambytes` computes its price before that. The size of the supply is unbounded
here; the code's check of realistic sizes is left out, and so is the wrap of the
increase in `uint32_t`.

### Blocks

`onblock` is a function from a record of tables (`Work`) to another, with the
order of the code: missed blocks and kicks, the unpaid block, elections every
`SCHEDULE_SLOTS`, payments every `SNAPSHOT_SLOTS`. A block is produced even when
`onblock` fails, and `failed` remembers how it did. Four failures are told apart, in
the code's order: the chain refuses the schedule; `get_balance` finds no row of
`eosio.tedp`; the shares are divided by zero; and, in an inline action after all
that, `issue` exceeds the maximum supply. `saving_since` is when `eosio.tedp` got the
row it has now: `Save` is a transfer to it (or `open`, with an amount of 0),
`CloseSaving` is `close`. `unissued` stands for an account that holds what can still be
issued. `retire`, which makes more of that, is left out, and so is a chain without one
of the accounts tokens go to. A failure reverts `last_claimrewards` too, so after one
in the payment the next block's `onblock` pays, and fails, again until the cause is gone.
Around it is the chain,
external to the repository: turns of `MAX_BLOCK_PER_CYCLE` slots, slots that are
missed (`Miss`), schedules that become pending and active only after a later
block has confirmed the one that moved them. Orders are relations (`ByKey`,
`ByName`, `ByVotes`), and a sorted list is the place that each has among the others
(`InOrder`): what `std::sort` and the index give, whatever way they get there.
`Restake` is what other actions do to votes: `update_voting_power`, called by changes
of stake. `idle` and `hurried` are history variables: who missed a block or made one
while not active, and whether a schedule was proposed while the one before still
waited to be counted. `CloseName` is in `NameBids`;
`recalculate_votes` repairs a negative total, which `VotesCounted` excludes. What
a slot brings producers and workers is constant: the rate's dependence on the
supply is double arithmetic, which only the amounts issued later follow.

## Runs

| run | bounds | what it shows |
|---|---|---|
| `cases_panel` | one case id, two claim ids, two claim documents, two arbitrators | types; each claim decided once (`DecidedOnce`) and not after the decision (`ClaimsSettled`); the life cycle is implemented (`LifecycleSpec`) |
| `cases_docket` | two owners, two case ids, two claim ids, one arbitrator | ids reused after deletions never make two cases share a claim (`ClaimsOwnedOnce`); the panels are known to the arbitrators (`OpenCasesKnown`, `DismissalIsComplete`); deposits are covered (`DepositsCovered`) |
| `cases_approvals` | two arbitrators | violation: an approval outlives the seat of who gave it (`ApprovalsFromPanel`) |
| `trail_proposals` | two voters, one ballot id, times 0 to 3, two cycles, two candidates, balances 0 to 2 | counts are the sum of the receipts (`CountsAreReceipts`); receipts still needed are never deleted (`ReceiptsKept`); results of proposals and boards are final (`ResultsFinal`) |
| `trail_boards` | two voters, two ballot ids, times 0 to 2, two candidates | ballots and rows correspond (`BallotsOwnRows`); receipts fit the ballot of their id (`ReceiptsFit`); voters are counted once (`VotersCounted`); each vote is on a new receipt entry (`BoardVotesRecorded`) |
| `election_seats` | two nominees, one voter, one seat or 256, terms of a second, another publisher with boards and proposals, two ballot ids, times 0 to 6; `QuietOthers` | nobody stands during a term (`NomineesHaveNoTerm`); terms come from votes on the contract's own boards (`SeatedByVoters`); the case side sees `ElectionOutcome` (`CasesSpec`); results stay final (`ResultsKept`) |
| `election_ties` | three nominees, one voter with balances 0 to 2, one or two seats, times 0 to 6; `Prompt` | the votes alone decide an election, ties included (`MostVotesWin`) |
| `msig_promise` | one proposal id, two transactions, three levels of two accounts, four blocks | approvals and proposals come and go together (`ApprovalsFollowProposals`); only what is approved now is executed, once (`PromiseSpec`) |
| `tokens_supply` | two accounts, a publisher, three symbols, three seconds | the supply of a registry is what is held and unclaimed, and under its maximum (`SupplyIsHeld`); that of TLOS is the sum of its balances (`TlosSupplyIsHeld`) |
| `stake` | two accounts, two producers, calls until the second slot, three tokens | totals of votes are sums over the votes (`VotesCounted`), of the voters' present stake (`VotesWeighStake`); `eosio.stake` holds what is delegated and owed (`StakeHeld`); limits follow (`LimitsFollow`); refunds arrive (`RefundArrives`) |
| `rex` | two accounts, amounts of REX calls 1 to 4, of RAM 5, bids 1 to 4, one token of a system account taken by `distviarex`, loans and maturities of a slot, six slots | `eosio.rex`, `eosio.names`, `eosio.ram` hold what the tables owe, the latter two but for what was taken (`RexBacked`, `NamesBacked`, `RamBacked`); REX is owned once and covers its orders (`RexOwned`); stake and totals count it (`StakeAndLoansCount`); RAM can be sold (`RamSellable`) and used (`RamLimits`) |
| `blocks` | three producers, two scheduled, turns of two slots, 24 slots, three calls or misses, a change of stake by 2, 3 tokens saved, 20 that can be issued, 2 in a transfer to `eosio.tedp` | pay is backed (`PayHeld`); nobody is charged or kicked for the misses of others (`ChargedForOwnMisses`); each of the four failures of `onblock` has the cause named (`OnblockRuns`) |

Why the bounds are enough. Two arbitrators are the smallest panel on which one
approval is not all; two claim documents and two claim ids give an accepted and
an unread claim, and the duplicate of each; two cases make a reused id meet a
case that is still open. A board gets its candidates before its window
begins, so a window in which somebody is voted for is not over before the time 3:
`trail_proposals` goes there, with a vote before, in and after the window, the statuses
and closings that follow, and the cycles of a proposal. In `trail_boards`, where
only votes, registrations and ids meet, the last time is within the window of a board
with candidates; two ballot ids give an id reused beside one that is kept.
`MAX_UNREAD_CLAIMS` is 2 in place of 21,
so the limit is met. In the election runs an election is called, begins and ends
in consecutive seconds: up to the time 6 there are an election, the end of a term and
a second election counted. `Windows`, the times of other publishers' ballots, is one
window.

Two constraints keep these runs small; what they cut off is not followed further.
`QuietOthers`, in `election_seats`: no votes on proposals, no next cycle of one, and
no status but 0 on other publishers' rows, which the contract never reads. Other
publishers' boards do get candidates and votes, and are counted if the guard on the
publisher goes (a mutant). Configured are one seat and 256, which `uint8_t` makes none, so that
`initelection` points at an id somebody else gets. `Prompt`, in `election_ties`: only
elections change the status of arbitrators, the voter has a balance while there is a
board to vote on, the first election is called at once, each is counted by the first
second in which it can be, and a second one is followed to its end only if its number of seats has wrapped.
Reached are, for one seat and for two, all equal, two equal in front and two equal
behind, nobody voted for, a candidate who is no nominee any more, and a count on the
255 seats that are left when `max_elected_arbs` is lowered below the occupied ones.
Every action happens in some passing run.

`msig_promise` has four blocks: an approval, an invalidation in the same block, one
after it, an execution, and a second proposal while the first transaction waits.
In `tokens_supply`, `stake`, `rex` and `blocks` a behaviour has a *focus*, chosen
in its first state, which leaves out the actions that have nothing to do with it:
TLOS, registries or mirrored TLOS; refunds, votes or limits; loans, savings,
stake, names or RAM; turns, rotation or pay. Combining them multiplies states and
brings no new meeting of tables: those that do meet are in one focus (name
proceeds and sales of REX; stake, REX and votes; stake, limits and RAM; RAM fees
and REX; names, RAM or stake and `distviarex`). In `rex` a loan of one slot expires while an order waits, is renewed and
is closed; six slots let REX mature in the buckets of four days. In `blocks`,
twelve slots of a rotation give three full cycles of two producers, and 24 slots
schedule, rotate, charge, kick and elect anew; all four failures of `onblock` and a
negative bucket are reached. The supply is the smallest that lasts for some
payments and then not; behaviours about pay also begin without a row of `eosio.tedp`. `MAX_PRODUCERS` 3 and `TOP_PRODUCERS`
2 stand for the code's own values: one standby is enough to be rotated in and voted up.
`Width` is 256 instead of 2^32, far beyond any count of the run.

In the runs `tokens_supply`, `stake`, `rex` and `blocks` the clock or the bound on
calls ends, so `CHECK_DEADLOCK FALSE`. In all others deadlock is checked: setting
a configuration, a registry or an invalidation is always possible.

Fairness. Every action is a transaction somebody may send or not; nothing is
assumed of them. Two things happen without anybody: time passes, and the chain
runs a deferred transaction that is due. `Bandwidth`'s `Fairness` is weak
fairness of these two, and `RefundArrives` follows: a refund request is settled
without further calls, unless the history variable says that its transaction was
cancelled. Calls that move the request's time end at `LastCall`, early enough for
the clock (`LastCall + refund_delay_sec <= MaxTime`); with calls for ever, an owner
who keeps unstaking postpones the refund for ever, as the code intends. For the
other contracts no liveness is justified by the code, and none is stated.

Types. Every module states its type invariant. Those of `ArbCases`, `TrailVoting`,
`ArbElection`, `TrailTokens`, `Token`, `Msig`, `Voting`, `Bandwidth` and `Blocks` are proved,
those of `ArbCases` and `Blocks` are also checked (`cases_panel`, `blocks`); those of the others say what the variables
hold. The runs spend their time on the invariants between tables.

## Findings

* An arbitrator who approved the next stage and then recuses, or is dismissed,
  leaves the approval behind. It is still counted, so one of the two remaining
  arbitrators can advance the case alone (`cases_approvals`).

The rest was met while modelling: the models follow the code, and the properties
are stated so that they hold with it.

Arbitration
* The filter for the members of `eosio.arb@major` is a disjunction that is
  always true; the dismissed keep their share of the permission.
* `endelection` tests the end time of the board but not its status. An election
  that ended without a nominee left can be ended again by whoever registers
  next; a new election then starts while `auto_start_election` is off, and
  `initelection`, which a test says cannot, starts another one beside it.

Trail
* Recasting in the same direction after a change of balance updates the count
  but not the receipt; after the next recast the count is wrong.
  `trail_proposals` therefore has a token without recasting.
* `nextcycle` is open to every account; `cycle_count` wraps in `uint16_t`.
* `unregtoken` asks for the authority of the publisher it is given and does not
  compare it with the registry's: anybody can erase a destructible registry. Balances stay behind.
* An airgrab is kept by publisher and recipient. Claimed through another registry
  of the publisher, it is credited in the table of that registry under the symbol
  it was issued in.
* `total_voters` is lowered for balances it was never raised for, and wraps.
* Counterbalances of those who trade with trail's own account grow for ever;
  `last_decay` is never moved, so the same hours decay again at each transfer.
* `mirrorcast` ignores the maximum of VOTE; the contract's README says that tokens
  can be mirrored once a day, and the check is commented out. TLOS that move
  between other accounts can be mirrored twice, because trail is not notified.
* `regtoken` does not check its maximum.

eosio.msig
* A level listed twice in a proposal can approve twice; `unapprove` takes back the
  first of these approvals only.

System contract
* `setacctnet` without a weight leaves the flag `net_managed`; the two actions
  beside it take theirs back.
* Staking for somebody else, or with `transfer` for the owner, cancels the owner's
  deferred refund and keeps the request (`cancelled`); the header says that the
  refund is scheduled.
* `unstaketorex` ignores the change of stake that `add_to_rex_balance` returns: what
  REX held before has gained is then in `vote_stake` and not in the stake
  (`unweighed`).
* A payment may buy no REX when one REX is worth more; the buyer's row then counts the
  payment in `vote_stake` all the same. `closerex` erases such a row and leaves the
  voter's stake as it is (`unweighed` keeps account of this too).
* `runrex` sets the name proceeds to zero even when nobody has REX and nothing was
  transferred; these tokens stay in `eosio.names` (`retained`).
* `distviarex` asks for nobody's authority and takes any account. The transfer is
  signed by the privileged system contract in that account's name: anybody can move
  any account's tokens to the pool, once there is one. Taken from `eosio.stake`,
  `eosio.ram` or `eosio.names`, they are missing there (`taken`): refunds, sales of RAM
  and refunds of bids may fail, and when name proceeds are missing the transfer in
  `runrex` fails, and with it every action that runs it. The pool itself gains what
  it gets (`RexBacked`). `eosio.bpay`, the deposits of the arbitration contract and
  the accounts of users stand open to it too; `Blocks` and `ArbCases`, like
  `Bandwidth` by itself, are about a chain without a pool, where `distviarex` does nothing.
* `buyrambytes` is documented to buy an exact amount of RAM. Rounding, and a supply
  that grows after the price was computed, give another amount.
* Payment shares are counted up to the first inactive producer in the order of
  votes, but all active ones are paid: the bucket may become negative, and the
  last to claim finds too little in `eosio.bpay`.
* With no active producer at the top of the order the share count is zero:
  `onblock` stops at the division in each block where payment is due.
* As a comment in the code says, `onblock` fails while `eosio.tedp` has no row of
  balances; and it fails once what is saved and what can still be issued do not
  cover what is due. Each later block tries again and fails, schedules and missed
  blocks included.
* With no more elected than are scheduled, a rotated pair of which both are still
  elected puts the standby into the schedule twice; the chain refuses it, and
  every `onblock` that elects fails until the next rotation.
* The counts of missed blocks are right while a schedule becomes active only
  some blocks after it was proposed; a chain that activated it at once would
  charge producers with blocks they had not missed. They go wrong after an `onblock`
  that failed, whose block is not counted, and when another schedule is proposed
  while the last one still waits for its third turn: `block_counter_correction`
  counts both the turns to wait and the blocks before the next schedule, so the wait
  ends early and counting begins in the middle of a turn. `ChargedForOwnMisses` says
  both (`failed`, `hurried`), and leaves out producers who made a block while not
  active, which is not counted for them either (`idle`).

## Proofs

Each theorem is about the specification of its module, for all constants that
satisfy the module's named assumptions. Those say what the code gives: names are
64-bit, so there are finitely many accounts, voters, symbols and producers (a
sum over them has a value); amounts that `check` requires to be positive are;
`Nil` is no row.

Sums. The invariants about supplies, votes, stakes and deposits are sums over
tables by `SumFunctionOnSet`, a fold over a recursive function that the
libraries give no facts about. `Collections` proves what is needed from the fold's
definition: that the function chosen is a solution of its equation (`SumUnfolds`),
and then the sum of an insertion, a removal and a changed entry (`SumInsert`,
`SumRemove`, `SumChange`, `SumShift`). Each induction is by the least
counterexample (`LeastSet`, a finite set no proper subset of which is one), because
the library's induction theorems take an operator as parameter.

### ArbCasesProofs

*Types* (`TypeCorrect`): one lemma per action, from lemmas on the fields of a
row. `TypeOK` is inductive by itself.

*Claims* (`ClaimsAgree`): `ClaimsOwnedOnce` is inductive together with `TypeOK`.
The argument: a new claim takes the next key, which no row has, so no case lists
it; a deletion sweeps only the claims of its own case, which no other case
lists; hence a reused id never finds an old owner.

*Decisions* (`ClaimsDecidedOnce`, `Settled`): `DecidedInv` adds to `DecidedOnce`
that a case in setup has decided nothing. A decision thins the list of unread
claims (`Thinned`: what is left comes from different places of the old list), so a
summary that was there once and is decided is there no more.

*Panels* (`PanelsKnown`, `DismissalComplete`): `OpenCasesKnown` is inductive with
`TypeOK`; open cases are only ever emptied by the dismissal that leaves every
unresolved panel at once, and a new term keeps them.

*Deposits* (`DepositsSafe`): as long as no configured fee is negative,
`DepositsCovered` is inductive with `TypeOK`; each action changes one row and the
treasury by the same amount, or lowers the deposits alone. The condition is part of
the theorem (`Spec /\ [](fee >= 0)`), since `setconfig` does not see to it.

*Life cycle* (`RuledWhenClosed`, `Refinement`): the invariant `ClosedRuled` of the
abstract specification is needed for the step simulation: `dismissarb` tests
only that a status is below `RESOLVED`, and that the case has left the queue
follows from a case without arbitrators having no panel to leave. Each action
maps to an abstract action or to a stutter.

### TrailVotingProofs

The inductive invariant is `Inv`: types, windows in order, `BallotsOwnRows`, and for
each ballot that its receipts fit (`Fits`). A receipt carries the end of the window it
was cast in. What makes ids safe to reuse is that a receipt goes with an
unregistered ballot or that the ballot had none; what makes cycles safe is that a
receipt of an older cycle ended before the present one ends, so `IsOfCycle` tells
them apart. `StepKinds` sorts the actions by what they do to a ballot (nothing, a
change of a row that keeps its window and voters, a registration, a vote, ...), and
each kind has its lemma. `BallotsOwned`, `ReceiptsFitted`, `VotersCountedOnce`, and
the action properties `ReceiptsStay`, `ResultsStay` and `VotesRecorded` follow.

*Counts* (`CountsAreTheReceipts`): `CountsAreReceipts` is proved where
`TRUE \notin Recastable`. With recasting it is false (see the findings), and the run has
the same setting. `CountsFit` is the sum over the voters' receipts; a vote changes
one summand, and a new cycle makes all of them zero.

### TokensProofs

`TokensInv` has the types (a rate of decay is positive, or the division by it would
stop the contract), `SupplyIsHeld` as a sum over both tables in which a row may lie, and
`TlosInv` for `eosio.token`. The argument is the same in each action: it moves a part
of one symbol between the balances, the airgrabs and the supply (`SupplyMoves`,
`HeldMoves`, `BalancesMove`), and rows of other symbols in the scope are
untouched. A group of seizures is one fold; its turns move the same symbol one after
the other (`TurnsMove`, by induction over the fold).

### SystemProofs

The theorems are about `Bandwidth`'s `Spec`. `StakeInv` is the conjunction of what its
parts need of each other:

* `VotesInv`: `VotesCounted`, and each voter's row is `Sound`: it votes only for
  registered producers, with a weight that is zero if the stake was. `update_votes`
  takes the old weight from some producers and adds the new one to others, in two
  loops; `ChangeIs` says what one producer gets from both, `UpdateVotesKeeps` that the
  sums follow.
* `WeighInv`, `HeldInv`, `LimitsInv`: the stake of a voter, the balance of
  `eosio.stake` and the totals, as sums over the rows of `del_bandwidth`. For an
  unstake, what `changebw` adds to the refund and what it transfers are together what was
  taken off (`OwedOrPaid`), whether a request was pending, was used up or turned round.
* `RexInv` and `ClockInv`: signs and types. `Bandwidth` alone has nobody with REX, but
  the lemmas `UpdateVotesKeeps`, `PowerKeeps` and `RevaluedIs` hold for any sound
  pool.

The second half of the module is about the operators of `Rex`, for any record of
tables `t`, not only those an action starts from, since `runrex` hands on tables of its
own. `Good(t)`: the pool lends what the loans say, has as much REX as the balances, and
no tokens without REX; each row's REX is matured or in a bucket, each open order
covered. `Debt(t)` is what eosio.rex holds beyond what the tables owe, `Spare(t)` what
eosio.names holds beyond the proceeds, `Weight` what REX counts for, `Own` totals
without loans. `Keeps(t, u)`: from good tables that no check has failed, `u` is good and
owes, weighs and owns as `t` (`Same`). It is shown of a loan that is renewed
(`RenewedKeeps`) or repaid (`RepaidKeeps`), of an order that is filled
(`FillQueuedKeeps`), of name proceeds (`ChannelledKeeps`), then of any number of turns
(`InTurnsKeep`, by the least set of turns that fails) and of `runrex` (`RunKeeps`).
What rounds downwards is bounded by `DivAtMost`, `DivAtLeast`, `BancorIs`, `WorthIs`. What
an owner's own action changes is `Only(t, u, owner)`.

The module ends with the invariant of the whole contract, described below, and its
proof for funds, purchases, sales and loans of REX.

### ContractProofs

The theorems are about `ContractSpec`, and one inductive invariant gives all of them.
`ContractInv`, defined in `SystemProofs`, is the conjunction of

* `Good(Tables)` and `Debt(Tables) = 0`. The second is the balance of eosio.rex; it is
  kept because an open order has no proceeds yet that filling it would overwrite, loans
  are told apart by their numbers, and the pool is empty of tokens when it is of REX;
* `BidsInv`: `Spare(Tables)` and what was taken is the sum of the refunds and of the open bids. A bid that
  is outbid moves from one sum to the other, a closed one to the proceeds;
* `WeightInv`: the stake of a voter and the totals of an account, without what orders
  will change and what is on loan. It also says that who has REX has a row of votes:
  otherwise selling would start a row below zero;
* `HoldsInv`, which is `HeldInv` of `SystemProofs` but for `taken`, and `ClockInv`, since
  `unstaketorex` takes from eosio.stake;
* `RamInv`: `RamBacked`, `RamLimits`, and `InitialQuote * max_ram_size <= base * quote`.
  This product is why RAM can be sold (`RamIsSellable`): no purchase or sale lowers it,
  as divisions round in favour of the market (`TradedProduct`), and more bytes raise
  both sides (`GrownProduct`); so selling every byte leaves at least `InitialQuote`.

Each action of REX is: some tables handed on by lemmas of `SystemProofs`, then `Commit`.
`OwnerKeeps` is what `Commit` and `Reweigh` need for the invariant to hold again: the
tables are good, owe nothing, and weigh for the owner what was added to his stake. Steps of
`Bandwidth` and `Voting` change none of the tables of REX; `StakeKeeps` says what is
needed of them. `MarketKeeps` and `BidsKeep` are the same for RAM and names.
`ContractStep` puts the actions together, `ContractStart` the first state.

No assumption bounds an amount: the pool, the price of REX, the number of loans and
orders, `max` of `rexexec` and all fees are arbitrary. `MaxTime` and `MaxLoans` are
constants, so of any size.

The last part of the module is about `BlocksSpec`. Its inductive invariant `BlocksInv` is
`VotesInv` of `SystemProofs`, stakes that are not below zero, and `GoodWork(Work)`:

* the tables keep their types (`WorkTables`), where the schedules of the chain are not
  empty and the counts of missed blocks are about producers;
* `PayHeld`, both sums;
* the standby's index is never among the top. Without it a rotation could choose two
  of the top and swap one for the other. The code gives it 75 at first: hence
  `TOP_PRODUCERS \in 1..76` in the assumptions.

Beside it stand `failed \subseteq PastFailures`, and `Reserve <= Funds(Work)`: what is
saved and can be issued, together with what the slots were given so far, is never less
than what there was at first. So a supply that is short has not paid for all slots, and
none is paid for twice. What was saved counts only while the row is that of the
beginning, since closing it needs a balance of zero.

`onblock` hands the tables on through a dozen functions, so the lemmas say of each that
it `Leads(w, u)`: from good tables to good ones, with the same votes and rows of
producers, and the bucket begun once begun. `OnblockKeeps` composes them. That an
election cannot name anybody twice is in `NamedOnce`: a list by votes names nobody twice
(`PlacesAre`: in a finite set with a strict order every place is somebody's and one's
only), the pair is either chosen from both sides of the line or still stands on them
(`PairKeptIs`, `CheckedRotation`), and only with no more elected than are scheduled is the second
side not looked at. That shares are divided by zero only when nobody is elected is in
`SharesAre`: who stands first by votes is active if anybody with votes is. `SharedKeeps`
needs no such order: what is taken off the bucket is summed over those who are paid.

`2 ^ n`, of which the provers know nothing, is a natural number because it is how many
subsets `1..n` has (`PowerNat`).

### ArbElectionProofs

The module takes the lemmas of `TrailVotingProofs` through an instance in which the
contract is one more publisher. `ElectInv` is: types, `NomineesHaveNoTerm`, the
permission being that of all rows (`SeatsKnown`, the finding on the filter made a
theorem: `AllAreArbitrators`), and of the boards (`BoardsInv`) trail's invariant, that
candidates are listed once on each board of the contract's own, and that every
candidate with votes there is in `cast` (`Owed`). Other publishers may list a candidate twice,
with `setallcands`; what the contract says of its boards rests on the publisher each row keeps.

Each action is `Steady(won)`: it keeps the invariant, gives terms to the set `won` of
nominees and to nobody else, and is for `ArbCases` a step of its own. `won` is empty
except in `endelection`. From it follow `NomineesOutOfOffice`, `ElectionIsOutcome`
(the refinement `CasesSpec`) and, with `Owed`, `SeatsAreVoted`.

`VotesDecide`: the candidates tied for the last seat are a final segment of those a
ranking seats, so the loop that removes them keeps exactly those whom no more than
`seats` candidates equal or surpass (`UntiedIs`), whatever order `std::sort` gave
to equals. `ResultsKeptByElections`: the transaction of `endelection`, on the boards as
`closeballot` leaves them, is final for each board.

### MsigProofs

*Tables* (`MsigTypes`, `TablesFollow`): both are inductive as they stand;
a proposal and its row of approvals are made and erased together.

*Promise* (`ImplementsPromise`): proved under `ListedOnce`, that no proposal
lists a level twice. `propose` does not see to it, and without it the theorem is false:
`unapprove` takes back one approval of a level that gave two, and exec counts
the other. The inductive invariant `IInv` adds to the types and tables that a
level is asked or has approved, never both (`CountedOnce`); that no approval is of the
future, so that an invalidation is later than every approval already there, those of
its own block included (`BackedByTime`); and that an approval still standing is one
nobody took back (`BackedByTime`, `BackedByRow`). Then what `Exec` counts is a
subset of `behind`, and each action is one step of the promise or a stutter.

### Only model-checked

* `ChargedForOwnMisses`: that counting waits long enough needs what blocks each producer
  of the schedule makes in the turns between a proposal and the third turn after its
  activation, an invariant over the position in a turn of every schedule the chain
  holds; it is checked for two producers and turns of two slots.
* `CountsAreReceipts` where votes may be cast again: it is false there.
* `RefundArrives`: liveness under fairness is out of the prover's reach.

## Not modelled, and the plan

Not modelled: `setlangcodes` (languages only); parameters of the node and of the
contract that are set and read by no modelled guard (`setparams`, `setpriv`,
`activate`, `updtrevision`, `setpayrates`); the native actions, executed by the node;
proxies and `exchange_state::convert`, dead code; `b1` and what `eosio.stake` delegates in
its own name; the supply's part in the inflation rate; the harness of the tests.

Next would be `ChargedForOwnMisses`, and recasting votes in `CountsAreReceipts`: what
the counts are then, instead of when they are right.
