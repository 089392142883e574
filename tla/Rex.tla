--------------------------------- MODULE Rex ---------------------------------
(***************************************************************************)
(* contracts/eosio.system/src/rex.cpp: tokens lent from a common pool,     *)
(* loans of NET and CPU that expire or are renewed, orders to sell REX     *)
(* that wait until the pool can pay, REX that matures, and the stake REX   *)
(* counts for in votes.  Most actions first run what is due of everybody's *)
(* (runrex).  Doubles of the Bancor price are integers divided downwards.  *)
(* b1, whose orders are not queued, is not among the accounts.             *)
(***************************************************************************)
EXTENDS Bandwidth

CONSTANTS Amount,          \* tokens and REX given to the actions
          Maxes,           \* arguments of rexexec
          rex_ratio, init_total_rent,
          LOAN_TIME,       \* 30 days
          seconds_per_day, num_of_maturity_buckets,
          end_of_days,     \* maturity of savings
          MaxLoans         \* bound on loan_num

VARIABLES rexfunds,        \* owner -> balance
          rexorders,       \* owner -> rex_order
          loans,           \* "net", "cpu" -> rex_loan rows
          loan_num,        \* of rex_pool
          unweighed,       \* history: owner -> stake unstaketorex did not count, less
                           \* what closerex left counted
          retained,        \* history: bids nobody had REX to be given to
          taken            \* history: the contract's accounts -> what distviarex took

rexOnlyVars == <<rexfunds, rexorders, loans, loan_num, unweighed, retained, taken>>
rexAllVars == <<vars, rexOnlyVars>>

RESOURCES == {"net", "cpu"}

rex_order == [rex_requested : Nat, proceeds : Nat, stake_change : Int,
              order_time : Time, is_open : BOOLEAN]

rex_loan == [from : Account, receiver : Account, payment : Nat, balance : Nat,
             total_staked : Nat, expiration : Nat, loan_num : Nat]

ASSUME RexAssumption ==
  /\ Amount \subseteq Nat /\ Maxes \subseteq Nat /\ rex_ratio \in Nat \ {0}
  /\ init_total_rent \in Nat \ {0} /\ LOAN_TIME \in Nat /\ seconds_per_day \in Nat \ {0}
  /\ num_of_maturity_buckets \in Nat /\ MaxLoans \in Nat
  /\ end_of_days \in Maturity
  /\ end_of_days > MaxTime + num_of_maturity_buckets * seconds_per_day
  /\ \A t \in Time : (t \div seconds_per_day + num_of_maturity_buckets) * seconds_per_day \in Maturity
  /\ Nil \notin rex_order

RexTypeOK == /\ TypeOK
             /\ rexfunds \in [Account -> Nat \cup {Nil}]
             /\ rexorders \in [Account -> rex_order \cup {Nil}]
             /\ loans \in [RESOURCES -> SUBSET rex_loan]
             /\ loan_num \in Nat
             /\ unweighed \in [Account -> Int]
             /\ retained \in Nat
             /\ taken \in [SystemAccounts -> Nat]

RexInit == /\ BandwidthInit
           /\ rexfunds = [a \in Account |-> Nil]
           /\ rexorders = [a \in Account |-> Nil]
           /\ loans = [r \in RESOURCES |-> {}]
           /\ loan_num = 0
           /\ unweighed = [a \in Account |-> 0]
           /\ retained = 0
           /\ taken = [a \in SystemAccounts |-> 0]

-----------------------------------------------------------------------------
(* The tables in the course of one action.  An action that fails changes     *)
(* nothing: ok says that no check has failed, tlos is Nil when a transfer    *)
(* could not be made.                                                        *)

Tables == [pool |-> rexpool, balances |-> rexbalance, funds |-> rexfunds,
           orders |-> rexorders, loans |-> loans, totals |-> userres, limits |-> limits,
           tlos |-> accounts, retained |-> retained, ok |-> TRUE]

\* Of Tables all but the stake and the delegations.
Commit(t) == /\ t.ok /\ t.tlos # Nil
             /\ rexpool' = t.pool /\ rexbalance' = t.balances /\ rexfunds' = t.funds
             /\ rexorders' = t.orders /\ loans' = t.loans
             /\ userres' = t.totals /\ limits' = t.limits
             /\ accounts' = t.tlos /\ retained' = t.retained
             /\ UNCHANGED <<now, stat, activated, refundVars>>

Require(t, condition) == [t EXCEPT !.ok = @ /\ condition]

Sent(t, from, to, amount) == [t EXCEPT !.tlos = Transferred(@, from, to, amount)]

ToFund(t, owner, amount) ==
  [t EXCEPT !.funds[owner] = IF @ = Nil THEN amount ELSE @ + amount]

HasFund(t, owner, amount) ==
  /\ amount > 0
  /\ t.funds[owner] # Nil
  /\ amount <= t.funds[owner]

FromFund(t, owner, amount) ==
  IF HasFund(t, owner, amount) THEN [t EXCEPT !.funds[owner] = @ - amount] ELSE Require(t, FALSE)

\* update_resource_limits
Lent(t, receiver, net_delta, cpu_delta) ==
  LET row == IF t.totals[receiver] = Nil THEN NoResources ELSE t.totals[receiver]
      totals == [row EXCEPT !.net = @ + net_delta, !.cpu = @ + cpu_delta]
  IN Require([t EXCEPT !.totals[receiver] = KeptUnlessEmpty(totals),
                       !.limits[receiver] = LimitsFor(receiver, totals)],
             totals.net >= 0 /\ totals.cpu >= 0)

LentOf(t, resource, receiver, delta) ==
  IF delta = 0 THEN t
  ELSE IF resource = "net" THEN Lent(t, receiver, delta, 0) ELSE Lent(t, receiver, 0, delta)

-----------------------------------------------------------------------------
(* The pool *)

\* Mutant: at the price before the exchange.
OutputAtOldPrice(inp_reserve, out_reserve, inp) == (inp * out_reserve) \div inp_reserve

get_bancor_output(inp_reserve, out_reserve, inp) ==
  AtLeastZero((inp * out_reserve) \div (inp_reserve + inp))

AddLoanToPool(pool, payment, rented) ==
  LET unlent == pool.total_unlent - rented + payment
      lent == pool.total_lent + rented
  IN [pool EXCEPT !.total_rent = @ + payment, !.total_unlent = unlent, !.total_lent = lent,
                  !.total_lendable = unlent + lent]

RemoveLoanFromPool(pool, loan) ==
  LET unlent == pool.total_unlent + loan.total_staked
      lent == pool.total_lent - loan.total_staked
  IN [pool EXCEPT !.total_rent = @ - get_bancor_output(pool.total_unlent, @, loan.total_staked),
                  !.total_unlent = unlent, !.total_lent = lent,
                  !.total_lendable = unlent + lent]

Enriched(pool, amount) ==
  [pool EXCEPT !.total_unlent = @ + amount, !.total_lendable = @ + amount]

channel_to_rex(t, from, amount) ==
  IF rex_available(t.pool)
  THEN Sent([t EXCEPT !.pool = Enriched(@, amount)], from, REX_ACCOUNT, amount)
  ELSE t

\* The pool after payment has bought REX from it: new, empty, or at its price.
AddToPool(pool, payment) ==
  LET lendable == pool.total_lendable + payment
  IN IF rex_available(pool)
     THEN [pool EXCEPT !.total_lendable = lendable,
                       !.total_unlent = lendable - pool.total_lent,
                       !.total_rex = (lendable * @) \div pool.total_lendable]
     ELSE [total_lent |-> 0, total_unlent |-> payment, total_rent |-> init_total_rent,
           total_lendable |-> payment, total_rex |-> payment * rex_ratio,
           namebid_proceeds |-> IF pool = Nil THEN 0 ELSE pool.namebid_proceeds]

RexReceived(pool, payment) ==
  AddToPool(pool, payment).total_rex - (IF rex_available(pool) THEN pool.total_rex ELSE 0)

-----------------------------------------------------------------------------
(* Maturities *)

get_rex_maturity == (now \div seconds_per_day + num_of_maturity_buckets) * seconds_per_day

SumRex(buckets) == SumFunctionOnSet(buckets, Maturity)

NoBuckets == [time \in Maturity |-> 0]

Savings(rb) == rb.rex_maturities[end_of_days]
WithSavings(buckets, rex) == [buckets EXCEPT ![end_of_days] = rex]
NoSavings(rb) == WithSavings(rb.rex_maturities, 0)

Due == {time \in Maturity : time <= now}

process_rex_maturities(rb) ==
  [rb EXCEPT !.matured_rex = @ + SumFunctionOnSet(rb.rex_maturities, Due),
             !.rex_maturities = [time \in Maturity |-> IF time \in Due THEN 0 ELSE @[time]]]

\* rex more in the bucket of today.
Bucketed(buckets, rex) == [buckets EXCEPT ![get_rex_maturity] = @ + rex]

\* rex is bought or, when savings are fewer, taken from them.
Maturing(rb, rex, savings) ==
  [process_rex_maturities(rb) EXCEPT !.rex_maturities = WithSavings(Bucketed(@, rex), savings)]

\* What is left of the buckets when rex is taken, the latest first.
Later(buckets, time) == SumFunctionOnSet(buckets, {other \in Maturity : time < other})

TakenFromLatest(buckets, rex) ==
  [time \in Maturity |-> AtLeastZero(buckets[time] - AtLeastZero(rex - Later(buckets, time)))]

-----------------------------------------------------------------------------
(* Buying and selling *)

\* The REX of a row at what it is worth now that payment has bought rex.
BoughtRow(pool, rb, payment, rex) ==
  LET held == IF rb = Nil
              THEN [vote_stake |-> payment, rex_balance |-> rex, matured_rex |-> 0,
                    rex_maturities |-> NoBuckets]
              ELSE [rb EXCEPT !.rex_balance = @ + rex,
                              !.vote_stake = Worth(pool, rb.rex_balance + rex)]
  IN Maturing(held, rex, Savings(held))

AddToBalance(t, owner, payment, rex) ==
  [t EXCEPT !.balances[owner] = BoughtRow(t.pool, @, payment, rex)]

Bought(t, owner, payment) ==
  LET pool == AddToPool(t.pool, payment)
  IN Require(AddToBalance([t EXCEPT !.pool = pool], owner, payment,
                          RexReceived(t.pool, payment)),
             /\ rex_available(t.pool) => t.pool.total_lendable > 0
             /\ pool.total_unlent >= 0)

VoteStake(t, owner) == IF t.balances[owner] = Nil THEN 0 ELSE t.balances[owner].vote_stake

\* fill_rex_order: nothing happens while too much of the pool is lent.
Proceeds(pool, rex) == Worth(pool, rex)

CanFill(pool, rex) ==
  Proceeds(pool, rex) <= pool.total_unlent - (2 * pool.total_lent) \div 10

SoldPool(pool, rex) ==
  LET lendable == pool.total_lendable - Proceeds(pool, rex)
  IN [pool EXCEPT !.total_rex = @ - rex, !.total_lendable = lendable,
                  !.total_unlent = lendable - pool.total_lent]

SoldRow(pool, rb, rex) ==
  [rb EXCEPT !.vote_stake = Worth(pool, rb.rex_balance) - Proceeds(pool, rex),
             !.rex_balance = @ - rex, !.matured_rex = @ - rex]

Filled(t, owner, rex) ==
  [t EXCEPT !.pool = SoldPool(@, rex), !.balances[owner] = SoldRow(t.pool, @, rex)]

StakeChange(t, owner, rex) == VoteStake(Filled(t, owner, rex), owner) - VoteStake(t, owner)

-----------------------------------------------------------------------------
(* runrex *)

IsOpen(t, owner) == IF t.orders[owner] = Nil THEN FALSE ELSE t.orders[owner].is_open

OpenOrders(t) == {a \in Account : IsOpen(t, a)}

loans_available(t) == rex_available(t.pool) /\ OpenOrders(t) = {}

\* Mutant: the payment is not taken from the loan's balance.
RenewedUnpaid(t, resource, loan, rented) ==
  LET renewed == [loan EXCEPT !.total_staked = rented, !.expiration = @ + LOAN_TIME]
  IN [t EXCEPT !.pool = AddLoanToPool(@, loan.payment, rented),
               !.loans[resource] = (@ \ {loan}) \cup {renewed}]

Renewed(t, resource, loan, rented) ==
  LET renewed == [loan EXCEPT !.total_staked = rented, !.expiration = @ + LOAN_TIME,
                              !.balance = @ - loan.payment]
  IN [t EXCEPT !.pool = AddLoanToPool(@, loan.payment, rented),
               !.loans[resource] = (@ \ {loan}) \cup {renewed}]

Repaid(t, resource, loan) ==
  LET closed == [t EXCEPT !.loans[resource] = @ \ {loan}]
  IN IF loan.balance > 0 THEN ToFund(closed, loan.from, loan.balance) ELSE closed

\* An expired loan is taken from the pool, and given again at the price then if
\* it is funded, worth it and nobody waits to sell.
process_expired_loan(t, resource, loan) ==
  LET removed == [t EXCEPT !.pool = RemoveLoanFromPool(@, loan)]
      rented == get_bancor_output(removed.pool.total_rent, removed.pool.total_unlent,
                                  loan.payment)
  IN IF loan.payment <= loan.balance /\ loan.payment < rented /\ loans_available(removed)
     THEN LentOf(Renewed(removed, resource, loan, rented), resource, loan.receiver,
                 rented - loan.total_staked)
     ELSE LentOf(Repaid(removed, resource, loan), resource, loan.receiver, -loan.total_staked)

Expired(t, resource) == {l \in t.loans[resource] : l.expiration <= now}

EarliestLoan(ls) ==
  CHOOSE l \in ls : \A m \in ls : \/ l.expiration < m.expiration
                                  \/ l.expiration = m.expiration /\ l.loan_num <= m.loan_num

Steps(max) == [i \in 1..max |-> i]

\* Accounts in the order of their names.
NameOrder == SetToSeq(Account)

\* Owners of open orders, the first ones first.
OrderQueue(t) ==
  LET Earlier(a, b) == \/ t.orders[a].order_time < t.orders[b].order_time
                       \/ /\ t.orders[a].order_time = t.orders[b].order_time
                          /\ \E i, j \in DOMAIN NameOrder :
                               i < j /\ NameOrder[i] = a /\ NameOrder[j] = b
  IN SetToSortSeq(OpenOrders(t), Earlier)

FilledOrder(order, proceeds, stake_change) ==
  [order EXCEPT !.proceeds = proceeds, !.stake_change = stake_change, !.is_open = FALSE]

\* The owner has a balance: "should always be true".
FillQueued(t, owner) ==
  LET rex == t.orders[owner].rex_requested
  IN IF owner \in OpenOrders(t) /\ t.balances[owner] # Nil /\ CanFill(t.pool, rex)
     THEN [Filled(t, owner, rex) EXCEPT
             !.orders[owner] = FilledOrder(@, Proceeds(t.pool, rex), StakeChange(t, owner, rex))]
     ELSE t

\* A turn for what there is: expired loans of a resource, or the orders of a queue.
Turn(t, what, queue, i) ==
  IF what = "orders" THEN IF i \in DOMAIN queue THEN FillQueued(t, queue[i]) ELSE t
  ELSE IF Expired(t, what) = {} THEN t
  ELSE process_expired_loan(t, what, EarliestLoan(Expired(t, what)))

InTurns(t, what, queue, max) ==
  FoldLeft(LAMBDA u, i : Turn(u, what, queue, i), t, Steps(max))

Channelled(t) ==
  IF t.pool.namebid_proceeds > 0
  THEN [channel_to_rex(t, NAMES_ACCOUNT, t.pool.namebid_proceeds)
          EXCEPT !.pool.namebid_proceeds = 0,
                 !.retained = IF rex_available(t.pool) THEN @ ELSE @ + t.pool.namebid_proceeds]
  ELSE t

runrex(t, max) ==
  LET lent == InTurns(InTurns(Channelled(t), "cpu", <<>>, max), "net", <<>>, max)
  IN IF t.pool = Nil THEN Require(t, FALSE)
     ELSE InTurns(lent, "orders", OrderQueue(lent), max)

-----------------------------------------------------------------------------
(* update_rex_account: what a filled order has left for its owner *)

IsFilled(t, owner) == IF t.orders[owner] = Nil THEN FALSE ELSE ~t.orders[owner].is_open

InSellOrder(t, owner) == IF IsOpen(t, owner) THEN t.orders[owner].rex_requested ELSE 0

Settled(t, owner, proceeds) ==
  LET to_fund == proceeds + (IF IsFilled(t, owner) THEN t.orders[owner].proceeds ELSE 0)
      cleared == [t EXCEPT !.orders[owner] = IF IsFilled(t, owner) THEN Nil ELSE @]
  IN IF to_fund > 0 THEN ToFund(cleared, owner, to_fund) ELSE cleared

\* Mutant: what a filled order did to the stake is forgotten.
ReweighOnlyThis(t, owner, delta_stake, force) ==
  \/ /\ force \/ delta_stake # 0
     /\ UpdateVotingPower(voters, owner, delta_stake)
  \/ /\ ~force /\ delta_stake = 0
     /\ UNCHANGED <<voters, producers, tallies>>

\* t as before the order is settled.
Reweigh(t, owner, delta_stake, force) ==
  LET to_stake == delta_stake + (IF IsFilled(t, owner) THEN t.orders[owner].stake_change ELSE 0)
  IN \/ /\ force \/ to_stake # 0
        /\ UpdateVotingPower(voters, owner, to_stake)
     \/ /\ ~force /\ to_stake = 0
        /\ UNCHANGED <<voters, producers, tallies>>

-----------------------------------------------------------------------------
(* Actions *)

\* Of an action that buys no loan, moves no delegation and no stake.
VotesKept == UNCHANGED <<voters, producers, tallies>>
LoansCounted == UNCHANGED <<loan_num, unweighed, taken, del_bandwidth>>

Deposit(owner, amount) ==
  /\ Commit(ToFund(Sent(Tables, owner, REX_ACCOUNT, amount), owner, amount))
  /\ VotesKept /\ LoansCounted

Withdraw(owner, amount) ==
  /\ Commit(Sent(FromFund(Settled(Tables, owner, 0), owner, amount), REX_ACCOUNT, owner, amount))
  /\ Reweigh(Tables, owner, 0, FALSE)
  /\ LoansCounted

BuyRex(from, amount) ==
  LET bought == Bought(FromFund(Tables, from, amount), from, amount)
      run == runrex(bought, 2)
  IN /\ HasFund(Tables, from, amount)
     /\ Commit(Settled(run, from, 0))
     /\ Reweigh(run, from, VoteStake(bought, from) - VoteStake(Tables, from), FALSE)
     /\ LoansCounted

\* The stake becomes REX without weighing less; what the REX held before has
\* gained is not added to what it weighs.
UnstakeToRex(owner, receiver, from_net, from_cpu) ==
  LET payment == from_net + from_cpu
      sent == Sent(Lent(Tables, receiver, -from_net, -from_cpu),
                   STAKE_ACCOUNT, REX_ACCOUNT, payment)
      bought == Bought(sent, owner, payment)
      run == runrex(bought, 2)
  IN /\ payment > 0
     /\ del_bandwidth[owner][receiver] # Zero
     /\ from_net <= del_bandwidth[owner][receiver].net
     /\ from_cpu <= del_bandwidth[owner][receiver].cpu
     /\ del_bandwidth' = [del_bandwidth EXCEPT ![owner][receiver] = Plus(@, -from_net, -from_cpu)]
     /\ Commit(Settled(run, owner, 0))
     /\ Reweigh(run, owner, 0, TRUE)
     /\ unweighed' = [unweighed EXCEPT ![owner] =
                        @ + VoteStake(bought, owner) - VoteStake(Tables, owner) - payment]
     /\ UNCHANGED <<loan_num, taken>>

\* With the REX of owner that has matured.
Matured(t, owner) == [t EXCEPT !.balances[owner] = process_rex_maturities(@)]

Sell(t, from, rex) ==
  LET sold == Settled(Filled(t, from, rex), from, Proceeds(t.pool, rex))
  IN /\ CanFill(t.pool, rex)
     /\ Proceeds(t.pool, rex) # 0
     /\ InSellOrder(sold, from) <= sold.balances[from].matured_rex
     /\ Commit(sold)
     /\ Reweigh(t, from, StakeChange(t, from, rex), FALSE)

OrderFor(order, rex) ==
  IF order = Nil THEN [rex_requested |-> rex, proceeds |-> 0, stake_change |-> 0,
                       order_time |-> now, is_open |-> TRUE]
  ELSE [order EXCEPT !.rex_requested = @ + rex]

Ordered(t, from, rex) == [t EXCEPT !.orders[from] = OrderFor(@, rex)]

\* Mutant: each order is compared with what has matured, not their sum.
CoversOne(t, from, rex) == rex <= t.balances[from].matured_rex

Covers(t, from, rex) == InSellOrder(t, from) <= t.balances[from].matured_rex

Queue(t, from, rex) ==
  LET queued == Ordered(Settled(t, from, 0), from, rex)
  IN /\ ~CanFill(t.pool, rex)
     /\ Covers(queued, from, rex)
     /\ Commit(queued)
     /\ Reweigh(t, from, 0, FALSE)

SellRex(from, rex) ==
  LET run == runrex(Tables, 2)
  IN /\ run.ok
     /\ run.balances[from] # Nil
     /\ rex > 0
     /\ rex <= Matured(run, from).balances[from].matured_rex
     /\ Sell(Matured(run, from), from, rex) \/ Queue(Matured(run, from), from, rex)
     /\ LoansCounted

CnclRexOrder(owner) ==
  /\ IsOpen(Tables, owner)
  /\ Commit([Tables EXCEPT !.orders[owner] = Nil])
  /\ VotesKept /\ LoansCounted

RentRex(resource, from, receiver, payment, fund) ==
  LET run == FromFund(runrex(Tables, 2), from, payment + fund)
      rented == get_bancor_output(run.pool.total_rent, run.pool.total_unlent, payment)
      loan == [from |-> from, receiver |-> receiver, payment |-> payment, balance |-> fund,
               total_staked |-> rented, expiration |-> now + LOAN_TIME, loan_num |-> loan_num + 1]
      lent == [run EXCEPT !.pool = AddLoanToPool(@, payment, rented),
                          !.loans[resource] = @ \cup {loan}]
  IN /\ loan_num < MaxLoans
     /\ 0 < payment
     /\ run.ok
     /\ loans_available(run)
     /\ payment < rented
     /\ Commit(LentOf(lent, resource, receiver, rented))
     /\ loan_num' = loan_num + 1
     /\ VotesKept
     /\ UNCHANGED <<unweighed, taken, del_bandwidth>>

OwnLoan(resource, from, loan) ==
  /\ loan \in loans[resource]
  /\ loan.from = from
  /\ loan.expiration > now

Funded(loan, delta) == [loan EXCEPT !.balance = @ + delta]

WithBalance(t, resource, loan, delta) ==
  [t EXCEPT !.loans[resource] = (@ \ {loan}) \cup {Funded(loan, delta)}]

FundLoan(resource, from, loan, payment) ==
  /\ OwnLoan(resource, from, loan)
  /\ Commit(WithBalance(FromFund(Tables, from, payment), resource, loan, payment))
  /\ VotesKept /\ LoansCounted

DefundLoan(resource, from, loan, amount) ==
  /\ OwnLoan(resource, from, loan)
  /\ amount > 0
  /\ amount <= loan.balance
  /\ Commit(WithBalance(ToFund(Tables, from, amount), resource, loan, -amount))
  /\ VotesKept /\ LoansCounted

Weighing(rb, stake) == [rb EXCEPT !.vote_stake = stake]

UpdateRex(owner) ==
  LET run == runrex(Tables, 2)
      current == IF rex_available(run.pool)
                 THEN Worth(run.pool, run.balances[owner].rex_balance) ELSE 0
      updated == [run EXCEPT !.balances[owner] = Weighing(@, current)]
  IN /\ run.ok
     /\ run.balances[owner] # Nil
     /\ Commit(Matured(Settled(updated, owner, 0), owner))
     /\ Reweigh(run, owner, current - VoteStake(run, owner), TRUE)
     /\ LoansCounted

SetRex(balance) ==
  /\ balance > 0
  /\ rexpool # Nil
  /\ Commit([Tables EXCEPT !.pool = [@ EXCEPT !.total_rent = balance]])
  /\ VotesKept /\ LoansCounted

RexExec(max) ==
  /\ Commit(runrex(Tables, max))
  /\ VotesKept /\ LoansCounted

\* Mutant: the REX of an open order goes into the bucket too.
ConsolidatedWithOrder(rb, in_sell_order) ==
  [rb EXCEPT !.matured_rex = 0,
             !.rex_maturities =
                WithSavings(Bucketed(NoBuckets, rb.matured_rex + SumRex(NoSavings(rb))), Savings(rb))]

Consolidated(rb, in_sell_order) ==
  LET total == rb.matured_rex - in_sell_order + SumRex(NoSavings(rb))
  IN [rb EXCEPT !.matured_rex = in_sell_order,
                !.rex_maturities =
                   WithSavings(Bucketed(NoBuckets, AtLeastZero(total)), Savings(rb))]

\* The actions on the maturities of one's own REX.
OnBalance(owner, Changed(_, _)) ==
  LET run == runrex(Tables, 2)
      settled == Settled(run, owner, 0)
  IN /\ run.ok
     /\ run.balances[owner] # Nil
     /\ Commit([settled EXCEPT !.balances[owner] = Changed(@, InSellOrder(run, owner))])
     /\ Reweigh(run, owner, 0, FALSE)
     /\ LoansCounted

Consolidate(owner) == OnBalance(owner, Consolidated)

IntoSavings(rb, rex) ==
  LET processed == process_rex_maturities([rb EXCEPT !.rex_maturities = NoSavings(rb)])
      maturing == SumRex(processed.rex_maturities)
      buckets == TakenFromLatest(processed.rex_maturities, rex)
  IN [processed EXCEPT !.matured_rex = @ - AtLeastZero(rex - maturing),
                       !.rex_maturities = WithSavings(buckets, Savings(rb) + rex)]

MvToSavings(owner, rex) ==
  LET run == runrex(Tables, 2)
      rb == run.balances[owner]
      moved == IntoSavings(rb, rex)
  IN /\ run.ok
     /\ rb # Nil
     /\ rex > 0
     /\ rex + InSellOrder(run, owner) + Savings(rb) <= rb.rex_balance
     /\ moved.matured_rex < rb.matured_rex => InSellOrder(run, owner) <= moved.matured_rex
     /\ OnBalance(owner, LAMBDA row, in_sell_order : IntoSavings(row, rex))

MvFrSavings(owner, rex) ==
  LET run == runrex(Tables, 2)
      rb == run.balances[owner]
  IN /\ run.ok
     /\ rb # Nil
     /\ 0 < rex /\ rex <= Savings(rb)
     /\ OnBalance(owner, LAMBDA row, in_sell_order : Maturing(row, rex, Savings(row) - rex))

LoansOf(t, owner) == {l \in UNION {t.loans[r] : r \in RESOURCES} : l.from = owner}

\* A payment may have bought no REX at all, yet count as stake: that stays.
CloseRex(owner) ==
  LET run == IF rexpool = Nil THEN Tables ELSE runrex(Tables, 2)
      settled == Settled(run, owner, 0)
  IN /\ settled.balances[owner] # Nil => settled.balances[owner].rex_balance = 0
     /\ Commit([settled EXCEPT
          !.balances[owner] = Nil,
          !.funds[owner] = IF LoansOf(settled, owner) = {} /\ @ = 0 THEN Nil ELSE @])
     /\ Reweigh(run, owner, 0, FALSE)
     /\ unweighed' = [unweighed EXCEPT ![owner] = @ - VoteStake(settled, owner)]
     /\ UNCHANGED <<loan_num, taken, del_bandwidth>>

\* Whose tokens anybody may give to the pool: eosio.rex cannot pay itself.
Payer == (Account \cup SystemAccounts) \ {REX_ACCOUNT}

Taken(from, amount) ==
  IF from \in SystemAccounts /\ rex_available(rexpool) THEN [taken EXCEPT ![from] = @ + amount]
  ELSE taken

\* Nobody's authority is asked: the contract sends the transfer in the name of
\* from, be it an account of its own.
DistViaRex(from, amount) ==
  /\ Commit(channel_to_rex(Tables, from, amount))
  /\ taken' = Taken(from, amount)
  /\ VotesKept
  /\ UNCHANGED <<loan_num, unweighed, del_bandwidth>>

-----------------------------------------------------------------------------

FundNext ==
  \E amount \in Amount :
    \/ \E owner \in Account : Deposit(owner, amount) \/ Withdraw(owner, amount)
    \/ \E from \in Payer : DistViaRex(from, amount)

BuyNext ==
  \E owner \in Account :
    \/ \E amount \in Amount : BuyRex(owner, amount)
    \/ \E receiver \in Account, net, cpu \in Delta : UnstakeToRex(owner, receiver, net, cpu)

SellNext ==
  \E owner \in Account : CnclRexOrder(owner) \/ \E rex \in Amount : SellRex(owner, rex)

LoanNext ==
  \E resource \in RESOURCES, from \in Account, amount \in Amount :
    \/ \E receiver \in Account, fund \in Amount : RentRex(resource, from, receiver, amount, fund)
    \/ \E loan \in loans[resource] :
         FundLoan(resource, from, loan, amount) \/ DefundLoan(resource, from, loan, amount)

OwnerNext ==
  \E owner \in Account :
    \/ UpdateRex(owner) \/ Consolidate(owner) \/ CloseRex(owner)
    \/ \E rex \in Amount : MvToSavings(owner, rex) \/ MvFrSavings(owner, rex)

PoolNext == \/ \E max \in Maxes : RexExec(max)
            \/ \E balance \in Amount : SetRex(balance)

RexNext == \/ FundNext \/ BuyNext \/ SellNext \/ LoanNext \/ OwnerNext \/ PoolNext
           \/ Next /\ UNCHANGED rexOnlyVars

RexSpec == RexInit /\ [][RexNext]_rexAllVars

-----------------------------------------------------------------------------
(* Properties *)

Lendable == IF rexpool = Nil THEN 0 ELSE rexpool.total_lendable

SumOver(F(_), Rows) == SumFunctionOnSet([row \in Rows |-> F(row)], Rows)

OfAllLoans(F(_)) == SumOver(F, loans["net"]) + SumOver(F, loans["cpu"])

Fund(owner) == IF rexfunds[owner] = Nil THEN 0 ELSE rexfunds[owner]

Earned(owner) == IF rexorders[owner] = Nil THEN 0 ELSE rexorders[owner].proceeds

RexHeld(owner) == IF rexbalance[owner] = Nil THEN 0 ELSE rexbalance[owner].rex_balance

\* eosio.rex holds the funds, the pool, what loans have left and what filled
\* orders have earned, whatever falls due inside whosever action; the pool
\* knows what is lent, and is empty when nobody holds REX.
RexBacked ==
  /\ TLOS!Balance(REX_ACCOUNT) = Lendable + SumOver(Fund, Account) + SumOver(Earned, Account)
                                 + OfAllLoans(LAMBDA l : l.balance)
  /\ rexpool # Nil =>
       /\ rexpool.total_lent = OfAllLoans(LAMBDA l : l.total_staked)
       /\ rexpool.total_lendable = rexpool.total_lent + rexpool.total_unlent
       /\ rexpool.total_unlent >= 0
       /\ rexpool.total_rex = 0 => rexpool.total_lendable = 0

\* The REX of the pool is that of the balances, each of them matured or in a
\* bucket, and what is ordered to be sold stays matured: no move to savings,
\* consolidation or second order takes it away.
RexOwned ==
  /\ (IF rexpool = Nil THEN 0 ELSE rexpool.total_rex) = SumOver(RexHeld, Account)
  /\ \A a \in Account : rexbalance[a] # Nil =>
       LET rb == rexbalance[a]
       IN /\ rb.rex_balance = rb.matured_rex + SumRex(rb.rex_maturities)
          /\ InSellOrder(Tables, a) <= rb.matured_rex

\* eosio.stake holds what is delegated and what is owed, however stake becomes
\* REX, but for what distviarex has taken to the pool.
StakeHeldOrTaken ==
  TLOS!Balance(STAKE_ACCOUNT) + taken[STAKE_ACCOUNT] =
    SumOver(Delegated, Account) + SumOver(LAMBDA a : ToRefund(refunds[a]), Account)

\* Stake is what is delegated and what REX is worth, as last valued, less what
\* orders filled since will change, but for what unstaketorex did not count and
\* what closerex left; and totals are what is delegated and what is lent.
StakeAndLoansCount ==
  /\ \A a \in Account :
       (IF voters[a] = Nil THEN 0 ELSE voters[a].staked) =
         Delegated(a) + VoteStake(Tables, a) - unweighed[a]
           - (IF IsFilled(Tables, a) THEN rexorders[a].stake_change ELSE 0)
  /\ \A a \in Account, r \in RESOURCES : Resources(a)[r] =
       SumOver(LAMBDA from : del_bandwidth[from][a][r], Account)
       + SumOver(LAMBDA l : IF l.receiver = a THEN l.total_staked ELSE 0, loans[r])
=============================================================================
