--------------------------- MODULE ContractProofs ---------------------------
(***************************************************************************)
(* Proofs about Rex, NameBids and RamMarket, over the whole contract and   *)
(* for every number of accounts, names and loans, every amount and every   *)
(* fee: what eosio.rex, eosio.names and eosio.ram hold is what the tables  *)
(* owe, REX and stake are counted once, RAM can be sold.  SystemProofs has *)
(* the invariant.  Then about Blocks, for every number of producers, slots *)
(* and blocks missed: pay is held, and onblock fails of two things only.   *)
(***************************************************************************)
EXTENDS SystemProofs, Blocks

-----------------------------------------------------------------------------
(* The pool *)

\* rexexec
LEMMA RexExecKeeps ==
  ASSUME ContractInv, NEW max \in Nat, RexExec(max), UNCHANGED <<bidVars, ram>>
  PROVE  ContractInv'
<1> DEFINE u == runrex(Tables, max)
<1>1. Shape(Tables) /\ Good(Tables) /\ Debt(Tables) = 0
  BY TablesAre
<1>2. Commit(u) /\ VotesKept /\ LoansCounted
  BY DEF RexExec
<1>3. Keeps(Tables, u) /\ (Alive(u) => Tables.pool # Nil)
  BY <1>1, RunKeeps
<1> HIDE DEF u
<1>4. Good(u) /\ Same(Tables, u)
  BY <1>1, <1>2, <1>3, CommitIs DEF Keeps
<1>5. Debt(u) = 0
  BY <1>1, <1>4 DEF Same
<1>6. QED
  BY <1>2, <1>4, <1>5, SameKeeps

\* setrex
LEMMA SetRexKeeps ==
  ASSUME ContractInv, NEW balance \in Nat, SetRex(balance), UNCHANGED <<bidVars, ram>>
  PROVE  ContractInv'
<1> DEFINE pool == [rexpool EXCEPT !.total_rent = balance]
           u == [Tables EXCEPT !.pool = pool]
<1>1. Shape(Tables) /\ Good(Tables) /\ Debt(Tables) = 0 /\ Tables.pool = rexpool
  BY TablesAre
<1>2. rexpool # Nil /\ Commit(u) /\ VotesKept /\ LoansCounted
  BY <1>1 DEF SetRex
<1>3. rexpool \in rex_pool /\ GoodPool(rexpool, Tables.balances, Tables.loans)
  BY <1>1, <1>2 DEF Good, GoodPool
<1>4. pool \in rex_pool /\ pool.total_rent = balance
      /\ pool.total_lent = rexpool.total_lent /\ pool.total_unlent = rexpool.total_unlent
      /\ pool.total_lendable = rexpool.total_lendable /\ pool.total_rex = rexpool.total_rex
      /\ pool.namebid_proceeds = rexpool.namebid_proceeds
  <2>1. balance \in Int
    OBVIOUS
  <2>2. QED
    BY <1>3, <2>1 DEF rex_pool
<1>5. /\ u.pool = pool /\ u.balances = Tables.balances /\ u.funds = Tables.funds
      /\ u.orders = Tables.orders /\ u.loans = Tables.loans /\ u.totals = Tables.totals
      /\ u.limits = Tables.limits /\ u.tlos = Tables.tlos /\ u.retained = Tables.retained
  <2> HIDE DEF pool
  <2>1. QED
    BY <1>1 DEF Shape
<1> HIDE DEF u, pool
<1>6. GoodPool(pool, Tables.balances, Tables.loans)
  BY <1>3, <1>4, GoodPoolIs
<1>7. Good(u)
  BY <1>1, <1>5, <1>6 DEF Good
<1>8. PoolOf(pool) = pool /\ PoolOf(rexpool) = rexpool
  BY <1>3, <1>4, NoRow DEF PoolOf
<1>9. Debt(u) = 0
  BY <1>1, <1>4, <1>5, <1>8 DEF Debt
<1>10. Same(Tables, u)
  BY <1>1, <1>4, <1>5, <1>8, <1>9, ElsewhereFrame, WeighsFrame, OwnsFrame DEF Same
<1>11. QED
  BY <1>2, <1>7, <1>9, <1>10, SameKeeps

-----------------------------------------------------------------------------
(* The REX of one owner *)

\* What is due is run, the owner's order settled, and the owner's row changed to
\* one of as much REX and stake, with what is ordered to be sold still matured.
LEMMA RowChangedKeeps ==
  ASSUME ContractInv, NEW owner \in Account, NEW run, run = runrex(Tables, 2), run.balances[owner] # Nil,
         NEW row \in rex_balance, GoodRow(row),
         row.vote_stake = run.balances[owner].vote_stake,
         row.rex_balance = run.balances[owner].rex_balance,
         InSellOrder(run, owner) <= row.matured_rex,
         NEW u, u = [Settled(run, owner, 0) EXCEPT !.balances[owner] = row],
         Commit(u), Reweigh(run, owner, 0, FALSE), LoansCounted, UNCHANGED <<bidVars, ram>>
  PROVE  ContractInv'
<1> DEFINE s == Settled(run, owner, 0)
           delta == 0
<1>1. /\ Shape(Tables) /\ Good(Tables) /\ Debt(Tables) = 0 /\ Tables.balances = rexbalance
      /\ now \in Time
  BY TablesAre
<1>2. Alive(runrex(Tables, 2))
  <2>1. Shape(run)
    <3>1. 2 \in Nat
      OBVIOUS
    <3>2. QED
      BY <1>1, <3>1, RunKeeps DEF Keeps
  <2>2. Shape(s) /\ (Alive(s) <=> Alive(run))
    BY <2>1, SettledFrame
  <2>3. u = [s EXCEPT !.balances[owner] = row]
    OBVIOUS
  <2> HIDE DEF s
  <2>4. Alive(u) <=> Alive(s)
    BY <2>2, <2>3 DEF Shape, Alive
  <2>5. QED
    BY <2>2, <2>4, CommitIs
<1>3. /\ Shape(run) /\ Good(run) /\ Same(Tables, run)
      /\ Shape(s) /\ Good(s) /\ Debt(s) = Debt(Tables) /\ Only(Tables, s, owner)
      /\ s.balances = run.balances
      /\ s.orders[owner] = IF IsFilled(run, owner) THEN Nil ELSE run.orders[owner]
      /\ ChangeOf(s.orders[owner]) = 0
      /\ s.balances[owner] = Nil <=> Tables.balances[owner] = Nil
      /\ RexStake(s.balances[owner])
           = RexStake(Tables.balances[owner]) - ChangeOf(Tables.orders[owner]) + ChangeOf(run.orders[owner])
  BY <1>1, <1>2, RunSettled
<1>4. u = [s EXCEPT !.balances[owner] = row]
  OBVIOUS
<1> HIDE DEF s
<1>5. row # Nil
  BY NoRow
<1>6. GoodOrder(s.orders[owner], row)
  <2>1. GoodOrder(s.orders[owner], s.balances[owner])
    BY <1>3 DEF Good, GoodOrders
  <2>2. ASSUME s.orders[owner] # Nil
        PROVE  s.orders[owner].rex_requested <= row.matured_rex
    <3>1. run.orders[owner] = s.orders[owner] /\ s.orders[owner].is_open
      BY <1>3, <2>2 DEF IsFilled
    <3>2. QED
      BY <2>2, <3>1 DEF InSellOrder, IsOpen
  <2>3. QED
    BY <1>5, <2>1, <2>2 DEF GoodOrder
<1>7. /\ Good(u) /\ Debt(u) = Debt(s) /\ Only(s, u, owner) /\ u.balances[owner] = row
      /\ u.orders = s.orders
  <2>1. /\ s.balances[owner] # Nil /\ row.rex_balance = s.balances[owner].rex_balance
        /\ Shape(s) /\ Good(s)
    BY <1>3
  <2>2. row \in rex_balance /\ GoodRow(row)
    OBVIOUS
  <2> DEFINE v == [s EXCEPT !.balances[owner] = row]
  <2>3. /\ Good(v) /\ Debt(v) = Debt(s) /\ Only(s, v, owner) /\ v.balances[owner] = row
        /\ v.orders = s.orders
    BY <1>6, <2>1, <2>2, RowPutKeeps
  <2>4. u = v
    BY <1>4
  <2> HIDE DEF v
  <2>5. QED
    BY <2>3, <2>4
<1>8. Only(Tables, u, owner) /\ Debt(u) = 0
  BY <1>1, <1>3, <1>7, OnlyTwice
<1>9. delta \in Int /\ delta + ChangeOf(run.orders[owner]) = Weight(u, owner) - Weight(Tables, owner)
  <2>1. /\ RexStake(Tables.balances[owner]) \in Int /\ ChangeOf(Tables.orders[owner]) \in Int
        /\ ChangeOf(run.orders[owner]) \in Int
    BY <1>1, <1>3, TableNumbers
  <2>2. RexStake(row) = RexStake(s.balances[owner])
    BY <1>3, <1>5 DEF RexStake
  <2>3. QED
    BY <1>3, <1>7, <2>1, <2>2 DEF Weight
<1>10. voters[owner] # Nil
  <2>1. rexbalance[owner] # Nil
    BY <1>1, <1>3
  <2>2. QED
    BY <2>1 DEF ContractInv, BooksInv, WeightInv
<1>11. Reweigh(run, owner, delta, FALSE)
  OBVIOUS
<1> HIDE DEF delta
<1>12. QED
  BY <1>3, <1>7, <1>8, <1>9, <1>10, <1>11, PlainlyReweighed

\* What is due is run: the row and the order of the owner are good then.
LEMMA RunRow ==
  ASSUME ContractInv, NEW owner \in Account, NEW run, run = runrex(Tables, 2), run.balances[owner] # Nil,
         NEW row, NEW u, u = [Settled(run, owner, 0) EXCEPT !.balances[owner] = row], Commit(u)
  PROVE  /\ run.balances[owner] \in rex_balance /\ GoodRow(run.balances[owner]) /\ now \in Time
         /\ InSellOrder(run, owner) \in Nat /\ InSellOrder(run, owner) <= run.balances[owner].matured_rex
<1>1. /\ Shape(Tables) /\ Good(Tables) /\ now \in Time
  BY TablesAre
<1>2. Alive(runrex(Tables, 2))
  <2> DEFINE s == Settled(run, owner, 0)
  <2>1. Shape(run)
    <3>1. 2 \in Nat
      OBVIOUS
    <3>2. QED
      BY <1>1, <3>1, RunKeeps DEF Keeps
  <2>2. Shape(s) /\ (Alive(s) <=> Alive(run))
    BY <2>1, SettledFrame
  <2>3. u = [s EXCEPT !.balances[owner] = row]
    OBVIOUS
  <2> HIDE DEF s
  <2>4. Alive(u) <=> Alive(s)
    BY <2>2, <2>3 DEF Shape, Alive
  <2>5. QED
    BY <2>2, <2>4, CommitIs
<1>3. Good(run)
  BY <1>1, <1>2, RunSettled
<1>4. /\ run.balances[owner] \in rex_balance /\ GoodRow(run.balances[owner])
      /\ run.orders[owner] \in rex_order \cup {Nil}
      /\ GoodOrder(run.orders[owner], run.balances[owner])
  BY <1>3 DEF Good, GoodRows, GoodOrders, RexTable, OrderTable
<1>5. run.balances[owner].matured_rex \in Nat
  BY <1>4, RowNumbers
<1>6. QED
  BY <1>1, <1>4, <1>5 DEF InSellOrder, IsOpen, GoodOrder, rex_order

\* consolidate
LEMMA ConsolidateKeeps ==
  ASSUME ContractInv, NEW owner \in Account, Consolidate(owner), UNCHANGED <<bidVars, ram>>
  PROVE  ContractInv'
<1> DEFINE run == runrex(Tables, 2)
           ordered == InSellOrder(run, owner)
           rb == run.balances[owner]
           row == Consolidated(rb, ordered)
           s == Settled(run, owner, 0)
           u == [s EXCEPT !.balances[owner] = row]
<1>1. Shape(Tables) /\ 2 \in Nat
  BY TablesAre
<1>2. Shape(run) /\ s.balances = run.balances
  <2>1. Shape(run)
    BY <1>1, RunKeeps DEF Keeps
  <2> HIDE DEF run
  <2>2. QED
    BY <2>1, SettledFrame
<1>3. /\ rb # Nil /\ Commit([s EXCEPT !.balances[owner] = Consolidated(@, ordered)])
      /\ Reweigh(run, owner, 0, FALSE) /\ LoansCounted
  BY DEF Consolidate, OnBalance
<1>4. Commit(u)
  <2> HIDE DEF s, run, ordered
  <2>1. [s EXCEPT !.balances[owner] = Consolidated(@, ordered)] = u
    BY <1>2
  <2> HIDE DEF u
  <2>2. QED
    BY <1>3, <2>1
<1>5. run = runrex(Tables, 2) /\ u = [Settled(run, owner, 0) EXCEPT !.balances[owner] = row]
  OBVIOUS
<1> HIDE DEF run, u, s, row
<1>6. /\ rb \in rex_balance /\ GoodRow(rb) /\ now \in Time
      /\ ordered \in Nat /\ ordered <= rb.matured_rex
  BY <1>3, <1>4, <1>5, RunRow
<1> HIDE DEF rb, ordered
<1>7. /\ row \in rex_balance /\ GoodRow(row) /\ row.vote_stake = rb.vote_stake
      /\ row.rex_balance = rb.rex_balance /\ row.matured_rex = ordered
  BY <1>6, ConsolidatedIs DEF row
<1>8. InSellOrder(run, owner) <= row.matured_rex
  BY <1>6, <1>7 DEF ordered
<1>9. QED
  BY <1>3, <1>4, <1>5, <1>7, <1>8, RowChangedKeeps DEF rb

\* mvtosavings
LEMMA MvToSavingsKeeps ==
  ASSUME ContractInv, NEW owner \in Account, NEW rex \in Nat, MvToSavings(owner, rex),
         UNCHANGED <<bidVars, ram>>
  PROVE  ContractInv'
<1> DEFINE run == runrex(Tables, 2)
           ordered == InSellOrder(run, owner)
           rb == run.balances[owner]
           row == IntoSavings(rb, rex)
           s == Settled(run, owner, 0)
           u == [s EXCEPT !.balances[owner] = row]
<1>1. Shape(Tables) /\ 2 \in Nat
  BY TablesAre
<1>2. Shape(run) /\ s.balances = run.balances
  <2>1. Shape(run)
    BY <1>1, RunKeeps DEF Keeps
  <2> HIDE DEF run
  <2>2. QED
    BY <2>1, SettledFrame
<1>3. /\ rb # Nil /\ Commit([s EXCEPT !.balances[owner] = IntoSavings(@, rex)])
      /\ Reweigh(run, owner, 0, FALSE) /\ LoansCounted
  BY DEF MvToSavings, OnBalance
<1>4. rex + ordered + Savings(rb) <= rb.rex_balance
  BY DEF MvToSavings
<1>5. Commit(u)
  <2> HIDE DEF s, run
  <2>1. [s EXCEPT !.balances[owner] = IntoSavings(@, rex)] = u
    BY <1>2
  <2> HIDE DEF u
  <2>2. QED
    BY <1>3, <2>1
<1>6. run = runrex(Tables, 2) /\ u = [Settled(run, owner, 0) EXCEPT !.balances[owner] = row]
  OBVIOUS
<1> HIDE DEF run, u, s, row
<1>7. /\ rb \in rex_balance /\ GoodRow(rb) /\ now \in Time
      /\ ordered \in Nat /\ ordered <= rb.matured_rex
  BY <1>3, <1>5, <1>6, RunRow
<1> HIDE DEF rb, ordered
<1>8. /\ row \in rex_balance /\ GoodRow(row) /\ row.vote_stake = rb.vote_stake
      /\ row.rex_balance = rb.rex_balance /\ ordered <= row.matured_rex
  BY <1>4, <1>7, IntoSavingsIs DEF row
<1>9. InSellOrder(run, owner) <= row.matured_rex
  BY <1>8 DEF ordered
<1>10. QED
  BY <1>3, <1>5, <1>6, <1>8, <1>9, RowChangedKeeps DEF rb

\* mvfrsavings
LEMMA MvFrSavingsKeeps ==
  ASSUME ContractInv, NEW owner \in Account, NEW rex \in Nat, MvFrSavings(owner, rex),
         UNCHANGED <<bidVars, ram>>
  PROVE  ContractInv'
<1> DEFINE run == runrex(Tables, 2)
           ordered == InSellOrder(run, owner)
           rb == run.balances[owner]
           rest == Savings(rb) - rex
           row == Maturing(rb, rex, rest)
           s == Settled(run, owner, 0)
           u == [s EXCEPT !.balances[owner] = row]
<1>1. Shape(Tables) /\ 2 \in Nat
  BY TablesAre
<1>2. Shape(run) /\ s.balances = run.balances
  <2>1. Shape(run)
    BY <1>1, RunKeeps DEF Keeps
  <2> HIDE DEF run
  <2>2. QED
    BY <2>1, SettledFrame
<1>3. /\ rb # Nil /\ rex <= Savings(rb)
      /\ Commit([s EXCEPT !.balances[owner] = Maturing(@, rex, Savings(@) - rex)])
      /\ Reweigh(run, owner, 0, FALSE) /\ LoansCounted
  BY DEF MvFrSavings, OnBalance
<1>4. Commit(u)
  <2> HIDE DEF s, run
  <2>1. [s EXCEPT !.balances[owner] = Maturing(@, rex, Savings(@) - rex)] = u
    BY <1>2
  <2> HIDE DEF u
  <2>2. QED
    BY <1>3, <2>1
<1>5. run = runrex(Tables, 2) /\ u = [Settled(run, owner, 0) EXCEPT !.balances[owner] = row]
  OBVIOUS
<1> HIDE DEF run, u, s, row
<1>6. /\ rb \in rex_balance /\ GoodRow(rb) /\ now \in Time
      /\ ordered \in Nat /\ ordered <= rb.matured_rex
  BY <1>3, <1>4, <1>5, RunRow
<1> HIDE DEF rb, ordered
<1>7. /\ 0 <= rb.matured_rex /\ (\A m \in Maturity : 0 <= rb.rex_maturities[m])
      /\ rb.rex_balance = rb.matured_rex + SumRex(rb.rex_maturities) /\ 0 <= rb.vote_stake
      /\ 0 <= rb.rex_balance /\ rb.matured_rex \in Nat
  BY <1>6, RowNumbers DEF GoodRow
<1>8. rest \in Nat /\ Savings(rb) \in Nat
  <2>1. Savings(rb) \in Nat
    BY <1>6, <1>7, NoSavingsIs
  <2>2. QED
    BY <1>3, <2>1
<1>9. rest = rb.rex_maturities[end_of_days] - rex /\ rb.rex_maturities[end_of_days] \in Nat
  BY <1>8 DEF Savings
<1> HIDE DEF rest
<1>10. /\ row \in rex_balance /\ row.vote_stake = rb.vote_stake
       /\ row.rex_balance = rb.rex_balance
       /\ row.matured_rex \in Nat /\ rb.matured_rex <= row.matured_rex
       /\ \A m \in Maturity : 0 <= row.rex_maturities[m]
       /\ SumRex(row.rex_maturities) \in Int /\ SumRex(rb.rex_maturities) \in Int
       /\ row.matured_rex + SumRex(row.rex_maturities)
            = rb.matured_rex + SumRex(rb.rex_maturities) + rex + rest
              - rb.rex_maturities[end_of_days]
  BY <1>6, <1>7, <1>8, MaturingIs DEF row
<1>11. GoodRow(row)
  BY <1>7, <1>9, <1>10 DEF GoodRow
<1>12. InSellOrder(run, owner) <= row.matured_rex
  BY <1>6, <1>7, <1>10 DEF ordered
<1>13. QED
  BY <1>3, <1>4, <1>5, <1>10, <1>11, <1>12, RowChangedKeeps DEF rb

\* What the REX of a row is worth, if the pool has a price.
Current(pool, rb) == IF rex_available(pool) THEN Worth(pool, rb.rex_balance) ELSE 0

\* A row that weighs what it is worth.
LEMMA WeighingIs ==
  ASSUME NEW rb \in rex_balance, GoodRow(rb), NEW stake \in Nat
  PROVE  LET row == Weighing(rb, stake)
         IN /\ row \in rex_balance /\ GoodRow(row) /\ row.vote_stake = stake
            /\ row.rex_balance = rb.rex_balance /\ row.matured_rex = rb.matured_rex
<1> DEFINE row == Weighing(rb, stake)
<1>1. /\ row \in rex_balance /\ row.vote_stake = stake /\ row.rex_balance = rb.rex_balance
      /\ row.matured_rex = rb.matured_rex /\ row.rex_maturities = rb.rex_maturities
  BY DEF Weighing, rex_balance
<1> HIDE DEF row
<1>2. GoodRow(row)
  BY <1>1 DEF GoodRow
<1>3. QED
  BY <1>1, <1>2 DEF row

\* updaterex
LEMMA UpdateRexKeeps ==
  ASSUME ContractInv, NEW owner \in Account, UpdateRex(owner), UNCHANGED <<bidVars, ram>>
  PROVE  ContractInv'
<1> DEFINE run == runrex(Tables, 2)
           rb == run.balances[owner]
           current == Current(run.pool, rb)
           row == Weighing(rb, current)
           updated == [run EXCEPT !.balances[owner] = row]
           s == Settled(updated, owner, 0)
           u == Matured(s, owner)
           delta == current - VoteStake(run, owner)
<1>1. /\ Shape(Tables) /\ Good(Tables) /\ Debt(Tables) = 0 /\ Tables.balances = rexbalance
      /\ now \in Time /\ 2 \in Nat /\ 0 \in Nat
  BY TablesAre
<1>2. Shape(run)
  BY <1>1, RunKeeps DEF Keeps
<1>3. rb # Nil /\ Commit(u) /\ Reweigh(run, owner, delta, TRUE) /\ LoansCounted
  <2>1. rb # Nil
    BY DEF UpdateRex
  <2>2. Commit(Matured(Settled([run EXCEPT !.balances[owner] = Weighing(@, current)], owner, 0), owner))
    BY Zenon DEF UpdateRex, Current
  <2>3. Reweigh(run, owner, delta, TRUE) /\ LoansCounted
    BY Zenon DEF UpdateRex, Current
  <2>4. [run EXCEPT !.balances[owner] = Weighing(@, current)] = updated
    <3> HIDE DEF run, current
    <3>1. QED
      OBVIOUS
  <2>5. Commit(u)
    <3> HIDE DEF updated, current, run
    <3>1. QED
      BY <2>2, <2>4
  <2>6. QED
    BY <2>1, <2>3, <2>5
<1>4. Alive(runrex(Tables, 2))
  <2>1. Shape(updated) /\ (Alive(updated) <=> Alive(run))
    <3> HIDE DEF run, row
    <3>1. QED
      BY <1>2 DEF Shape, Alive
  <2> HIDE DEF updated
  <2>2. Shape(s) /\ (Alive(s) <=> Alive(updated))
    BY <2>1, SettledFrame
  <2> HIDE DEF s
  <2>3. Alive(u) <=> Alive(s)
    BY <2>2, MaturedFrame
  <2> HIDE DEF u
  <2>4. QED
    BY <1>3, <2>1, <2>2, <2>3, CommitIs
<1>5. /\ Good(run) /\ Same(Tables, run)
  BY <1>1, <1>4, RunSettled
<1> HIDE DEF run
<1>6. /\ rb \in rex_balance /\ GoodRow(rb) /\ GoodOrder(run.orders[owner], rb)
      /\ GoodPool(run.pool, run.balances, run.loans) /\ GoodLoans(run.loans, loan_num)
      /\ run.orders \in OrderTable
  BY <1>3, <1>5 DEF Good, GoodRows, GoodOrders, RexTable
<1>7. current \in Nat
  <2>1. CASE rex_available(run.pool)
    <3>1. run.pool # Nil /\ run.pool.total_rex > 0
      BY <2>1 DEF rex_available
    <3>2. run.pool \in rex_pool
      BY <1>6, <3>1 DEF GoodPool
    <3>3. OnLoans(StakedBy, run.loans) \in Nat
      BY <1>6, LentNat
    <3>4. run.pool.total_lendable \in Nat /\ run.pool.total_rex \in Nat
      BY <1>6, <3>1, <3>2, <3>3, GoodPoolIs DEF rex_pool
    <3>5. rb.rex_balance \in Nat
      BY <1>6, RowNumbers
    <3> HIDE DEF rb
    <3>6. Worth(run.pool, rb.rex_balance) \in Nat
      BY <3>1, <3>4, <3>5, WorthIs
    <3>7. QED
      BY <2>1, <3>6 DEF Current
  <2>2. CASE ~ rex_available(run.pool)
    BY <2>2 DEF Current
  <2>3. QED
    BY <2>1, <2>2
<1> HIDE DEF current
<1>8. /\ row \in rex_balance /\ GoodRow(row) /\ row.vote_stake = current
      /\ row.rex_balance = rb.rex_balance /\ row.matured_rex = rb.matured_rex
  <2> HIDE DEF rb
  <2>1. QED
    BY <1>6, <1>7, WeighingIs
<1> HIDE DEF row
<1>9. row # Nil
  BY <1>8, NoRow
<1>10. GoodOrder(run.orders[owner], row)
  BY <1>6, <1>8, <1>9 DEF GoodOrder
<1>11. /\ Shape(updated) /\ Good(updated) /\ Debt(updated) = Debt(run) /\ Only(run, updated, owner)
       /\ updated.balances[owner] = row /\ updated.orders = run.orders
  BY <1>2, <1>3, <1>5, <1>8, <1>10, RowPutKeeps
<1> HIDE DEF updated
<1>12. /\ Shape(s) /\ s.balances = updated.balances
       /\ Good(s) /\ Debt(s) = Debt(updated) - 0 /\ Only(updated, s, owner)
       /\ ChangeOf(s.orders[owner]) = 0
  BY <1>1, <1>6, <1>11, SettledKeeps
<1> HIDE DEF s
<1>13. s.balances[owner] = row /\ s.balances[owner] # Nil
  BY <1>9, <1>11, <1>12
<1>14. /\ Good(u) /\ Same(s, u) /\ Only(s, u, owner)
  BY <1>1, <1>12, <1>13, MaturedKeeps
<1> HIDE DEF u
<1>15. Debt(u) = 0
  BY <1>1, <1>5, <1>11, <1>12, <1>14 DEF Same
<1>16. Only(Tables, u, owner)
  <2>1. Only(Tables, run, owner)
    BY <1>5, SameOnly
  <2>2. Only(Tables, updated, owner)
    BY <1>11, <2>1, OnlyTwice
  <2>3. Only(Tables, s, owner)
    BY <1>12, <2>2, OnlyTwice
  <2>4. QED
    BY <1>14, <2>3, OnlyTwice
<1>17. delta \in Int /\ delta + ChangeOf(run.orders[owner]) = Weight(u, owner) - Weight(Tables, owner)
  <2>1. Weight(u, owner) = Weight(s, owner) /\ Weight(Tables, owner) = Weight(run, owner)
    BY <1>5, <1>14 DEF Same, WeighsAs
  <2>2. Weight(s, owner) = current
    BY <1>7, <1>8, <1>12, <1>13 DEF Weight, RexStake
  <2>3. RexStake(rb) \in Int /\ ChangeOf(run.orders[owner]) \in Int
    BY <1>5, TableNumbers
  <2>4. VoteStake(run, owner) = RexStake(rb)
    BY DEF VoteStake, RexStake
  <2>5. Weight(run, owner) = RexStake(rb) - ChangeOf(run.orders[owner])
    BY DEF Weight
  <2> HIDE DEF rb
  <2>6. QED
    BY <1>7, <2>1, <2>2, <2>3, <2>4, <2>5
<1> HIDE DEF delta
<1>18. QED
  BY <1>3, <1>5, <1>14, <1>15, <1>16, <1>17, PlainlyReweighed

\* The tables without the row of an owner.
ClosedFor(t, owner, fund) == [t EXCEPT !.balances[owner] = Nil, !.funds[owner] = fund]

\* A row without REX is closed, and a fund without tokens.
LEMMA ClosedKeeps ==
  ASSUME NEW t, Shape(t), Good(t), NEW owner \in Account,
         t.balances[owner] # Nil => t.balances[owner].rex_balance = 0,
         t.orders[owner] # Nil => t.orders[owner].is_open,
         NEW fund, fund = t.funds[owner] \/ (t.funds[owner] = 0 /\ fund = Nil),
         NEW u, u = ClosedFor(t, owner, fund)
  PROVE  /\ Good(u) /\ Debt(u) = Debt(t) /\ Only(t, u, owner)
         /\ u.balances[owner] = Nil /\ u.orders = t.orders /\ t.orders[owner] = Nil
<1> DEFINE emptied == [t.balances EXCEPT ![owner] = Nil]
           funds == [t.funds EXCEPT ![owner] = fund]
<1>1. /\ GoodPool(t.pool, t.balances, t.loans) /\ GoodLoans(t.loans, loan_num)
      /\ GoodRows(t.balances, t.orders) /\ GoodOrders(t.balances, t.orders)
      /\ t.funds \in FundTable /\ GoodTotals(t.totals, t.limits) /\ GoodTokens(t.tlos)
      /\ t.retained \in Nat /\ t.balances \in RexTable
  BY DEF Good, GoodRows
<1>2. /\ u.balances = emptied /\ u.funds = funds /\ u.pool = t.pool /\ u.orders = t.orders
      /\ u.loans = t.loans /\ u.totals = t.totals /\ u.limits = t.limits /\ u.tlos = t.tlos
      /\ u.retained = t.retained
  <2> HIDE DEF emptied, funds
  <2>1. u = [t EXCEPT !.balances = emptied, !.funds = funds]
    BY DEF Shape, emptied, funds, ClosedFor
  <2>2. QED
    BY <2>1 DEF Shape
<1>3. HeldIn(t.balances[owner]) = 0 /\ HeldIn(Nil) = 0
  BY DEF HeldIn
<1>4. /\ emptied \in RexTable /\ SumHeld(emptied) = SumHeld(t.balances)
  <2>1. /\ emptied \in RexTable
        /\ SumHeld(emptied) = SumHeld(t.balances) + HeldIn(Nil) - HeldIn(t.balances[owner])
        /\ SumHeld(t.balances) \in Int
    <3>1. Nil \in rex_balance \cup {Nil}
      OBVIOUS
    <3>2. QED
      BY <1>1, <3>1, HeldPut
  <2>2. QED
    BY <1>3, <2>1
<1>5. /\ emptied[owner] = Nil /\ \A a \in Account : a # owner => emptied[a] = t.balances[a]
  BY <1>1 DEF RexTable
<1>6. funds \in FundTable /\ SumFunds(funds) = SumFunds(t.funds)
  <2>1. t.funds[owner] \in Nat \cup {Nil}
    BY <1>1 DEF FundTable
  <2>2. fund \in Nat \cup {Nil} /\ FundIn(fund) = FundIn(t.funds[owner]) /\ FundIn(fund) \in Nat
    BY <2>1, NoRow DEF FundIn
  <2>3. /\ funds \in FundTable /\ SumFunds(t.funds) \in Int
        /\ SumFunds(funds) = SumFunds(t.funds) + FundIn(fund) - FundIn(t.funds[owner])
    BY <1>1, <2>2, FundPut
  <2>4. QED
    BY <2>2, <2>3
<1> HIDE DEF emptied, funds
<1>7. t.orders[owner] = Nil
  <2> SUFFICES ASSUME t.orders[owner] # Nil
               PROVE  FALSE
    OBVIOUS
  <2>1. /\ t.balances[owner] # Nil /\ 0 < t.orders[owner].rex_requested
        /\ t.orders[owner].rex_requested <= t.balances[owner].matured_rex
    BY <1>1 DEF GoodOrders, GoodOrder
  <2>2. t.balances[owner] \in rex_balance /\ GoodRow(t.balances[owner])
    BY <1>1, <2>1 DEF GoodRows, RexTable
  <2>3. t.balances[owner].matured_rex \in Nat /\ t.balances[owner].matured_rex <= 0
    BY <2>1, <2>2, RowNumbers
  <2>4. t.orders[owner].rex_requested \in Nat
    BY <1>1 DEF GoodRows, OrderTable, rex_order
  <2>5. QED
    BY <2>1, <2>3, <2>4
<1>8. GoodOrders(emptied, t.orders)
  BY <1>1, <1>5, <1>7 DEF GoodOrders, GoodOrder
<1>9. GoodRows(emptied, t.orders)
  BY <1>1, <1>4, <1>5 DEF GoodRows
<1>10. GoodPool(t.pool, emptied, t.loans)
  BY <1>1, <1>4 DEF GoodPool
<1>11. Good(u)
  BY <1>1, <1>2, <1>6, <1>8, <1>9, <1>10 DEF Good
<1>12. Debt(u) = Debt(t)
  BY <1>2, <1>6 DEF Debt
<1>13. Only(t, u, owner)
  BY <1>2, <1>5, OnlyFrame
<1>14. QED
  BY <1>2, <1>5, <1>7, <1>11, <1>12, <1>13

\* closerex
LEMMA CloseRexKeeps ==
  ASSUME ContractInv, NEW owner \in Account, CloseRex(owner), UNCHANGED <<bidVars, ram>>
  PROVE  ContractInv'
<1> DEFINE run == IF rexpool = Nil THEN Tables ELSE runrex(Tables, 2)
           s == Settled(run, owner, 0)
           fund == IF LoansOf(s, owner) = {} /\ s.funds[owner] = 0 THEN Nil ELSE s.funds[owner]
           u == [s EXCEPT !.balances[owner] = Nil, !.funds[owner] = fund]
           delta == 0
           more == -VoteStake(s, owner)
<1>1. /\ Shape(Tables) /\ Good(Tables) /\ Debt(Tables) = 0 /\ Tables.balances = rexbalance
      /\ now \in Time /\ 2 \in Nat /\ 0 \in Nat /\ unweighed \in [Account -> Int]
  BY TablesAre DEF ContractInv, BooksInv, WeightInv
<1>2. /\ s.balances[owner] # Nil => s.balances[owner].rex_balance = 0
      /\ Commit([s EXCEPT !.balances[owner] = Nil,
                          !.funds[owner] = IF LoansOf(s, owner) = {} /\ @ = 0 THEN Nil ELSE @])
      /\ Reweigh(run, owner, delta, FALSE)
      /\ unweighed' = [unweighed EXCEPT ![owner] = @ - VoteStake(s, owner)]
      /\ UNCHANGED <<loan_num, taken, del_bandwidth>>
  <2>1. s.balances[owner] # Nil => s.balances[owner].rex_balance = 0
    BY Zenon DEF CloseRex
  <2>2. Commit([s EXCEPT !.balances[owner] = Nil,
                         !.funds[owner] = IF LoansOf(s, owner) = {} /\ @ = 0 THEN Nil ELSE @])
    BY Zenon DEF CloseRex
  <2>3. Reweigh(run, owner, delta, FALSE)
    BY Zenon DEF CloseRex
  <2>4. unweighed' = [unweighed EXCEPT ![owner] = @ - VoteStake(s, owner)]
    BY Zenon DEF CloseRex
  <2>5. UNCHANGED <<loan_num, taken, del_bandwidth>>
    BY Zenon DEF CloseRex
  <2>6. QED
    BY <2>1, <2>2, <2>3, <2>4, <2>5
<1>3. Shape(run) /\ (rexpool # Nil => run = runrex(Tables, 2)) /\ (rexpool = Nil => run = Tables)
  BY <1>1, RunKeeps DEF Keeps
<1> HIDE DEF run
<1>4. Shape(s) /\ (Alive(s) <=> Alive(run)) /\ s.balances = run.balances
  BY <1>3, SettledFrame
<1> HIDE DEF s
<1>5. Commit(u)
  <2>1. [s EXCEPT !.balances[owner] = Nil,
                  !.funds[owner] = IF LoansOf(s, owner) = {} /\ @ = 0 THEN Nil ELSE @] = u
    BY <1>4 DEF Shape
  <2> HIDE DEF u
  <2>2. QED
    BY <1>2, <2>1
<1>6. Alive(run)
  <2>1. Alive(u) <=> Alive(s)
    BY <1>4 DEF Shape, Alive
  <2> HIDE DEF u
  <2>2. QED
    BY <1>4, <1>5, <2>1, CommitIs
<1>7. Good(run) /\ Same(Tables, run)
  <2>1. CASE rexpool = Nil
    BY <1>1, <1>3, <2>1, SameAtAll
  <2>2. CASE rexpool # Nil
    <3>1. Alive(runrex(Tables, 2))
      BY <1>3, <1>6, <2>2
    <3>2. QED
      BY <1>1, <1>3, <2>2, <3>1, RunSettled
  <2>3. QED
    BY <2>1, <2>2
<1>8. /\ Good(s) /\ Debt(s) = Debt(run) - 0 /\ Only(run, s, owner)
      /\ s.orders[owner] = IF IsFilled(run, owner) THEN Nil ELSE run.orders[owner]
  <2>1. run.orders \in OrderTable
    BY <1>7 DEF Good, GoodRows
  <2>2. QED
    BY <1>1, <1>3, <1>7, <2>1, SettledKeeps DEF s
<1>9. s.orders[owner] # Nil => s.orders[owner].is_open
  BY <1>8 DEF IsFilled
<1>10. fund = s.funds[owner] \/ (s.funds[owner] = 0 /\ fund = Nil)
  OBVIOUS
<1> HIDE DEF fund
<1>10a. u = ClosedFor(s, owner, fund)
  BY DEF ClosedFor
<1> HIDE DEF u
<1>11. /\ Good(u) /\ Debt(u) = Debt(s) /\ Only(s, u, owner)
       /\ u.balances[owner] = Nil /\ u.orders = s.orders /\ s.orders[owner] = Nil
  BY <1>2, <1>4, <1>8, <1>9, <1>10, <1>10a, ClosedKeeps
<1>12. Debt(u) = 0
  BY <1>1, <1>7, <1>8, <1>11 DEF Same
<1>13. Only(Tables, u, owner)
  <2>1. Only(Tables, run, owner)
    BY <1>7, SameOnly
  <2>2. Only(Tables, s, owner)
    BY <1>8, <2>1, OnlyTwice
  <2>3. QED
    BY <1>11, <2>2, OnlyTwice
<1>14. /\ RexStake(run.balances[owner]) \in Int /\ ChangeOf(run.orders[owner]) \in Int
       /\ VoteStake(s, owner) = RexStake(run.balances[owner])
  BY <1>4, <1>7, TableNumbers DEF VoteStake, RexStake
<1>15. /\ delta \in Int /\ more \in Int
       /\ delta + ChangeOf(run.orders[owner]) = Weight(u, owner) - Weight(Tables, owner) - more
  <2>1. Weight(Tables, owner) = RexStake(run.balances[owner]) - ChangeOf(run.orders[owner])
    BY <1>7 DEF Same, WeighsAs, Weight
  <2>2. Weight(u, owner) = 0
    BY <1>11 DEF Weight, RexStake, ChangeOf
  <2>3. QED
    BY <1>14, <2>1, <2>2
<1>16. /\ unweighed' \in [Account -> Int] /\ unweighed'[owner] = unweighed[owner] + more
       /\ \A a \in Account : a # owner => unweighed'[a] = unweighed[a]
  <2>1. unweighed[owner] - VoteStake(s, owner) \in Int
    BY <1>1, <1>14
  <2>2. unweighed[owner] + more = unweighed[owner] - VoteStake(s, owner)
    BY <1>1, <1>14
  <2>3. QED
    BY <1>1, <1>2, <2>1, <2>2
<1> HIDE DEF delta, more
<1>17. UNCHANGED <<loan_num, taken, del_bandwidth, bidVars, ram>> /\ Reweigh(run, owner, delta, FALSE)
  BY <1>2
<1>18. QED
  BY <1>5, <1>7, <1>11, <1>12, <1>13, <1>15, <1>16, <1>17, ReweighedKeeps

-----------------------------------------------------------------------------
(* All that is done with REX *)

\* Every action on REX keeps the invariant.
LEMMA RexActionsKeep ==
  ASSUME ContractInv, FundNext \/ BuyNext \/ SellNext \/ LoanNext \/ OwnerNext \/ PoolNext,
         UNCHANGED <<bidVars, ram>>
  PROVE  ContractInv'
<1>1. (\A n \in Amount : n \in Nat) /\ (\A n \in Maxes : n \in Nat) /\ \A n \in Delta : n \in Nat
  BY RexAssumption, BandwidthAssumption
<1>2. CASE FundNext
  <2>1. PICK amount \in Amount :
          \/ \E owner \in Account : Deposit(owner, amount) \/ Withdraw(owner, amount)
          \/ \E from \in Payer : DistViaRex(from, amount)
    BY <1>2, Zenon DEF FundNext
  <2>2. ASSUME NEW owner \in Account, Deposit(owner, amount)
        PROVE  ContractInv'
    BY <1>1, <2>2, DepositKeeps
  <2>3. ASSUME NEW owner \in Account, Withdraw(owner, amount)
        PROVE  ContractInv'
    BY <1>1, <2>3, WithdrawKeeps
  <2>4. ASSUME NEW from \in Payer, DistViaRex(from, amount)
        PROVE  ContractInv'
    BY <1>1, <2>4, DistViaRexKeeps
  <2>5. QED
    BY <2>1, <2>2, <2>3, <2>4
<1>3. CASE BuyNext
  <2>1. PICK owner \in Account :
          \/ \E amount \in Amount : BuyRex(owner, amount)
          \/ \E receiver \in Account, net, cpu \in Delta : UnstakeToRex(owner, receiver, net, cpu)
    BY <1>3, Zenon DEF BuyNext
  <2>2. ASSUME NEW amount \in Amount, BuyRex(owner, amount)
        PROVE  ContractInv'
    BY <1>1, <2>2, BuyRexKeeps
  <2>3. ASSUME NEW receiver \in Account, NEW net \in Delta, NEW cpu \in Delta,
               UnstakeToRex(owner, receiver, net, cpu)
        PROVE  ContractInv'
    BY <1>1, <2>3, UnstakeToRexKeeps
  <2>4. QED
    BY <2>1, <2>2, <2>3
<1>4. CASE SellNext
  <2>1. PICK owner \in Account : CnclRexOrder(owner) \/ \E rex \in Amount : SellRex(owner, rex)
    BY <1>4, Zenon DEF SellNext
  <2>2. CASE CnclRexOrder(owner)
    BY <2>2, CnclRexOrderKeeps
  <2>3. ASSUME NEW rex \in Amount, SellRex(owner, rex)
        PROVE  ContractInv'
    BY <1>1, <2>3, SellRexKeeps
  <2>4. QED
    BY <2>1, <2>2, <2>3
<1>5. CASE LoanNext
  <2>1. PICK resource \in RESOURCES, from \in Account, amount \in Amount :
          \/ \E receiver \in Account, fund \in Amount : RentRex(resource, from, receiver, amount, fund)
          \/ \E loan \in loans[resource] :
               FundLoan(resource, from, loan, amount) \/ DefundLoan(resource, from, loan, amount)
    BY <1>5, Zenon DEF LoanNext
  <2>2. ASSUME NEW receiver \in Account, NEW fund \in Amount,
               RentRex(resource, from, receiver, amount, fund)
        PROVE  ContractInv'
    BY <1>1, <2>2, RentRexKeeps
  <2>3. ASSUME NEW loan, FundLoan(resource, from, loan, amount)
        PROVE  ContractInv'
    BY <1>1, <2>3, FundLoanKeeps
  <2>4. ASSUME NEW loan, DefundLoan(resource, from, loan, amount)
        PROVE  ContractInv'
    BY <1>1, <2>4, DefundLoanKeeps
  <2>5. QED
    BY <2>1, <2>2, <2>3, <2>4
<1>6. CASE OwnerNext
  <2>1. PICK owner \in Account :
          \/ UpdateRex(owner) \/ Consolidate(owner) \/ CloseRex(owner)
          \/ \E rex \in Amount : MvToSavings(owner, rex) \/ MvFrSavings(owner, rex)
    BY <1>6, Zenon DEF OwnerNext
  <2>2. CASE UpdateRex(owner)
    BY <2>2, UpdateRexKeeps
  <2>3. CASE Consolidate(owner)
    BY <2>3, ConsolidateKeeps
  <2>4. CASE CloseRex(owner)
    BY <2>4, CloseRexKeeps
  <2>5. ASSUME NEW rex \in Amount, MvToSavings(owner, rex)
        PROVE  ContractInv'
    BY <1>1, <2>5, MvToSavingsKeeps
  <2>6. ASSUME NEW rex \in Amount, MvFrSavings(owner, rex)
        PROVE  ContractInv'
    BY <1>1, <2>6, MvFrSavingsKeeps
  <2>7. QED
    BY <2>1, <2>2, <2>3, <2>4, <2>5, <2>6
<1>7. CASE PoolNext
  <2>1. (\E max \in Maxes : RexExec(max)) \/ \E balance \in Amount : SetRex(balance)
    BY <1>7, Zenon DEF PoolNext
  <2>2. ASSUME NEW max \in Maxes, RexExec(max)
        PROVE  ContractInv'
    BY <1>1, <2>2, RexExecKeeps
  <2>3. ASSUME NEW balance \in Amount, SetRex(balance)
        PROVE  ContractInv'
    BY <1>1, <2>3, SetRexKeeps
  <2>4. QED
    BY <2>1, <2>2, <2>3
<1>8. QED
  BY <1>2, <1>3, <1>4, <1>5, <1>6, <1>7

-----------------------------------------------------------------------------
(* What staking, voting and limits have to do with REX *)

\* A transfer, in terms of what everybody has.
LEMMA TransferIs ==
  ASSUME GoodTokens(accounts), NEW from \in TokenHolder, NEW to \in TokenHolder, NEW q \in Int,
         TLOS!Transfer(from, to, q)
  PROVE  /\ accounts' \in TokenTable /\ GoodTokens(accounts)' /\ 0 < q
         /\ \A h \in TokenHolder : Bal(accounts', h) = Bal(accounts, h) - (IF h = from THEN q ELSE 0)
                                                       + (IF h = to THEN q ELSE 0)
<1>1. /\ stat # Nil /\ accounts \in TokenTable
      /\ from # to /\ q > 0 /\ accounts[from] # Nil /\ accounts[from] >= q
      /\ stat' = stat
      /\ accounts' = TLOS!add_balance(TLOS!sub_balance(accounts, from, q), to, q)
  BY DEF GoodTokens, TLOS!Transfer, TLOS!CanPay, TLOS!Moved
<1>2. Nil \notin Int
  BY BandwidthAssumption
<1> DEFINE lowered == [accounts EXCEPT ![from] = accounts[from] - q]
<1>3. /\ accounts' = [lowered EXCEPT ![to] = IF lowered[to] = Nil THEN q ELSE lowered[to] + q]
      /\ lowered[to] = accounts[to] /\ lowered[from] = accounts[from] - q
      /\ \A h \in TokenHolder : h # from => lowered[h] = accounts[h]
      /\ lowered \in TokenTable
  BY <1>1, <1>2 DEF TLOS!add_balance, TLOS!sub_balance, TokenTable
<1> HIDE DEF lowered
<1>4. /\ accounts' \in TokenTable
      /\ accounts'[from] = accounts[from] - q
      /\ accounts'[to] = IF accounts[to] = Nil THEN q ELSE accounts[to] + q
      /\ \A h \in TokenHolder : h # from /\ h # to => accounts'[h] = accounts[h]
  BY <1>1, <1>3 DEF TokenTable
<1>5. GoodTokens(accounts)'
  BY <1>1, <1>4 DEF GoodTokens, TokenTable
<1>6. ASSUME NEW h \in TokenHolder
      PROVE  Bal(accounts', h) = Bal(accounts, h) - (IF h = from THEN q ELSE 0)
                                   + (IF h = to THEN q ELSE 0)
  <2>1. accounts[h] \in Nat \cup {Nil} /\ accounts[from] \in Nat /\ accounts[to] \in Nat \cup {Nil}
    BY <1>1 DEF TokenTable
  <2>2. CASE h = from
    BY <1>1, <1>2, <1>4, <2>1, <2>2 DEF Bal
  <2>3. CASE h = to
    BY <1>1, <1>2, <1>4, <2>1, <2>3 DEF Bal
  <2>4. CASE h # from /\ h # to
    <3>1. Bal(accounts', h) = Bal(accounts, h) /\ Bal(accounts, h) \in Int
      BY <1>4, <2>1, <2>4 DEF Bal
    <3>2. QED
      BY <2>4, <3>1
  <2>5. QED
    BY <2>2, <2>3, <2>4
<1>7. QED
  BY <1>1, <1>4, <1>5, <1>6

\* Balances of REX that differ in what they weigh.
Alike(old, new) ==
  /\ new \in RexTable
  /\ \A a \in Account :
       /\ new[a] = Nil <=> old[a] = Nil
       /\ old[a] # Nil => /\ 0 <= new[a].vote_stake /\ new[a].rex_balance = old[a].rex_balance
                          /\ new[a].matured_rex = old[a].matured_rex
                          /\ new[a].rex_maturities = old[a].rex_maturities

\* They are so when none does.
LEMMA AlikeAtAll ==
  ASSUME ContractInv
  PROVE  Alike(rexbalance, rexbalance)
<1>1. Good(Tables) /\ Tables.balances = rexbalance
  BY TablesAre
<1>2. QED
  BY <1>1 DEF Alike, Good, GoodRows, GoodRow

\* The tables of REX are right as before then.
LEMMA TablesKept ==
  ASSUME Good(Tables), UNCHANGED <<rexpool, rexOnlyVars>>, Alike(rexbalance, rexbalance'),
         userres' \in TotalTable, limits' \in LimitTable, GoodTokens(accounts)',
         Bal(accounts', REX_ACCOUNT) = Bal(accounts, REX_ACCOUNT),
         Bal(accounts', NAMES_ACCOUNT) = Bal(accounts, NAMES_ACCOUNT)
  PROVE  /\ Good(Tables)' /\ Debt(Tables)' = Debt(Tables) /\ Spare(Tables)' = Spare(Tables)
         /\ \A a \in Account :
              /\ Weight(Tables, a)' = RexStake(rexbalance'[a]) - ChangeOf(rexorders[a])
              /\ \A r \in RESOURCES : Own(Tables, a, r)' =
                   Totals(userres'[a])[r] - SumFunctionOnSet(StakedFor(a), loans[r])
<1>1. /\ Tables.pool = rexpool /\ Tables.balances = rexbalance /\ Tables.funds = rexfunds
      /\ Tables.orders = rexorders /\ Tables.loans = loans /\ Tables.totals = userres
      /\ Tables.limits = limits /\ Tables.tlos = accounts /\ Tables.retained = retained
  BY DEF Tables
<1>2. /\ Tables'.pool = rexpool /\ Tables'.balances = rexbalance' /\ Tables'.funds = rexfunds
      /\ Tables'.orders = rexorders /\ Tables'.loans = loans /\ Tables'.totals = userres'
      /\ Tables'.limits = limits' /\ Tables'.tlos = accounts' /\ Tables'.retained = retained
      /\ loan_num' = loan_num
  BY DEF Tables, rexOnlyVars
<1>3. SumHeld(rexbalance') = SumHeld(rexbalance)
  <2> DEFINE f == [a \in Account |-> HeldIn(rexbalance[a])]
             g == [a \in Account |-> HeldIn(rexbalance'[a])]
  <2>1. \A a \in Account : f[a] = g[a]
    BY DEF Alike, HeldIn
  <2>2. SumFunctionOnSet(f, Account) = SumFunctionOnSet(g, Account)
    <3> HIDE DEF f, g
    <3>1. QED
      BY <2>1, VotingFinite, SumEqual
  <2>3. QED
    BY <2>2 DEF SumHeld
<1>4. GoodPool(rexpool, rexbalance', loans)
  BY <1>1, <1>3 DEF Good, GoodPool
<1>5. GoodRows(rexbalance', rexorders) /\ GoodOrders(rexbalance', rexorders)
  <2>1. GoodRows(rexbalance, rexorders) /\ GoodOrders(rexbalance, rexorders)
    BY <1>1 DEF Good
  <2>2. ASSUME NEW a \in Account, rexbalance'[a] # Nil
        PROVE  GoodRow(rexbalance'[a])
    <3>1. rexbalance[a] # Nil /\ GoodRow(rexbalance[a])
      BY <2>1, <2>2 DEF Alike, GoodRows
    <3>2. /\ 0 <= rexbalance'[a].vote_stake /\ rexbalance'[a].rex_balance = rexbalance[a].rex_balance
          /\ rexbalance'[a].matured_rex = rexbalance[a].matured_rex
          /\ rexbalance'[a].rex_maturities = rexbalance[a].rex_maturities
      BY <3>1 DEF Alike
    <3>3. QED
      BY <3>1, <3>2 DEF GoodRow
  <2>3. ASSUME NEW a \in Account
        PROVE  GoodOrder(rexorders[a], rexbalance'[a])
    <3>1. GoodOrder(rexorders[a], rexbalance[a])
      BY <2>1 DEF GoodOrders
    <3>2. QED
      BY <3>1 DEF GoodOrder, Alike
  <2>4. QED
    BY <2>1, <2>2, <2>3 DEF GoodRows, GoodOrders, Alike
<1>6. Good(Tables)'
  BY <1>1, <1>2, <1>4, <1>5 DEF Good, GoodTotals
<1>7. Debt(Tables)' = Debt(Tables) /\ Spare(Tables)' = Spare(Tables)
  BY <1>1, <1>2 DEF Debt, Spare
<1>8. QED
  BY <1>2, <1>6, <1>7 DEF Weight, Own

\* Nothing that is about stake in tokens changes.
LEMMA HoldsFrame ==
  ASSUME HoldsInv, UNCHANGED rexOnlyVars, UNCHANGED <<del_bandwidth, refunds, tlosVars>>
  PROVE  HoldsInv'
<1>1. PICK m \in Int : m = taken[STAKE_ACCOUNT]
  BY TakenNat DEF HoldsInv
<1>2. HeldBut(m)'
  BY <1>1, HeldFrame DEF HoldsInv
<1>3. taken' = taken
  BY DEF rexOnlyVars
<1>4. QED
  BY <1>1, <1>2, <1>3 DEF HoldsInv

\* What is shifted as another is differs from it as before.
LEMMA ShiftedAlike ==
  ASSUME NEW p \in Int, NEW q \in Int, NEW l \in Int, NEW m \in Int, NEW o \in Int,
         p - l = m, q - p = o - m
  PROVE  q - l = o
OBVIOUS

\* So are all the books when stake in votes and totals follow the delegations.
LEMMA StakeKeeps ==
  ASSUME ContractInv, UNCHANGED <<rexpool, rexOnlyVars, bidVars>>, Alike(rexbalance, rexbalance'),
         userres' \in TotalTable, limits' \in LimitTable, HoldsInv', ClockInv',
         Bal(accounts', REX_ACCOUNT) = Bal(accounts, REX_ACCOUNT),
         Bal(accounts', NAMES_ACCOUNT) = Bal(accounts, NAMES_ACCOUNT),
         voters' \in VoterTable, del_bandwidth' \in DelTable,
         \A a \in Account :
           /\ StakedIn(voters'[a]) - StakedIn(voters[a])
                = StakeOf(del_bandwidth', a) - StakeOf(del_bandwidth, a)
                    + RexStake(rexbalance'[a]) - RexStake(rexbalance[a])
           /\ voters'[a] = Nil => rexbalance'[a] = Nil
           /\ Totals(userres'[a]).net - Totals(userres[a]).net
                = NetTo(del_bandwidth', a) - NetTo(del_bandwidth, a)
           /\ Totals(userres'[a]).cpu - Totals(userres[a]).cpu
                = CpuTo(del_bandwidth', a) - CpuTo(del_bandwidth, a)
  PROVE  BooksInv'
<1>1. /\ Good(Tables) /\ Tables.balances = rexbalance /\ Tables.orders = rexorders
      /\ Tables.loans = loans /\ Tables.totals = userres /\ voters \in VoterTable
      /\ BooksInv /\ WeightInv
  BY TablesAre DEF ContractInv, BooksInv
<1>2. GoodTokens(accounts)'
  BY DEF HoldsInv, HeldBut, TLOS!TypeOK, TLOS!Owners, GoodTokens, TokenTable, TokenHolder
<1>3. /\ Good(Tables)' /\ Debt(Tables)' = Debt(Tables) /\ Spare(Tables)' = Spare(Tables)
      /\ \A a \in Account :
           /\ Weight(Tables, a)' = RexStake(rexbalance'[a]) - ChangeOf(rexorders[a])
           /\ \A r \in RESOURCES : Own(Tables, a, r)' =
                Totals(userres'[a])[r] - SumFunctionOnSet(StakedFor(a), loans[r])
  BY <1>1, <1>2, TablesKept
<1>4. BidsInv'
  BY <1>1, <1>3 DEF BooksInv, BidsInv, bidVars, rexOnlyVars
<1>5. ASSUME NEW a \in Account
      PROVE  /\ StakedIn(voters'[a]) = StakeOf(del_bandwidth', a) + Weight(Tables, a)' - unweighed[a]
             /\ Own(Tables, a, "net")' = NetTo(del_bandwidth', a)
             /\ Own(Tables, a, "cpu")' = CpuTo(del_bandwidth', a)
  <2> DEFINE s == StakedIn(voters[a])
             z == StakedIn(voters'[a])
             d == StakeOf(del_bandwidth, a)
             e == StakeOf(del_bandwidth', a)
             w == RexStake(rexbalance[a])
             x == RexStake(rexbalance'[a])
             c == ChangeOf(rexorders[a])
             n == unweighed[a]
  <2>1. s \in Int /\ z \in Int
    <3>1. voters[a] \in voter_info \cup {Nil} /\ voters'[a] \in voter_info \cup {Nil}
      BY <1>1 DEF VoterTable
    <3>2. QED
      BY <3>1, BaseIs
  <2>2. d \in Int /\ e \in Int /\ n \in Int
    BY <1>1, StakeNat DEF WeightInv
  <2>3. w \in Int /\ c \in Int
    BY <1>1, TableNumbers
  <2>4. x \in Int
    BY DEF Alike, RexTable, rex_balance, RexStake
  <2>5. s = d + (w - c) - n /\ z - s = e - d + x - w
    BY <1>1 DEF WeightInv, Weight
  <2>6. Weight(Tables, a)' = x - c
    BY <1>3
  <2>7. /\ NetTo(del_bandwidth, a) \in Int /\ NetTo(del_bandwidth', a) \in Int
        /\ CpuTo(del_bandwidth, a) \in Int /\ CpuTo(del_bandwidth', a) \in Int
    BY <1>1, StakeNat DEF WeightInv
  <2>8. \A r \in RESOURCES : SumFunctionOnSet(StakedFor(a), loans[r]) \in Int
    BY <1>1, TableNumbers, LoanNumbers
  <2>9. /\ Totals(userres'[a]).net \in Int /\ Totals(userres[a]).net \in Int
        /\ Totals(userres'[a]).cpu \in Int /\ Totals(userres[a]).cpu \in Int
    <3>1. userres[a] \in user_resources \cup {Nil} /\ userres'[a] \in user_resources \cup {Nil}
      BY <1>1 DEF Good, GoodTotals, TotalTable
    <3>2. QED
      BY <3>1 DEF Totals, user_resources, NoResources
  <2>10. z = e + Weight(Tables, a)' - n
    <3> HIDE DEF s, z, d, e, w, x, c, n
    <3>1. QED
      BY <2>1, <2>2, <2>3, <2>4, <2>5, <2>6
  <2>11. /\ Own(Tables, a, "net") = NetTo(del_bandwidth, a)
         /\ Own(Tables, a, "cpu") = CpuTo(del_bandwidth, a)
    BY <1>1 DEF WeightInv
  <2>12. /\ Totals(userres[a]).net - SumFunctionOnSet(StakedFor(a), loans["net"]) = NetTo(del_bandwidth, a)
         /\ Totals(userres[a]).cpu - SumFunctionOnSet(StakedFor(a), loans["cpu"]) = CpuTo(del_bandwidth, a)
    BY <1>1, <2>11 DEF Own
  <2>13. /\ Own(Tables, a, "net")' = Totals(userres'[a]).net - SumFunctionOnSet(StakedFor(a), loans["net"])
         /\ Own(Tables, a, "cpu")' = Totals(userres'[a]).cpu - SumFunctionOnSet(StakedFor(a), loans["cpu"])
    BY <1>3 DEF RESOURCES
  <2>14. Own(Tables, a, "net")' = NetTo(del_bandwidth', a)
    <3> DEFINE p == Totals(userres[a]).net
               q == Totals(userres'[a]).net
               lent == SumFunctionOnSet(StakedFor(a), loans["net"])
               m == NetTo(del_bandwidth, a)
               o == NetTo(del_bandwidth', a)
    <3>1. /\ p \in Int /\ q \in Int /\ lent \in Int /\ m \in Int /\ o \in Int
          /\ p - lent = m /\ q - p = o - m
      BY <2>7, <2>8, <2>9, <2>12 DEF RESOURCES
    <3>2. Own(Tables, a, "net")' = q - lent
      BY <2>13
    <3> HIDE DEF p, q, lent, m, o
    <3>3. q - lent = o
      BY <3>1, ShiftedAlike
    <3>4. QED
      BY <3>2, <3>3 DEF o
  <2>15. Own(Tables, a, "cpu")' = CpuTo(del_bandwidth', a)
    <3> DEFINE p == Totals(userres[a]).cpu
               q == Totals(userres'[a]).cpu
               lent == SumFunctionOnSet(StakedFor(a), loans["cpu"])
               m == CpuTo(del_bandwidth, a)
               o == CpuTo(del_bandwidth', a)
    <3>1. /\ p \in Int /\ q \in Int /\ lent \in Int /\ m \in Int /\ o \in Int
          /\ p - lent = m /\ q - p = o - m
      BY <2>7, <2>8, <2>9, <2>12 DEF RESOURCES
    <3>2. Own(Tables, a, "cpu")' = q - lent
      BY <2>13
    <3> HIDE DEF p, q, lent, m, o
    <3>3. q - lent = o
      BY <3>1, ShiftedAlike
    <3>4. QED
      BY <3>2, <3>3 DEF o
  <2>16. QED
    BY <2>10, <2>14, <2>15
<1>6. WeightInv'
  BY <1>1, <1>5 DEF WeightInv, rexOnlyVars
<1>7. loan_num' \in Nat /\ Debt(Tables)' = 0
  BY <1>1, <1>3 DEF BooksInv, rexOnlyVars
<1>8. QED
  BY <1>3, <1>4, <1>6, <1>7 DEF BooksInv

\* The books say of REX what the votes rely on.
LEMMA ContractRex ==
  ASSUME ContractInv
  PROVE  RexInv /\ HoldsInv /\ ClockInv /\ GoodTokens(accounts) /\ RamInv /\ voters \in VoterTable
         /\ del_bandwidth \in DelTable /\ userres \in TotalTable /\ limits \in LimitTable
         /\ \A a \in Account : voters[a] = Nil => rexbalance[a] = Nil
<1>1. /\ Good(Tables) /\ Tables.pool = rexpool /\ Tables.balances = rexbalance
      /\ Tables.orders = rexorders /\ Tables.loans = loans /\ Tables.totals = userres
      /\ Tables.limits = limits /\ Tables.tlos = accounts
      /\ voters \in VoterTable
  BY TablesAre
<1>2. /\ GoodPool(rexpool, rexbalance, loans) /\ GoodLoans(loans, loan_num)
      /\ GoodRows(rexbalance, rexorders) /\ GoodTotals(userres, limits) /\ GoodTokens(accounts)
  BY <1>1 DEF Good
<1>3. rexpool # Nil => 0 <= rexpool.total_lendable
  <2>1. OnLoans(StakedBy, loans) \in Nat
    BY <1>2, LentNat
  <2>2. ASSUME rexpool # Nil
        PROVE  0 <= rexpool.total_lendable
    <3>1. PoolOf(rexpool) = rexpool /\ rexpool \in rex_pool
      BY <1>2, <2>2 DEF PoolOf, GoodPool
    <3>2. /\ 0 <= rexpool.total_unlent /\ rexpool.total_lent = OnLoans(StakedBy, loans)
          /\ rexpool.total_lendable = rexpool.total_lent + rexpool.total_unlent
      BY <1>2, <3>1 DEF GoodPool
    <3>3. rexpool.total_unlent \in Int
      BY <3>1 DEF rex_pool
    <3>4. QED
      BY <2>1, <3>2, <3>3
  <2>3. QED
    BY <2>2
<1>4. RexInv
  BY <1>2, <1>3 DEF RexInv, GoodPool, GoodRows, GoodRow, RexTable
<1>5. /\ HoldsInv /\ ClockInv /\ RamInv /\ del_bandwidth \in DelTable
      /\ \A a \in Account : voters[a] = Nil => rexbalance[a] = Nil
  BY DEF ContractInv, BooksInv, WeightInv
<1>6. QED
  BY <1>1, <1>2, <1>4, <1>5 DEF GoodTotals

\* Bringing the value of one's REX up to date leaves the REX alone.
LEMMA RevaluedAlike ==
  ASSUME ContractInv, NEW owner \in Account, rexbalance' = Revalued(owner), rexpool' = rexpool
  PROVE  /\ Alike(rexbalance, rexbalance')
         /\ RexStake(rexbalance[owner]) \in Nat /\ RexStake(rexbalance'[owner]) \in Nat
         /\ \A a \in Account : /\ a # owner => rexbalance'[a] = rexbalance[a]
                               /\ rexbalance'[a] = Nil <=> rexbalance[a] = Nil
         /\ ShiftedTable(Restaked(owner), owner,
                         RexStake(rexbalance'[owner]) - RexStake(rexbalance[owner]))
<1>1. /\ RexInv /\ voters \in VoterTable
      /\ voters[owner] = Nil => rexbalance[owner] = Nil
  BY ContractRex
<1>2. /\ RexInv'
      /\ RexStake(rexbalance[owner]) \in Nat /\ RexStake(rexbalance'[owner]) \in Nat
      /\ \A a \in Account : /\ a # owner => rexbalance'[a] = rexbalance[a]
                            /\ rexbalance'[a] = Nil <=> rexbalance[a] = Nil
      /\ ShiftedTable(Restaked(owner), owner,
                      RexStake(rexbalance'[owner]) - RexStake(rexbalance[owner]))
  BY <1>1, RevaluedIs
<1>3. Alike(rexbalance, rexbalance)
  BY AlikeAtAll
<1>4. Alike(rexbalance, rexbalance')
  <2>1. CASE rexbalance[owner] # Nil /\ rex_available(rexpool)
    <3> DEFINE old == rexbalance[owner]
               w == Worth(rexpool, old.rex_balance)
               row == [old EXCEPT !.vote_stake = w]
    <3>1. old \in rex_balance /\ rexbalance \in [Account -> rex_balance \cup {Nil}]
      BY <1>1, <2>1 DEF RexInv
    <3>2. rexbalance' = [rexbalance EXCEPT ![owner] = row]
      BY <2>1, <3>1 DEF Revalued
    <3>3. row.rex_balance = old.rex_balance /\ row.matured_rex = old.matured_rex
          /\ row.rex_maturities = old.rex_maturities
      BY <3>1 DEF rex_balance
    <3> HIDE DEF row
    <3>4. rexbalance'[owner] = row
      BY <3>1, <3>2
    <3>5. rexbalance' \in RexTable /\ (rexbalance'[owner] # Nil => 0 <= rexbalance'[owner].vote_stake)
      BY <1>2 DEF RexInv, RexTable
    <3>6. rexbalance'[owner] # Nil
      BY <1>2, <2>1
    <3>7. QED
      BY <1>2, <1>3, <3>3, <3>4, <3>5, <3>6 DEF Alike
  <2>2. CASE ~ (rexbalance[owner] # Nil /\ rex_available(rexpool))
    BY <1>3, <2>2 DEF Revalued
  <2>3. QED
    BY <2>1, <2>2
<1>5. QED
  BY <1>2, <1>4

\* Tokens that go between a user and eosio.stake.
LEMMA StakeSent ==
  ASSUME GoodTokens(accounts), NEW from \in Account \cup {STAKE_ACCOUNT},
         NEW to \in Account \cup {STAKE_ACCOUNT}, NEW q \in Int, TLOS!Transfer(from, to, q)
  PROVE  /\ GoodTokens(accounts)'
         /\ \A h \in {REX_ACCOUNT, NAMES_ACCOUNT, RAM_ACCOUNT} : Bal(accounts', h) = Bal(accounts, h)
<1>1. from \in TokenHolder /\ to \in TokenHolder
  BY HoldersApart DEF SystemAccounts
<1>2. /\ GoodTokens(accounts)'
      /\ \A h \in TokenHolder : Bal(accounts', h) = Bal(accounts, h) - (IF h = from THEN q ELSE 0)
                                                    + (IF h = to THEN q ELSE 0)
  BY <1>1, TransferIs
<1>3. ASSUME NEW h \in {REX_ACCOUNT, NAMES_ACCOUNT, RAM_ACCOUNT}
      PROVE  Bal(accounts', h) = Bal(accounts, h)
  <2>1. h \in SystemAccounts /\ h # STAKE_ACCOUNT
    BY HoldersApart DEF SystemAccounts
  <2>2. h \in TokenHolder /\ h # from /\ h # to
    BY <2>1, HoldersApart
  <2>3. Bal(accounts', h) = Bal(accounts, h) - 0 + 0
    BY <1>2, <2>2
  <2>4. Bal(accounts, h) \in Int
    BY <2>2 DEF GoodTokens, TokenTable, Bal
  <2>5. QED
    BY <2>3, <2>4
<1>4. QED
  BY <1>2, <1>3

\* Totals take what is delegated; the limit of RAM stays where it is enough.
LEMMA TotalsChanged ==
  ASSUME userres \in TotalTable, limits \in LimitTable, NEW receiver \in Account,
         NEW net \in Int, NEW cpu \in Int, UpdateTotals(receiver, net, cpu)
  PROVE  /\ userres' \in TotalTable /\ limits' \in LimitTable
         /\ \A a \in Account : a # receiver => userres'[a] = userres[a] /\ limits'[a] = limits[a]
         /\ Totals(userres'[receiver]).net = Totals(userres[receiver]).net + net
         /\ Totals(userres'[receiver]).cpu = Totals(userres[receiver]).cpu + cpu
         /\ Totals(userres'[receiver]).ram_bytes = Totals(userres[receiver]).ram_bytes
         /\ Totals(userres[receiver]).ram_bytes + ram_gift_bytes <= limits[receiver].ram =>
              limits'[receiver].ram = limits[receiver].ram
<1> DEFINE old == Resources(receiver)
           totals == [old EXCEPT !.net = @ + net, !.cpu = @ + cpu]
           base == LimitsFor(receiver, totals)
           limit == [base EXCEPT !.ram = RamLimitFor(receiver, totals)]
<1>1. /\ 0 <= totals.net /\ 0 <= totals.cpu
      /\ userres' = [userres EXCEPT ![receiver] = KeptUnlessEmpty(totals)]
      /\ limits' = [limits EXCEPT ![receiver] = limit]
  BY DEF UpdateTotals
<1>2. old \in user_resources /\ old = Totals(userres[receiver])
  BY DEF TotalTable, Resources, Totals, user_resources, NoResources
<1> HIDE DEF old
<1>3. /\ totals \in user_resources
      /\ totals.net = old.net + net /\ totals.cpu = old.cpu + cpu /\ totals.ram_bytes = old.ram_bytes
  <2> DEFINE n == old.net + net
             c == old.cpu + cpu
  <2>1. totals = NetCpu(old, n, c)
    BY DEF NetCpu
  <2>2. old.net \in Nat /\ old.cpu \in Nat
    BY <1>2 DEF user_resources
  <2>3. totals.net = n /\ totals.cpu = c
    BY <1>2 DEF user_resources
  <2>4. n \in Nat /\ c \in Nat
    BY <1>1, <2>2, <2>3
  <2> HIDE DEF n, c, totals
  <2>5. NetCpu(old, n, c) \in user_resources /\ NetCpu(old, n, c).ram_bytes = old.ram_bytes
    BY <1>2, <2>4 DEF NetCpu, user_resources
  <2>6. QED
    BY <2>1, <2>3, <2>5 DEF n, c
<1> HIDE DEF totals
<1>4. limits[receiver] \in LimitSet
  BY DEF LimitTable
<1>5. base \in LimitSet
  <2> DEFINE n == IF "net_managed" \in Managed(receiver) THEN limits[receiver].net ELSE totals.net
             c == IF "cpu_managed" \in Managed(receiver) THEN limits[receiver].cpu ELSE totals.cpu
  <2>1. base = NetCpu(limits[receiver], n, c)
    BY DEF LimitsFor, NetCpu
  <2>2. n \in Int /\ c \in Int
    BY <1>3, <1>4 DEF LimitSet, user_resources
  <2> HIDE DEF n, c, base
  <2>3. base \in LimitSet
    BY <1>4, <2>1, <2>2, NetCpuPut
  <2>4. QED
    BY <2>3
<1>6. /\ RamLimitFor(receiver, totals) \in Int
      /\ old.ram_bytes + ram_gift_bytes <= limits[receiver].ram =>
           RamLimitFor(receiver, totals) = limits[receiver].ram
  BY <1>3, <1>4, BandwidthAssumption DEF RamLimitFor, LimitSet, user_resources
<1> HIDE DEF base
<1>7. limit \in LimitSet /\ limit.ram = RamLimitFor(receiver, totals)
  BY <1>5, <1>6 DEF LimitSet
<1> HIDE DEF limit
<1>8. /\ KeptUnlessEmpty(totals) \in user_resources \cup {Nil}
      /\ Totals(KeptUnlessEmpty(totals)) = totals
  BY <1>3, KeptIs
<1> DEFINE row == KeptUnlessEmpty(totals)
<1> HIDE DEF row
<1>9. /\ userres' \in TotalTable /\ limits' \in LimitTable
      /\ userres'[receiver] = row /\ limits'[receiver] = limit
      /\ \A a \in Account : a # receiver => userres'[a] = userres[a] /\ limits'[a] = limits[a]
  BY <1>1, <1>7, <1>8 DEF TotalTable, LimitTable, row
<1>10. Totals(row) = totals
  BY <1>8 DEF row
<1>11. QED
  BY <1>2, <1>3, <1>6, <1>7, <1>9, <1>10

\* What the delegations are after it.
LEMMA DelegationChanged ==
  ASSUME del_bandwidth \in DelTable, NEW owner \in Account, NEW receiver \in Account,
         NEW net \in Int, NEW cpu \in Int,
         0 <= Plus(del_bandwidth[owner][receiver], net, cpu).net,
         0 <= Plus(del_bandwidth[owner][receiver], net, cpu).cpu,
         del_bandwidth' = PutWeights(del_bandwidth, owner, receiver,
                                     Plus(del_bandwidth[owner][receiver], net, cpu))
  PROVE  /\ del_bandwidth' \in DelTable
         /\ StakeOf(del_bandwidth', owner) = StakeOf(del_bandwidth, owner) + net + cpu
         /\ NetTo(del_bandwidth', receiver) = NetTo(del_bandwidth, receiver) + net
         /\ CpuTo(del_bandwidth', receiver) = CpuTo(del_bandwidth, receiver) + cpu
         /\ \A a \in Account : a # owner => StakeOf(del_bandwidth', a) = StakeOf(del_bandwidth, a)
         /\ \A a \in Account : a # receiver => /\ NetTo(del_bandwidth', a) = NetTo(del_bandwidth, a)
                                               /\ CpuTo(del_bandwidth', a) = CpuTo(del_bandwidth, a)
<1> DEFINE w == del_bandwidth[owner][receiver]
           x == Plus(w, net, cpu)
<1>1. w \in Weights
  BY DEF DelTable
<1>2. /\ x \in Weights /\ Sum(x) = Sum(w) + net + cpu /\ x.net = w.net + net /\ x.cpu = w.cpu + cpu
      /\ Sum(w) \in Nat /\ w.net \in Nat /\ w.cpu \in Nat
  BY <1>1, PlusIs, WeightsNat
<1>3. del_bandwidth' = PutWeights(del_bandwidth, owner, receiver, x)
  OBVIOUS
<1>4. /\ StakeOf(del_bandwidth, owner) \in Nat /\ NetTo(del_bandwidth, receiver) \in Nat
      /\ CpuTo(del_bandwidth, receiver) \in Nat
  BY StakeNat
<1> HIDE DEF x
<1>5. /\ StakeOf(del_bandwidth', owner) = StakeOf(del_bandwidth, owner) + Sum(x) - Sum(w)
      /\ \A a \in Account : a # owner => StakeOf(del_bandwidth', a) = StakeOf(del_bandwidth, a)
      /\ del_bandwidth' \in DelTable
  BY <1>2, <1>3, StakePut, WeightsPut
<1>6. /\ NetTo(del_bandwidth', receiver) = NetTo(del_bandwidth, receiver) + x.net - w.net
      /\ CpuTo(del_bandwidth', receiver) = CpuTo(del_bandwidth, receiver) + x.cpu - w.cpu
      /\ \A a \in Account : a # receiver => /\ NetTo(del_bandwidth', a) = NetTo(del_bandwidth, a)
                                            /\ CpuTo(del_bandwidth', a) = CpuTo(del_bandwidth, a)
  BY <1>2, <1>3, TotalsPut
<1> HIDE DEF w
<1>7. StakeOf(del_bandwidth', owner) = StakeOf(del_bandwidth, owner) + net + cpu
  BY <1>2, <1>4, <1>5
<1>8. /\ NetTo(del_bandwidth', receiver) = NetTo(del_bandwidth, receiver) + net
      /\ CpuTo(del_bandwidth', receiver) = CpuTo(del_bandwidth, receiver) + cpu
  BY <1>2, <1>4, <1>6
<1>9. QED
  BY <1>5, <1>6, <1>7, <1>8

\* changebw
LEMMA DelegatedKeeps ==
  ASSUME ContractInv, NEW from \in Account, NEW receiver \in Account, NEW net \in Int, NEW cpu \in Int,
         NEW transfer \in BOOLEAN, (0 <= net /\ 0 <= cpu) \/ net + cpu < 0,
         ChangeBw(from, receiver, net, cpu, transfer), UNCHANGED <<rexOnlyVars, bidVars, ram>>
  PROVE  ContractInv'
<1> DEFINE owner == IF transfer THEN receiver ELSE from
           touched == (~transfer /\ from = receiver) \/ net + cpu < 0
           req == IF touched /\ refunds[owner] # Nil THEN refunds[owner] ELSE Zero
           payment == Payable(req, net, cpu)
<1>1. owner \in Account /\ touched \in BOOLEAN /\ (~ touched => 0 <= net /\ 0 <= cpu)
  OBVIOUS
<1>2. /\ 0 <= Plus(del_bandwidth[owner][receiver], net, cpu).net
      /\ 0 <= Plus(del_bandwidth[owner][receiver], net, cpu).cpu
      /\ del_bandwidth' = PutWeights(del_bandwidth, owner, receiver,
                                     Plus(del_bandwidth[owner][receiver], net, cpu))
      /\ UpdateTotals(receiver, net, cpu)
      /\ UpdateRefund(owner, touched, net, cpu)
      /\ \/ payment > 0 /\ TLOS!Transfer(from, STAKE_ACCOUNT, payment)
         \/ payment = 0 /\ UNCHANGED tlosVars
      /\ rexbalance' = Revalued(owner)
      /\ UpdateVotingPower(Restaked(owner), owner, net + cpu)
      /\ UNCHANGED <<now, rexpool, activated>>
  BY DEF ChangeBw, PutWeights
<1> HIDE DEF owner, touched
<1>3. /\ RexInv /\ HoldsInv /\ ClockInv /\ GoodTokens(accounts) /\ RamInv /\ voters \in VoterTable
      /\ del_bandwidth \in DelTable /\ userres \in TotalTable /\ limits \in LimitTable
      /\ now \in Time
  BY ContractRex DEF ClockInv
<1>4. /\ Alike(rexbalance, rexbalance')
      /\ RexStake(rexbalance[owner]) \in Nat /\ RexStake(rexbalance'[owner]) \in Nat
      /\ \A a \in Account : /\ a # owner => rexbalance'[a] = rexbalance[a]
                            /\ rexbalance'[a] = Nil <=> rexbalance[a] = Nil
      /\ ShiftedTable(Restaked(owner), owner,
                      RexStake(rexbalance'[owner]) - RexStake(rexbalance[owner]))
  BY <1>1, <1>2, RevaluedAlike
<1>5. HoldsInv'
  <2>1. LET r == IF touched /\ refunds[owner] # Nil THEN refunds[owner] ELSE Zero
            p == Payable(r, net, cpu)
        IN \/ p > 0 /\ TLOS!Transfer(from, STAKE_ACCOUNT, p)
           \/ p = 0 /\ UNCHANGED tlosVars
    BY <1>2
  <2> HIDE DEF req, payment
  <2>2. PICK m \in Int : m = taken[STAKE_ACCOUNT]
    BY <1>3, TakenNat DEF HoldsInv
  <2>3. HeldBut(m)
    BY <1>3, <2>2 DEF HoldsInv
  <2>4. HeldBut(m)'
    BY <1>1, <1>2, <1>3, <2>1, <2>3, ChangeHeld
  <2>5. taken' = taken
    BY DEF rexOnlyVars
  <2>6. QED
    BY <1>3, <2>2, <2>4, <2>5 DEF HoldsInv
<1>6. ClockInv'
  BY <1>1, <1>2, <1>3, RefundClocks
<1>7. payment \in Int
  <2>1. refunds[owner] \in refund_request \cup {Nil}
    BY <1>1, <1>3 DEF HoldsInv, HeldBut, RefundTable
  <2>2. req.net \in Nat /\ req.cpu \in Nat
    BY <2>1 DEF Zero, refund_request
  <2> HIDE DEF req
  <2>3. QED
    BY <2>2 DEF Payable, AtLeastZero
<1> HIDE DEF req, payment
<1>8. \A h \in {REX_ACCOUNT, NAMES_ACCOUNT, RAM_ACCOUNT} : Bal(accounts', h) = Bal(accounts, h)
  <2>1. CASE TLOS!Transfer(from, STAKE_ACCOUNT, payment)
    BY <1>3, <1>7, <2>1, StakeSent
  <2>2. CASE UNCHANGED tlosVars
    BY <2>2 DEF tlosVars
  <2>3. QED
    BY <1>2, <2>1, <2>2
<1>9. /\ userres' \in TotalTable /\ limits' \in LimitTable
      /\ \A a \in Account : a # receiver => userres'[a] = userres[a] /\ limits'[a] = limits[a]
      /\ Totals(userres'[receiver]).net = Totals(userres[receiver]).net + net
      /\ Totals(userres'[receiver]).cpu = Totals(userres[receiver]).cpu + cpu
      /\ Totals(userres'[receiver]).ram_bytes = Totals(userres[receiver]).ram_bytes
      /\ Totals(userres[receiver]).ram_bytes + ram_gift_bytes <= limits[receiver].ram =>
           limits'[receiver].ram = limits[receiver].ram
  BY <1>2, <1>3, TotalsChanged
<1>10. /\ del_bandwidth' \in DelTable
       /\ StakeOf(del_bandwidth', owner) = StakeOf(del_bandwidth, owner) + net + cpu
       /\ NetTo(del_bandwidth', receiver) = NetTo(del_bandwidth, receiver) + net
       /\ CpuTo(del_bandwidth', receiver) = CpuTo(del_bandwidth, receiver) + cpu
       /\ \A a \in Account : a # owner => StakeOf(del_bandwidth', a) = StakeOf(del_bandwidth, a)
       /\ \A a \in Account : a # receiver => /\ NetTo(del_bandwidth', a) = NetTo(del_bandwidth, a)
                                             /\ CpuTo(del_bandwidth', a) = CpuTo(del_bandwidth, a)
  BY <1>1, <1>2, <1>3, DelegationChanged
<1> DEFINE shift == RexStake(rexbalance'[owner]) - RexStake(rexbalance[owner])
           delta == net + cpu
<1>11. shift \in Int /\ delta \in Int /\ UpdateVotingPower(Restaked(owner), owner, delta)
       /\ ShiftedTable(Restaked(owner), owner, shift)
  BY <1>2, <1>4
<1> HIDE DEF shift, delta
<1>12. /\ voters' \in VoterTable /\ (\A a \in Account : a # owner => voters'[a] = voters[a])
       /\ voters'[owner] # Nil
       /\ StakedIn(voters'[owner]) = StakedIn(voters[owner]) + shift + delta
       /\ Flags(voters'[owner]) = Flags(voters[owner])
  BY <1>1, <1>3, <1>11, PowerRows
<1>13. ASSUME NEW a \in Account
       PROVE  /\ StakedIn(voters'[a]) \in Int /\ StakedIn(voters[a]) \in Int
              /\ StakeOf(del_bandwidth', a) \in Int /\ StakeOf(del_bandwidth, a) \in Int
              /\ RexStake(rexbalance'[a]) \in Int /\ RexStake(rexbalance[a]) \in Int
              /\ NetTo(del_bandwidth', a) \in Int /\ NetTo(del_bandwidth, a) \in Int
              /\ CpuTo(del_bandwidth', a) \in Int /\ CpuTo(del_bandwidth, a) \in Int
              /\ Totals(userres[a]).net \in Int /\ Totals(userres[a]).cpu \in Int
              /\ Totals(userres'[a]).net \in Int /\ Totals(userres'[a]).cpu \in Int
  <2>1. voters[a] \in voter_info \cup {Nil} /\ voters'[a] \in voter_info \cup {Nil}
    BY <1>3, <1>12 DEF VoterTable
  <2>2. StakedIn(voters'[a]) \in Int /\ StakedIn(voters[a]) \in Int
    BY <2>1, BaseIs
  <2>3. /\ StakeOf(del_bandwidth', a) \in Nat /\ StakeOf(del_bandwidth, a) \in Nat
        /\ NetTo(del_bandwidth', a) \in Nat /\ NetTo(del_bandwidth, a) \in Nat
        /\ CpuTo(del_bandwidth', a) \in Nat /\ CpuTo(del_bandwidth, a) \in Nat
    BY <1>3, <1>10, StakeNat
  <2>4. RexStake(rexbalance'[a]) \in Int /\ RexStake(rexbalance[a]) \in Int
    BY <1>3, <1>4 DEF Alike, RexInv, RexTable, RexStake, rex_balance
  <2>5. userres[a] \in user_resources \cup {Nil} /\ userres'[a] \in user_resources \cup {Nil}
    BY <1>3, <1>9 DEF TotalTable
  <2>6. /\ Totals(userres[a]).net \in Int /\ Totals(userres[a]).cpu \in Int
        /\ Totals(userres'[a]).net \in Int /\ Totals(userres'[a]).cpu \in Int
    BY <2>5 DEF Totals, user_resources, NoResources
  <2>7. QED
    BY <2>2, <2>3, <2>4, <2>6
<1>14. ASSUME NEW a \in Account
       PROVE  /\ StakedIn(voters'[a]) - StakedIn(voters[a])
                   = StakeOf(del_bandwidth', a) - StakeOf(del_bandwidth, a)
                       + RexStake(rexbalance'[a]) - RexStake(rexbalance[a])
              /\ voters'[a] = Nil => rexbalance'[a] = Nil
  <2> DEFINE s == StakedIn(voters[a])
             z == StakedIn(voters'[a])
             d == StakeOf(del_bandwidth, a)
             e == StakeOf(del_bandwidth', a)
             w == RexStake(rexbalance[a])
             x == RexStake(rexbalance'[a])
  <2>1. s \in Int /\ z \in Int /\ d \in Int /\ e \in Int /\ w \in Int /\ x \in Int
    BY <1>13
  <2>2. CASE a = owner
    <3>1. z = s + shift + delta /\ shift = x - w /\ e = d + net + cpu /\ delta = net + cpu
      BY <1>10, <1>12, <2>2 DEF shift, delta
    <3>2. z - s = e - d + x - w
      <4> HIDE DEF s, z, d, e, w, x
      <4>1. QED
        BY <2>1, <3>1
    <3>3. voters'[a] # Nil
      BY <1>12, <2>2
    <3>4. QED
      BY <3>2, <3>3
  <2>3. CASE a # owner
    <3>1. z = s /\ e = d /\ x = w
      BY <1>4, <1>10, <1>12, <2>3
    <3>2. z - s = e - d + x - w
      <4> HIDE DEF s, z, d, e, w, x
      <4>1. QED
        BY <2>1, <3>1
    <3>3. voters'[a] = Nil => rexbalance'[a] = Nil
      BY <1>4, <1>12, <2>3, ContractRex
    <3>4. QED
      BY <3>2, <3>3
  <2>4. QED
    BY <2>2, <2>3
<1>15. ASSUME NEW a \in Account
       PROVE  /\ Totals(userres'[a]).net - Totals(userres[a]).net
                   = NetTo(del_bandwidth', a) - NetTo(del_bandwidth, a)
              /\ Totals(userres'[a]).cpu - Totals(userres[a]).cpu
                   = CpuTo(del_bandwidth', a) - CpuTo(del_bandwidth, a)
  <2> DEFINE p == Totals(userres[a]).net
             q == Totals(userres'[a]).net
             m == NetTo(del_bandwidth, a)
             n == NetTo(del_bandwidth', a)
             i == Totals(userres[a]).cpu
             j == Totals(userres'[a]).cpu
             k == CpuTo(del_bandwidth, a)
             l == CpuTo(del_bandwidth', a)
  <2>1. p \in Int /\ q \in Int /\ m \in Int /\ n \in Int /\ i \in Int /\ j \in Int /\ k \in Int /\ l \in Int
    BY <1>13
  <2>2. CASE a = receiver
    <3>1. q = p + net /\ n = m + net /\ j = i + cpu /\ l = k + cpu
      BY <1>9, <1>10, <2>2
    <3> HIDE DEF p, q, m, n, i, j, k, l
    <3>2. q - p = n - m /\ j - i = l - k
      BY <2>1, <3>1
    <3>3. QED
      BY <3>2 DEF p, q, m, n, i, j, k, l
  <2>3. CASE a # receiver
    <3>1. q = p /\ n = m /\ j = i /\ l = k
      BY <1>9, <1>10, <2>3
    <3> HIDE DEF p, q, m, n, i, j, k, l
    <3>2. q - p = n - m /\ j - i = l - k
      BY <2>1, <3>1
    <3>3. QED
      BY <3>2 DEF p, q, m, n, i, j, k, l
  <2>4. QED
    BY <2>2, <2>3
<1>16. BooksInv'
  <2>1. /\ UNCHANGED <<rexpool, rexOnlyVars, bidVars>>
        /\ Bal(accounts', REX_ACCOUNT) = Bal(accounts, REX_ACCOUNT)
        /\ Bal(accounts', NAMES_ACCOUNT) = Bal(accounts, NAMES_ACCOUNT)
    BY <1>2, <1>8
  <2>2. QED
    BY <1>4, <1>5, <1>6, <1>9, <1>10, <1>12, <1>14, <1>15, <2>1, StakeKeeps
<1>17. RamInv'
  <2>1. ASSUME NEW a \in Account
        PROVE  /\ Totals(userres'[a]).ram_bytes = Totals(userres[a]).ram_bytes
               /\ 0 < Totals(userres[a]).ram_bytes /\ "ram_managed" \notin Flags(voters[a])
                    => limits'[a].ram = limits[a].ram
               /\ "ram_managed" \in Flags(voters[a]) => "ram_managed" \in Flags(voters'[a])
    <3>1. "ram_managed" \in Flags(voters[a]) => "ram_managed" \in Flags(voters'[a])
      BY <1>12
    <3>2. CASE a = receiver
      <4>1. ASSUME 0 < Totals(userres[a]).ram_bytes, "ram_managed" \notin Flags(voters[a])
            PROVE  limits'[a].ram = limits[a].ram
        <5>1. limits[a].ram = Totals(userres[a]).ram_bytes + ram_gift_bytes
          BY <1>3, <4>1 DEF RamInv
        <5>2. limits[a].ram \in Int
          BY <1>3 DEF LimitTable, LimitSet
        <5>3. QED
          BY <1>9, <3>2, <5>1, <5>2
      <4>2. QED
        BY <1>9, <3>1, <3>2, <4>1
    <3>3. CASE a # receiver
      BY <1>9, <3>1, <3>3
    <3>4. QED
      BY <3>2, <3>3
  <2>2. UNCHANGED <<ram, taken>>
    BY DEF rexOnlyVars
  <2>3. QED
    BY <1>3, <1>8, <2>1, <2>2, RamKept
<1>18. QED
  BY <1>16, <1>17 DEF ContractInv

\* What is about nobody's stake and no delegation leaves the books as they are.
LEMMA QuietKeeps ==
  ASSUME ContractInv,
         UNCHANGED <<rexpool, rexbalance, rexOnlyVars, bidVars, ram, del_bandwidth, userres>>,
         limits' \in LimitTable, HoldsInv', ClockInv',
         \A h \in {REX_ACCOUNT, NAMES_ACCOUNT, RAM_ACCOUNT} : Bal(accounts', h) = Bal(accounts, h),
         voters' \in VoterTable,
         \A a \in Account :
           /\ StakedIn(voters'[a]) = StakedIn(voters[a])
           /\ voters'[a] = Nil => voters[a] = Nil
           /\ 0 < Totals(userres[a]).ram_bytes /\ "ram_managed" \notin Flags(voters'[a]) =>
                limits'[a].ram = Totals(userres[a]).ram_bytes + ram_gift_bytes
  PROVE  ContractInv'
<1>1. /\ RexInv /\ RamInv /\ voters \in VoterTable /\ del_bandwidth \in DelTable
      /\ userres \in TotalTable
      /\ \A a \in Account : voters[a] = Nil => rexbalance[a] = Nil
  BY ContractRex
<1>2. Alike(rexbalance, rexbalance')
  BY AlikeAtAll
<1>3. ASSUME NEW a \in Account
      PROVE  /\ StakedIn(voters'[a]) - StakedIn(voters[a])
                  = StakeOf(del_bandwidth', a) - StakeOf(del_bandwidth, a)
                      + RexStake(rexbalance'[a]) - RexStake(rexbalance[a])
             /\ voters'[a] = Nil => rexbalance'[a] = Nil
             /\ Totals(userres'[a]).net - Totals(userres[a]).net
                  = NetTo(del_bandwidth', a) - NetTo(del_bandwidth, a)
             /\ Totals(userres'[a]).cpu - Totals(userres[a]).cpu
                  = CpuTo(del_bandwidth', a) - CpuTo(del_bandwidth, a)
  <2> DEFINE s == StakedIn(voters[a])
             d == StakeOf(del_bandwidth, a)
             w == RexStake(rexbalance[a])
             n == NetTo(del_bandwidth, a)
             c == CpuTo(del_bandwidth, a)
             p == Totals(userres[a]).net
             q == Totals(userres[a]).cpu
  <2>1. s \in Int /\ d \in Int /\ n \in Int /\ c \in Int /\ w \in Int
    <3>1. voters[a] \in voter_info \cup {Nil}
      BY <1>1 DEF VoterTable
    <3>2. s \in Int
      BY <3>1, BaseIs
    <3>3. w \in Int
      BY <1>1 DEF RexInv, RexStake, rex_balance
    <3>4. QED
      BY <1>1, <3>2, <3>3, StakeNat
  <2>2. p \in Int /\ q \in Int
    <3>1. userres[a] \in user_resources \cup {Nil}
      BY <1>1 DEF TotalTable
    <3>2. QED
      BY <3>1 DEF Totals, user_resources, NoResources
  <2>3. s - s = d - d + w - w /\ p - p = n - n /\ q - q = c - c
    <3> HIDE DEF s, d, w, n, c, p, q
    <3>1. QED
      BY <2>1, <2>2
  <2>4. voters'[a] = Nil => rexbalance'[a] = Nil
    BY <1>1
  <2>5. QED
    BY <2>3, <2>4
<1>4. BooksInv'
  <2>1. userres' \in TotalTable /\ del_bandwidth' \in DelTable
    BY <1>1
  <2>2. QED
    BY <1>2, <1>3, <2>1, StakeKeeps
<1>5. RamInv'
  BY <1>1 DEF RamInv, GoodMarket, rexOnlyVars
<1>6. QED
  BY <1>4, <1>5 DEF ContractInv

\* So do votes and producers, whose flags and limits are left alone.
LEMMA VotersKept ==
  ASSUME ContractInv, UNCHANGED <<rexpool, rexbalance, rexOnlyVars, bidVars, ram, del_bandwidth, resourceVars>>,
         HoldsInv', ClockInv',
         \A h \in {REX_ACCOUNT, NAMES_ACCOUNT, RAM_ACCOUNT} : Bal(accounts', h) = Bal(accounts, h),
         voters' \in VoterTable,
         \A a \in Account :
           /\ StakedIn(voters'[a]) = StakedIn(voters[a]) /\ Flags(voters'[a]) = Flags(voters[a])
           /\ voters'[a] = Nil => voters[a] = Nil
  PROVE  ContractInv'
<1>1. RamInv /\ limits \in LimitTable
  BY ContractRex
<1>2. limits' = limits /\ userres' = userres
  BY DEF resourceVars
<1>3. ASSUME NEW a \in Account
      PROVE  0 < Totals(userres[a]).ram_bytes /\ "ram_managed" \notin Flags(voters'[a]) =>
               limits'[a].ram = Totals(userres[a]).ram_bytes + ram_gift_bytes
  BY <1>1, <1>2 DEF RamInv
<1>4. QED
  BY <1>1, <1>2, <1>3, QuietKeeps

\* Time, the start of the chain, producers and their kicks.
LEMMA QuietSteps ==
  ASSUME ContractInv, UNCHANGED <<rexOnlyVars, bidVars, ram>>,
         \/ Tick \/ Activate
         \/ /\ UNCHANGED bandwidthVars
            /\ \E p \in Producer : RegProducer(p) \/ UnregProd(p) \/ \E h \in Penalties : VoteBpOut(p, h)
  PROVE  ContractInv'
<1>1. HoldsInv /\ ClockInv /\ voters \in VoterTable
  BY ContractRex
<1>2. /\ UNCHANGED <<voters, rexpool, rexbalance, del_bandwidth, resourceVars, tlosVars>>
      /\ UNCHANGED <<refunds, deferred, cancelled>>
  <2>1. CASE Tick
    BY <2>1 DEF Tick, rexVars, bandwidthVars, refundVars
  <2>2. CASE Activate
    BY <2>2 DEF Activate, votingVars, rexVars, refundVars
  <2>3. CASE /\ UNCHANGED bandwidthVars
             /\ \E p \in Producer : RegProducer(p) \/ UnregProd(p) \/ \E h \in Penalties : VoteBpOut(p, h)
    BY <2>3 DEF RegProducer, UnregProd, VoteBpOut, rexVars, bandwidthVars, refundVars
  <2>4. QED
    BY <2>1, <2>2, <2>3
<1>3. HoldsInv'
  BY <1>1, <1>2, HoldsFrame
<1>4. now' \in Time /\ activated' \in BOOLEAN
  <2>1. CASE Tick
    BY <1>1, <2>1, VotingAssumption DEF Tick, bandwidthVars, ClockInv, Time
  <2>2. CASE Activate
    BY <1>1, <2>2 DEF Activate, votingVars, ClockInv
  <2>3. CASE /\ UNCHANGED bandwidthVars
             /\ \E p \in Producer : RegProducer(p) \/ UnregProd(p) \/ \E h \in Penalties : VoteBpOut(p, h)
    BY <1>1, <2>3 DEF RegProducer, UnregProd, VoteBpOut, bandwidthVars, ClockInv
  <2>4. QED
    BY <2>1, <2>2, <2>3
<1>5. ClockInv'
  BY <1>1, <1>2, <1>4 DEF ClockInv
<1>6. \A h \in {REX_ACCOUNT, NAMES_ACCOUNT, RAM_ACCOUNT} : Bal(accounts', h) = Bal(accounts, h)
  BY <1>2 DEF tlosVars
<1>7. QED
  BY <1>1, <1>2, <1>3, <1>5, <1>6, VotersKept

\* regproxy
LEMMA RegProxyKept ==
  ASSUME ContractInv, NEW a \in Account, RegProxy(a), UNCHANGED <<bandwidthVars, rexOnlyVars, bidVars, ram>>
  PROVE  ContractInv'
<1>1. HoldsInv /\ ClockInv /\ voters \in VoterTable
  BY ContractRex
<1>2. /\ voters[a] = Nil /\ voters' = [voters EXCEPT ![a] = NewVoter]
      /\ UNCHANGED <<now, rexpool, rexbalance, del_bandwidth, resourceVars, tlosVars>>
      /\ UNCHANGED <<refunds, deferred, cancelled, activated>>
  BY DEF RegProxy, rexVars, bandwidthVars, refundVars
<1>3. HoldsInv' /\ ClockInv'
  BY <1>1, <1>2, HoldsFrame DEF ClockInv
<1>4. NewVoter \in voter_info /\ NewVoter.staked = 0 /\ NewVoter.flags1 = {} /\ NewVoter # Nil
  BY VotingFinite DEF NewVoter, voter_info
<1>5. /\ voters' \in VoterTable /\ voters'[a] = NewVoter
      /\ \A b \in Account : b # a => voters'[b] = voters[b]
  BY <1>1, <1>2, <1>4 DEF VoterTable
<1>6. ASSUME NEW b \in Account
      PROVE  /\ StakedIn(voters'[b]) = StakedIn(voters[b]) /\ Flags(voters'[b]) = Flags(voters[b])
             /\ voters'[b] = Nil => voters[b] = Nil
  <2>1. CASE b = a
    BY <1>2, <1>4, <1>5, <2>1 DEF StakedIn, Flags
  <2>2. CASE b # a
    BY <1>5, <2>2
  <2>3. QED
    BY <2>1, <2>2
<1>7. \A h \in {REX_ACCOUNT, NAMES_ACCOUNT, RAM_ACCOUNT} : Bal(accounts', h) = Bal(accounts, h)
  BY <1>2 DEF tlosVars
<1>8. QED
  BY <1>2, <1>3, <1>5, <1>6, <1>7, VotersKept

\* voteproducer
LEMMA VoteProducerKept ==
  ASSUME ContractInv, NEW voter \in Account, NEW prods \in SUBSET Producer, VoteProducer(voter, prods),
         UNCHANGED <<bandwidthVars, rexOnlyVars, bidVars, ram>>
  PROVE  ContractInv'
<1>1. /\ RexInv /\ HoldsInv /\ ClockInv /\ RamInv /\ voters \in VoterTable
      /\ del_bandwidth \in DelTable /\ userres \in TotalTable /\ limits \in LimitTable
      /\ \A a \in Account : voters[a] = Nil => rexbalance[a] = Nil
  BY ContractRex
<1>2. /\ voters[voter] # Nil /\ rexbalance' = Revalued(voter) /\ UNCHANGED <<now, rexpool>>
      /\ UpdateVotes(Restaked(voter), voter, prods, TRUE)
      /\ UNCHANGED <<del_bandwidth, userres, limits, stat, accounts>>
      /\ UNCHANGED <<refunds, deferred, cancelled, activated>>
  BY DEF VoteProducer, bandwidthVars, resourceVars, tlosVars, refundVars
<1>3. HoldsInv' /\ ClockInv'
  BY <1>1, <1>2, HoldsFrame DEF ClockInv, tlosVars
<1> DEFINE shift == RexStake(rexbalance'[voter]) - RexStake(rexbalance[voter])
<1>4. /\ Alike(rexbalance, rexbalance')
      /\ RexStake(rexbalance[voter]) \in Nat /\ RexStake(rexbalance'[voter]) \in Nat
      /\ \A a \in Account : /\ a # voter => rexbalance'[a] = rexbalance[a]
                            /\ rexbalance'[a] = Nil <=> rexbalance[a] = Nil
      /\ ShiftedTable(Restaked(voter), voter, shift)
  BY <1>2, RevaluedAlike
<1>5. shift \in Int
  BY <1>4
<1> HIDE DEF shift
<1> DEFINE table == Restaked(voter)
<1>6. /\ table \in VoterTable /\ (\A a \in Account : a # voter => table[a] = voters[a])
      /\ (table[voter] = Nil <=> voters[voter] = Nil)
      /\ StakedIn(table[voter]) = StakedIn(voters[voter]) + shift
      /\ Flags(table[voter]) = Flags(voters[voter])
  <2>1. ShiftedTable(table, voter, shift)
    BY <1>4
  <2> HIDE DEF table
  <2>2. QED
    BY <1>1, <1>5, <2>1, ShiftedIs
<1> HIDE DEF table
<1>7. /\ voters' \in VoterTable /\ (\A a \in Account : a # voter => voters'[a] = table[a])
      /\ voters'[voter] \in voter_info /\ voters'[voter].staked = table[voter].staked
      /\ voters'[voter].flags1 = table[voter].flags1
  <2>1. table[voter] \in voter_info /\ TRUE \in BOOLEAN
    BY <1>2, <1>6 DEF VoterTable
  <2>2. UpdateVotes(table, voter, prods, TRUE)
    BY <1>2 DEF table
  <2>3. QED
    BY <1>6, <2>1, <2>2, VotesRow
<1>8. /\ voters'[voter] # Nil /\ StakedIn(voters'[voter]) = StakedIn(voters[voter]) + shift
      /\ Flags(voters'[voter]) = Flags(voters[voter])
  BY <1>2, <1>6, <1>7, VotingFinite DEF StakedIn, Flags
<1>9. ASSUME NEW a \in Account
      PROVE  /\ StakedIn(voters'[a]) - StakedIn(voters[a])
                  = StakeOf(del_bandwidth', a) - StakeOf(del_bandwidth, a)
                      + RexStake(rexbalance'[a]) - RexStake(rexbalance[a])
             /\ voters'[a] = Nil => rexbalance'[a] = Nil
             /\ Totals(userres'[a]).net - Totals(userres[a]).net
                  = NetTo(del_bandwidth', a) - NetTo(del_bandwidth, a)
             /\ Totals(userres'[a]).cpu - Totals(userres[a]).cpu
                  = CpuTo(del_bandwidth', a) - CpuTo(del_bandwidth, a)
  <2> DEFINE s == StakedIn(voters[a])
             z == StakedIn(voters'[a])
             d == StakeOf(del_bandwidth, a)
             w == RexStake(rexbalance[a])
             x == RexStake(rexbalance'[a])
             n == NetTo(del_bandwidth, a)
             c == CpuTo(del_bandwidth, a)
             p == Totals(userres[a]).net
             q == Totals(userres[a]).cpu
  <2>1. s \in Int /\ d \in Int /\ n \in Int /\ c \in Int /\ w \in Int /\ x \in Int
    <3>1. voters[a] \in voter_info \cup {Nil}
      BY <1>1 DEF VoterTable
    <3>2. s \in Int
      BY <3>1, BaseIs
    <3>3. w \in Int /\ x \in Int
      BY <1>1, <1>4 DEF RexInv, RexStake, rex_balance, Alike, RexTable
    <3>4. QED
      BY <1>1, <3>2, <3>3, StakeNat
  <2>2. p \in Int /\ q \in Int
    <3>1. userres[a] \in user_resources \cup {Nil}
      BY <1>1 DEF TotalTable
    <3>2. QED
      BY <3>1 DEF Totals, user_resources, NoResources
  <2>3. p - p = n - n /\ q - q = c - c
    <3> HIDE DEF n, c, p, q
    <3>1. QED
      BY <2>1, <2>2
  <2>4. z - s = d - d + x - w
    <3>1. CASE a = voter
      <4>1. z = s + shift /\ shift = x - w
        BY <1>8, <3>1 DEF shift
      <4> HIDE DEF s, z, d, w, x
      <4>2. QED
        BY <2>1, <4>1
    <3>2. CASE a # voter
      <4>1. z = s /\ x = w
        BY <1>4, <1>6, <1>7, <3>2
      <4> HIDE DEF s, z, d, w, x
      <4>2. QED
        BY <2>1, <4>1
    <3>3. QED
      BY <3>1, <3>2
  <2>5. voters'[a] = Nil => rexbalance'[a] = Nil
    BY <1>1, <1>4, <1>6, <1>7, <1>8
  <2>6. QED
    BY <1>2, <2>3, <2>4, <2>5
<1>10. BooksInv'
  <2>1. userres' \in TotalTable /\ limits' \in LimitTable /\ del_bandwidth' \in DelTable
    BY <1>1, <1>2
  <2>2. UNCHANGED <<rexpool, rexOnlyVars, bidVars>> /\ accounts' = accounts
    BY <1>2
  <2>3. QED
    BY <1>3, <1>4, <1>7, <1>9, <2>1, <2>2, StakeKeeps
<1>11. RamInv'
  <2>1. \A a \in Account : Flags(voters'[a]) = Flags(voters[a])
    BY <1>6, <1>7, <1>8
  <2>2. QED
    BY <1>1, <1>2, <2>1, RamKept DEF rexOnlyVars
<1>12. QED
  BY <1>10, <1>11 DEF ContractInv

\* refund, by hand or by the deferred transaction
LEMMA RefundKept ==
  ASSUME ContractInv, NEW owner \in Account, Refund(owner) \/ DeferredRefund(owner),
         UNCHANGED <<rexOnlyVars, bidVars, ram>>
  PROVE  ContractInv'
<1>1. /\ HoldsInv /\ ClockInv /\ GoodTokens(accounts) /\ voters \in VoterTable
      /\ del_bandwidth \in DelTable
  BY ContractRex
<1>2. UNCHANGED <<votingVars, activated, del_bandwidth, resourceVars>>
  BY DEF Refund, DeferredRefund
<1>3. UNCHANGED <<now, voters, rexpool, rexbalance>>
  BY <1>2 DEF votingVars, rexVars
<1>4. CASE PayRefund(owner)
  <2> DEFINE q == Sum(refunds[owner])
  <2>1. refunds[owner] # Nil /\ TLOS!Transfer(STAKE_ACCOUNT, owner, q)
    BY <1>4 DEF PayRefund, CanRefund
  <2>2. refunds[owner] \in refund_request
    BY <1>1, <2>1 DEF HoldsInv, HeldBut, RefundTable
  <2>3. q \in Int
    BY <2>2 DEF Sum, refund_request
  <2> HIDE DEF q
  <2>4. \A h \in {REX_ACCOUNT, NAMES_ACCOUNT, RAM_ACCOUNT} : Bal(accounts', h) = Bal(accounts, h)
    BY <1>1, <2>1, <2>3, StakeSent
  <2>5. HoldsInv'
    <3>1. PICK m \in Int : m = taken[STAKE_ACCOUNT]
      BY <1>1, TakenNat DEF HoldsInv
    <3>2. HeldBut(m)
      BY <1>1, <3>1 DEF HoldsInv
    <3>3. HeldBut(m)'
      BY <1>1, <1>2, <1>4, <3>2, PayRefundHeld
    <3>4. taken' = taken
      BY DEF rexOnlyVars
    <3>5. QED
      BY <1>1, <3>1, <3>3, <3>4 DEF HoldsInv
  <2>6. QED
    <3>1. deferred' \in [Account -> Nat \cup {Nil}]
      BY <1>1 DEF Refund, DeferredRefund, ClockInv
    <3>2. cancelled' \subseteq Account
      BY <1>1, <1>4 DEF PayRefund, ClockInv
    <3>3. ClockInv'
      BY <1>1, <1>2, <1>3, <3>1, <3>2 DEF ClockInv
    <3>4. QED
      BY <1>1, <1>2, <1>3, <2>4, <2>5, <3>3, VotersKept
<1>5. CASE ~ PayRefund(owner)
  <2>1. UNCHANGED <<refunds, cancelled, tlosVars>>
    BY <1>5 DEF Refund, DeferredRefund
  <2>2. HoldsInv'
    BY <1>1, <1>2, <2>1, HoldsFrame
  <2>3. deferred' \in [Account -> Nat \cup {Nil}]
    BY <1>1 DEF Refund, DeferredRefund, ClockInv
  <2>4. ClockInv'
    BY <1>1, <1>2, <1>3, <2>1, <2>3 DEF ClockInv
  <2>5. accounts' = accounts
    BY <2>1 DEF tlosVars
  <2>6. QED
    BY <1>1, <1>2, <1>3, <2>2, <2>4, <2>5, VotersKept
<1>6. QED
  BY <1>4, <1>5

-----------------------------------------------------------------------------
(* Limits *)

\* Flags that are put into a voter's row.
LEMMA FlaggedRows ==
  ASSUME voters \in VoterTable, NEW a \in Account, NEW flags \in SUBSET flags1_fields,
         voters' = Flagged(a, flags)
  PROVE  /\ voters' \in VoterTable /\ voters'[a] # Nil /\ Flags(voters'[a]) = flags
         /\ \A b \in Account : /\ StakedIn(voters'[b]) = StakedIn(voters[b])
                               /\ b # a => voters'[b] = voters[b]
<1> DEFINE old == Base(voters[a])
           row == [old EXCEPT !.flags1 = flags]
<1>1. voters[a] \in voter_info \cup {Nil}
  BY DEF VoterTable
<1>2. old \in voter_info /\ old.staked = StakedIn(voters[a])
  BY <1>1, BaseIs
<1>3. voters' = [voters EXCEPT ![a] = row]
  BY DEF Flagged, Base
<1> HIDE DEF old
<1>4. row \in voter_info /\ row.staked = old.staked /\ row.flags1 = flags
  BY <1>2 DEF voter_info
<1> HIDE DEF row
<1>5. /\ voters' \in VoterTable /\ voters'[a] = row /\ row # Nil
      /\ \A b \in Account : b # a => voters'[b] = voters[b]
  BY <1>3, <1>4, VotingFinite DEF VoterTable
<1>6. StakedIn(row) = StakedIn(voters[a]) /\ Flags(row) = flags
  BY <1>2, <1>4, <1>5 DEF StakedIn, Flags
<1>7. ASSUME NEW b \in Account
      PROVE  StakedIn(voters'[b]) = StakedIn(voters[b])
  <2>1. CASE b = a
    BY <1>5, <1>6, <2>1
  <2>2. CASE b # a
    BY <1>5, <2>2
  <2>3. QED
    BY <2>1, <2>2
<1>8. QED
  BY <1>5, <1>6, <1>7

\* The limits of an account change; that of RAM is right unless it is managed.
LEMMA LimitsKept ==
  ASSUME ContractInv, NEW a \in Account, NEW new \in LimitSet, SetLimits(a, new),
         UNCHANGED <<rexOnlyVars, bidVars, ram>>, NEW flags \in SUBSET flags1_fields,
         \/ UNCHANGED voters /\ flags = Managed(a)
         \/ voters' = Flagged(a, flags),
         0 < Resources(a).ram_bytes /\ "ram_managed" \notin flags =>
           new.ram = Resources(a).ram_bytes + ram_gift_bytes
  PROVE  ContractInv'
<1>1. /\ HoldsInv /\ ClockInv /\ RamInv /\ voters \in VoterTable /\ limits \in LimitTable
  BY ContractRex
<1>2. /\ limits' = [limits EXCEPT ![a] = new]
      /\ UNCHANGED <<now, rexpool, rexbalance, activated, del_bandwidth, userres>>
      /\ UNCHANGED <<refunds, deferred, cancelled, tlosVars>>
  BY DEF SetLimits, rexVars, refundVars
<1>3. HoldsInv' /\ ClockInv'
  BY <1>1, <1>2, HoldsFrame DEF ClockInv
<1>4. /\ limits' \in LimitTable /\ limits'[a] = new
      /\ \A b \in Account : b # a => limits'[b] = limits[b]
  BY <1>1, <1>2 DEF LimitTable
<1>5. /\ voters' \in VoterTable /\ Flags(voters'[a]) = flags
      /\ \A b \in Account : /\ StakedIn(voters'[b]) = StakedIn(voters[b])
                            /\ b # a => voters'[b] = voters[b]
                            /\ voters'[b] = Nil => voters[b] = Nil
  <2>1. CASE UNCHANGED voters /\ flags = Managed(a)
    BY <1>1, <2>1 DEF Managed, Flags
  <2>2. CASE voters' = Flagged(a, flags)
    BY <1>1, <2>2, FlaggedRows
  <2>3. QED
    BY <2>1, <2>2
<1>6. Resources(a) = Totals(userres[a])
  BY DEF Resources, Totals
<1>7. ASSUME NEW b \in Account, 0 < Totals(userres[b]).ram_bytes, "ram_managed" \notin Flags(voters'[b])
      PROVE  limits'[b].ram = Totals(userres[b]).ram_bytes + ram_gift_bytes
  <2>1. CASE b = a
    BY <1>4, <1>5, <1>6, <1>7, <2>1
  <2>2. CASE b # a
    BY <1>1, <1>4, <1>5, <1>7, <2>2 DEF RamInv
  <2>3. QED
    BY <2>1, <2>2
<1>8. accounts' = accounts
  BY <1>2 DEF tlosVars
<1>9. QED
  BY <1>2, <1>3, <1>4, <1>5, <1>7, <1>8, QuietKeeps

\* The limits of an account, with one of them changed.
LEMMA OneLimit ==
  ASSUME NEW row \in LimitSet, NEW n \in Int
  PROVE  /\ [row EXCEPT !.ram = n] \in LimitSet /\ [row EXCEPT !.ram = n].ram = n
         /\ [row EXCEPT !.net = n] \in LimitSet /\ [row EXCEPT !.net = n].ram = row.ram
         /\ [row EXCEPT !.cpu = n] \in LimitSet /\ [row EXCEPT !.cpu = n].ram = row.ram
BY DEF LimitSet

\* What an account may use, and what it holds.
LEMMA HeldLimits ==
  ASSUME ContractInv, NEW a \in Account
  PROVE  /\ limits[a] \in LimitSet /\ Managed(a) \in SUBSET flags1_fields
         /\ Resources(a) \in user_resources
         /\ 0 < Resources(a).ram_bytes /\ "ram_managed" \notin Managed(a) =>
              limits[a].ram = Resources(a).ram_bytes + ram_gift_bytes
<1>1. /\ RamInv /\ voters[a] \in voter_info \cup {Nil} /\ limits[a] \in LimitSet
      /\ userres[a] \in user_resources \cup {Nil}
  BY ContractRex DEF VoterTable, LimitTable, TotalTable
<1>2. Resources(a) = Totals(userres[a]) /\ Managed(a) = Flags(voters[a])
  BY DEF Resources, Totals, Managed, Flags
<1>3. Resources(a) \in user_resources
  BY <1>1 DEF Resources, NoResources, user_resources
<1>4. Managed(a) \in SUBSET flags1_fields
  BY <1>1, <1>2, BaseIs
<1>5. QED
  BY <1>1, <1>2, <1>3, <1>4 DEF RamInv

\* setalimits; setacctnet, setacctcpu and setacctram, and what takes them back.
LEMMA LimitSteps ==
  ASSUME ContractInv, UNCHANGED <<rexOnlyVars, bidVars, ram>>, NEW a \in Account,
         \/ \E bytes, net, cpu \in Limits : SetALimits(a, bytes, net, cpu)
         \/ \E limit \in Limits : SetAcctNet(a, limit) \/ SetAcctCpu(a, limit) \/ SetAcctRam(a, limit)
         \/ UnsetAcctNet(a) \/ UnsetAcctCpu(a) \/ UnsetAcctRam(a)
  PROVE  ContractInv'
<1> DEFINE flags == Managed(a)
           held == Resources(a)
           old == limits[a]
<1>1. /\ old \in LimitSet /\ flags \in SUBSET flags1_fields /\ held \in user_resources
      /\ 0 < held.ram_bytes /\ "ram_managed" \notin flags =>
           old.ram = held.ram_bytes + ram_gift_bytes
  BY HeldLimits
<1>2. /\ held.net \in Int /\ held.cpu \in Int /\ held.ram_bytes + ram_gift_bytes \in Int
      /\ Limits \subseteq Int
  BY <1>1, BandwidthAssumption DEF user_resources
<1>3. \A flag \in flags1_fields : /\ flags \cup {flag} \in SUBSET flags1_fields
                                  /\ flags \ {flag} \in SUBSET flags1_fields
  BY <1>1
<1>4. "ram_managed" \in flags1_fields /\ "net_managed" \in flags1_fields /\ "cpu_managed" \in flags1_fields
  BY DEF flags1_fields
<1>5. ASSUME NEW bytes \in Limits, NEW net \in Limits, NEW cpu \in Limits, SetALimits(a, bytes, net, cpu)
      PROVE  ContractInv'
  <2> DEFINE new == [ram |-> bytes, net |-> net, cpu |-> cpu]
  <2>1. SetLimits(a, new) /\ UNCHANGED voters /\ userres[a] = Nil
    BY <1>5 DEF SetALimits
  <2>2. held.ram_bytes = 0
    BY <2>1 DEF Resources, NoResources
  <2>3. new \in LimitSet
    BY <1>2 DEF LimitSet
  <2> HIDE DEF new
  <2>4. QED
    BY <1>1, <2>1, <2>2, <2>3, LimitsKept
<1> HIDE DEF flags, held, old
<1>6. ASSUME NEW n \in Limits, SetAcctNet(a, n)
      PROVE  ContractInv'
  <2> DEFINE new == [old EXCEPT !.net = n]
             more == flags \cup {"net_managed"}
  <2>1. SetLimits(a, new) /\ voters' = Flagged(a, more)
    BY <1>6 DEF SetAcctNet, old, flags
  <2>2. new \in LimitSet /\ new.ram = old.ram /\ more \in SUBSET flags1_fields
    BY <1>1, <1>2, <1>3, <1>4, OneLimit
  <2>3. "ram_managed" \notin more => "ram_managed" \notin flags
    OBVIOUS
  <2> HIDE DEF new, more
  <2>4. 0 < Resources(a).ram_bytes /\ "ram_managed" \notin more =>
          new.ram = Resources(a).ram_bytes + ram_gift_bytes
    BY <1>1, <2>2, <2>3 DEF held
  <2>5. QED
    BY <2>1, <2>2, <2>4, LimitsKept
<1>7. ASSUME NEW n \in Limits, SetAcctCpu(a, n)
      PROVE  ContractInv'
  <2> DEFINE new == [old EXCEPT !.cpu = n]
             more == flags \cup {"cpu_managed"}
  <2>1. SetLimits(a, new) /\ voters' = Flagged(a, more)
    BY <1>7 DEF SetAcctCpu, old, flags
  <2>2. new \in LimitSet /\ new.ram = old.ram /\ more \in SUBSET flags1_fields
    BY <1>1, <1>2, <1>3, <1>4, OneLimit
  <2>3. "ram_managed" \notin more => "ram_managed" \notin flags
    OBVIOUS
  <2> HIDE DEF new, more
  <2>4. 0 < Resources(a).ram_bytes /\ "ram_managed" \notin more =>
          new.ram = Resources(a).ram_bytes + ram_gift_bytes
    BY <1>1, <2>2, <2>3 DEF held
  <2>5. QED
    BY <2>1, <2>2, <2>4, LimitsKept
<1>8. ASSUME NEW n \in Limits, SetAcctRam(a, n)
      PROVE  ContractInv'
  <2> DEFINE new == [old EXCEPT !.ram = n]
             more == flags \cup {"ram_managed"}
  <2>1. SetLimits(a, new) /\ voters' = Flagged(a, more)
    BY <1>8 DEF SetAcctRam, old, flags
  <2>2. new \in LimitSet /\ more \in SUBSET flags1_fields /\ "ram_managed" \in more
    BY <1>1, <1>2, <1>3, <1>4, OneLimit
  <2> HIDE DEF new, more
  <2>3. QED
    BY <2>1, <2>2, LimitsKept
<1>9. CASE UnsetAcctNet(a)
  <2> DEFINE n == held.net
             new == [old EXCEPT !.net = n]
  <2>1. SetLimits(a, new) /\ UNCHANGED voters
    BY <1>9 DEF UnsetAcctNet, old, held
  <2>2. n \in Int
    BY <1>2
  <2> HIDE DEF n
  <2>3. new \in LimitSet /\ new.ram = old.ram
    BY <1>1, <2>2, OneLimit
  <2> HIDE DEF new
  <2>4. /\ 0 < Resources(a).ram_bytes /\ "ram_managed" \notin flags =>
             new.ram = Resources(a).ram_bytes + ram_gift_bytes
        /\ flags = Managed(a)
    BY <1>1, <2>3 DEF held, flags
  <2>5. QED
    BY <1>1, <2>1, <2>3, <2>4, LimitsKept
<1>10. CASE UnsetAcctCpu(a)
  <2> DEFINE n == held.cpu
             new == [old EXCEPT !.cpu = n]
             fewer == flags \ {"cpu_managed"}
  <2>1. SetLimits(a, new) /\ voters' = Flagged(a, fewer)
    BY <1>10 DEF UnsetAcctCpu, ReleasedCpu, old, held, flags
  <2>2. n \in Int /\ fewer \in SUBSET flags1_fields
    BY <1>2, <1>3, <1>4
  <2>3. "ram_managed" \notin fewer => "ram_managed" \notin flags
    OBVIOUS
  <2> HIDE DEF n, fewer
  <2>4. new \in LimitSet /\ new.ram = old.ram
    BY <1>1, <2>2, OneLimit
  <2> HIDE DEF new
  <2>5. 0 < Resources(a).ram_bytes /\ "ram_managed" \notin fewer =>
          new.ram = Resources(a).ram_bytes + ram_gift_bytes
    BY <1>1, <2>3, <2>4 DEF held
  <2>6. QED
    BY <2>1, <2>2, <2>4, <2>5, LimitsKept
<1>11. CASE UnsetAcctRam(a)
  <2> DEFINE n == held.ram_bytes + ram_gift_bytes
             new == [old EXCEPT !.ram = n]
             fewer == flags \ {"ram_managed"}
  <2>1. SetLimits(a, new) /\ voters' = Flagged(a, fewer)
    BY <1>11 DEF UnsetAcctRam, ReleasedRam, old, held, flags
  <2>2. n \in Int /\ fewer \in SUBSET flags1_fields
    BY <1>2, <1>3, <1>4
  <2>3. new.ram = n /\ new \in LimitSet
    <3> HIDE DEF n
    <3>1. QED
      BY <1>1, <2>2, OneLimit
  <2> HIDE DEF new, fewer
  <2>4. new.ram = Resources(a).ram_bytes + ram_gift_bytes
    BY <2>3 DEF held
  <2>5. QED
    BY <2>1, <2>2, <2>3, <2>4, LimitsKept
<1>12. QED
  BY <1>5, <1>6, <1>7, <1>8, <1>9, <1>10, <1>11

\* Everything that is done with stake, votes and limits.
LEMMA NextKept ==
  ASSUME ContractInv, Next, UNCHANGED <<rexOnlyVars, bidVars, ram>>
  PROVE  ContractInv'
<1>1. CASE Tick \/ Activate
  BY <1>1, QuietSteps
<1>2. CASE VotingStep
  <2>1. UNCHANGED bandwidthVars
    BY <1>2 DEF VotingStep
  <2>2. CASE \E p \in Producer : RegProducer(p) \/ UnregProd(p) \/ \E h \in Penalties : VoteBpOut(p, h)
    BY <2>1, <2>2, QuietSteps
  <2>3. CASE \E a \in Account : RegProxy(a)
    BY <2>1, <2>3, RegProxyKept
  <2>4. CASE \E a \in Account : \E prods \in SUBSET Producer : VoteProducer(a, prods)
    BY <2>1, <2>4, VoteProducerKept
  <2>5. QED
    BY <1>2, <2>2, <2>3, <2>4 DEF VotingStep, VotingNext
<1>3. CASE StakeNext
  <2>1. PICK from, receiver \in Account, net, cpu \in Delta :
          \/ \E transfer \in BOOLEAN : DelegateBw(from, receiver, net, cpu, transfer)
          \/ UndelegateBw(from, receiver, net, cpu)
    BY <1>3 DEF StakeNext
  <2>2. net \in Nat /\ cpu \in Nat
    BY BandwidthAssumption
  <2>3. ASSUME NEW transfer \in BOOLEAN, DelegateBw(from, receiver, net, cpu, transfer)
        PROVE  ContractInv'
    BY <2>2, <2>3, DelegatedKeeps DEF DelegateBw
  <2>4. ASSUME UndelegateBw(from, receiver, net, cpu)
        PROVE  ContractInv'
    <3> DEFINE m == -net
               n == -cpu
    <3>1. net + cpu > 0
      BY <2>4 DEF UndelegateBw
    <3>2. m \in Int /\ n \in Int /\ m + n < 0 /\ FALSE \in BOOLEAN
      BY <2>2, <3>1
    <3>3. ChangeBw(from, receiver, m, n, FALSE)
      BY <2>4 DEF UndelegateBw
    <3> HIDE DEF m, n
    <3>4. QED
      BY <3>2, <3>3, DelegatedKeeps
  <2>5. QED
    BY <2>1, <2>3, <2>4
<1>4. CASE LimitsNext
  BY <1>4, LimitSteps DEF LimitsNext
<1>5. CASE \E a \in Account : Refund(a) \/ DeferredRefund(a)
  BY <1>5, RefundKept
<1>6. QED
  BY <1>1, <1>2, <1>3, <1>4, <1>5 DEF Next

-----------------------------------------------------------------------------
(* Names *)

BidTable == [NewName -> name_bid \cup {Nil}]
BackTable == [NewName -> [Account -> Nat \cup {Nil}]]

\* A bid replaces another.
LEMMA BidPut ==
  ASSUME NEW bs \in BidTable, NEW n \in NewName, NEW row \in name_bid \cup {Nil}
  PROVE  /\ [bs EXCEPT ![n] = row] \in BidTable
         /\ SumBids([bs EXCEPT ![n] = row]) = SumBids(bs) + BidIn(row) - BidIn(bs[n])
         /\ SumBids(bs) \in Nat /\ BidIn(row) \in Nat /\ BidIn(bs[n]) \in Nat
<1> DEFINE new == [bs EXCEPT ![n] = row]
           f == [m \in NewName |-> BidIn(bs[m])]
           g == [m \in NewName |-> BidIn(new[m])]
<1>1. new \in BidTable /\ new[n] = row /\ \A m \in NewName : m # n => new[m] = bs[m]
  BY DEF BidTable
<1>2. \A r \in name_bid \cup {Nil} : BidIn(r) \in Nat
  BY DEF BidIn, name_bid
<1>3. \A m \in NewName : f[m] \in Nat /\ g[m] \in Nat
  BY <1>1, <1>2 DEF BidTable
<1>4. \A m \in NewName \ {n} : g[m] = f[m]
  BY <1>1
<1>5. f[n] = BidIn(bs[n]) /\ g[n] = BidIn(row)
  BY <1>1
<1>6. IsFiniteSet(NewName)
  BY NameBidsAssumption
<1> HIDE DEF f, g
<1>7. SumFunctionOnSet(g, NewName) = SumFunctionOnSet(f, NewName) + g[n] - f[n]
  BY <1>3, <1>4, <1>6, SumChange
<1>8. SumFunctionOnSet(f, NewName) \in Nat
  BY <1>3, <1>6, SumNat
<1>9. BidIn(row) \in Nat /\ BidIn(bs[n]) \in Nat
  BY <1>2 DEF BidTable
<1>10. QED
  BY <1>1, <1>5, <1>7, <1>8, <1>9 DEF SumBids, f, g

\* One bidder's refund is put.
LEMMA BackPut ==
  ASSUME NEW refs \in BackTable, NEW n \in NewName, NEW a \in Account, NEW row \in Nat \cup {Nil}
  PROVE  /\ [refs EXCEPT ![n][a] = row] \in BackTable
         /\ SumRefunds([refs EXCEPT ![n][a] = row]) = SumRefunds(refs) + RefundIn(row) - RefundIn(refs[n][a])
         /\ SumRefunds(refs) \in Nat /\ RefundIn(row) \in Nat /\ RefundIn(refs[n][a]) \in Nat
<1> DEFINE rows == refs[n]
           changed == [rows EXCEPT ![a] = row]
           new == [refs EXCEPT ![n] = changed]
           f == [b \in Account |-> RefundIn(rows[b])]
           g == [b \in Account |-> RefundIn(changed[b])]
           h == [m \in NewName |-> RefundsOf(refs[m])]
           k == [m \in NewName |-> RefundsOf(new[m])]
<1>1. rows \in [Account -> Nat \cup {Nil}]
  BY DEF BackTable
<1>2. /\ changed \in [Account -> Nat \cup {Nil}] /\ changed[a] = row
      /\ \A b \in Account : b # a => changed[b] = rows[b]
  BY <1>1
<1>3. [refs EXCEPT ![n][a] = row] = new
  OBVIOUS
<1> HIDE DEF changed
<1>4. new \in BackTable /\ new[n] = changed /\ \A m \in NewName : m # n => new[m] = refs[m]
  BY <1>2 DEF BackTable
<1> HIDE DEF new
<1>5. \A r \in Nat \cup {Nil} : RefundIn(r) \in Nat
  BY DEF RefundIn
<1>6. \A b \in Account : f[b] \in Nat /\ g[b] \in Nat
  BY <1>1, <1>2, <1>5
<1>7. \A b \in Account \ {a} : g[b] = f[b]
  BY <1>2
<1>8. f[a] = RefundIn(rows[a]) /\ g[a] = RefundIn(row)
  BY <1>2
<1>9. RefundsOf(changed) = RefundsOf(rows) + RefundIn(row) - RefundIn(rows[a])
  <2> HIDE DEF f, g
  <2>1. SumFunctionOnSet(g, Account) = SumFunctionOnSet(f, Account) + g[a] - f[a]
    BY <1>6, <1>7, VotingFinite, SumChange
  <2>2. QED
    BY <1>8, <2>1 DEF RefundsOf, f, g
<1>10. \A rs \in [Account -> Nat \cup {Nil}] : RefundsOf(rs) \in Nat
  <2> TAKE rs \in [Account -> Nat \cup {Nil}]
  <2> DEFINE e == [b \in Account |-> RefundIn(rs[b])]
  <2>1. \A b \in Account : e[b] \in Nat
    BY <1>5
  <2> HIDE DEF e
  <2>2. SumFunctionOnSet(e, Account) \in Nat
    BY <2>1, VotingFinite, SumNat
  <2>3. QED
    BY <2>2 DEF RefundsOf, e
<1>11. \A m \in NewName : h[m] \in Nat /\ k[m] \in Nat
  BY <1>4, <1>10 DEF BackTable
<1>12. \A m \in NewName \ {n} : k[m] = h[m]
  BY <1>4
<1>13. h[n] = RefundsOf(rows) /\ k[n] = RefundsOf(changed)
  BY <1>4
<1>14. IsFiniteSet(NewName)
  BY NameBidsAssumption
<1> HIDE DEF h, k, rows
<1>15. SumFunctionOnSet(k, NewName) = SumFunctionOnSet(h, NewName) + k[n] - h[n]
  BY <1>11, <1>12, <1>14, SumChange
<1>16. SumFunctionOnSet(h, NewName) \in Nat
  BY <1>11, <1>14, SumNat
<1>17. RefundIn(row) \in Nat /\ RefundIn(rows[a]) \in Nat /\ RefundsOf(rows) \in Nat
  BY <1>1, <1>5, <1>10
<1>18. SumFunctionOnSet(k, NewName) = SumFunctionOnSet(h, NewName) + RefundIn(row) - RefundIn(rows[a])
  <2> DEFINE x == SumFunctionOnSet(h, NewName)
             y == RefundsOf(rows)
             z == RefundIn(row)
             w == RefundIn(rows[a])
  <2>1. SumFunctionOnSet(k, NewName) = x + (y + z - w) - y
    BY <1>9, <1>13, <1>15
  <2>2. x \in Nat /\ y \in Nat /\ z \in Nat /\ w \in Nat
    BY <1>16, <1>17
  <2> HIDE DEF x, y, z, w
  <2>3. x + (y + z - w) - y = x + z - w
    BY <2>2
  <2>4. QED
    BY <2>1, <2>3 DEF x, z, w
<1>19. SumRefunds(new) = SumRefunds(refs) + RefundIn(row) - RefundIn(rows[a]) /\ SumRefunds(refs) \in Nat
  BY <1>16, <1>18 DEF SumRefunds, h, k
<1> DEFINE put == [refs EXCEPT ![n][a] = row]
<1>20. put = new
  BY <1>3
<1> HIDE DEF put
<1>21. put \in BackTable /\ SumRefunds(put) = SumRefunds(refs) + RefundIn(row) - RefundIn(rows[a])
  BY <1>4, <1>19, <1>20
<1>22. QED
  BY <1>17, <1>19, <1>21 DEF put, rows

\* What is done about names keeps the books when eosio.names has what it owes.
LEMMA NamesKept ==
  ASSUME ContractInv,
         UNCHANGED <<now, voters, rexbalance, activated, del_bandwidth, resourceVars, refundVars,
                     rexfunds, rexorders, loans, loan_num, unweighed, taken, ram>>,
         rexpool' \in rex_pool \cup {Nil}, 0 <= PoolOf(rexpool').namebid_proceeds,
         \A field \in {"total_lent", "total_unlent", "total_rent", "total_lendable", "total_rex"} :
           PoolOf(rexpool')[field] = PoolOf(rexpool)[field],
         retained' \in Nat, TLOS!TypeOK',
         \A h \in {REX_ACCOUNT, STAKE_ACCOUNT, RAM_ACCOUNT} : Bal(accounts', h) = Bal(accounts, h),
         bids' \in BidTable, bid_refunds' \in BackTable,
         Bal(accounts', NAMES_ACCOUNT) - PoolOf(rexpool').namebid_proceeds - retained'
           + taken[NAMES_ACCOUNT] = SumRefunds(bid_refunds') + SumBids(bids')
  PROVE  ContractInv'
<1>1. /\ Good(Tables) /\ Debt(Tables) = 0 /\ Tables.pool = rexpool /\ Tables.balances = rexbalance
      /\ Tables.funds = rexfunds
      /\ Tables.orders = rexorders /\ Tables.loans = loans /\ Tables.totals = userres
      /\ Tables.limits = limits /\ Tables.tlos = accounts /\ Tables.retained = retained
  BY TablesAre
<1>2. /\ Tables'.pool = rexpool' /\ Tables'.balances = rexbalance /\ Tables'.funds = rexfunds
      /\ Tables'.orders = rexorders /\ Tables'.loans = loans /\ Tables'.totals = userres
      /\ Tables'.limits = limits /\ Tables'.tlos = accounts' /\ Tables'.retained = retained'
      /\ limits' = limits /\ userres' = userres
  BY DEF Tables, resourceVars
<1>3. /\ PoolOf(rexpool').total_lent = PoolOf(rexpool).total_lent
      /\ PoolOf(rexpool').total_unlent = PoolOf(rexpool).total_unlent
      /\ PoolOf(rexpool').total_rent = PoolOf(rexpool).total_rent
      /\ PoolOf(rexpool').total_lendable = PoolOf(rexpool).total_lendable
      /\ PoolOf(rexpool').total_rex = PoolOf(rexpool).total_rex
  OBVIOUS
<1>4. GoodPool(rexpool', rexbalance, loans)
  BY <1>1, <1>3 DEF Good, GoodPool
<1>5. GoodTokens(accounts)'
  BY DEF TLOS!TypeOK, TLOS!Owners, GoodTokens, TokenTable, TokenHolder
<1>6. Good(Tables)'
  BY <1>1, <1>2, <1>4, <1>5 DEF Good, GoodTotals
<1>7. Debt(Tables)' = 0
  BY <1>1, <1>2, <1>3 DEF Debt
<1>8. BidsInv'
  <2>1. Spare(Tables)' = Bal(accounts', NAMES_ACCOUNT) - PoolOf(rexpool').namebid_proceeds - retained'
    BY <1>2 DEF Spare
  <2>2. QED
    BY <2>1 DEF BidsInv, BidTable, BackTable
<1>9. BooksInv /\ WeightInv /\ HoldsInv /\ ClockInv /\ RamInv /\ loan_num \in Nat
  BY DEF ContractInv, BooksInv
<1>10. WeightInv'
  <2>1. ASSUME NEW a \in Account
        PROVE  /\ Weight(Tables, a)' = Weight(Tables, a)
               /\ Own(Tables, a, "net")' = Own(Tables, a, "net")
               /\ Own(Tables, a, "cpu")' = Own(Tables, a, "cpu")
    BY <1>1, <1>2 DEF Weight, Own
  <2>2. QED
    BY <1>9, <2>1 DEF WeightInv
<1>11. HoldsInv'
  <2>1. TLOS!Balance(STAKE_ACCOUNT)' = TLOS!Balance(STAKE_ACCOUNT)
    BY DEF TLOS!Balance, Bal
  <2>2. QED
    BY <1>9, <2>1 DEF HoldsInv, HeldBut, refundVars
<1>12. ClockInv'
  BY <1>9 DEF ClockInv, refundVars
<1>13. RamInv'
  BY <1>2, <1>9, RamKept
<1>14. QED
  BY <1>6, <1>7, <1>8, <1>9, <1>10, <1>11, <1>12, <1>13 DEF ContractInv, BooksInv

\* Tokens that go between a bidder and eosio.names.
LEMMA NamesSent ==
  ASSUME ContractInv, NEW from \in Account \cup {NAMES_ACCOUNT},
         NEW to \in Account \cup {NAMES_ACCOUNT}, NEW q \in Int, TLOS!Transfer(from, to, q)
  PROVE  /\ TLOS!TypeOK' /\ 0 < q /\ Bal(accounts, NAMES_ACCOUNT) \in Int
         /\ \A h \in {REX_ACCOUNT, STAKE_ACCOUNT, RAM_ACCOUNT} : Bal(accounts', h) = Bal(accounts, h)
         /\ to = NAMES_ACCOUNT => Bal(accounts', NAMES_ACCOUNT) = Bal(accounts, NAMES_ACCOUNT) + q
         /\ from = NAMES_ACCOUNT => Bal(accounts', NAMES_ACCOUNT) = Bal(accounts, NAMES_ACCOUNT) - q
<1>1. from \in TokenHolder /\ to \in TokenHolder /\ NAMES_ACCOUNT \in TokenHolder
  BY HoldersApart DEF SystemAccounts
<1>2. GoodTokens(accounts) /\ TLOS!TypeOK
  BY ContractRex DEF HoldsInv, HeldBut
<1>3. TLOS!TypeOK'
  BY <1>1, <1>2, TransferMoves
<1>4. /\ 0 < q
      /\ \A h \in TokenHolder : Bal(accounts', h) = Bal(accounts, h) - (IF h = from THEN q ELSE 0)
                                                    + (IF h = to THEN q ELSE 0)
  BY <1>1, <1>2, TransferIs
<1>5. \A h \in TokenHolder : Bal(accounts, h) \in Int
  BY <1>2 DEF GoodTokens, TokenTable, Bal
<1>6. ASSUME NEW h \in {REX_ACCOUNT, STAKE_ACCOUNT, RAM_ACCOUNT}
      PROVE  Bal(accounts', h) = Bal(accounts, h)
  <2>1. h \in SystemAccounts /\ h # NAMES_ACCOUNT
    BY HoldersApart DEF SystemAccounts
  <2>2. h \in TokenHolder /\ h # from /\ h # to
    BY <2>1, HoldersApart
  <2>3. Bal(accounts', h) = Bal(accounts, h) - 0 + 0
    BY <1>4, <2>2
  <2>4. QED
    BY <1>5, <2>2, <2>3
<1>7. from # to
  BY DEF TLOS!Transfer
<1>8. ASSUME to = NAMES_ACCOUNT
      PROVE  Bal(accounts', NAMES_ACCOUNT) = Bal(accounts, NAMES_ACCOUNT) + q
  <2>1. Bal(accounts', NAMES_ACCOUNT) = Bal(accounts, NAMES_ACCOUNT) - 0 + q
    BY <1>1, <1>4, <1>7, <1>8
  <2>2. QED
    BY <1>1, <1>5, <2>1
<1>9. ASSUME from = NAMES_ACCOUNT
      PROVE  Bal(accounts', NAMES_ACCOUNT) = Bal(accounts, NAMES_ACCOUNT) - q
  <2>1. Bal(accounts', NAMES_ACCOUNT) = Bal(accounts, NAMES_ACCOUNT) - q + 0
    BY <1>1, <1>4, <1>7, <1>9
  <2>2. QED
    BY <1>1, <1>5, <2>1
<1>10. QED
  BY <1>1, <1>3, <1>4, <1>5, <1>6, <1>8, <1>9

\* What the books say of names.
LEMMA NamesAre ==
  ASSUME ContractInv
  PROVE  /\ bids \in BidTable /\ bid_refunds \in BackTable /\ rexpool \in rex_pool \cup {Nil}
         /\ PoolOf(rexpool).namebid_proceeds \in Nat /\ retained \in Nat
         /\ Bal(accounts, NAMES_ACCOUNT) \in Int /\ taken[NAMES_ACCOUNT] \in Nat
         /\ SumRefunds(bid_refunds) \in Nat /\ SumBids(bids) \in Nat
         /\ Bal(accounts, NAMES_ACCOUNT) - PoolOf(rexpool).namebid_proceeds - retained
              + taken[NAMES_ACCOUNT] = SumRefunds(bid_refunds) + SumBids(bids)
<1>1. /\ Good(Tables) /\ Tables.pool = rexpool /\ Tables.tlos = accounts /\ Tables.retained = retained
  BY TablesAre
<1>2. /\ bids \in BidTable /\ bid_refunds \in BackTable
      /\ Spare(Tables) + taken[NAMES_ACCOUNT] = SumRefunds(bid_refunds) + SumBids(bids)
      /\ taken[NAMES_ACCOUNT] \in Nat
  BY TakenNat DEF ContractInv, BooksInv, BidsInv, BidTable, BackTable, HoldsInv
<1>3. /\ GoodPool(rexpool, Tables.balances, Tables.loans) /\ GoodTokens(accounts) /\ retained \in Nat
  BY <1>1 DEF Good
<1>4. rexpool \in rex_pool \cup {Nil} /\ PoolOf(rexpool).namebid_proceeds \in Nat
  <2>1. rexpool \in rex_pool \cup {Nil} /\ 0 <= PoolOf(rexpool).namebid_proceeds
    BY <1>3 DEF GoodPool
  <2>2. QED
    BY <2>1, PoolNumbers
<1>5. Bal(accounts, NAMES_ACCOUNT) \in Int
  <2>1. NAMES_ACCOUNT \in TokenHolder
    BY HoldersApart DEF SystemAccounts
  <2>2. QED
    BY <1>3, <2>1 DEF GoodTokens, TokenTable, Bal
<1>6. SumRefunds(bid_refunds) \in Nat
  <2> DEFINE h == [m \in NewName |-> RefundsOf(bid_refunds[m])]
  <2>1. ASSUME NEW m \in NewName
        PROVE  h[m] \in Nat
    <3> DEFINE e == [b \in Account |-> RefundIn(bid_refunds[m][b])]
    <3>1. \A b \in Account : e[b] \in Nat
      BY <1>2 DEF RefundIn, BackTable
    <3> HIDE DEF e
    <3>2. SumFunctionOnSet(e, Account) \in Nat
      BY <3>1, VotingFinite, SumNat
    <3>3. QED
      BY <3>2 DEF RefundsOf, e
  <2> HIDE DEF h
  <2>2. SumFunctionOnSet(h, NewName) \in Nat
    BY <2>1, NameBidsAssumption, SumNat
  <2>3. QED
    BY <2>2 DEF SumRefunds, h
<1>7. SumBids(bids) \in Nat
  <2> DEFINE h == [m \in NewName |-> BidIn(bids[m])]
  <2>1. \A m \in NewName : h[m] \in Nat
    BY <1>2 DEF BidTable, BidIn, name_bid
  <2> HIDE DEF h
  <2>2. SumFunctionOnSet(h, NewName) \in Nat
    BY <2>1, NameBidsAssumption, SumNat
  <2>3. QED
    BY <2>2 DEF SumBids, h
<1>8. QED
  BY <1>1, <1>2, <1>3, <1>4, <1>5, <1>6, <1>7 DEF Spare

\* Bids and refunds change by what eosio.names gets.
LEMMA NamesPaid ==
  ASSUME ContractInv, StakeKept, UNCHANGED ram, TLOS!TypeOK',
         \A h \in {REX_ACCOUNT, STAKE_ACCOUNT, RAM_ACCOUNT} : Bal(accounts', h) = Bal(accounts, h),
         bids' \in BidTable, bid_refunds' \in BackTable, NEW i \in Int, NEW j \in Int,
         SumRefunds(bid_refunds') = SumRefunds(bid_refunds) + i,
         SumBids(bids') = SumBids(bids) + j,
         Bal(accounts', NAMES_ACCOUNT) = Bal(accounts, NAMES_ACCOUNT) + i + j
  PROVE  ContractInv'
<1>1. UNCHANGED <<now, voters, rexpool, rexbalance, activated, del_bandwidth, resourceVars, refundVars,
                  rexfunds, rexorders, loans, loan_num, unweighed, taken, retained>>
  BY DEF StakeKept, votingVars, rexVars, rexOnlyVars
<1> DEFINE p == PoolOf(rexpool).namebid_proceeds
           r == SumRefunds(bid_refunds)
           b == SumBids(bids)
           n == Bal(accounts, NAMES_ACCOUNT)
           m == taken[NAMES_ACCOUNT]
<1>2. /\ rexpool \in rex_pool \cup {Nil} /\ p \in Nat /\ retained \in Nat
      /\ n \in Int /\ r \in Nat /\ b \in Nat /\ m \in Nat /\ n - p - retained + m = r + b
  BY NamesAre
<1>3. (n + i + j) - p - retained + m = r + i + (b + j)
  <2> HIDE DEF p, r, b, n, m
  <2>1. QED
    BY <1>2
<1>4. Bal(accounts', NAMES_ACCOUNT) - PoolOf(rexpool').namebid_proceeds - retained' + m
        = SumRefunds(bid_refunds') + SumBids(bids')
  <2>1. PoolOf(rexpool').namebid_proceeds = p /\ retained' = retained
    BY <1>1 DEF p
  <2>2. Bal(accounts', NAMES_ACCOUNT) = n + i + j
    BY DEF n
  <2>3. SumRefunds(bid_refunds') = r + i
    BY DEF r
  <2>4. SumBids(bids') = b + j
    BY DEF b
  <2> HIDE DEF p, r, b, n
  <2>5. Bal(accounts', NAMES_ACCOUNT) - PoolOf(rexpool').namebid_proceeds - retained' + m
          = (n + i + j) - p - retained + m
    BY <2>1, <2>2, Zenon
  <2>6. SumRefunds(bid_refunds') + SumBids(bids') = r + i + (b + j)
    BY <2>3, <2>4, Zenon
  <2>7. QED
    BY <1>3, <2>5, <2>6, Zenon
<1>5. /\ rexpool' \in rex_pool \cup {Nil} /\ 0 <= PoolOf(rexpool').namebid_proceeds /\ retained' \in Nat
      /\ \A field \in {"total_lent", "total_unlent", "total_rent", "total_lendable", "total_rex"} :
           PoolOf(rexpool')[field] = PoolOf(rexpool)[field]
  BY <1>1, <1>2
<1> HIDE DEF p, r, b, n
<1>6. QED
  BY <1>1, <1>4, <1>5, NamesKept

\* bidname
LEMMA BidNameKeeps ==
  ASSUME ContractInv, NEW bidder \in Account, NEW newname \in NewName, NEW bid \in Nat,
         BidName(bidder, newname, bid), UNCHANGED ram
  PROVE  ContractInv'
<1> DEFINE current == bids[newname]
           row == [high_bidder |-> bidder, high_bid |-> bid, last_bid_time |-> now]
<1>1. /\ TLOS!Transfer(bidder, NAMES_ACCOUNT, bid) /\ StakeKept
      /\ bids' = [bids EXCEPT ![newname] = row]
      /\ \/ current = Nil /\ UNCHANGED <<bid_refunds, bid_deferred>>
         \/ /\ current # Nil /\ current.high_bid > 0
            /\ Outbid(newname, current.high_bidder, current.high_bid)
  BY DEF BidName
<1>2. /\ bids \in BidTable /\ bid_refunds \in BackTable /\ now \in Time
      /\ SumRefunds(bid_refunds) \in Nat /\ SumBids(bids) \in Nat
  BY NamesAre, ContractRex DEF ClockInv
<1>3. /\ TLOS!TypeOK' /\ 0 < bid /\ Bal(accounts, NAMES_ACCOUNT) \in Int
      /\ \A h \in {REX_ACCOUNT, STAKE_ACCOUNT, RAM_ACCOUNT} : Bal(accounts', h) = Bal(accounts, h)
      /\ Bal(accounts', NAMES_ACCOUNT) = Bal(accounts, NAMES_ACCOUNT) + bid
  BY <1>1, NamesSent
<1>4. row \in name_bid /\ BidIn(row) = bid
  BY <1>2, <1>3, NameBidsAssumption DEF name_bid, BidIn
<1>5. current \in name_bid \cup {Nil}
  BY <1>2 DEF BidTable
<1> HIDE DEF row
<1>6. /\ bids' \in BidTable /\ SumBids(bids') = SumBids(bids) + bid - BidIn(current)
      /\ BidIn(current) \in Nat
  <2>1. row \in name_bid \cup {Nil}
    BY <1>4
  <2>2. QED
    BY <1>1, <1>2, <1>4, <2>1, BidPut
<1>7. /\ bid_refunds' \in BackTable
      /\ SumRefunds(bid_refunds') = SumRefunds(bid_refunds) + BidIn(current)
  <2>1. CASE current = Nil /\ UNCHANGED <<bid_refunds, bid_deferred>>
    BY <1>2, <2>1 DEF BidIn
  <2>2. CASE /\ current # Nil /\ current.high_bid > 0
             /\ Outbid(newname, current.high_bidder, current.high_bid)
    <3> DEFINE a == current.high_bidder
               old == bid_refunds[newname][a]
               new == RefundOf(old, current.high_bid)
    <3>1. a \in Account /\ current.high_bid \in Nat /\ BidIn(current) = current.high_bid
      BY <1>5, <2>2 DEF name_bid, BidIn
    <3>2. old \in Nat \cup {Nil}
      BY <1>2, <3>1 DEF BackTable
    <3>3. new \in Nat \cup {Nil} /\ RefundIn(new) = RefundIn(old) + current.high_bid /\ RefundIn(old) \in Nat
      BY <3>1, <3>2, NoRow DEF RefundOf, RefundIn
    <3>4. bid_refunds' = [bid_refunds EXCEPT ![newname][a] = new]
      BY <1>2, <2>2, <3>1 DEF Outbid, BackTable
    <3> HIDE DEF new, a
    <3>5. /\ bid_refunds' \in BackTable
          /\ SumRefunds(bid_refunds') = SumRefunds(bid_refunds) + RefundIn(new) - RefundIn(old)
      BY <1>2, <3>1, <3>3, <3>4, BackPut DEF a
    <3> HIDE DEF old, current
    <3>6. SumRefunds(bid_refunds') = SumRefunds(bid_refunds) + BidIn(current)
      BY <1>2, <3>1, <3>3, <3>5
    <3>7. QED
      BY <3>5, <3>6
  <2>3. QED
    BY <1>1, <2>1, <2>2
<1> DEFINE i == BidIn(current)
           j == bid - i
<1>8. /\ i \in Int /\ j \in Int
      /\ SumRefunds(bid_refunds') = SumRefunds(bid_refunds) + i
      /\ SumBids(bids') = SumBids(bids) + j
      /\ Bal(accounts', NAMES_ACCOUNT) = Bal(accounts, NAMES_ACCOUNT) + i + j
  <2> HIDE DEF current
  <2>1. QED
    BY <1>2, <1>3, <1>6, <1>7
<1> HIDE DEF i, j
<1>9. QED
  BY <1>1, <1>3, <1>6, <1>7, <1>8, NamesPaid

\* bidrefund, by hand or by the deferred transaction
LEMMA PayBackKeeps ==
  ASSUME ContractInv, NEW bidder \in Account, NEW newname \in NewName,
         BidRefund(bidder, newname) \/ DeferredBidRefund(bidder, newname), UNCHANGED ram
  PROVE  ContractInv'
<1>1. StakeKept /\ bids' = bids
  BY DEF BidRefund, DeferredBidRefund, PayBack
<1>2. /\ bids \in BidTable /\ bid_refunds \in BackTable
      /\ SumRefunds(bid_refunds) \in Nat /\ SumBids(bids) \in Nat /\ Bal(accounts, NAMES_ACCOUNT) \in Int
  BY NamesAre
<1>3. CASE PayBack(bidder, newname)
  <2> DEFINE q == bid_refunds[newname][bidder]
  <2>1. /\ q # Nil /\ TLOS!Transfer(NAMES_ACCOUNT, bidder, q)
        /\ bid_refunds' = [bid_refunds EXCEPT ![newname][bidder] = Nil]
    BY <1>3 DEF PayBack
  <2>2. q \in Nat /\ RefundIn(q) = q /\ RefundIn(Nil) = 0 /\ Nil \in Nat \cup {Nil}
    BY <1>2, <2>1 DEF BackTable, RefundIn
  <2>3. /\ bid_refunds' \in BackTable
        /\ SumRefunds(bid_refunds') = SumRefunds(bid_refunds) + RefundIn(Nil) - RefundIn(q)
    BY <1>2, <2>1, <2>2, BackPut
  <2> HIDE DEF q
  <2>4. /\ TLOS!TypeOK'
        /\ \A h \in {REX_ACCOUNT, STAKE_ACCOUNT, RAM_ACCOUNT} : Bal(accounts', h) = Bal(accounts, h)
        /\ Bal(accounts', NAMES_ACCOUNT) = Bal(accounts, NAMES_ACCOUNT) - q
    BY <2>1, <2>2, NamesSent
  <2> DEFINE i == -q
             j == 0
  <2>5. /\ i \in Int /\ j \in Int
        /\ SumRefunds(bid_refunds') = SumRefunds(bid_refunds) + i
        /\ SumBids(bids') = SumBids(bids) + j
        /\ Bal(accounts', NAMES_ACCOUNT) = Bal(accounts, NAMES_ACCOUNT) + i + j
    BY <1>1, <1>2, <2>2, <2>3, <2>4
  <2> HIDE DEF i, j
  <2>6. bids' \in BidTable
    BY <1>1, <1>2
  <2>7. QED
    BY <1>1, <2>3, <2>4, <2>5, <2>6, NamesPaid
<1>4. CASE ~ PayBack(bidder, newname)
  <2>1. UNCHANGED <<tlosVars, bid_refunds>>
    BY <1>4 DEF BidRefund, DeferredBidRefund
  <2>2. accounts' = accounts /\ stat' = stat
    BY <2>1 DEF tlosVars
  <2>3. TLOS!TypeOK'
    BY <2>2, ContractRex DEF HoldsInv, HeldBut, TLOS!TypeOK, TLOS!Owners
  <2> DEFINE i == 0
  <2>4. /\ i \in Int
        /\ SumRefunds(bid_refunds') = SumRefunds(bid_refunds) + i
        /\ SumBids(bids') = SumBids(bids) + i
        /\ Bal(accounts', NAMES_ACCOUNT) = Bal(accounts, NAMES_ACCOUNT) + i + i
    BY <1>1, <1>2, <2>1, <2>2
  <2> HIDE DEF i
  <2>5. bids' \in BidTable /\ bid_refunds' \in BackTable
    BY <1>1, <1>2, <2>1
  <2>6. QED
    BY <1>1, <2>2, <2>3, <2>4, <2>5, NamesPaid
<1>5. QED
  BY <1>3, <1>4

\* newaccount by who has won the name
LEMMA NewAccountKeeps ==
  ASSUME ContractInv, NEW creator \in Account, NEW newname \in NewName, NewAccount(creator, newname),
         UNCHANGED ram
  PROVE  ContractInv'
<1>1. /\ StakeKept /\ UNCHANGED <<tlosVars, bid_refunds>>
      /\ bids[newname] # Nil /\ bids[newname].high_bid < 0 /\ bids' = [bids EXCEPT ![newname] = Nil]
  BY DEF NewAccount
<1>2. /\ bids \in BidTable /\ bid_refunds \in BackTable
      /\ SumRefunds(bid_refunds) \in Nat /\ SumBids(bids) \in Nat /\ Bal(accounts, NAMES_ACCOUNT) \in Int
  BY NamesAre
<1>3. BidIn(bids[newname]) = 0 /\ BidIn(Nil) = 0 /\ Nil \in name_bid \cup {Nil}
  <2>1. bids[newname] \in name_bid
    BY <1>1, <1>2 DEF BidTable
  <2>2. QED
    BY <1>1, <2>1 DEF BidIn, name_bid
<1>4. bids' \in BidTable /\ SumBids(bids') = SumBids(bids) + BidIn(Nil) - BidIn(bids[newname])
  BY <1>1, <1>2, <1>3, BidPut
<1>5. accounts' = accounts /\ stat' = stat
  BY <1>1 DEF tlosVars
<1>6. TLOS!TypeOK'
  BY <1>5, ContractRex DEF HoldsInv, HeldBut, TLOS!TypeOK, TLOS!Owners
<1> DEFINE i == 0
<1>7. /\ i \in Int
      /\ SumRefunds(bid_refunds') = SumRefunds(bid_refunds) + i
      /\ SumBids(bids') = SumBids(bids) + i
      /\ Bal(accounts', NAMES_ACCOUNT) = Bal(accounts, NAMES_ACCOUNT) + i + i
  BY <1>1, <1>2, <1>3, <1>4, <1>5
<1> HIDE DEF i
<1>8. bid_refunds' \in BackTable
  BY <1>1, <1>2
<1>9. QED
  BY <1>1, <1>4, <1>5, <1>6, <1>7, <1>8, NamesPaid

\* The auction of a day is closed: its bid goes to the pool, or is kept back.
LEMMA CloseNameKeeps ==
  ASSUME ContractInv, NEW newname \in NewName, CloseName(newname), UNCHANGED ram
  PROVE  ContractInv'
<1> DEFINE row == bids[newname]
           high == row.high_bid
           new == [row EXCEPT !.high_bid = -high]
<1>1. /\ newname \in OpenBids
      /\ bids' = [bids EXCEPT ![newname].high_bid = -@]
      /\ rexpool' = IF rex_available(rexpool)
                    THEN [rexpool EXCEPT !.namebid_proceeds = @ + high] ELSE rexpool
      /\ retained' = IF rex_available(rexpool) THEN retained ELSE retained + high
      /\ UNCHANGED <<now, voters, rexbalance, activated, del_bandwidth, resourceVars, refundVars,
                     rexfunds, rexorders, loans, loan_num, unweighed, taken, stat, accounts, bid_refunds>>
  BY DEF CloseName, tlosVars
<1>2. /\ bids \in BidTable /\ bid_refunds \in BackTable /\ rexpool \in rex_pool \cup {Nil}
      /\ PoolOf(rexpool).namebid_proceeds \in Nat /\ retained \in Nat
      /\ SumRefunds(bid_refunds) \in Nat /\ SumBids(bids) \in Nat /\ Bal(accounts, NAMES_ACCOUNT) \in Int
      /\ taken[NAMES_ACCOUNT] \in Nat
      /\ Bal(accounts, NAMES_ACCOUNT) - PoolOf(rexpool).namebid_proceeds - retained
           + taken[NAMES_ACCOUNT] = SumRefunds(bid_refunds) + SumBids(bids)
  BY NamesAre
<1>3. row # Nil /\ row \in name_bid /\ high > 0 /\ high \in Nat /\ BidIn(row) = high
  BY <1>1, <1>2 DEF OpenBids, BidTable, name_bid, BidIn
<1>4. new \in name_bid /\ new.high_bid = -high
  BY <1>3 DEF name_bid
<1>5. bids' = [bids EXCEPT ![newname] = new]
  BY <1>1, <1>2, <1>3 DEF BidTable
<1>6. BidIn(new) = 0 /\ new \in name_bid \cup {Nil}
  BY <1>3, <1>4, NameBidsAssumption DEF BidIn
<1> HIDE DEF new
<1>7. bids' \in BidTable /\ SumBids(bids') = SumBids(bids) + BidIn(new) - BidIn(row)
  BY <1>2, <1>5, <1>6, BidPut
<1>8. SumBids(bids') = SumBids(bids) - high
  BY <1>2, <1>3, <1>6, <1>7
<1> HIDE DEF row, high
<1>9. /\ rexpool' \in rex_pool \cup {Nil}
      /\ \A field \in {"total_lent", "total_unlent", "total_rent", "total_lendable", "total_rex"} :
           PoolOf(rexpool')[field] = PoolOf(rexpool)[field]
      /\ PoolOf(rexpool').namebid_proceeds \in Nat /\ retained' \in Nat
      /\ PoolOf(rexpool').namebid_proceeds + retained' = PoolOf(rexpool).namebid_proceeds + retained + high
  <2>1. CASE rex_available(rexpool)
    <3> DEFINE more == rexpool.namebid_proceeds + high
               pool == [rexpool EXCEPT !.namebid_proceeds = more]
    <3>1. rexpool # Nil /\ rexpool \in rex_pool /\ PoolOf(rexpool) = rexpool
      BY <1>2, <2>1 DEF rex_available, PoolOf
    <3>2. more \in Nat
      BY <1>2, <1>3, <3>1
    <3>3. rexpool' = pool /\ retained' = retained
      BY <1>1, <2>1
    <3>4. /\ pool \in rex_pool /\ pool.namebid_proceeds = more
          /\ \A field \in {"total_lent", "total_unlent", "total_rent", "total_lendable", "total_rex"} :
               pool[field] = rexpool[field]
      <4> HIDE DEF more
      <4>1. QED
        BY <3>1, <3>2 DEF rex_pool
    <3> HIDE DEF pool
    <3>5. PoolOf(rexpool') = pool
      BY <3>3, <3>4, NoRow DEF PoolOf
    <3>6. PoolOf(rexpool').namebid_proceeds + retained' = PoolOf(rexpool).namebid_proceeds + retained + high
      BY <1>2, <1>3, <3>1, <3>3, <3>4, <3>5
    <3>7. QED
      BY <1>2, <3>1, <3>2, <3>3, <3>4, <3>5, <3>6
  <2>2. CASE ~ rex_available(rexpool)
    <3>1. rexpool' = rexpool /\ retained' = retained + high
      BY <1>1, <2>2
    <3>2. QED
      BY <1>2, <1>3, <3>1
  <2>3. QED
    BY <2>1, <2>2
<1>10. Bal(accounts', NAMES_ACCOUNT) - PoolOf(rexpool').namebid_proceeds - retained'
         + taken[NAMES_ACCOUNT] = SumRefunds(bid_refunds') + SumBids(bids')
  <2> DEFINE n == Bal(accounts, NAMES_ACCOUNT)
             p == PoolOf(rexpool).namebid_proceeds
             q == PoolOf(rexpool').namebid_proceeds
             t == retained'
             r == SumRefunds(bid_refunds)
             b == SumBids(bids)
             m == taken[NAMES_ACCOUNT]
  <2>1. /\ n \in Int /\ p \in Nat /\ q \in Nat /\ t \in Nat /\ r \in Nat /\ b \in Nat /\ m \in Nat
        /\ n - p - retained + m = r + b /\ q + t = p + retained + high /\ SumBids(bids') = b - high
        /\ high \in Nat /\ retained \in Nat
    BY <1>2, <1>3, <1>8, <1>9
  <2>2. n - q - t + m = r + (b - high)
    <3> HIDE DEF n, p, q, t, r, b, m
    <3>1. QED
      BY <2>1
  <2>3. QED
    BY <1>1, <2>1, <2>2
<1>11. TLOS!TypeOK'
  BY <1>1, ContractRex DEF HoldsInv, HeldBut, TLOS!TypeOK, TLOS!Owners
<1>12. bid_refunds' \in BackTable /\ 0 <= PoolOf(rexpool').namebid_proceeds
  BY <1>1, <1>2, <1>9
<1>13. QED
  BY <1>1, <1>7, <1>9, <1>10, <1>11, <1>12, NamesKept

\* All that is done about names.
LEMMA BidsKeep ==
  ASSUME ContractInv, BidsNext, UNCHANGED ram
  PROVE  ContractInv'
<1>1. Amount \subseteq Nat
  BY RexAssumption
<1>2. PICK a \in Account, n \in NewName :
        \/ \E bid \in Amount : BidName(a, n, bid)
        \/ BidRefund(a, n) \/ DeferredBidRefund(a, n) \/ CloseName(n) \/ NewAccount(a, n)
  BY Zenon DEF BidsNext
<1>3. ASSUME NEW bid \in Amount, BidName(a, n, bid)
      PROVE  ContractInv'
  BY <1>1, <1>3, BidNameKeeps
<1>4. CASE BidRefund(a, n) \/ DeferredBidRefund(a, n)
  BY <1>4, PayBackKeeps
<1>5. CASE CloseName(n)
  BY <1>5, CloseNameKeeps
<1>6. CASE NewAccount(a, n)
  BY <1>6, NewAccountKeeps
<1>7. QED
  BY <1>2, <1>3, <1>4, <1>5, <1>6

-----------------------------------------------------------------------------
(* RAM *)

\* The limit of RAM that follows a row of resources.
HeldRam(t, a, row) == IF "ram_managed" \in Managed(a) THEN t.limits[a].ram
                      ELSE row.ram_bytes + ram_gift_bytes
HeldLimit(t, a, row) == [t.limits[a] EXCEPT !.ram = HeldRam(t, a, row)]

\* Both are put.
LEMMA HeldIs ==
  ASSUME NEW t, Shape(t), NEW a, NEW row
  PROVE  LET u == Held(t, a, row)
         IN /\ Shape(u) /\ u.totals = [t.totals EXCEPT ![a] = row]
            /\ u.limits = [t.limits EXCEPT ![a] = HeldLimit(t, a, row)]
            /\ u.pool = t.pool /\ u.balances = t.balances /\ u.funds = t.funds
            /\ u.orders = t.orders /\ u.loans = t.loans /\ u.tlos = t.tlos
            /\ u.retained = t.retained /\ u.ok = t.ok
BY DEF Held, Shape, HeldLimit, HeldRam

\* It is the same but for its RAM, so that the stake in it stays.
LEMMA HeldKeeps ==
  ASSUME NEW t, Shape(t), Good(t), NEW a \in Account, NEW row \in user_resources,
         row.net = Totals(t.totals[a]).net, row.cpu = Totals(t.totals[a]).cpu
  PROVE  LET u == Held(t, a, row)
         IN /\ Shape(u) /\ Good(u) /\ Debt(u) = Debt(t) /\ Spare(u) = Spare(t)
            /\ (Alive(u) <=> Alive(t)) /\ u.tlos = t.tlos
            /\ u.balances = t.balances /\ u.orders = t.orders /\ u.loans = t.loans
            /\ Totals(u.totals[a]) = row
            /\ u.limits[a].ram = IF "ram_managed" \in Managed(a) THEN t.limits[a].ram
                                 ELSE row.ram_bytes + ram_gift_bytes
            /\ \A b \in Account : /\ b # a => u.totals[b] = t.totals[b] /\ u.limits[b] = t.limits[b]
                                  /\ Totals(u.totals[b]).net = Totals(t.totals[b]).net
                                  /\ Totals(u.totals[b]).cpu = Totals(t.totals[b]).cpu
<1> DEFINE u == Held(t, a, row)
           ram_limit == HeldRam(t, a, row)
           limit == HeldLimit(t, a, row)
<1>1. /\ Shape(u) /\ u.totals = [t.totals EXCEPT ![a] = row]
      /\ u.limits = [t.limits EXCEPT ![a] = limit]
      /\ u.pool = t.pool /\ u.balances = t.balances /\ u.funds = t.funds
      /\ u.orders = t.orders /\ u.loans = t.loans /\ u.tlos = t.tlos
      /\ u.retained = t.retained /\ u.ok = t.ok
  BY HeldIs
<1> HIDE DEF u
<1>2. /\ t.totals \in TotalTable /\ t.limits \in LimitTable /\ limits \in LimitTable
      /\ t.limits[a] \in LimitSet
  BY DEF Good, GoodTotals, LimitTable
<1>3. ram_limit \in Int
  BY <1>2, BandwidthAssumption DEF LimitSet, user_resources, HeldRam
<1> HIDE DEF ram_limit
<1>4. limit \in LimitSet /\ limit.ram = ram_limit
  BY <1>2, <1>3 DEF LimitSet, HeldLimit, ram_limit
<1> HIDE DEF limit
<1>5. u.totals \in TotalTable /\ u.limits \in LimitTable
  BY <1>1, <1>2, <1>4 DEF TotalTable, LimitTable
<1>6. /\ u.totals[a] = row /\ u.limits[a] = limit
      /\ \A b \in Account : b # a => u.totals[b] = t.totals[b] /\ u.limits[b] = t.limits[b]
  BY <1>1, <1>2 DEF TotalTable, LimitTable
<1>7. Good(u)
  BY <1>1, <1>2, <1>5 DEF Good, GoodTotals
<1>8. Debt(u) = Debt(t) /\ Spare(u) = Spare(t) /\ (Alive(u) <=> Alive(t))
  BY <1>1 DEF Debt, Spare, Alive
<1>9. Totals(u.totals[a]) = row
  BY <1>6, NoRow DEF Totals
<1>10. u.limits[a].ram = IF "ram_managed" \in Managed(a) THEN t.limits[a].ram
                         ELSE row.ram_bytes + ram_gift_bytes
  BY <1>4, <1>6 DEF ram_limit, HeldRam
<1>11. \A b \in Account : /\ Totals(u.totals[b]).net = Totals(t.totals[b]).net
                          /\ Totals(u.totals[b]).cpu = Totals(t.totals[b]).cpu
  BY <1>6, <1>9
<1>12. QED
  BY <1>1, <1>6, <1>7, <1>8, <1>9, <1>10, <1>11 DEF u

\* A fee is paid for RAM, into the pool or for good.
LEMMA FeePaidKeeps ==
  ASSUME NEW t, Shape(t), Good(t), NEW from \in Account, NEW fee \in Int, Alive(FeePaid(t, from, fee))
  PROVE  LET u == FeePaid(t, from, fee)
         IN /\ Shape(u) /\ Good(u) /\ Debt(u) = Debt(t) /\ Alive(t)
            /\ u.balances = t.balances /\ u.orders = t.orders /\ u.loans = t.loans
            /\ u.totals = t.totals /\ u.limits = t.limits
            /\ Spare(u) = Spare(t)
            /\ Bal(u.tlos, RAM_ACCOUNT) = Bal(t.tlos, RAM_ACCOUNT)
            /\ Bal(u.tlos, STAKE_ACCOUNT) = Bal(t.tlos, STAKE_ACCOUNT)
<1> DEFINE s == Sent(t, from, RAMFEE_ACCOUNT, fee)
           u == channel_to_rex(s, RAMFEE_ACCOUNT, fee)
<1>1. FeePaid(t, from, fee) = u
  BY DEF FeePaid
<1>2. /\ from \in TokenHolder /\ RAMFEE_ACCOUNT \in TokenHolder /\ from # RAMFEE_ACCOUNT
      /\ RAMFEE_ACCOUNT # REX_ACCOUNT
      /\ \A h \in {NAMES_ACCOUNT, RAM_ACCOUNT, STAKE_ACCOUNT} :
           /\ h \in TokenHolder /\ h # from /\ h # RAMFEE_ACCOUNT /\ h # REX_ACCOUNT
      /\ REX_ACCOUNT # from
  BY HoldersApart DEF SystemAccounts
<1>3. Shape(s) /\ (Alive(s) => Alive(t))
  BY SentIs
<1>4. /\ Shape(u) /\ (Alive(u) => Alive(s))
      /\ u.balances = s.balances /\ u.orders = s.orders /\ u.loans = s.loans /\ u.totals = s.totals
      /\ u.limits = s.limits /\ u.retained = s.retained
  BY <1>3, ChannelIs
<1>5. Alive(u)
  BY <1>1
<1>6. Alive(s) /\ Alive(t)
  BY <1>3, <1>4, <1>5
<1>7. /\ Good(s) /\ 0 < fee
      /\ s.pool = t.pool /\ s.balances = t.balances
      /\ s.orders = t.orders /\ s.loans = t.loans /\ s.totals = t.totals
      /\ s.limits = t.limits /\ s.retained = t.retained
      /\ \A h \in TokenHolder :
           Bal(s.tlos, h) = Bal(t.tlos, h) - (IF h = from THEN fee ELSE 0)
                                           + (IF h = RAMFEE_ACCOUNT THEN fee ELSE 0)
      /\ Debt(s) = Debt(t) - (IF REX_ACCOUNT = from THEN fee ELSE 0)
                           + (IF REX_ACCOUNT = RAMFEE_ACCOUNT THEN fee ELSE 0)
  BY <1>2, <1>6, SentKeeps
<1> HIDE DEF s
<1>8. /\ Good(u) /\ Debt(u) = Debt(s)
      /\ PoolOf(u.pool).namebid_proceeds = PoolOf(s.pool).namebid_proceeds
      /\ \A h \in TokenHolder : h # REX_ACCOUNT =>
           Bal(u.tlos, h) = Bal(s.tlos, h)
             - (IF h = RAMFEE_ACCOUNT /\ rex_available(s.pool) THEN fee ELSE 0)
  BY <1>2, <1>3, <1>5, <1>7, ChannelKeeps
<1> HIDE DEF u
<1>9. /\ \A h \in TokenHolder : Bal(t.tlos, h) \in Int /\ Bal(s.tlos, h) \in Int
      /\ Debt(t) \in Int
  BY <1>7, TableNumbers, DebtNumbers
<1>10. \A h \in {NAMES_ACCOUNT, RAM_ACCOUNT, STAKE_ACCOUNT} : Bal(u.tlos, h) = Bal(t.tlos, h)
  <2>1. ASSUME NEW h \in {NAMES_ACCOUNT, RAM_ACCOUNT, STAKE_ACCOUNT}
        PROVE  Bal(u.tlos, h) = Bal(t.tlos, h)
    <3>1. h \in TokenHolder /\ h # from /\ h # RAMFEE_ACCOUNT /\ h # REX_ACCOUNT
      BY <1>2, <2>1
    <3>2. Bal(s.tlos, h) = Bal(t.tlos, h)
      BY <1>7, <1>9, <3>1
    <3>3. Bal(u.tlos, h) = Bal(s.tlos, h)
      BY <1>8, <1>9, <3>1
    <3>4. QED
      BY <3>2, <3>3
  <2>2. QED
    BY <2>1
<1>11. Debt(u) = Debt(t)
  BY <1>2, <1>7, <1>8, <1>9
<1>12. Spare(u) = Spare(t)
  BY <1>4, <1>7, <1>8, <1>10 DEF Spare
<1>13. QED
  BY <1>1, <1>4, <1>6, <1>7, <1>8, <1>10, <1>11, <1>12

\* The books are right after an action on the market when stake is as it was.
LEMMA MarketBooksKeep ==
  ASSUME ContractInv, NEW u, Commit(u), Good(u), Debt(u) = 0, Spare(u) = Spare(Tables),
         u.balances = rexbalance, u.orders = rexorders, u.loans = loans,
         \A a \in Account : /\ Totals(u.totals[a]).net = Totals(userres[a]).net
                            /\ Totals(u.totals[a]).cpu = Totals(userres[a]).cpu,
         Bal(u.tlos, STAKE_ACCOUNT) = Bal(accounts, STAKE_ACCOUNT),
         VotesKept, LoansCounted, UNCHANGED bidVars
  PROVE  BooksInv'
<1>1. /\ GoodPool(u.pool, u.balances, u.loans) /\ GoodLoans(u.loans, loan_num')
      /\ GoodRows(u.balances, u.orders) /\ GoodOrders(u.balances, u.orders)
      /\ u.funds \in FundTable
      /\ GoodTotals(u.totals, u.limits) /\ GoodTokens(u.tlos) /\ u.retained \in Nat
  BY DEF Good, LoansCounted
<1>2. WeightInv /\ HoldsInv /\ loan_num \in Nat
  BY DEF ContractInv, BooksInv
<1>3. /\ loan_num' \in Nat /\ del_bandwidth' = del_bandwidth /\ voters' = voters
      /\ unweighed' = unweighed /\ UNCHANGED <<taken, bidVars>>
  BY <1>2 DEF VotesKept, LoansCounted
<1>4. /\ voters' \in VoterTable /\ del_bandwidth' \in DelTable /\ unweighed' \in [Account -> Int]
  BY <1>2, <1>3 DEF WeightInv
<1>5. ASSUME NEW a \in Account
      PROVE  /\ Weight(u, a) = Weight(Tables, a)
             /\ Own(u, a, "net") = Own(Tables, a, "net") /\ Own(u, a, "cpu") = Own(Tables, a, "cpu")
  BY TablesAre DEF Weight, Own
<1>6. \A a \in Account :
        /\ StakedIn(voters'[a]) = StakeOf(del_bandwidth', a) + Weight(u, a) - unweighed'[a]
        /\ voters'[a] = Nil => u.balances[a] = Nil
        /\ Own(u, a, "net") = NetTo(del_bandwidth', a)
        /\ Own(u, a, "cpu") = CpuTo(del_bandwidth', a)
  BY <1>2, <1>3, <1>5 DEF WeightInv
<1>7. Bal(u.tlos, STAKE_ACCOUNT) + taken[STAKE_ACCOUNT] = StakeOfAll(del_bandwidth') + OwedIn(refunds)
  BY <1>2, <1>3, HoldsIs
<1>8. QED
  BY <1>1, <1>3, <1>4, <1>6, <1>7, CommitKeeps

\* And so is the market when the bytes are on it or in the row, and their price
\* in eosio.ram.
LEMMA MarketRamKeeps ==
  ASSUME RamInv, userres \in TotalTable, userres' \in TotalTable, GoodMarket(ram'), voters' = voters,
         NEW a \in Account, NEW bytes \in Int,
         ram'.total_ram_bytes_reserved = ram.total_ram_bytes_reserved + bytes,
         Totals(userres'[a]).ram_bytes = Totals(userres[a]).ram_bytes + bytes,
         \A b \in Account : b # a => userres'[b] = userres[b] /\ limits'[b] = limits[b],
         limits'[a].ram = IF "ram_managed" \in Managed(a) THEN limits[a].ram
                          ELSE Totals(userres'[a]).ram_bytes + ram_gift_bytes,
         Bal(accounts', RAM_ACCOUNT) + taken'[RAM_ACCOUNT] = ram'.total_ram_stake
  PROVE  RamInv'
<1> DEFINE f == [b \in Account |-> Totals(userres[b]).ram_bytes]
           g == [b \in Account |-> Totals(userres'[b]).ram_bytes]
<1>1. \A b \in Account : f[b] \in Int /\ g[b] \in Int
  BY DEF TotalTable, Totals, user_resources, NoResources
<1>2. \A b \in Account : b # a => g[b] = f[b]
  OBVIOUS
<1>3. g[a] = f[a] + bytes
  OBVIOUS
<1>4. SumBytes(userres) = SumFunctionOnSet(f, Account) /\ SumBytes(userres') = SumFunctionOnSet(g, Account)
  BY DEF SumBytes
<1> HIDE DEF f, g
<1>5. SumFunctionOnSet(g, Account) = SumFunctionOnSet(f, Account) + g[a] - f[a]
  BY <1>1, <1>2, VotingFinite, SumChange
<1>6. SumFunctionOnSet(f, Account) \in Int
  BY <1>1, VotingFinite, SumInt
<1>7. SumBytes(userres') = SumBytes(userres) + bytes
  BY <1>1, <1>3, <1>4, <1>5, <1>6
<1>8. ASSUME NEW b \in Account, 0 < Totals(userres'[b]).ram_bytes, "ram_managed" \notin Flags(voters'[b])
      PROVE  limits'[b].ram = Totals(userres'[b]).ram_bytes + ram_gift_bytes
  <2>1. "ram_managed" \notin Flags(voters[b])
    BY <1>8
  <2>2. CASE b = a
    BY <2>1, <2>2 DEF Flags, Managed
  <2>3. CASE b # a
    <3>1. userres'[b] = userres[b] /\ limits'[b] = limits[b]
      BY <2>3
    <3>2. limits[b].ram = Totals(userres[b]).ram_bytes + ram_gift_bytes
      BY <1>8, <2>1, <3>1 DEF RamInv
    <3>3. QED
      BY <3>1, <3>2
  <2>4. QED
    BY <2>2, <2>3
<1>9. ram'.total_ram_bytes_reserved = SumBytes(userres')
  BY <1>7 DEF RamInv
<1>10. QED
  BY <1>8, <1>9 DEF RamInv, GoodMarket

\* What a market holds.
LEMMA MarketNumbers ==
  ASSUME NEW r, GoodMarket(r)
  PROVE  /\ r.base \in Nat /\ r.quote \in Nat /\ r.max_ram_size \in Nat
         /\ r.total_ram_bytes_reserved \in Nat /\ r.total_ram_stake \in Nat
         /\ r.new_ram_per_block \in Nat /\ r.last_ram_increase \in Nat
         /\ InitialQuote \in Nat /\ 0 < InitialQuote /\ InitialQuote <= r.quote
         /\ 0 < r.base /\ 0 < r.quote
<1>1. /\ r.base \in Nat /\ r.quote \in Nat /\ r.max_ram_size \in Nat
      /\ r.total_ram_bytes_reserved \in Nat /\ r.total_ram_stake \in Nat
      /\ r.new_ram_per_block \in Nat /\ r.last_ram_increase \in Nat
  BY BandwidthAssumption, VotingAssumption DEF GoodMarket, ram_market
<1>2. InitialQuote \in Nat /\ 0 < InitialQuote
  BY RamMarketAssumption
<1>3. InitialQuote <= r.quote
  BY <1>1, <1>2 DEF GoodMarket
<1>4. 0 < r.base
  <2>1. InitialQuote * r.max_ram_size <= r.base * r.quote /\ 0 < r.max_ram_size
    BY DEF GoodMarket
  <2>2. CASE r.base = 0
    <3> DEFINE q == r.quote
               m == r.max_ram_size
               i == InitialQuote
    <3>1. i * m <= 0 /\ 0 < m /\ 0 < i /\ i \in Nat /\ m \in Nat
      BY <1>1, <1>2, <2>1, <2>2
    <3> HIDE DEF q, m, i
    <3>2. QED
      BY <3>1
  <2>3. QED
    BY <1>1, <2>2
<1>5. QED
  BY <1>1, <1>2, <1>3, <1>4

\* The supply grows and the tokens stay.
LEMMA GrownProduct ==
  ASSUME NEW i \in Nat, NEW m \in Nat, NEW b \in Nat, NEW q \in Nat, NEW k \in Nat,
         i * m <= b * q, i <= q
  PROVE  i * (m + k) <= (b + k) * q
<1>1. i * (m + k) = i * m + i * k /\ (b + k) * q = b * q + k * q
  OBVIOUS
<1>2. i * k <= k * q
  OBVIOUS
<1>3. i * m \in Int /\ i * k \in Int /\ b * q \in Int /\ k * q \in Int
  OBVIOUS
<1>4. QED
  BY <1>1, <1>2, <1>3

\* A purchase or a sale leaves what the market is worth no less.
LEMMA TradedProduct ==
  ASSUME NEW b \in Nat, NEW q \in Nat, NEW k \in Nat, NEW out \in Nat, (q + k) * out <= k * b
  PROVE  b * q <= (b - out) * (q + k)
<1>1. (b - out) * (q + k) = b * q + k * b - (q + k) * out
  OBVIOUS
<1>2. b * q \in Int /\ k * b \in Int /\ (q + k) * out \in Int
  OBVIOUS
<1>3. QED
  BY <1>1, <1>2

\* More bytes.
LEMMA EnlargedKeeps ==
  ASSUME NEW r, GoodMarket(r), NEW k \in Nat
  PROVE  /\ GoodMarket(Enlarged(r, k))
         /\ Enlarged(r, k).quote = r.quote /\ Enlarged(r, k).total_ram_stake = r.total_ram_stake
         /\ Enlarged(r, k).total_ram_bytes_reserved = r.total_ram_bytes_reserved
<1> DEFINE s == Enlarged(r, k)
           m == r.max_ram_size
           b == r.base
           q == r.quote
<1>1. /\ b \in Nat /\ q \in Nat /\ m \in Nat /\ InitialQuote \in Nat /\ InitialQuote <= q
      /\ r.total_ram_bytes_reserved \in Nat
  BY MarketNumbers
<1>2. /\ r \in ram_market /\ b + r.total_ram_bytes_reserved = m /\ q = InitialQuote + r.total_ram_stake
      /\ InitialQuote * m <= b * q /\ 0 < m
  BY DEF GoodMarket
<1>3. /\ s \in ram_market /\ s.max_ram_size = m + k /\ s.base = b + k /\ s.quote = q
      /\ s.total_ram_stake = r.total_ram_stake
      /\ s.total_ram_bytes_reserved = r.total_ram_bytes_reserved
  <2> DEFINE x == m + k
             y == b + k
  <2>1. s = [r EXCEPT !.max_ram_size = x, !.base = y] /\ x \in Nat /\ y \in Nat
    BY <1>1 DEF Enlarged
  <2> HIDE DEF x, y, s
  <2>2. /\ s \in ram_market /\ s.max_ram_size = x /\ s.base = y /\ s.quote = r.quote
        /\ s.total_ram_stake = r.total_ram_stake
        /\ s.total_ram_bytes_reserved = r.total_ram_bytes_reserved
    BY <1>2, <2>1 DEF ram_market
  <2>3. QED
    BY <2>2 DEF x, y
<1> HIDE DEF s, m, b, q
<1>4. InitialQuote * (m + k) <= (b + k) * q
  BY <1>1, <1>2, GrownProduct
<1>5. s.base + s.total_ram_bytes_reserved = s.max_ram_size /\ 0 < s.max_ram_size
  BY <1>1, <1>2, <1>3
<1>6. s.quote = InitialQuote + s.total_ram_stake
  BY <1>2, <1>3
<1>7. InitialQuote * s.max_ram_size <= s.base * s.quote
  BY <1>3, <1>4
<1>8. GoodMarket(s)
  BY <1>3, <1>5, <1>6, <1>7 DEF GoodMarket
<1>9. QED
  BY <1>3, <1>8 DEF s, q

\* update_ram_supply
LEMMA SupplyKeeps ==
  ASSUME NEW r, GoodMarket(r), now \in Time
  PROVE  LET s == update_ram_supply(r)
         IN /\ GoodMarket(s) /\ s.quote = r.quote /\ s.total_ram_stake = r.total_ram_stake
            /\ s.total_ram_bytes_reserved = r.total_ram_bytes_reserved
<1> DEFINE k == (now - r.last_ram_increase) * r.new_ram_per_block
           e == Enlarged(r, k)
           s == [e EXCEPT !.last_ram_increase = now]
<1>1. CASE now <= r.last_ram_increase
  BY <1>1 DEF update_ram_supply
<1>2. CASE ~ (now <= r.last_ram_increase)
  <2>1. update_ram_supply(r) = s
    BY <1>2 DEF update_ram_supply
  <2>2. k \in Nat
    <3>1. now \in Nat /\ r.last_ram_increase \in Nat /\ r.new_ram_per_block \in Nat
      BY MarketNumbers, VotingAssumption, BandwidthAssumption DEF Time
    <3> DEFINE i == now - r.last_ram_increase
               j == r.new_ram_per_block
    <3>2. i \in Nat /\ j \in Nat
      BY <1>2, <3>1
    <3> HIDE DEF i, j
    <3>3. i * j \in Nat
      BY <3>2
    <3>4. QED
      BY <3>3 DEF i, j
  <2> HIDE DEF k
  <2>3. /\ GoodMarket(e) /\ e.quote = r.quote /\ e.total_ram_stake = r.total_ram_stake
        /\ e.total_ram_bytes_reserved = r.total_ram_bytes_reserved
    BY <2>2, EnlargedKeeps
  <2> HIDE DEF e
  <2>4. now \in 0..MaxTime
    BY DEF Time
  <2>5. /\ s \in ram_market /\ s.base = e.base /\ s.quote = e.quote /\ s.max_ram_size = e.max_ram_size
        /\ s.total_ram_bytes_reserved = e.total_ram_bytes_reserved
        /\ s.total_ram_stake = e.total_ram_stake
    BY <2>3, <2>4 DEF GoodMarket, ram_market
  <2> HIDE DEF s
  <2>6. GoodMarket(s)
    BY <2>3, <2>5 DEF GoodMarket
  <2>7. QED
    BY <2>1, <2>3, <2>5, <2>6
<1>3. QED
  BY <1>1, <1>2

\* A market after so many tokens and bytes have changed hands.
Traded(r, paid, bytes) == [r EXCEPT !.quote = @ + paid, !.base = @ - bytes,
                                    !.total_ram_bytes_reserved = @ + bytes, !.total_ram_stake = @ + paid]

\* It is right when there were as many, and the product of its sides has not
\* become less.
LEMMA TradedKeeps ==
  ASSUME NEW r, GoodMarket(r), NEW paid \in Int, NEW bytes \in Int,
         bytes <= r.base, 0 <= r.total_ram_bytes_reserved + bytes, 0 <= r.total_ram_stake + paid,
         r.base * r.quote <= (r.base - bytes) * (r.quote + paid)
  PROVE  LET s == Traded(r, paid, bytes)
         IN /\ GoodMarket(s)
            /\ s.total_ram_bytes_reserved = r.total_ram_bytes_reserved + bytes
            /\ s.total_ram_stake = r.total_ram_stake + paid
<1> DEFINE s == Traded(r, paid, bytes)
           w == r.quote + paid
           x == r.base - bytes
           y == r.total_ram_bytes_reserved + bytes
           z == r.total_ram_stake + paid
<1>1. /\ r.base \in Nat /\ r.quote \in Nat /\ r.max_ram_size \in Nat /\ InitialQuote \in Nat
      /\ r.total_ram_bytes_reserved \in Nat /\ r.total_ram_stake \in Nat
  BY MarketNumbers
<1>2. /\ r \in ram_market /\ r.base + r.total_ram_bytes_reserved = r.max_ram_size
      /\ r.quote = InitialQuote + r.total_ram_stake
      /\ InitialQuote * r.max_ram_size <= r.base * r.quote /\ 0 < r.max_ram_size
  BY DEF GoodMarket
<1>3. x \in Nat /\ y \in Nat /\ z \in Nat
  BY <1>1
<1>4. /\ x + y = r.max_ram_size /\ w = InitialQuote + z /\ w \in Nat
  BY <1>1, <1>2, <1>3
<1>5. InitialQuote * r.max_ram_size <= x * w
  <2> DEFINE i == InitialQuote * r.max_ram_size
             j == r.base * r.quote
             k == x * w
  <2>1. i <= j /\ j <= k
    BY <1>2
  <2>2. i \in Int /\ j \in Int /\ k \in Int
    BY <1>1, <1>3, <1>4
  <2> HIDE DEF i, j, k
  <2>3. i <= k
    BY <2>1, <2>2
  <2>4. QED
    BY <2>3 DEF i, k
<1>6. s = [r EXCEPT !.quote = w, !.base = x, !.total_ram_bytes_reserved = y, !.total_ram_stake = z]
  BY DEF Traded
<1> HIDE DEF w, x, y, z, s
<1>7. /\ s \in ram_market /\ s.quote = w /\ s.base = x /\ s.total_ram_bytes_reserved = y
      /\ s.total_ram_stake = z /\ s.max_ram_size = r.max_ram_size
  BY <1>2, <1>3, <1>4, <1>6 DEF ram_market
<1>8. GoodMarket(s)
  BY <1>2, <1>4, <1>5, <1>7 DEF GoodMarket
<1>9. QED
  BY <1>7, <1>8 DEF s, y, z

\* Nothing but the market changes.
LEMMA MarketAlone ==
  ASSUME ContractInv, UNCHANGED systemVars, GoodMarket(ram'),
         ram'.total_ram_bytes_reserved = ram.total_ram_bytes_reserved,
         ram'.total_ram_stake = ram.total_ram_stake
  PROVE  ContractInv'
<1>1. BooksInv /\ RamInv
  BY DEF ContractInv
<1>2. /\ UNCHANGED <<now, voters, rexpool, rexbalance, rexfunds, rexorders, loans, userres, limits>>
      /\ UNCHANGED <<accounts, stat, retained, loan_num, unweighed, taken, bids, bid_refunds, del_bandwidth>>
      /\ UNCHANGED <<refunds, deferred, cancelled, activated>>
  BY DEF systemVars, rexAllVars, bidVars, rexOnlyVars, vars, bandwidthVars, votingVars, rexVars,
         resourceVars, refundVars, tlosVars
<1>3. Tables' = Tables
  BY <1>2 DEF Tables
<1> DEFINE t == Tables
<1>4. Good(t) /\ Debt(t) = 0
  BY <1>1 DEF BooksInv, BidsInv
<1> HIDE DEF t
<1>5. Good(Tables)' /\ Debt(Tables)' = 0
  BY <1>2, <1>3, <1>4 DEF Good, GoodTotals, GoodTokens, Debt, t
<1>6. BidsInv'
  BY <1>1, <1>2, <1>3 DEF BooksInv, BidsInv, Spare
<1>7. WeightInv'
  BY <1>1, <1>2, <1>3 DEF BooksInv, WeightInv, Weight, Own
<1>8. HoldsInv'
  BY <1>1, <1>2 DEF BooksInv, HoldsInv, HeldBut, TLOS!TypeOK, TLOS!Owners, TLOS!Balance
<1>9. ClockInv'
  BY <1>1, <1>2 DEF BooksInv, ClockInv
<1>10. BooksInv'
  BY <1>1, <1>2, <1>5, <1>6, <1>7, <1>8, <1>9 DEF BooksInv
<1>11. RamInv'
  BY <1>1, <1>2 DEF RamInv, GoodMarket
<1>12. QED
  BY <1>10, <1>11 DEF ContractInv

\* setram and setramrate
LEMMA SupplyStepKeeps ==
  ASSUME ContractInv,
         \/ \E size \in Sizes : SetRam(size)
         \/ \E rate \in Rates : SetRamRate(rate)
  PROVE  ContractInv'
<1>1. GoodMarket(ram) /\ now \in Time
  BY TablesAre DEF ContractInv, RamInv
<1>2. ASSUME NEW size \in Sizes, SetRam(size)
      PROVE  ContractInv'
  <2> DEFINE k == size - ram.max_ram_size
  <2>1. ram.max_ram_size < size /\ ram' = Enlarged(ram, k) /\ UNCHANGED systemVars
    BY <1>2 DEF SetRam
  <2>2. k \in Nat
    BY <1>1, <2>1, MarketNumbers, RamMarketAssumption
  <2> HIDE DEF k
  <2>3. QED
    BY <1>1, <2>1, <2>2, EnlargedKeeps, MarketAlone
<1>3. ASSUME NEW rate \in Rates, SetRamRate(rate)
      PROVE  ContractInv'
  <2> DEFINE r == update_ram_supply(ram)
             s == [r EXCEPT !.new_ram_per_block = rate]
  <2>1. ram' = s /\ UNCHANGED systemVars
    BY <1>3 DEF SetRamRate
  <2>2. /\ GoodMarket(r) /\ r.total_ram_stake = ram.total_ram_stake
        /\ r.total_ram_bytes_reserved = ram.total_ram_bytes_reserved
    BY <1>1, SupplyKeeps
  <2>3. rate \in Nat
    BY RamMarketAssumption
  <2> HIDE DEF r
  <2>4. /\ s \in ram_market /\ s.base = r.base /\ s.quote = r.quote /\ s.max_ram_size = r.max_ram_size
        /\ s.total_ram_bytes_reserved = r.total_ram_bytes_reserved
        /\ s.total_ram_stake = r.total_ram_stake
    BY <2>2, <2>3 DEF GoodMarket, ram_market
  <2> HIDE DEF s
  <2>5. GoodMarket(s)
    BY <2>2, <2>4 DEF GoodMarket
  <2>6. QED
    BY <2>1, <2>2, <2>4, <2>5, MarketAlone
<1>4. QED
  BY <1>2, <1>3

\* Tokens go to the market, or come from it.
LEMMA PricePaid ==
  ASSUME NEW t, Shape(t), Good(t), NEW from \in TokenHolder, NEW to \in TokenHolder, from # to,
         NEW amount \in Int, Alive(Sent(t, from, to, amount)),
         from \in Account \cup {RAM_ACCOUNT}, to \in Account \cup {RAM_ACCOUNT}
  PROVE  LET u == Sent(t, from, to, amount)
         IN /\ Shape(u) /\ Good(u) /\ Debt(u) = Debt(t) /\ Spare(u) = Spare(t) /\ 0 < amount
            /\ Alive(t)
            /\ u.balances = t.balances /\ u.orders = t.orders /\ u.loans = t.loans
            /\ u.totals = t.totals /\ u.limits = t.limits
            /\ Bal(u.tlos, STAKE_ACCOUNT) = Bal(t.tlos, STAKE_ACCOUNT)
            /\ Bal(u.tlos, RAM_ACCOUNT) = Bal(t.tlos, RAM_ACCOUNT)
                                            - (IF RAM_ACCOUNT = from THEN amount ELSE 0)
                                            + (IF RAM_ACCOUNT = to THEN amount ELSE 0)
<1> DEFINE u == Sent(t, from, to, amount)
<1>1. Shape(u) /\ Alive(t)
  BY SentIs
<1>2. /\ Good(u) /\ 0 < amount
      /\ u.pool = t.pool /\ u.balances = t.balances
      /\ u.orders = t.orders /\ u.loans = t.loans /\ u.totals = t.totals
      /\ u.limits = t.limits /\ u.retained = t.retained
      /\ \A h \in TokenHolder :
           Bal(u.tlos, h) = Bal(t.tlos, h) - (IF h = from THEN amount ELSE 0)
                                           + (IF h = to THEN amount ELSE 0)
      /\ Debt(u) = Debt(t) - (IF REX_ACCOUNT = from THEN amount ELSE 0)
                           + (IF REX_ACCOUNT = to THEN amount ELSE 0)
  BY SentKeeps
<1> HIDE DEF u
<1>3. /\ \A h \in {REX_ACCOUNT, NAMES_ACCOUNT, STAKE_ACCOUNT} : h # from /\ h # to /\ h \in TokenHolder
      /\ RAM_ACCOUNT \in TokenHolder
  BY HoldersApart DEF SystemAccounts
<1>4. (\A h \in TokenHolder : Bal(t.tlos, h) \in Int) /\ Debt(t) \in Int
  BY TableNumbers, DebtNumbers
<1>5. /\ Bal(u.tlos, NAMES_ACCOUNT) = Bal(t.tlos, NAMES_ACCOUNT)
      /\ Bal(u.tlos, STAKE_ACCOUNT) = Bal(t.tlos, STAKE_ACCOUNT)
  BY <1>2, <1>3, <1>4
<1>6. Debt(u) = Debt(t)
  BY <1>2, <1>3, <1>4
<1>7. Spare(u) = Spare(t)
  BY <1>2, <1>5 DEF Spare
<1>8. QED
  BY <1>1, <1>2, <1>3, <1>5, <1>6, <1>7 DEF u

\* The row of an account with more bytes or fewer.
MoreRam(row, bytes) == [row EXCEPT !.ram_bytes = @ + bytes]

\* It has no other stake.
LEMMA MoreRamIs ==
  ASSUME NEW row \in user_resources, NEW bytes \in Int, 0 <= row.ram_bytes + bytes
  PROVE  LET new == MoreRam(row, bytes)
         IN /\ new \in user_resources /\ new.net = row.net /\ new.cpu = row.cpu
            /\ new.ram_bytes = row.ram_bytes + bytes
<1> DEFINE x == row.ram_bytes + bytes
<1>1. x \in Nat /\ MoreRam(row, bytes) = [row EXCEPT !.ram_bytes = x]
  BY DEF user_resources, MoreRam
<1> HIDE DEF x
<1>2. /\ [row EXCEPT !.ram_bytes = x] \in user_resources
      /\ [row EXCEPT !.ram_bytes = x].net = row.net /\ [row EXCEPT !.ram_bytes = x].cpu = row.cpu
      /\ [row EXCEPT !.ram_bytes = x].ram_bytes = x
  BY <1>1 DEF user_resources
<1>3. QED
  BY <1>1, <1>2 DEF x

\* What there is of RAM, and what an account has.
LEMMA RamNumbers ==
  ASSUME ContractInv, NEW a \in Account
  PROVE  /\ GoodMarket(ram) /\ now \in Time /\ userres \in TotalTable
         /\ Resources(a) = Totals(userres[a]) /\ Resources(a) \in user_resources
         /\ Resources(a).ram_bytes \in Nat /\ Resources(a).ram_bytes <= ram.total_ram_bytes_reserved
<1>1. GoodMarket(ram) /\ ram.total_ram_bytes_reserved = SumBytes(userres)
  BY DEF ContractInv, RamInv
<1>2. userres \in TotalTable /\ now \in Time
  BY TablesAre DEF Good, GoodTotals
<1>3. \A b \in Account : Totals(userres[b]) \in user_resources
  BY <1>2 DEF TotalTable, Totals, NoResources, user_resources
<1>4. Resources(a) = Totals(userres[a])
  BY DEF Resources, Totals
<1> DEFINE f == [b \in Account |-> Totals(userres[b]).ram_bytes]
<1>5. \A b \in Account : f[b] \in Nat
  BY <1>3 DEF user_resources
<1>6. SumBytes(userres) = SumFunctionOnSet(f, Account) /\ f[a] = Resources(a).ram_bytes
  BY <1>4 DEF SumBytes
<1> HIDE DEF f
<1>7. f[a] <= SumFunctionOnSet(f, Account)
  BY <1>5, VotingFinite, SumNat
<1>8. QED
  BY <1>1, <1>2, <1>3, <1>4, <1>5, <1>6, <1>7

\* The end of a trade: the row of the account and the market change alike.
LEMMA TradeKeeps ==
  ASSUME ContractInv, NEW u, Commit(u), Good(u), Debt(u) = 0, Spare(u) = Spare(Tables),
         u.balances = rexbalance, u.orders = rexorders, u.loans = loans,
         VotesKept, LoansCounted, UNCHANGED bidVars,
         NEW a \in Account, NEW paid \in Int, NEW bytes \in Int,
         Totals(u.totals[a]) = MoreRam(Resources(a), bytes), 0 <= Resources(a).ram_bytes + bytes,
         u.limits[a].ram = IF "ram_managed" \in Managed(a) THEN limits[a].ram
                           ELSE Totals(u.totals[a]).ram_bytes + ram_gift_bytes,
         \A b \in Account : b # a => u.totals[b] = userres[b] /\ u.limits[b] = limits[b],
         Bal(u.tlos, STAKE_ACCOUNT) = Bal(accounts, STAKE_ACCOUNT),
         Bal(u.tlos, RAM_ACCOUNT) = Bal(accounts, RAM_ACCOUNT) + paid,
         GoodMarket(ram'), ram'.total_ram_stake = ram.total_ram_stake + paid,
         ram'.total_ram_bytes_reserved = ram.total_ram_bytes_reserved + bytes
  PROVE  ContractInv'
<1>1. /\ Resources(a) = Totals(userres[a]) /\ Resources(a) \in user_resources /\ userres \in TotalTable
  BY RamNumbers
<1> DEFINE row == MoreRam(Resources(a), bytes)
<1>2. /\ row.net = Resources(a).net /\ row.cpu = Resources(a).cpu
      /\ row.ram_bytes = Resources(a).ram_bytes + bytes
  BY <1>1, MoreRamIs
<1> HIDE DEF row
<1>3. Totals(u.totals[a]) = row
  BY DEF row
<1>4. BooksInv'
  <2>1. \A b \in Account : /\ Totals(u.totals[b]).net = Totals(userres[b]).net
                           /\ Totals(u.totals[b]).cpu = Totals(userres[b]).cpu
    BY <1>1, <1>2, <1>3
  <2>2. QED
    BY <2>1, MarketBooksKeep
<1>5. RamInv'
  <2>1. /\ userres' = u.totals /\ limits' = u.limits /\ accounts' = u.tlos /\ voters' = voters
    BY CommitIs DEF VotesKept
  <2>2. RamInv
    BY DEF ContractInv
  <2>3. userres' \in TotalTable
    BY <2>1 DEF Good, GoodTotals
  <2>4. Totals(userres'[a]).ram_bytes = Totals(userres[a]).ram_bytes + bytes
    BY <1>1, <1>2, <1>3, <2>1
  <2>5. Bal(accounts', RAM_ACCOUNT) + taken'[RAM_ACCOUNT] = ram'.total_ram_stake
    <3>1. /\ Bal(accounts', RAM_ACCOUNT) = Bal(accounts, RAM_ACCOUNT) + paid /\ taken' = taken
          /\ Bal(accounts, RAM_ACCOUNT) + taken[RAM_ACCOUNT] = ram.total_ram_stake
      BY <2>1, <2>2 DEF RamInv, LoansCounted
    <3>2. Bal(accounts, RAM_ACCOUNT) \in Int /\ taken[RAM_ACCOUNT] \in Nat
      <4>1. RAM_ACCOUNT \in TokenHolder
        BY HoldersApart DEF SystemAccounts
      <4>2. QED
        BY <4>1, ContractRex, TakenNat DEF GoodTokens, TokenTable, Bal, HoldsInv
    <3>3. QED
      BY <3>1, <3>2
  <2>6. QED
    BY <1>1, <2>1, <2>2, <2>3, <2>4, <2>5, MarketRamKeeps
<1>6. QED
  BY <1>4, <1>5 DEF ContractInv

\* buyram
LEMMA BuyRamKeeps ==
  ASSUME ContractInv, NEW payer \in Account, NEW receiver \in Account, NEW quant \in Int,
         BuyRam(payer, receiver, quant)
  PROVE  ContractInv'
<1> DEFINE r == update_ram_supply(ram)
           fee == Fee(quant)
           paid == quant - fee
           bytes == get_bancor_output(r.quote, r.base, paid)
           more == MoreRam(Resources(receiver), bytes)
           s == Sent(Tables, payer, RAM_ACCOUNT, paid)
           f == FeePaid(s, payer, fee)
           u == Held(f, receiver, more)
<1>1. /\ quant > 0 /\ bytes > 0 /\ ram' = Traded(r, paid, bytes) /\ Commit(u)
      /\ VotesKept /\ LoansCounted /\ UNCHANGED bidVars
  BY DEF BuyRam, Traded, MoreRam
<1>2. fee \in Int /\ paid \in Int
  <2>1. Fee(quant) \in Int
    BY DEF Fee
  <2> HIDE DEF fee
  <2>2. QED
    BY <2>1 DEF fee
<1>3. /\ GoodMarket(ram) /\ now \in Time /\ userres \in TotalTable
      /\ Resources(receiver) = Totals(userres[receiver]) /\ Resources(receiver) \in user_resources
      /\ Resources(receiver).ram_bytes \in Nat
  BY RamNumbers
<1>4. /\ GoodMarket(r) /\ r.total_ram_stake = ram.total_ram_stake
      /\ r.total_ram_bytes_reserved = ram.total_ram_bytes_reserved
  BY <1>3, SupplyKeeps
<1>5. /\ Shape(Tables) /\ Good(Tables) /\ Debt(Tables) = 0 /\ Tables.tlos = accounts
      /\ Tables.balances = rexbalance /\ Tables.orders = rexorders /\ Tables.loans = loans
      /\ Tables.totals = userres /\ Tables.limits = limits
  BY TablesAre
<1>6. /\ payer \in TokenHolder /\ RAM_ACCOUNT \in TokenHolder /\ payer # RAM_ACCOUNT
  BY HoldersApart DEF SystemAccounts
<1>7. Alive(u)
  BY <1>1, CommitIs
<1> HIDE DEF fee, paid, r
<1>8. Shape(s) /\ Shape(f)
  BY <1>5, SentIs, ChannelIs DEF FeePaid
<1>9. Alive(f)
  <2> HIDE DEF f, more
  <2>1. u.ok = f.ok /\ u.tlos = f.tlos
    <3>1. Shape(f)
      BY <1>8
    <3>2. u = [f EXCEPT !.totals[receiver] = more,
                        !.limits[receiver].ram = IF "ram_managed" \in Managed(receiver) THEN @
                                                 ELSE more.ram_bytes + ram_gift_bytes]
      BY DEF Held
    <3>3. QED
      BY <3>1, <3>2 DEF Shape
  <2>2. QED
    BY <1>7, <2>1 DEF Alive
<1>10. Alive(s)
  <2> DEFINE v == Sent(s, payer, RAMFEE_ACCOUNT, fee)
  <2>1. Shape(v) /\ (Alive(v) => Alive(s))
    BY <1>8, SentIs
  <2>2. f = channel_to_rex(v, RAMFEE_ACCOUNT, fee)
    BY DEF FeePaid
  <2> HIDE DEF v, s, f
  <2>3. Alive(f) => Alive(v)
    BY <2>1, <2>2, ChannelIs
  <2>4. QED
    BY <1>9, <2>1, <2>3
<1>11. /\ Shape(s) /\ Good(s) /\ Debt(s) = Debt(Tables) /\ Spare(s) = Spare(Tables) /\ 0 < paid
       /\ s.balances = rexbalance /\ s.orders = rexorders /\ s.loans = loans
       /\ s.totals = userres /\ s.limits = limits
       /\ Bal(s.tlos, STAKE_ACCOUNT) = Bal(accounts, STAKE_ACCOUNT)
       /\ Bal(s.tlos, RAM_ACCOUNT) = Bal(accounts, RAM_ACCOUNT)
                                       - (IF RAM_ACCOUNT = payer THEN paid ELSE 0)
                                       + (IF RAM_ACCOUNT = RAM_ACCOUNT THEN paid ELSE 0)
  BY <1>2, <1>5, <1>6, <1>10, PricePaid
<1> HIDE DEF s
<1>12. /\ Shape(f) /\ Good(f) /\ Debt(f) = Debt(s)
       /\ f.balances = s.balances /\ f.orders = s.orders /\ f.loans = s.loans
       /\ f.totals = s.totals /\ f.limits = s.limits
       /\ Spare(f) = Spare(s)
       /\ Bal(f.tlos, RAM_ACCOUNT) = Bal(s.tlos, RAM_ACCOUNT)
       /\ Bal(f.tlos, STAKE_ACCOUNT) = Bal(s.tlos, STAKE_ACCOUNT)
  BY <1>2, <1>9, <1>11, FeePaidKeeps
<1> HIDE DEF f
<1>13. /\ bytes \in Nat /\ bytes <= r.base
       /\ (r.quote + paid) * bytes <= paid * r.base
       /\ r.base \in Nat /\ r.quote \in Nat /\ r.total_ram_bytes_reserved \in Nat
       /\ r.total_ram_stake \in Nat /\ paid \in Nat
  <2>1. r.base \in Nat /\ r.quote \in Nat /\ r.total_ram_bytes_reserved \in Nat
        /\ r.total_ram_stake \in Nat
    BY <1>4, MarketNumbers
  <2>2. paid \in Nat /\ 0 < r.quote + paid
    BY <1>2, <1>11, <2>1
  <2>3. QED
    BY <2>1, <2>2, BancorIs
<1> HIDE DEF bytes
<1>14. r.base * r.quote <= (r.base - bytes) * (r.quote + paid)
  BY <1>13, TradedProduct
<1>15. /\ GoodMarket(ram')
       /\ ram'.total_ram_bytes_reserved = ram.total_ram_bytes_reserved + bytes
       /\ ram'.total_ram_stake = ram.total_ram_stake + paid
  <2>1. /\ bytes \in Int /\ 0 <= r.total_ram_bytes_reserved + bytes /\ 0 <= r.total_ram_stake + paid
    BY <1>13
  <2>2. QED
    BY <1>1, <1>2, <1>4, <1>13, <1>14, <2>1, TradedKeeps
<1>16. /\ more \in user_resources /\ more.net = Resources(receiver).net
       /\ more.cpu = Resources(receiver).cpu /\ 0 <= Resources(receiver).ram_bytes + bytes
  <2>1. 0 <= Resources(receiver).ram_bytes + bytes
    BY <1>3, <1>13
  <2>2. QED
    BY <1>3, <1>13, <2>1, MoreRamIs
<1> HIDE DEF more
<1>17. /\ f.totals[receiver] = userres[receiver] /\ f.limits[receiver] = limits[receiver]
       /\ more.net = Totals(f.totals[receiver]).net /\ more.cpu = Totals(f.totals[receiver]).cpu
  BY <1>3, <1>11, <1>12, <1>16
<1>18. /\ Good(u) /\ Debt(u) = Debt(f) /\ Spare(u) = Spare(f) /\ u.tlos = f.tlos
       /\ u.balances = f.balances /\ u.orders = f.orders /\ u.loans = f.loans
       /\ Totals(u.totals[receiver]) = more
       /\ u.limits[receiver].ram = IF "ram_managed" \in Managed(receiver) THEN f.limits[receiver].ram
                                   ELSE more.ram_bytes + ram_gift_bytes
       /\ \A b \in Account : b # receiver => u.totals[b] = f.totals[b] /\ u.limits[b] = f.limits[b]
  BY <1>12, <1>16, <1>17, HeldKeeps
<1> HIDE DEF u
<1>19. Bal(u.tlos, RAM_ACCOUNT) = Bal(accounts, RAM_ACCOUNT) + paid
  <2>1. Bal(accounts, RAM_ACCOUNT) \in Int
    BY <1>5, <1>6, TableNumbers
  <2>2. QED
    BY <1>2, <1>6, <1>11, <1>12, <1>18, <2>1
<1>20. /\ Debt(u) = 0 /\ Spare(u) = Spare(Tables)
       /\ Bal(u.tlos, STAKE_ACCOUNT) = Bal(accounts, STAKE_ACCOUNT)
       /\ u.balances = rexbalance /\ u.orders = rexorders /\ u.loans = loans
       /\ \A b \in Account : b # receiver => u.totals[b] = userres[b] /\ u.limits[b] = limits[b]
  BY <1>5, <1>11, <1>12, <1>18
<1>21. u.limits[receiver].ram = IF "ram_managed" \in Managed(receiver) THEN limits[receiver].ram
                                ELSE Totals(u.totals[receiver]).ram_bytes + ram_gift_bytes
  BY <1>17, <1>18
<1>22. Totals(u.totals[receiver]) = MoreRam(Resources(receiver), bytes) /\ bytes \in Int
  BY <1>13, <1>18 DEF more
<1>23. QED
  BY <1>1, <1>2, <1>15, <1>16, <1>18, <1>19, <1>20, <1>21, <1>22, TradeKeeps

\* buyrambytes
LEMMA BuyRamBytesKeeps ==
  ASSUME ContractInv, NEW payer \in Account, NEW receiver \in Account, NEW bytes \in Nat,
         BuyRamBytes(payer, receiver, bytes)
  PROVE  ContractInv'
<1> DEFINE cost == (ram.quote * bytes) \div (ram.base - bytes)
           quant == (cost * 1000) \div 995
<1>1. bytes < ram.base /\ BuyRam(payer, receiver, quant)
  BY DEF BuyRamBytes
<1>2. ram.quote \in Nat /\ ram.base \in Nat
  BY RamNumbers, MarketNumbers
<1>3. cost \in Int
  <2> DEFINE i == ram.quote * bytes
             j == ram.base - bytes
  <2>1. i \in Nat /\ j \in Nat /\ 0 < j
    BY <1>1, <1>2
  <2> HIDE DEF i, j
  <2>2. i \div j \in Nat
    BY <2>1, DivIs
  <2>3. QED
    BY <2>2 DEF i, j
<1> HIDE DEF cost
<1>4. quant \in Int
  BY <1>3
<1> HIDE DEF quant
<1>5. QED
  BY <1>1, <1>4, BuyRamKeeps

\* sellram
LEMMA SellRamKeeps ==
  ASSUME ContractInv, NEW account \in Account, NEW bytes \in Nat, SellRam(account, bytes)
  PROVE  ContractInv'
<1> DEFINE r == update_ram_supply(ram)
           out == get_bancor_output(r.base, r.quote, bytes)
           fee == Fee(out)
           gained == 0 - bytes
           paid == 0 - out
           less == MoreRam(Resources(account), gained)
           h == Held(Tables, account, less)
           s == Sent(h, RAM_ACCOUNT, account, out)
           u == FeePaid(s, account, fee)
<1>1. /\ GoodMarket(ram) /\ now \in Time /\ userres \in TotalTable
      /\ Resources(account) = Totals(userres[account]) /\ Resources(account) \in user_resources
      /\ Resources(account).ram_bytes \in Nat
      /\ Resources(account).ram_bytes <= ram.total_ram_bytes_reserved
  BY RamNumbers
<1>2. /\ GoodMarket(r) /\ r.total_ram_stake = ram.total_ram_stake
      /\ r.total_ram_bytes_reserved = ram.total_ram_bytes_reserved
  BY <1>1, SupplyKeeps
<1>3. /\ r.base \in Nat /\ r.quote \in Nat /\ r.total_ram_bytes_reserved \in Nat
      /\ r.total_ram_stake \in Nat /\ 0 < r.base
  BY <1>2, MarketNumbers
<1> HIDE DEF r
<1>4. out \in Nat /\ out <= r.quote /\ (r.base + bytes) * out <= bytes * r.quote
  <2>1. 0 < r.base + bytes
    BY <1>3
  <2>2. QED
    BY <1>3, <2>1, BancorIs
<1>5. /\ bytes > 0 /\ bytes <= Resources(account).ram_bytes /\ out <= r.total_ram_stake
      /\ VotesKept /\ LoansCounted /\ UNCHANGED bidVars
  BY DEF SellRam, r
<1>6. gained \in Int /\ paid \in Int /\ 0 <= Resources(account).ram_bytes + gained
  BY <1>1, <1>4, <1>5
<1>7. less = [Resources(account) EXCEPT !.ram_bytes = @ - bytes]
  <2>1. Resources(account).ram_bytes + gained = Resources(account).ram_bytes - bytes
    BY <1>1
  <2> HIDE DEF gained
  <2>2. QED
    BY <2>1 DEF MoreRam
<1>8. ram' = Traded(r, paid, gained)
  <2>1. ram' = [r EXCEPT !.quote = @ - out, !.base = @ + bytes,
                         !.total_ram_bytes_reserved = @ - bytes, !.total_ram_stake = @ - out]
    BY DEF SellRam, r
  <2> HIDE DEF out
  <2>2. /\ r.quote - out = r.quote + paid /\ r.base + bytes = r.base - gained
        /\ r.total_ram_bytes_reserved - bytes = r.total_ram_bytes_reserved + gained
        /\ r.total_ram_stake - out = r.total_ram_stake + paid
    BY <1>3, <1>4
  <2> HIDE DEF gained, paid
  <2>3. QED
    BY <2>1, <2>2 DEF Traded
<1>9. Commit(u)
  BY <1>7 DEF SellRam, r
<1>10. fee \in Int
  <2> HIDE DEF out
  <2>1. QED
    BY <1>4 DEF Fee
<1> HIDE DEF out, fee
<1>11. /\ Shape(Tables) /\ Good(Tables) /\ Debt(Tables) = 0 /\ Tables.tlos = accounts
       /\ Tables.balances = rexbalance /\ Tables.orders = rexorders /\ Tables.loans = loans
       /\ Tables.totals = userres /\ Tables.limits = limits
  BY TablesAre
<1> HIDE DEF gained, paid
<1>12. /\ less \in user_resources /\ less.net = Resources(account).net
       /\ less.cpu = Resources(account).cpu
  BY <1>1, <1>6, MoreRamIs
<1> HIDE DEF less
<1>13. less.net = Totals(Tables.totals[account]).net /\ less.cpu = Totals(Tables.totals[account]).cpu
  BY <1>1, <1>11, <1>12
<1>14. /\ Shape(h) /\ Good(h) /\ Debt(h) = Debt(Tables) /\ Spare(h) = Spare(Tables)
       /\ h.tlos = accounts
       /\ h.balances = rexbalance /\ h.orders = rexorders /\ h.loans = loans
       /\ Totals(h.totals[account]) = less
       /\ h.limits[account].ram = IF "ram_managed" \in Managed(account) THEN limits[account].ram
                                  ELSE less.ram_bytes + ram_gift_bytes
       /\ \A b \in Account : b # account => h.totals[b] = userres[b] /\ h.limits[b] = limits[b]
  <2>1. /\ Shape(h) /\ Good(h) /\ Debt(h) = Debt(Tables) /\ Spare(h) = Spare(Tables)
        /\ h.tlos = Tables.tlos
        /\ h.balances = Tables.balances /\ h.orders = Tables.orders /\ h.loans = Tables.loans
        /\ Totals(h.totals[account]) = less
        /\ h.limits[account].ram = IF "ram_managed" \in Managed(account) THEN Tables.limits[account].ram
                                   ELSE less.ram_bytes + ram_gift_bytes
        /\ \A b \in Account : /\ b # account => h.totals[b] = Tables.totals[b] /\ h.limits[b] = Tables.limits[b]
    BY <1>11, <1>12, <1>13, HeldKeeps
  <2> HIDE DEF h
  <2>2. QED
    BY <1>11, <2>1
<1> HIDE DEF h
<1>15. Alive(u)
  BY <1>9, CommitIs
<1>16. Alive(s) /\ Shape(s)
  <2> DEFINE v == Sent(s, account, RAMFEE_ACCOUNT, fee)
  <2>1. Shape(s)
    BY <1>14, SentIs
  <2>2. Shape(v) /\ (Alive(v) => Alive(s))
    BY <2>1, SentIs
  <2>3. u = channel_to_rex(v, RAMFEE_ACCOUNT, fee)
    BY DEF FeePaid
  <2> HIDE DEF v, s, u
  <2>4. Alive(u) => Alive(v)
    BY <2>2, <2>3, ChannelIs
  <2>5. QED
    BY <1>15, <2>1, <2>2, <2>4
<1>17. account \in TokenHolder /\ RAM_ACCOUNT \in TokenHolder /\ account # RAM_ACCOUNT
  BY HoldersApart DEF SystemAccounts
<1>18. /\ Good(s) /\ Debt(s) = Debt(h) /\ Spare(s) = Spare(h)
       /\ s.balances = h.balances /\ s.orders = h.orders /\ s.loans = h.loans
       /\ s.totals = h.totals /\ s.limits = h.limits
       /\ Bal(s.tlos, STAKE_ACCOUNT) = Bal(h.tlos, STAKE_ACCOUNT)
       /\ Bal(s.tlos, RAM_ACCOUNT) = Bal(h.tlos, RAM_ACCOUNT)
                                       - (IF RAM_ACCOUNT = RAM_ACCOUNT THEN out ELSE 0)
                                       + (IF RAM_ACCOUNT = account THEN out ELSE 0)
  <2>1. out \in Int /\ RAM_ACCOUNT # account
    BY <1>4, <1>17
  <2>2. QED
    BY <1>14, <1>16, <1>17, <2>1, PricePaid
<1> HIDE DEF s
<1>19. /\ Good(u) /\ Debt(u) = Debt(s)
       /\ u.balances = s.balances /\ u.orders = s.orders /\ u.loans = s.loans
       /\ u.totals = s.totals /\ u.limits = s.limits
       /\ Spare(u) = Spare(s)
       /\ Bal(u.tlos, RAM_ACCOUNT) = Bal(s.tlos, RAM_ACCOUNT)
       /\ Bal(u.tlos, STAKE_ACCOUNT) = Bal(s.tlos, STAKE_ACCOUNT)
  BY <1>10, <1>15, <1>16, <1>18, FeePaidKeeps
<1> HIDE DEF u
<1>20. Bal(u.tlos, RAM_ACCOUNT) = Bal(accounts, RAM_ACCOUNT) + paid
  <2>1. Bal(accounts, RAM_ACCOUNT) \in Int
    BY <1>11, <1>17, TableNumbers
  <2>2. QED
    BY <1>4, <1>14, <1>17, <1>18, <1>19, <2>1 DEF paid
<1>21. r.base * r.quote <= (r.base - gained) * (r.quote + paid)
  <2> DEFINE b == r.base
             q == r.quote
  <2>1. b \in Nat /\ q \in Nat /\ (b + bytes) * out <= bytes * q
    BY <1>3, <1>4
  <2> HIDE DEF b, q
  <2>2. q * b <= (q - out) * (b + bytes)
    BY <1>4, <2>1, TradedProduct
  <2>3. q - out = q + paid /\ b + bytes = b - gained
    BY <1>4, <2>1 DEF gained, paid
  <2>4. /\ q * b = b * q
        /\ (q - out) * (b + bytes) = (b + bytes) * (q - out)
    BY <1>4, <2>1
  <2>5. b * q <= (b - gained) * (q + paid)
    BY <2>2, <2>3, <2>4
  <2>6. QED
    BY <2>5 DEF b, q
<1>22. /\ GoodMarket(ram')
       /\ ram'.total_ram_bytes_reserved = ram.total_ram_bytes_reserved + gained
       /\ ram'.total_ram_stake = ram.total_ram_stake + paid
  <2>1. /\ gained <= r.base /\ 0 <= r.total_ram_bytes_reserved + gained
        /\ 0 <= r.total_ram_stake + paid
    BY <1>1, <1>2, <1>3, <1>4, <1>5 DEF gained, paid
  <2>2. QED
    BY <1>2, <1>6, <1>8, <1>21, <2>1, TradedKeeps
<1>23. /\ Debt(u) = 0 /\ Spare(u) = Spare(Tables)
       /\ Bal(u.tlos, STAKE_ACCOUNT) = Bal(accounts, STAKE_ACCOUNT)
       /\ u.balances = rexbalance /\ u.orders = rexorders /\ u.loans = loans
       /\ \A b \in Account : b # account => u.totals[b] = userres[b] /\ u.limits[b] = limits[b]
       /\ Totals(u.totals[account]) = less
       /\ u.limits[account].ram = IF "ram_managed" \in Managed(account) THEN limits[account].ram
                                  ELSE Totals(u.totals[account]).ram_bytes + ram_gift_bytes
  BY <1>11, <1>14, <1>18, <1>19
<1>24. Totals(u.totals[account]) = MoreRam(Resources(account), gained)
  BY <1>23 DEF less
<1>25. QED
  BY <1>5, <1>6, <1>9, <1>19, <1>20, <1>22, <1>23, <1>24, TradeKeeps

\* All steps of the market.
LEMMA MarketKeeps ==
  ASSUME ContractInv, RamNext
  PROVE  ContractInv'
<1>1. CASE (\E size \in Sizes : SetRam(size)) \/ \E rate \in Rates : SetRamRate(rate)
  BY <1>1, SupplyStepKeeps
<1>2. ASSUME NEW a \in Account, NEW b \in Account, NEW quant \in Quant, BuyRam(a, b, quant)
      PROVE  ContractInv'
  <2>1. quant \in Int
    BY RamMarketAssumption
  <2>2. QED
    BY <1>2, <2>1, BuyRamKeeps
<1>3. ASSUME NEW a \in Account, NEW b \in Account, NEW bytes \in Bytes, BuyRamBytes(a, b, bytes)
      PROVE  ContractInv'
  <2>1. bytes \in Nat
    BY RamMarketAssumption
  <2>2. QED
    BY <1>3, <2>1, BuyRamBytesKeeps
<1>4. ASSUME NEW a \in Account, NEW bytes \in Bytes, SellRam(a, bytes)
      PROVE  ContractInv'
  <2>1. bytes \in Nat
    BY RamMarketAssumption
  <2>2. QED
    BY <1>4, <2>1, SellRamKeeps
<1>5. ASSUME NEW a \in Account, UnsetAcctRam(a) \/ \E limit \in Limits : SetAcctRam(a, limit)
      PROVE  ContractInv'
  <2>1. UNCHANGED <<rexOnlyVars, bidVars, ram>>
    BY <1>5 DEF UnsetAcctRam, SetAcctRam
  <2>2. QED
    BY <1>5, <2>1, LimitSteps
<1>6. QED
  BY <1>1, <1>2, <1>3, <1>4, <1>5 DEF RamNext

\* All steps of the contract.
LEMMA ContractStep ==
  ASSUME ContractInv, [ContractNext]_ramVars
  PROVE  ContractInv'
<1>1. CASE RamNext
  BY <1>1, MarketKeeps
<1>2. CASE BidsNext /\ UNCHANGED ram
  BY <1>2, BidsKeep
<1>3. CASE RexNext /\ UNCHANGED bidVars /\ UNCHANGED ram
  <2>1. UNCHANGED <<bidVars, ram>>
    BY <1>3
  <2>2. CASE FundNext \/ BuyNext \/ SellNext \/ LoanNext \/ OwnerNext \/ PoolNext
    BY <2>1, <2>2, RexActionsKeep
  <2>3. CASE Next /\ UNCHANGED rexOnlyVars
    <3>1. UNCHANGED <<rexOnlyVars, bidVars, ram>>
      BY <2>1, <2>3
    <3>2. QED
      BY <2>3, <3>1, NextKept
  <2>4. QED
    BY <1>3, <2>2, <2>3, Zenon DEF RexNext
<1>4. CASE UNCHANGED ramVars
  <2>1. UNCHANGED systemVars /\ ram' = ram
    BY <1>4 DEF ramVars
  <2>2. GoodMarket(ram')
    BY <2>1 DEF ContractInv, RamInv
  <2>3. QED
    BY <2>1, <2>2, MarketAlone
<1>5. QED
  BY <1>1, <1>2, <1>3, <1>4, Zenon DEF ContractNext, SystemNext

-----------------------------------------------------------------------------
(* The start *)

\* Nobody has funds, orders or REX, and there are no loans, bids or refunds.
LEMMA EmptySums ==
  ASSUME RamInit
  PROVE  /\ SumFunds(rexfunds) = 0 /\ SumEarned(rexorders) = 0 /\ SumHeld(rexbalance) = 0
         /\ \A f : OfLoans(f) => \A r \in RESOURCES : SumFunctionOnSet(f, loans[r]) = 0
         /\ SumRefunds(bid_refunds) = 0 /\ SumBids(bids) = 0 /\ SumBytes(userres) = 0
<1>1. /\ \A a \in Account : /\ rexfunds[a] = Nil /\ rexorders[a] = Nil /\ rexbalance[a] = Nil
                            /\ userres[a] = NoResources
      /\ \A r \in RESOURCES : loans[r] = {}
      /\ \A n \in NewName : bids[n] = Nil /\ \A a \in Account : bid_refunds[n][a] = Nil
  BY DEF RamInit, NameBidsInit, RexInit, BandwidthInit, VotingInit
<1>2. IsFiniteSet(Account) /\ IsFiniteSet(NewName)
  BY VotingFinite, NameBidsAssumption
<1>3. SumFunds(rexfunds) = 0
  <2> DEFINE f == [a \in Account |-> FundIn(rexfunds[a])]
  <2>1. \A a \in Account : f[a] = 0
    BY <1>1 DEF FundIn
  <2> HIDE DEF f
  <2>2. SumFunctionOnSet(f, Account) = 0
    BY <1>2, <2>1, SumZero
  <2>3. QED
    BY <2>2 DEF f, SumFunds
<1>4. SumEarned(rexorders) = 0
  <2> DEFINE f == [a \in Account |-> EarnedIn(rexorders[a])]
  <2>1. \A a \in Account : f[a] = 0
    BY <1>1 DEF EarnedIn
  <2> HIDE DEF f
  <2>2. SumFunctionOnSet(f, Account) = 0
    BY <1>2, <2>1, SumZero
  <2>3. QED
    BY <2>2 DEF f, SumEarned
<1>5. SumHeld(rexbalance) = 0
  <2> DEFINE f == [a \in Account |-> HeldIn(rexbalance[a])]
  <2>1. \A a \in Account : f[a] = 0
    BY <1>1 DEF HeldIn
  <2> HIDE DEF f
  <2>2. SumFunctionOnSet(f, Account) = 0
    BY <1>2, <2>1, SumZero
  <2>3. QED
    BY <2>2 DEF f, SumHeld
<1>6. \A f : OfLoans(f) => \A r \in RESOURCES : SumFunctionOnSet(f, loans[r]) = 0
  BY <1>1, SumEmpty
<1>7. SumBids(bids) = 0
  <2> DEFINE f == [n \in NewName |-> BidIn(bids[n])]
  <2>1. \A n \in NewName : f[n] = 0
    BY <1>1 DEF BidIn
  <2> HIDE DEF f
  <2>2. SumFunctionOnSet(f, NewName) = 0
    BY <1>2, <2>1, SumZero
  <2>3. QED
    BY <2>2 DEF f, SumBids
<1>8. SumRefunds(bid_refunds) = 0
  <2> DEFINE f == [n \in NewName |-> RefundsOf(bid_refunds[n])]
  <2>1. ASSUME NEW n \in NewName
        PROVE  f[n] = 0
    <3> DEFINE g == [a \in Account |-> RefundIn(bid_refunds[n][a])]
    <3>1. \A a \in Account : g[a] = 0
      BY <1>1 DEF RefundIn
    <3> HIDE DEF g
    <3>2. SumFunctionOnSet(g, Account) = 0
      BY <1>2, <3>1, SumZero
    <3>3. QED
      BY <3>2 DEF g, RefundsOf
  <2> HIDE DEF f
  <2>2. SumFunctionOnSet(f, NewName) = 0
    BY <1>2, <2>1, SumZero
  <2>3. QED
    BY <2>2 DEF f, SumRefunds
<1>9. SumBytes(userres) = 0
  <2> DEFINE f == [a \in Account |-> Totals(userres[a]).ram_bytes]
  <2>1. \A a \in Account : f[a] = 0
    <3>1. NoResources.ram_bytes = 0 /\ NoResources \in user_resources
      BY DEF NoResources, user_resources
    <3>2. QED
      BY <1>1, <3>1 DEF Totals
  <2> HIDE DEF f
  <2>2. SumFunctionOnSet(f, Account) = 0
    BY <1>2, <2>1, SumZero
  <2>3. QED
    BY <2>2 DEF f, SumBytes
<1>10. QED
  BY <1>3, <1>4, <1>5, <1>6, <1>7, <1>8, <1>9

\* The books are right before any account of the contract has a token.
LEMMA ContractStart ==
  ASSUME ContractInit
  PROVE  ContractInv
<1>1. /\ RamInit /\ TLOS!TypeOK /\ \A a \in SystemAccounts : accounts[a] = Nil
  BY DEF ContractInit
<1>2. /\ now = 1 /\ rexpool = Nil /\ loans = [r \in RESOURCES |-> {}] /\ loan_num = 0 /\ retained = 0
      /\ taken = [a \in SystemAccounts |-> 0]
      /\ rexbalance = [a \in Account |-> Nil] /\ rexfunds = [a \in Account |-> Nil]
      /\ rexorders = [a \in Account |-> Nil] /\ unweighed = [a \in Account |-> 0]
      /\ voters = [a \in Account |-> Nil] /\ refunds = [a \in Account |-> Nil]
      /\ userres = [a \in Account |-> NoResources]
      /\ limits = [a \in Account |-> [ram |-> 0, net |-> 0, cpu |-> 0]]
      /\ activated = FALSE /\ cancelled = {} /\ deferred = [a \in Account |-> Nil]
      /\ del_bandwidth = [a \in Account |-> [b \in Account |-> Zero]]
      /\ bids = [n \in NewName |-> Nil] /\ bid_refunds = [n \in NewName |-> [a \in Account |-> Nil]]
  BY <1>1 DEF RamInit, NameBidsInit, RexInit, BandwidthInit, VotingInit
<1>3. /\ accounts[STAKE_ACCOUNT] = Nil /\ accounts[REX_ACCOUNT] = Nil /\ accounts[NAMES_ACCOUNT] = Nil
      /\ accounts[RAM_ACCOUNT] = Nil
  BY <1>1 DEF SystemAccounts
<1>4. Init
  BY <1>1, <1>3 DEF Init, RamInit, NameBidsInit, RexInit
<1>5. /\ SumFunds(rexfunds) = 0 /\ SumEarned(rexorders) = 0 /\ SumHeld(rexbalance) = 0
      /\ \A f : OfLoans(f) => \A r \in RESOURCES : SumFunctionOnSet(f, loans[r]) = 0
      /\ SumRefunds(bid_refunds) = 0 /\ SumBids(bids) = 0 /\ SumBytes(userres) = 0
  BY <1>1, EmptySums
<1>6. /\ OwedIn(refunds) = 0 /\ StakeOfAll(del_bandwidth) = 0
      /\ \A a \in Account : /\ StakeOf(del_bandwidth, a) = 0
                            /\ NetTo(del_bandwidth, a) = 0 /\ CpuTo(del_bandwidth, a) = 0
  BY <1>4, StartSums
<1>7. \A f : OfLoans(f) => OnLoans(f, loans) = 0
  BY <1>5 DEF OnLoans, RESOURCES
<1>8. OnLoans(StakedBy, loans) = 0 /\ OnLoans(BalanceBy, loans) = 0
  BY <1>7, LoanNumbers
<1>9. /\ Shape(Tables) /\ Tables.pool = rexpool /\ Tables.balances = rexbalance
      /\ Tables.funds = rexfunds
      /\ Tables.orders = rexorders /\ Tables.loans = loans /\ Tables.totals = userres
      /\ Tables.limits = limits /\ Tables.tlos = accounts /\ Tables.retained = retained
  BY DEF Tables, Shape
<1>10. GoodPool(rexpool, rexbalance, loans)
  BY <1>2, <1>5, <1>8 DEF GoodPool, PoolOf, NoPool
<1>11. GoodLoans(loans, loan_num)
  <2>1. loans \in LoanTable /\ \A r \in RESOURCES : loans[r] = {} /\ IsFiniteSet(loans[r])
    BY <1>2, FS_EmptySet DEF LoanTable
  <2>2. QED
    BY <2>1 DEF GoodLoans, FiniteLoans
<1>12. GoodRows(rexbalance, rexorders) /\ GoodOrders(rexbalance, rexorders) /\ rexfunds \in FundTable
  BY <1>2 DEF GoodRows, GoodOrders, GoodOrder, RexTable, OrderTable, FundTable
<1>13. GoodTotals(userres, limits)
  <2>1. NoResources \in user_resources
    BY DEF NoResources, user_resources
  <2>2. [ram |-> 0, net |-> 0, cpu |-> 0] \in LimitSet
    BY DEF LimitSet
  <2>3. QED
    BY <1>2, <2>1, <2>2 DEF GoodTotals, TotalTable, LimitTable
<1>14. GoodTokens(accounts)
  BY <1>1 DEF TLOS!TypeOK, TLOS!Owners, GoodTokens, TokenTable, TokenHolder
<1>15. Good(Tables)
  <2>1. retained \in Nat
    BY <1>2
  <2>2. QED
    BY <1>9, <1>10, <1>11, <1>12, <1>13, <1>14, <2>1 DEF Good
<1>16. Debt(Tables) = 0 /\ Spare(Tables) = 0
  BY <1>2, <1>3, <1>5, <1>8, <1>9 DEF Debt, Spare, Bal, PoolOf, NoPool
<1>17. /\ BidsInv /\ taken \in [SystemAccounts -> Nat]
       /\ taken[STAKE_ACCOUNT] = 0 /\ taken[RAM_ACCOUNT] = 0
  <2>1. \A h \in {STAKE_ACCOUNT, NAMES_ACCOUNT, RAM_ACCOUNT} : taken[h] = 0
    BY <1>2 DEF SystemAccounts
  <2>2. taken \in [SystemAccounts -> Nat]
    BY <1>2
  <2>3. QED
    BY <1>2, <1>5, <1>16, <2>1, <2>2 DEF BidsInv
<1>18. WeightInv
  <2>1. voters \in VoterTable /\ unweighed \in [Account -> Int]
    BY <1>2 DEF VoterTable
  <2>2. del_bandwidth \in DelTable
    BY <1>2 DEF DelTable, Weights, Zero
  <2>3. ASSUME NEW a \in Account
        PROVE  /\ StakedIn(voters[a]) = 0 /\ unweighed[a] = 0 /\ rexbalance[a] = Nil
               /\ Weight(Tables, a) = 0
               /\ Own(Tables, a, "net") = 0 /\ Own(Tables, a, "cpu") = 0
    <3>1. /\ voters[a] = Nil /\ unweighed[a] = 0 /\ rexbalance[a] = Nil /\ rexorders[a] = Nil
          /\ userres[a] = NoResources
      BY <1>2
    <3>2. RexStake(Nil) = 0 /\ ChangeOf(Nil) = 0 /\ StakedIn(Nil) = 0
      BY DEF RexStake, ChangeOf, StakedIn
    <3>3. Weight(Tables, a) = 0
      BY <1>9, <3>1, <3>2 DEF Weight
    <3>4. OfLoans(StakedFor(a)) /\ "net" \in RESOURCES /\ "cpu" \in RESOURCES
      BY LoanNumbers DEF RESOURCES
    <3>5. SumFunctionOnSet(StakedFor(a), loans["net"]) = 0 /\ SumFunctionOnSet(StakedFor(a), loans["cpu"]) = 0
      BY <1>5, <3>4
    <3>6. Totals(userres[a]) = NoResources /\ NoResources.net = 0 /\ NoResources.cpu = 0
      BY <3>1 DEF Totals, NoResources
    <3>7. Own(Tables, a, "net") = 0 /\ Own(Tables, a, "cpu") = 0
      BY <1>9, <3>5, <3>6 DEF Own
    <3>8. QED
      BY <3>1, <3>2, <3>3, <3>7
  <2>4. QED
    BY <1>6, <2>1, <2>2, <2>3 DEF WeightInv
<1>19. HoldsInv
  <2>1. refunds \in RefundTable
    BY <1>2 DEF RefundTable
  <2>2. QED
    BY <1>1, <1>3, <1>6, <1>17, <2>1 DEF HoldsInv, HeldBut, TLOS!Balance
<1>20. ClockInv
  <2>1. now \in Time
    BY <1>2, VotingAssumption, BandwidthAssumption DEF Time
  <2>2. QED
    BY <1>2, <2>1 DEF ClockInv
<1>21. BooksInv
  BY <1>2, <1>15, <1>16, <1>17, <1>18, <1>19, <1>20 DEF BooksInv
<1>22. GoodMarket(ram)
  <2>1. ram = [base |-> InitialRam, quote |-> InitialQuote, max_ram_size |-> InitialRam,
               total_ram_bytes_reserved |-> 0, total_ram_stake |-> 0,
               new_ram_per_block |-> 0, last_ram_increase |-> 0]
    BY <1>1 DEF RamInit
  <2>2. InitialRam \in Nat /\ 0 < InitialRam /\ InitialQuote \in Nat /\ 0 < InitialQuote
    BY RamMarketAssumption
  <2>3. 0 \in 0..MaxTime
    BY VotingAssumption, BandwidthAssumption
  <2>4. ram \in ram_market
    BY <2>1, <2>2, <2>3 DEF ram_market
  <2>5. InitialQuote * InitialRam <= InitialRam * InitialQuote
    BY <2>2
  <2>6. QED
    BY <2>1, <2>2, <2>4, <2>5 DEF GoodMarket
<1>23. RamInv
  <2>1. ram.total_ram_bytes_reserved = 0 /\ ram.total_ram_stake = 0
    BY <1>1 DEF RamInit
  <2>2. \A a \in Account : Totals(userres[a]).ram_bytes = 0
    <3>1. NoResources.ram_bytes = 0
      BY DEF NoResources
    <3>2. QED
      BY <1>2, <3>1 DEF Totals
  <2>3. QED
    BY <1>3, <1>5, <1>17, <1>22, <2>1, <2>2 DEF RamInv, Bal
<1>24. QED
  BY <1>21, <1>23 DEF ContractInv

-----------------------------------------------------------------------------
(* What the invariant says *)

\* The sums of Rex are those of its tables.
LEMMA OwedSums ==
  ASSUME ContractInv
  PROVE  /\ SumOver(Fund, Account) = SumFunds(rexfunds)
         /\ SumOver(Earned, Account) = SumEarned(rexorders)
         /\ SumOver(RexHeld, Account) = SumHeld(rexbalance)
         /\ OfAllLoans(LAMBDA l : l.balance) = OnLoans(BalanceBy, loans)
         /\ OfAllLoans(LAMBDA l : l.total_staked) = OnLoans(StakedBy, loans)
<1>1. SumOver(Fund, Account) = SumFunds(rexfunds)
  <2>1. [a \in Account |-> Fund(a)] = [a \in Account |-> FundIn(rexfunds[a])]
    BY DEF Fund, FundIn
  <2>2. QED
    BY <2>1 DEF SumOver, SumFunds
<1>2. SumOver(Earned, Account) = SumEarned(rexorders)
  <2>1. [a \in Account |-> Earned(a)] = [a \in Account |-> EarnedIn(rexorders[a])]
    BY DEF Earned, EarnedIn
  <2>2. QED
    BY <2>1 DEF SumOver, SumEarned
<1>3. SumOver(RexHeld, Account) = SumHeld(rexbalance)
  <2>1. [a \in Account |-> RexHeld(a)] = [a \in Account |-> HeldIn(rexbalance[a])]
    BY DEF RexHeld, HeldIn
  <2>2. QED
    BY <2>1 DEF SumOver, SumHeld
<1>4. FiniteLoans(loans)
  BY TablesAre DEF Good, GoodLoans
<1>5. ASSUME NEW r \in RESOURCES
      PROVE  /\ SumOver(LAMBDA l : l.balance, loans[r]) = SumFunctionOnSet(BalanceBy, loans[r])
             /\ SumOver(LAMBDA l : l.total_staked, loans[r]) = SumFunctionOnSet(StakedBy, loans[r])
  <2>1. loans[r] \subseteq rex_loan /\ IsFiniteSet(loans[r])
    BY <1>4 DEF FiniteLoans, LoanTable
  <2> DEFINE f == [l \in loans[r] |-> l.balance]
             g == [l \in loans[r] |-> l.total_staked]
  <2>2. \A l \in loans[r] : f[l] = BalanceBy[l] /\ g[l] = StakedBy[l]
    BY <2>1, LoanNumbers
  <2> HIDE DEF f, g
  <2>3. /\ SumFunctionOnSet(f, loans[r]) = SumFunctionOnSet(BalanceBy, loans[r])
        /\ SumFunctionOnSet(g, loans[r]) = SumFunctionOnSet(StakedBy, loans[r])
    BY <2>1, <2>2, SumEqual
  <2>4. QED
    BY <2>3 DEF f, g, SumOver
<1>6. "net" \in RESOURCES /\ "cpu" \in RESOURCES
  BY DEF RESOURCES
<1>7. /\ OfAllLoans(LAMBDA l : l.balance) = OnLoans(BalanceBy, loans)
      /\ OfAllLoans(LAMBDA l : l.total_staked) = OnLoans(StakedBy, loans)
  BY <1>5, <1>6 DEF OfAllLoans, OnLoans
<1>8. QED
  BY <1>1, <1>2, <1>3, <1>7

\* eosio.rex
LEMMA InvBacked ==
  ASSUME ContractInv
  PROVE  RexBacked
<1>1. /\ Good(Tables) /\ Debt(Tables) = 0 /\ Tables.pool = rexpool /\ Tables.balances = rexbalance
      /\ Tables.funds = rexfunds /\ Tables.orders = rexorders /\ Tables.loans = loans
      /\ Tables.tlos = accounts
  BY TablesAre
<1> DEFINE b == Bal(accounts, REX_ACCOUNT)
           p == PoolOf(rexpool).total_lendable
           f == SumFunds(rexfunds)
           e == SumEarned(rexorders)
           l == OnLoans(BalanceBy, loans)
<1>2. b \in Int /\ p \in Int /\ f \in Int /\ e \in Int /\ l \in Int
  BY <1>1, DebtNumbers
<1>3. b - p - f - e - l = 0
  BY <1>1 DEF Debt
<1>4. b = p + f + e + l
  <2> HIDE DEF b, p, f, e, l
  <2>1. QED
    BY <1>2, <1>3
<1>5. TLOS!Balance(REX_ACCOUNT) = b
  BY DEF TLOS!Balance, Bal
<1>6. Lendable = p
  BY DEF Lendable, PoolOf, NoPool
<1>7. TLOS!Balance(REX_ACCOUNT) = Lendable + SumOver(Fund, Account) + SumOver(Earned, Account)
                                  + OfAllLoans(LAMBDA loan : loan.balance)
  BY <1>4, <1>5, <1>6, OwedSums
<1>8. GoodPool(rexpool, rexbalance, loans)
  BY <1>1 DEF Good
<1>9. rexpool # Nil =>
        /\ rexpool.total_lent = OfAllLoans(LAMBDA loan : loan.total_staked)
        /\ rexpool.total_lendable = rexpool.total_lent + rexpool.total_unlent
        /\ rexpool.total_unlent >= 0
        /\ rexpool.total_rex = 0 => rexpool.total_lendable = 0
  BY <1>8, OwedSums, PoolNumbers DEF GoodPool, PoolOf
<1>10. QED
  BY <1>7, <1>9 DEF RexBacked

\* The REX of its owners.
LEMMA InvOwned ==
  ASSUME ContractInv
  PROVE  RexOwned
<1>1. /\ Good(Tables) /\ Tables.pool = rexpool /\ Tables.balances = rexbalance
      /\ Tables.orders = rexorders /\ Tables.loans = loans
      /\ rexorders \in OrderTable /\ rexbalance \in RexTable
  BY TablesAre
<1>2. /\ GoodPool(rexpool, rexbalance, loans) /\ GoodRows(rexbalance, rexorders)
      /\ GoodOrders(rexbalance, rexorders)
  BY <1>1 DEF Good
<1>3. (IF rexpool = Nil THEN 0 ELSE rexpool.total_rex) = SumOver(RexHeld, Account)
  BY <1>2, OwedSums DEF GoodPool, PoolOf, NoPool
<1>4. ASSUME NEW a \in Account, rexbalance[a] # Nil
      PROVE  /\ rexbalance[a].rex_balance
                  = rexbalance[a].matured_rex + SumRex(rexbalance[a].rex_maturities)
             /\ InSellOrder(Tables, a) <= rexbalance[a].matured_rex
  <2>1. GoodRow(rexbalance[a]) /\ GoodOrder(rexorders[a], rexbalance[a])
    BY <1>2, <1>4 DEF GoodRows, GoodOrders
  <2>2. InSellOrder(Tables, a) <= rexbalance[a].matured_rex
    BY <1>1, <2>1 DEF GoodRow, GoodOrder, InSellOrder, IsOpen
  <2>3. QED
    BY <2>1, <2>2 DEF GoodRow
<1>5. QED
  BY <1>3, <1>4 DEF RexOwned

\* Stake in votes and totals.
LEMMA InvCounted ==
  ASSUME ContractInv
  PROVE  StakeAndLoansCount
<1>1. /\ Good(Tables) /\ Tables.balances = rexbalance
      /\ Tables.orders = rexorders /\ Tables.loans = loans /\ Tables.totals = userres
      /\ rexorders \in OrderTable /\ rexbalance \in RexTable /\ voters \in VoterTable
  BY TablesAre
<1>2. WeightInv /\ FiniteLoans(loans) /\ userres \in TotalTable
  BY <1>1 DEF ContractInv, BooksInv, Good, GoodLoans, GoodTotals
<1>3. ASSUME NEW a \in Account
      PROVE  (IF voters[a] = Nil THEN 0 ELSE voters[a].staked) =
               Delegated(a) + VoteStake(Tables, a) - unweighed[a]
                 - (IF IsFilled(Tables, a) THEN rexorders[a].stake_change ELSE 0)
  <2> DEFINE s == StakedIn(voters[a])
             d == StakeOf(del_bandwidth, a)
             v == RexStake(rexbalance[a])
             c == ChangeOf(rexorders[a])
             n == unweighed[a]
  <2>1. s = d + (v - c) - n
    BY <1>1, <1>2 DEF WeightInv, Weight
  <2>2. v \in Int /\ c \in Int
    BY <1>1, TableNumbers
  <2>3. d \in Int /\ n \in Int
    BY <1>2, StakeNat DEF WeightInv
  <2>4. s = d + v - n - c
    <3> HIDE DEF s, d, v, c, n
    <3>1. QED
      BY <2>1, <2>2, <2>3
  <2>5. s = IF voters[a] = Nil THEN 0 ELSE voters[a].staked
    BY DEF StakedIn
  <2>6. d = Delegated(a)
    BY DEF Delegated, StakeOf
  <2>7. v = VoteStake(Tables, a)
    BY <1>1 DEF VoteStake, RexStake
  <2>8. c = IF IsFilled(Tables, a) THEN rexorders[a].stake_change ELSE 0
    BY <1>1 DEF ChangeOf, IsFilled, OrderTable, rex_order
  <2> HIDE DEF s, d, v, c, n
  <2>9. QED
    BY <2>4, <2>5, <2>6, <2>7, <2>8 DEF n
<1>4. ASSUME NEW a \in Account, NEW r \in RESOURCES
      PROVE  Resources(a)[r] =
               SumOver(LAMBDA from : del_bandwidth[from][a][r], Account)
               + SumOver(LAMBDA l : IF l.receiver = a THEN l.total_staked ELSE 0, loans[r])
  <2> DEFINE lent == SumFunctionOnSet(StakedFor(a), loans[r])
             given == SumFunctionOnSet([from \in Account |-> del_bandwidth[from][a][r]], Account)
             f == [l \in loans[r] |-> IF l.receiver = a THEN l.total_staked ELSE 0]
  <2>1. r = "net" \/ r = "cpu"
    BY DEF RESOURCES
  <2>2. lent \in Int /\ loans[r] \subseteq rex_loan /\ IsFiniteSet(loans[r])
    BY <1>2, LoanSums, LoanNumbers DEF FiniteLoans, LoanTable
  <2>3. \A l \in loans[r] : f[l] = StakedFor(a)[l]
    BY <2>2, LoanNumbers
  <2>4. SumFunctionOnSet(f, loans[r]) = lent
    <3> HIDE DEF f
    <3>1. QED
      BY <2>2, <2>3, SumEqual
  <2>5. given = IF r = "net" THEN NetTo(del_bandwidth, a) ELSE CpuTo(del_bandwidth, a)
    BY <2>1 DEF NetTo, CpuTo
  <2>6. Resources(a) = Totals(userres[a]) /\ Totals(userres[a]) \in user_resources
    BY <1>2 DEF Resources, Totals, TotalTable, NoResources, user_resources
  <2>7. Resources(a)[r] \in Int
    BY <2>1, <2>6 DEF user_resources
  <2>8. Resources(a)[r] - lent = given
    <3>1. CASE r = "net"
      BY <1>1, <1>2, <2>5, <2>6, <3>1 DEF WeightInv, Own
    <3>2. CASE r = "cpu"
      BY <1>1, <1>2, <2>5, <2>6, <3>2 DEF WeightInv, Own
    <3>3. QED
      BY <2>1, <3>1, <3>2
  <2>9. given \in Int
    BY <1>2, <2>5, StakeNat DEF WeightInv
  <2>10. Resources(a)[r] = given + SumFunctionOnSet(f, loans[r])
    <3> HIDE DEF lent, given, f
    <3>1. QED
      BY <2>2, <2>4, <2>7, <2>8, <2>9
  <2>11. QED
    BY <2>10 DEF SumOver
<1>5. QED
  BY <1>3, <1>4 DEF StakeAndLoansCount

\* eosio.names
LEMMA InvNames ==
  ASSUME ContractInv
  PROVE  NamesBacked
<1>1. Tables.pool = rexpool /\ Tables.tlos = accounts /\ Tables.retained = retained
  BY TablesAre
<1>2. /\ bids \in BidTable /\ bid_refunds \in BackTable /\ PoolOf(rexpool).namebid_proceeds \in Nat
      /\ retained \in Nat /\ Bal(accounts, NAMES_ACCOUNT) \in Int
      /\ SumRefunds(bid_refunds) \in Nat /\ SumBids(bids) \in Nat
  BY NamesAre
<1>3. SumOver(OpenBid, NewName) = SumBids(bids)
  <2>1. [n \in NewName |-> OpenBid(n)] = [n \in NewName |-> BidIn(bids[n])]
    BY DEF OpenBid, OpenBids, BidIn
  <2>2. QED
    BY <2>1 DEF SumOver, SumBids
<1>4. SumOver(ToBidders, NewName) = SumRefunds(bid_refunds)
  <2>1. ASSUME NEW n \in NewName
        PROVE  ToBidders(n) = RefundsOf(bid_refunds[n])
    BY DEF ToBidders, SumOver, RefundsOf, RefundIn
  <2>2. [n \in NewName |-> ToBidders(n)] = [n \in NewName |-> RefundsOf(bid_refunds[n])]
    BY <2>1
  <2>3. QED
    BY <2>2 DEF SumOver, SumRefunds
<1>5. TLOS!Balance(NAMES_ACCOUNT) = Bal(accounts, NAMES_ACCOUNT)
  BY DEF TLOS!Balance, Bal
<1>6. (IF rexpool = Nil THEN 0 ELSE rexpool.namebid_proceeds) = PoolOf(rexpool).namebid_proceeds
  BY DEF PoolOf, NoPool
<1> DEFINE p == PoolOf(rexpool).namebid_proceeds
           r == SumRefunds(bid_refunds)
           b == SumBids(bids)
           n == Bal(accounts, NAMES_ACCOUNT)
           m == taken[NAMES_ACCOUNT]
<1>7. n - p - retained + m = r + b /\ m \in Nat
  BY NamesAre
<1>8. n + m = r + b + p + retained
  <2> HIDE DEF p, r, b, n, m
  <2>1. p \in Int /\ r \in Int /\ b \in Int /\ n \in Int /\ retained \in Int
    BY <1>2 DEF p, r, b, n
  <2>2. QED
    BY <1>7, <2>1
<1>9. QED
  BY <1>3, <1>4, <1>5, <1>6, <1>8 DEF NamesBacked

\* eosio.ram
LEMMA InvRam ==
  ASSUME ContractInv
  PROVE  RamBacked
<1>1. RamInv
  BY DEF ContractInv
<1>2. SumOver(LAMBDA a : Resources(a).ram_bytes, Account) = SumBytes(userres)
  <2>1. \A a \in Account : Resources(a) = Totals(userres[a])
    BY DEF Resources, Totals
  <2>2. [a \in Account |-> Resources(a).ram_bytes] = [a \in Account |-> Totals(userres[a]).ram_bytes]
    BY <2>1
  <2>3. QED
    BY <2>2 DEF SumOver, SumBytes
<1>3. TLOS!Balance(RAM_ACCOUNT) = Bal(accounts, RAM_ACCOUNT)
  BY DEF TLOS!Balance, Bal
<1>4. QED
  BY <1>1, <1>2, <1>3 DEF RamInv, GoodMarket, RamBacked

\* A market takes no more for what there is of bytes than it was given for them.
LEMMA SoldFor ==
  ASSUME NEW r, GoodMarket(r), NEW bytes \in Nat, bytes <= r.total_ram_bytes_reserved
  PROVE  get_bancor_output(r.base, r.quote, bytes) <= r.total_ram_stake
<1> DEFINE b == r.base
           q == r.quote
           i == InitialQuote
           m == r.max_ram_size
           out == get_bancor_output(b, q, bytes)
           stake == r.total_ram_stake
<1>1. /\ b \in Nat /\ q \in Nat /\ m \in Nat /\ i \in Nat /\ stake \in Nat /\ 0 < b
      /\ r.total_ram_bytes_reserved \in Nat
  BY MarketNumbers
<1>2. b + r.total_ram_bytes_reserved = m /\ q = i + stake /\ i * m <= b * q
  BY DEF GoodMarket
<1>3. out \in Nat /\ (b + bytes) * out <= bytes * q
  <2> HIDE DEF b, q
  <2>1. 0 < b + bytes
    BY <1>1
  <2>2. QED
    BY <1>1, <2>1, BancorIs
<1>4. b + bytes <= m
  BY <1>1, <1>2
<1> HIDE DEF b, q, i, m, out, stake
<1>5. i * (b + bytes) <= i * m
  BY <1>1, <1>4
<1>6. i * (b + bytes) <= b * q
  <2> DEFINE x == i * (b + bytes)
             y == i * m
             z == b * q
  <2>1. x \in Int /\ y \in Int /\ z \in Int /\ x <= y /\ y <= z
    BY <1>1, <1>2, <1>5
  <2> HIDE DEF x, y, z
  <2>2. x <= z
    BY <2>1
  <2>3. QED
    BY <2>2 DEF x, z
<1>7. (b + bytes) * out <= (b + bytes) * stake
  <2>1. (b + bytes) * stake = b * q + bytes * q - i * (b + bytes)
    <3>1. stake = q - i
      BY <1>1, <1>2
    <3>2. (b + bytes) * (q - i) = b * q + bytes * q - i * (b + bytes)
      BY <1>1
    <3>3. QED
      BY <3>1, <3>2
  <2> DEFINE w == (b + bytes) * out
             x == i * (b + bytes)
             y == bytes * q
             z == b * q
             v == (b + bytes) * stake
  <2>2. w \in Int /\ x \in Int /\ y \in Int /\ z \in Int
    BY <1>1, <1>3
  <2>3. v = z + y - x /\ w <= y /\ x <= z
    BY <1>3, <1>6, <2>1
  <2> HIDE DEF w, x, y, z, v
  <2>4. w <= v
    BY <2>2, <2>3
  <2>5. QED
    BY <2>4 DEF w, v
<1>8. out <= stake
  <2> DEFINE d == b + bytes
  <2>1. d \in Nat /\ 0 < d /\ d * out <= d * stake
    BY <1>1, <1>7
  <2> HIDE DEF d
  <2>2. CASE stake + 1 <= out
    <3>1. d * (stake + 1) <= d * out
      BY <1>1, <1>3, <2>1, <2>2
    <3>2. d * (stake + 1) = d * stake + d /\ d * stake \in Int /\ d * out \in Int
      BY <1>1, <1>3, <2>1
    <3>3. QED
      BY <2>1, <3>1, <3>2
  <2>3. QED
    BY <1>1, <1>3, <2>2
<1>9. QED
  BY <1>8 DEF out, stake, b, q

\* So it is with the market and all that anybody holds.
LEMMA InvSellable ==
  ASSUME ContractInv
  PROVE  RamSellable
<1> DEFINE r == update_ram_supply(ram)
<1>1. GoodMarket(ram) /\ now \in Time
  BY TablesAre DEF ContractInv, RamInv
<1>2. GoodMarket(r) /\ r.total_ram_bytes_reserved = ram.total_ram_bytes_reserved
  BY <1>1, SupplyKeeps
<1>3. ram.total_ram_bytes_reserved \in Nat
  BY <1>1, MarketNumbers
<1>4. ASSUME NEW bytes \in {Resources(a).ram_bytes : a \in Account} \cup {ram.total_ram_bytes_reserved}
      PROVE  get_bancor_output(r.base, r.quote, bytes) <= r.total_ram_stake
  <2>1. bytes \in Nat /\ bytes <= ram.total_ram_bytes_reserved
    <3>1. CASE bytes \in {Resources(a).ram_bytes : a \in Account}
      <4>1. PICK a \in Account : bytes = Resources(a).ram_bytes
        BY <3>1
      <4>2. QED
        BY <4>1, RamNumbers
    <3>2. CASE bytes = ram.total_ram_bytes_reserved
      BY <1>3, <3>2
    <3>3. QED
      BY <3>1, <3>2
  <2> HIDE DEF r
  <2>2. bytes <= r.total_ram_bytes_reserved
    BY <1>2, <2>1
  <2>3. QED
    BY <1>2, <2>1, <2>2, SoldFor
<1>5. QED
  BY <1>4 DEF RamSellable

\* And the limits.
LEMMA InvLimits ==
  ASSUME ContractInv
  PROVE  RamLimits
<1>1. ASSUME NEW a \in Account, Resources(a).ram_bytes > 0, "ram_managed" \notin Managed(a)
      PROVE  limits[a].ram = Resources(a).ram_bytes + ram_gift_bytes
  <2>1. Resources(a).ram_bytes \in Nat
    BY RamNumbers
  <2>2. 0 < Resources(a).ram_bytes
    BY <1>1, <2>1
  <2>3. QED
    BY <1>1, <2>2, HeldLimits
<1>2. QED
  BY <1>1 DEF RamLimits

\* And stake, in the whole contract too.
LEMMA InvHeld ==
  ASSUME ContractInv
  PROVE  StakeHeldOrTaken
<1>1. [a \in Account |-> Delegated(a)] = [a \in Account |-> StakeOf(del_bandwidth, a)]
  BY DEF Delegated, StakeOf
<1>2. HeldBut(taken[STAKE_ACCOUNT])
  BY DEF ContractInv, BooksInv, HoldsInv
<1>3. QED
  BY <1>1, <1>2 DEF StakeHeldOrTaken, HeldBut, SumOver, StakeOfAll, OwedIn

-----------------------------------------------------------------------------
(* Theorems *)

\* In every run of the contract.
LEMMA ContractAlways == ContractSpec => []ContractInv
<1>1. ContractInit => ContractInv
  BY ContractStart
<1>2. ContractInv /\ [ContractNext]_ramVars => ContractInv'
  BY ContractStep
<1>3. QED
  BY <1>1, <1>2, PTL DEF ContractSpec

\* eosio.rex holds exactly the funds, the pool, what loans have left and what
\* filled orders have earned, whatever falls due inside whosever action; and the
\* pool knows what is lent (rex.cpp, runrex and all the actions that call it).
THEOREM RexIsBacked == ContractSpec => []RexBacked
<1>1. ContractInv => RexBacked
  BY InvBacked
<1>2. QED
  BY <1>1, ContractAlways, PTL

\* All REX of the pool is somebody's, matured or in a bucket, and what an open
\* order is to sell stays matured through moves and consolidations (rex.cpp).
THEOREM RexIsOwned == ContractSpec => []RexOwned
<1>1. ContractInv => RexOwned
  BY InvOwned
<1>2. QED
  BY <1>1, ContractAlways, PTL

\* Staked is what is delegated and what REX is worth, but for what orders filled
\* since will change, what unstaketorex did not count and what closerex left;
\* totals are what is delegated and what is lent (delegate_bandwidth.cpp, rex.cpp).
THEOREM StakeAndLoansAreCounted == ContractSpec => []StakeAndLoansCount
<1>1. ContractInv => StakeAndLoansCount
  BY InvCounted
<1>2. QED
  BY <1>1, ContractAlways, PTL

\* eosio.stake holds what is delegated and what is owed also when unstaketorex
\* takes stake out of it, but for what distviarex has taken to the pool, which it
\* may for anybody (distviarex and unstaketorex, rex.cpp).
THEOREM StakeIsHeldThroughout == ContractSpec => []StakeHeldOrTaken
<1>1. ContractInv => StakeHeldOrTaken
  BY InvHeld
<1>2. QED
  BY <1>1, ContractAlways, PTL

\* eosio.names holds the refunds due, the bids that stand and the proceeds of the
\* pool, whenever runrex moves those, but for what distviarex has taken of it for
\* anybody (name_bidding.cpp, rex.cpp).
THEOREM NamesAreBacked == ContractSpec => []NamesBacked
<1>1. ContractInv => NamesBacked
  BY InvNames
<1>2. QED
  BY <1>1, ContractAlways, PTL

\* Every byte is on the market or in a row, and eosio.ram holds what was paid for
\* those in rows (buyram and sellram), but for what distviarex has taken of it.
THEOREM RamIsBacked == ContractSpec => []RamBacked
<1>1. ContractInv => RamBacked
  BY InvRam
<1>2. QED
  BY <1>1, ContractAlways, PTL

\* sellram never takes more tokens than were staked: "this shouldn't happen".
THEOREM RamIsSellable == ContractSpec => []RamSellable
<1>1. ContractInv => RamSellable
  BY InvSellable
<1>2. QED
  BY <1>1, ContractAlways, PTL

\* Who holds RAM, and is not managed, may use it and the gift.
THEOREM RamLimitsFollow == ContractSpec => []RamLimits
<1>1. ContractInv => RamLimits
  BY InvLimits
<1>2. QED
  BY <1>1, ContractAlways, PTL

-----------------------------------------------------------------------------
(* Orders and places *)

\* Strict, and of any two one is before the other.
Ranks(S, R) ==
  /\ \A p \in S : <<p, p>> \notin R
  /\ \A p, q \in S : p # q => <<p, q>> \in R \/ <<q, p>> \in R
  /\ \A p, q, r \in S : <<p, q>> \in R /\ <<q, r>> \in R => <<p, r>> \in R

Before(S, R, p) == {q \in S : <<q, p>> \in R}

\* In such an order there is one for every place, and each has one place.
LEMMA PlacesAre ==
  ASSUME NEW S, IsFiniteSet(S), NEW R, Ranks(S, R)
  PROVE  /\ Cardinality(S) \in Nat
         /\ InOrder(S, R) \in [1..Cardinality(S) -> S]
         /\ \A i \in 1..Cardinality(S) : Cardinality(Before(S, R, InOrder(S, R)[i])) = i - 1
         /\ \A i, j \in 1..Cardinality(S) : InOrder(S, R)[i] = InOrder(S, R)[j] => i = j
<1> DEFINE n == Cardinality(S)
           rank == [p \in S |-> Cardinality(Before(S, R, p)) + 1]
           f == InOrder(S, R)
<1>1. n \in Nat
  BY FS_CardinalityType
<1>2. ASSUME NEW p \in S
      PROVE  /\ IsFiniteSet(Before(S, R, p)) /\ Cardinality(Before(S, R, p)) \in Nat
             /\ rank[p] \in 1..n
  <2>1. Before(S, R, p) \in SUBSET (S \ {p})
    BY DEF Before, Ranks
  <2>2. IsFiniteSet(S \ {p}) /\ Cardinality(S \ {p}) = n - 1
    BY FS_RemoveElement
  <2>3. /\ IsFiniteSet(Before(S, R, p))
        /\ Cardinality(Before(S, R, p)) <= n - 1
    BY <2>1, <2>2, FS_Subset
  <2>4. Cardinality(Before(S, R, p)) \in Nat
    BY <2>3, FS_CardinalityType
  <2>5. QED
    BY <1>1, <2>3, <2>4
<1>3. ASSUME NEW p \in S, NEW q \in S, <<p, q>> \in R
      PROVE  rank[p] < rank[q]
  <2>1. p \notin Before(S, R, p)
    BY DEF Before, Ranks
  <2>2. Before(S, R, p) \cup {p} \in SUBSET Before(S, R, q)
    BY <1>3 DEF Before, Ranks
  <2>3. /\ IsFiniteSet(Before(S, R, p) \cup {p})
        /\ Cardinality(Before(S, R, p) \cup {p}) = Cardinality(Before(S, R, p)) + 1
    BY <1>2, <2>1, FS_AddElement
  <2>4. Cardinality(Before(S, R, p) \cup {p}) <= Cardinality(Before(S, R, q))
    BY <1>2, <2>2, FS_Subset
  <2>5. QED
    BY <1>2, <2>3, <2>4
<1>4. \A p, q \in S : rank[p] = rank[q] => p = q
  <2> TAKE p, q \in S
  <2>1. HAVE rank[p] = rank[q]
  <2>2. rank[p] \in Int /\ rank[q] \in Int
    BY <1>2
  <2> HIDE DEF rank
  <2>3. <<p, q>> \notin R /\ <<q, p>> \notin R
    BY <1>3, <2>1, <2>2
  <2>4. QED
    BY <2>3 DEF Ranks
<1>5. rank \in [S -> 1..n]
  BY <1>2
<1> HIDE DEF rank
<1>6. rank \in Injection(S, 1..n)
  BY <1>4, <1>5 DEF Injection, IsInjective
<1>7. IsFiniteSet(1..n) /\ Cardinality(1..n) = n
  BY <1>1, FS_Interval
<1>8. rank \in Surjection(S, 1..n)
  BY <1>6, <1>7, FS_Injection
<1>9. \A i \in 1..n : \E p \in S : rank[p] = i
  BY <1>8 DEF Surjection
<1>10. ASSUME NEW i \in 1..n
       PROVE  f[i] \in S /\ Cardinality(Before(S, R, f[i])) = i - 1
  <2>1. PICK p \in S : rank[p] = i
    BY <1>9
  <2>2. Cardinality(Before(S, R, p)) = i - 1
    BY <1>2, <2>1 DEF rank
  <2>3. f[i] = CHOOSE q \in S : Cardinality(Before(S, R, q)) = i - 1
    BY DEF InOrder, Before
  <2>4. QED
    BY <2>2, <2>3
<1>11. f \in [1..n -> S]
  BY <1>10 DEF InOrder
<1> HIDE DEF f
<1>12. \A i, j \in 1..n : f[i] = f[j] => i = j
  <2> TAKE i, j \in 1..n
  <2>1. HAVE f[i] = f[j]
  <2>2. Cardinality(Before(S, R, f[i])) = i - 1 /\ Cardinality(Before(S, R, f[i])) = j - 1
    BY <1>10, <2>1
  <2>3. QED
    BY <1>1, <2>2
<1>13. QED
  BY <1>1, <1>10, <1>11, <1>12 DEF f

\* Some of those in an order are in an order too.
LEMMA RanksWithin ==
  ASSUME NEW S, NEW R, Ranks(S, R), NEW T \in SUBSET S
  PROVE  Ranks(T, R)
BY DEF Ranks

\* Keys and an order of those with equal keys are an order.
LEMMA ByKeyRanks ==
  ASSUME NEW S, NEW R, Ranks(S, R), NEW key \in [S -> Int]
  PROVE  Ranks(S, ByKey(key, R))
<1> DEFINE K == ByKey(key, R)
<1>1. \A p, q \in S : <<p, q>> \in K <=> (key[p] < key[q] \/ (key[p] = key[q] /\ <<p, q>> \in R))
  BY DEF ByKey
<1>2. \A p \in S : key[p] \in Int
  OBVIOUS
<1> HIDE DEF K
<1>3. \A p \in S : <<p, p>> \notin K
  <2> TAKE p \in S
  <2>1. <<p, p>> \notin R /\ key[p] \in Int
    BY <1>2 DEF Ranks
  <2>2. QED
    BY <1>1, <2>1
<1>4. \A p, q \in S : p # q => <<p, q>> \in K \/ <<q, p>> \in K
  <2> TAKE p, q \in S
  <2>1. p # q => <<p, q>> \in R \/ <<q, p>> \in R
    BY DEF Ranks
  <2>2. key[p] \in Int /\ key[q] \in Int
    BY <1>2
  <2>3. QED
    BY <1>1, <2>1, <2>2
<1>5. \A p, q, r \in S : <<p, q>> \in K /\ <<q, r>> \in K => <<p, r>> \in K
  <2> TAKE p, q, r \in S
  <2>1. HAVE <<p, q>> \in K /\ <<q, r>> \in K
  <2>2. key[p] \in Int /\ key[q] \in Int /\ key[r] \in Int
    BY <1>2
  <2>3. CASE key[p] = key[q] /\ key[q] = key[r]
    BY <1>1, <2>1, <2>2, <2>3 DEF Ranks
  <2>4. CASE ~(key[p] = key[q] /\ key[q] = key[r])
    <3>1. key[p] < key[r]
      BY <1>1, <2>1, <2>2, <2>4
    <3>2. QED
      BY <1>1, <3>1
  <2>5. QED
    BY <2>3, <2>4
<1>6. QED
  BY <1>3, <1>4, <1>5 DEF Ranks, K

\* Names are in one.
LEMMA ByNameRanks == Ranks(Producer, ByName)
<1> DEFINE n == Cardinality(Producer)
           names == SetToSeq(Producer)
<1>1. IsFiniteSet(Producer) /\ n \in Nat
  BY VotingFinite, FS_CardinalityType
<1>2. \E f : f \in [1..n -> Producer] /\ IsInjective(f)
  <2>1. PICK f : f \in Bijection(1..n, Producer)
    BY <1>1, FS_CardinalityType DEF ExistsBijection
  <2>2. QED
    BY <2>1 DEF Bijection, Injection
<1>3. names \in [1..n -> Producer] /\ IsInjective(names)
  BY <1>2 DEF SetToSeq
<1> HIDE DEF names
<1>4. names \in Injection(1..n, Producer)
  BY <1>3 DEF Injection
<1>5. IsFiniteSet(1..n) /\ Cardinality(1..n) = n
  BY <1>1, FS_Interval
<1>6. names \in Surjection(1..n, Producer)
  BY <1>1, <1>4, <1>5, FS_Injection
<1>7. \A p \in Producer : \E i \in 1..n : names[i] = p
  BY <1>6 DEF Surjection
<1>8. \A i, j \in 1..n : names[i] = names[j] => i = j
  BY <1>3 DEF IsInjective
<1>9. ByName = {r \in Producer \X Producer : \E i, j \in 1..n : i < j /\ r = <<names[i], names[j]>>}
  BY <1>3 DEF ByName, names
<1>10. \A i, j \in 1..n : <<names[i], names[j]>> \in ByName <=> i < j
  BY <1>1, <1>3, <1>8, <1>9
<1>11. \A p \in Producer : <<p, p>> \notin ByName
  BY <1>1, <1>7, <1>10
<1>12. \A p, q \in Producer : p # q => <<p, q>> \in ByName \/ <<q, p>> \in ByName
  <2> TAKE p, q \in Producer
  <2>1. PICK i \in 1..n, j \in 1..n : names[i] = p /\ names[j] = q
    BY <1>7
  <2>2. QED
    BY <1>1, <1>10, <2>1
<1>13. \A p, q, r \in Producer : <<p, q>> \in ByName /\ <<q, r>> \in ByName => <<p, r>> \in ByName
  <2> TAKE p, q, r \in Producer
  <2>1. PICK i \in 1..n, j \in 1..n, k \in 1..n : names[i] = p /\ names[j] = q /\ names[k] = r
    BY <1>7
  <2>2. QED
    BY <1>1, <1>10, <2>1
<1>14. QED
  BY <1>11, <1>12, <1>13 DEF Ranks

\* So those of it by name are a sequence, as long as they are many.
LEMMA NamedAre ==
  ASSUME NEW S \in SUBSET Producer
  PROVE  /\ IsFiniteSet(S) /\ Cardinality(S) \in Nat
         /\ InOrder(S, ByName) \in [1..Cardinality(S) -> S]
         /\ InOrder(S, ByName) \in Seq(S) /\ Len(InOrder(S, ByName)) = Cardinality(S)
<1>1. IsFiniteSet(S) /\ Ranks(S, ByName)
  BY ByNameRanks, RanksWithin, VotingFinite, FS_Subset
<1>2. Cardinality(S) \in Nat /\ InOrder(S, ByName) \in [1..Cardinality(S) -> S]
  BY <1>1, PlacesAre
<1>3. QED
  BY <1>1, <1>2

\* A list names nobody twice.
Distinct(f, S) == f \in Seq(S) /\ \A i, j \in 1..Len(f) : f[i] = f[j] => i = j

\* Those in an order are such a list.
LEMMA OrderedAre ==
  ASSUME NEW S, IsFiniteSet(S), NEW R, Ranks(S, R)
  PROVE  /\ Distinct(InOrder(S, R), S)
         /\ Len(InOrder(S, R)) = Cardinality(S) /\ Cardinality(S) \in Nat
<1> DEFINE f == InOrder(S, R)
           n == Cardinality(S)
<1>1. n \in Nat /\ f \in [1..n -> S] /\ \A i, j \in 1..n : f[i] = f[j] => i = j
  BY PlacesAre
<1> HIDE DEF f, n
<1>2. f \in Seq(S) /\ Len(f) = n
  BY <1>1
<1>3. Distinct(f, S)
  BY <1>1, <1>2 DEF Distinct
<1>4. QED
  BY <1>1, <1>2, <1>3 DEF f, n

\* And the first of them.
LEMMA FirstOfIs ==
  ASSUME NEW S, NEW f, Distinct(f, S), NEW n \in Nat
  PROVE  /\ Distinct(FirstOf(f, n), S)
         /\ Len(FirstOf(f, n)) = (IF Len(f) < n THEN Len(f) ELSE n)
         /\ Len(FirstOf(f, n)) \in Nat /\ DOMAIN FirstOf(f, n) = 1..Len(FirstOf(f, n))
         /\ \A i \in 1..Len(FirstOf(f, n)) : i \in 1..Len(f) /\ FirstOf(f, n)[i] = f[i]
<1> DEFINE k == IF Len(f) < n THEN Len(f) ELSE n
           h == SubSeq(f, 1, k)
<1>1. f \in Seq(S) /\ Len(f) \in Nat
  BY DEF Distinct
<1>2. k \in Nat /\ k <= Len(f)
  BY <1>1
<1> HIDE DEF k
<1>3. \A i \in 1..k : i \in 1..Len(f) /\ f[i] \in S
  BY <1>1, <1>2
<1>4. /\ h \in Seq(S)
      /\ Len(h) = IF 1 <= k THEN k - 1 + 1 ELSE 0
      /\ \A i \in 1..k - 1 + 1 : h[i] = f[1 + i - 1]
  BY <1>2, <1>3, SubSeqProperties
<1> HIDE DEF h
<1>5. Len(h) = k /\ \A i \in 1..k : h[i] = f[i]
  BY <1>2, <1>3, <1>4
<1>6. DOMAIN h = 1..k
  BY <1>4, <1>5
<1>7. Distinct(h, S)
  <2>1. \A i, j \in 1..Len(f) : f[i] = f[j] => i = j
    BY DEF Distinct
  <2>2. \A i, j \in 1..k : h[i] = h[j] => i = j
    BY <1>3, <1>5, <2>1
  <2>3. QED
    BY <1>4, <1>5, <2>2 DEF Distinct
<1>8. FirstOf(f, n) = h
  BY DEF FirstOf, h, k
<1>9. QED
  BY <1>2, <1>3, <1>5, <1>6, <1>7, <1>8 DEF k

-----------------------------------------------------------------------------
(* The tables of onblock *)

MissedTables == UNION {[S -> 0..(Width - 1)] : S \in SUBSET Producer}
Metrics == [last_onblock_caller : Producer \cup {EOSIO, Nil}, block_counter_correction : Int,
            missed : MissedTables]
PayTable == [Producer -> Int \cup {Nil}]
HeldTable == [Holder -> Nat]
Turns == Seq(Producer \cup {EOSIO}) \ {<<>>}
Chain == [active : Turns, pending : Turns \cup {Nil}, proposed : Turns \cup {Nil}, since : Nat]

\* What onblock may fail of in this block, and what it may have failed of before.
Causes == {"schedule", "shares", "saving", "supply"} \X Nat
Rate == ToWorkers + ToProducers
Always == ({"schedule"} \X (0..TOP_PRODUCERS)) \cup ({"shares"} \X {0})
Failures == Always \cup ({"saving"} \X {t \in {now} : saving_since = Nil})
                   \cup ({"supply"} \X {t \in {now} : Reserve < Rate * t})
PastFailures ==
  Always \cup ({"saving"} \X {t \in Time : t < now /\ (saving_since # Nil => t < saving_since)})
         \cup ({"supply"} \X {t \in Time : Reserve < Rate * t})

WorkTables == [producers : ProducerTable, g : eosio_global_state, rot : rotation_state,
               met : Metrics, pay : PayTable, bal : HeldTable, sch : Chain, failed : SUBSET Causes]

\* The sums of PayHeld.
ClaimsIn(pay) == SumFunctionOnSet([p \in Producer |-> ToClaim(pay[p])], Producer)
UnpaidIn(ps) == SumFunctionOnSet([p \in Producer |-> Unpaid(ps[p])], Producer)

\* The standby's index is never among the top, and pay is held.
GoodWork(w) ==
  /\ w \in WorkTables
  /\ TOP_PRODUCERS - 1 <= w.rot.sbp_in_index
  /\ w.bal[bpay_account] = w.g.perblock_bucket + ClaimsIn(w.pay)
  /\ w.g.total_unpaid_blocks = UnpaidIn(w.producers)

\* What can still be given, and was given for the slots until the bucket was filled.
Spent(g) == IF g.last_pervote_bucket_fill = Nil THEN 0 ELSE Rate * g.last_pervote_bucket_fill
Funds(w) == w.bal[tedp_account] + w.bal[unissued] + Spent(w.g)

\* onblock erases no producer and changes no votes.
SameVotes(ps, qs) == \A p \in Producer : /\ qs[p] = Nil <=> ps[p] = Nil
                                         /\ VotesOf(qs[p]) = VotesOf(ps[p])

Leads(w, u) == /\ GoodWork(u)
               /\ SameVotes(w.producers, u.producers)
               /\ w.g.last_pervote_bucket_fill # Nil => u.g.last_pervote_bucket_fill # Nil
               /\ \A n \in Int : n <= Funds(w) => n <= Funds(u)
               /\ u.failed \subseteq w.failed \cup Failures

LEMMA LeadsOn ==
  ASSUME NEW w, NEW u, NEW v, Leads(w, u), Leads(u, v)
  PROVE  Leads(w, v)
BY DEF Leads, SameVotes

LEMMA LeadsItself ==
  ASSUME NEW w, GoodWork(w)
  PROVE  Leads(w, w)
BY DEF Leads, SameVotes

\* The constants of a block.
LEMMA BlockNumbers ==
  /\ TOP_PRODUCERS \in 1..76 /\ MAX_PRODUCERS \in Nat /\ TOP_PRODUCERS <= MAX_PRODUCERS
  /\ MAX_BLOCK_PER_CYCLE \in 1..(Width - 1) /\ Width \in Nat \ {0}
  /\ KICK_SHARE \in Nat \ {0} /\ ROTATION_SLOTS \in Nat
  /\ ToProducers \in Nat /\ ToWorkers \in Nat /\ Saved \in Nat /\ Issuable \in Nat
  /\ Nil \notin Producer /\ Nil # EOSIO /\ Nil \notin Int
  /\ MaxTime \in Nat /\ Time \subseteq Nat
BY BlocksAssumption, VotingAssumption DEF Time

\* The parts of the tables.
LEMMA WorkIs ==
  ASSUME NEW w, GoodWork(w)
  PROVE  /\ w.producers \in ProducerTable /\ w.g \in eosio_global_state /\ w.rot \in rotation_state
         /\ w.met \in Metrics /\ w.pay \in PayTable /\ w.bal \in HeldTable /\ w.sch \in Chain
         /\ w.failed \in SUBSET Causes
BY DEF GoodWork, WorkTables

\* Another part is put.
LEMMA MetricsPut ==
  ASSUME NEW w, GoodWork(w), NEW m \in Metrics
  PROVE  Leads(w, [w EXCEPT !.met = m])
<1> DEFINE u == [w EXCEPT !.met = m]
<1>1. /\ u \in WorkTables /\ u.producers = w.producers /\ u.g = w.g /\ u.rot = w.rot /\ u.pay = w.pay
      /\ u.bal = w.bal /\ u.failed = w.failed
  BY DEF GoodWork, WorkTables
<1> HIDE DEF u
<1>2. Leads(w, u)
  BY <1>1 DEF Leads, SameVotes, GoodWork, Funds
<1>3. QED
  BY <1>2 DEF u

LEMMA RotationPut ==
  ASSUME NEW w, GoodWork(w), NEW r \in rotation_state, TOP_PRODUCERS - 1 <= r.sbp_in_index
  PROVE  Leads(w, [w EXCEPT !.rot = r])
<1> DEFINE u == [w EXCEPT !.rot = r]
<1>1. /\ u \in WorkTables /\ u.producers = w.producers /\ u.g = w.g /\ u.rot = r /\ u.pay = w.pay
      /\ u.bal = w.bal /\ u.failed = w.failed
  BY DEF GoodWork, WorkTables
<1> HIDE DEF u
<1>2. Leads(w, u)
  BY <1>1 DEF Leads, SameVotes, GoodWork, Funds
<1>3. QED
  BY <1>2 DEF u

LEMMA ChainPut ==
  ASSUME NEW w, GoodWork(w), NEW c \in Chain
  PROVE  Leads(w, [w EXCEPT !.sch = c])
<1> DEFINE u == [w EXCEPT !.sch = c]
<1>1. /\ u \in WorkTables /\ u.producers = w.producers /\ u.g = w.g /\ u.rot = w.rot /\ u.pay = w.pay
      /\ u.bal = w.bal /\ u.failed = w.failed
  BY DEF GoodWork, WorkTables
<1> HIDE DEF u
<1>2. Leads(w, u)
  BY <1>1 DEF Leads, SameVotes, GoodWork, Funds
<1>3. QED
  BY <1>2 DEF u

LEMMA FailurePut ==
  ASSUME NEW w, GoodWork(w), NEW x \in Causes, x \in Failures
  PROVE  Leads(w, [w EXCEPT !.failed = @ \cup {x}])
<1> DEFINE u == [w EXCEPT !.failed = @ \cup {x}]
<1>1. w.failed \cup {x} \in SUBSET Causes
  BY WorkIs
<1> HIDE DEF Causes
<1>2. /\ u \in WorkTables /\ u.producers = w.producers /\ u.g = w.g /\ u.rot = w.rot /\ u.pay = w.pay
      /\ u.bal = w.bal /\ u.failed = w.failed \cup {x}
  BY <1>1 DEF GoodWork, WorkTables
<1> HIDE DEF u
<1>3. Leads(w, u)
  BY <1>2 DEF Leads, SameVotes, GoodWork, Funds
<1>4. QED
  BY <1>3 DEF u

LEMMA GlobalPut ==
  ASSUME NEW w, GoodWork(w), NEW g \in eosio_global_state,
         g.perblock_bucket = w.g.perblock_bucket, g.total_unpaid_blocks = w.g.total_unpaid_blocks,
         \/ g.last_pervote_bucket_fill = w.g.last_pervote_bucket_fill
         \/ w.g.last_pervote_bucket_fill = Nil /\ g.last_pervote_bucket_fill \in Nat
  PROVE  Leads(w, [w EXCEPT !.g = g])
<1> DEFINE u == [w EXCEPT !.g = g]
<1>1. /\ u \in WorkTables /\ u.producers = w.producers /\ u.g = g /\ u.rot = w.rot /\ u.pay = w.pay
      /\ u.bal = w.bal /\ u.failed = w.failed
  BY DEF GoodWork, WorkTables
<1> HIDE DEF u
<1>2. ASSUME NEW n \in Int, n <= Funds(w)
      PROVE  n <= Funds(u)
  <2> DEFINE old == Spent(w.g)
             new == Spent(g)
             a == w.bal[tedp_account]
             b == w.bal[unissued]
  <2>1. w.bal \in HeldTable
    BY WorkIs
  <2>2. a \in Nat /\ b \in Nat
    BY <2>1 DEF HeldTable, Holder
  <2>3. new = old \/ (old = 0 /\ new \in Nat)
    BY BlockNumbers DEF Spent, Rate
  <2>4. Funds(w) = a + b + old /\ Funds(u) = a + b + new
    BY <1>1 DEF Funds
  <2> HIDE DEF old, new, a, b
  <2>5. QED
    BY <1>2, <2>2, <2>3, <2>4
<1>3. Leads(w, u)
  BY <1>1, <1>2, BlockNumbers DEF Leads, SameVotes, GoodWork
<1>4. QED
  BY <1>3 DEF u

\* The rows of producers change, but not in votes and blocks to be paid.
LEMMA RowsPut ==
  ASSUME NEW w, GoodWork(w), NEW ps \in ProducerTable, SameVotes(w.producers, ps),
         \A p \in Producer : Unpaid(ps[p]) = Unpaid(w.producers[p])
  PROVE  Leads(w, [w EXCEPT !.producers = ps])
<1> DEFINE u == [w EXCEPT !.producers = ps]
<1>1. /\ u \in WorkTables /\ u.producers = ps /\ u.g = w.g /\ u.rot = w.rot /\ u.pay = w.pay
      /\ u.bal = w.bal /\ u.failed = w.failed
  BY DEF GoodWork, WorkTables
<1> HIDE DEF u
<1>2. UnpaidIn(ps) = UnpaidIn(w.producers)
  <2> DEFINE f == [p \in Producer |-> Unpaid(ps[p])]
             h == [p \in Producer |-> Unpaid(w.producers[p])]
  <2>1. \A p \in Producer : f[p] = h[p]
    OBVIOUS
  <2> HIDE DEF f, h
  <2>2. SumFunctionOnSet(f, Producer) = SumFunctionOnSet(h, Producer)
    BY <2>1, VotingFinite, SumEqual
  <2>3. QED
    BY <2>2 DEF UnpaidIn, f, h
<1>3. Leads(w, u)
  BY <1>1, <1>2 DEF Leads, GoodWork, Funds
<1>4. QED
  BY <1>3 DEF u

\* Counts of missed blocks, of producers.
LEMMA MissedAre ==
  ASSUME NEW m \in Metrics
  PROVE  /\ DOMAIN m.missed \in SUBSET Producer
         /\ \A p \in DOMAIN m.missed : m.missed[p] \in 0..(Width - 1)
         /\ m.missed \in [DOMAIN m.missed -> 0..(Width - 1)]
         /\ m.block_counter_correction \in Int
<1>1. m.missed \in MissedTables /\ m.block_counter_correction \in Int
  BY DEF Metrics
<1>2. PICK S \in SUBSET Producer : m.missed \in [S -> 0..(Width - 1)]
  BY <1>1 DEF MissedTables
<1>3. QED
  BY <1>1, <1>2

LEMMA MissedNew ==
  ASSUME NEW S \in SUBSET Producer, NEW f \in [S -> 0..(Width - 1)]
  PROVE  f \in MissedTables
BY DEF MissedTables

LEMMA MissedPut ==
  ASSUME NEW w, GoodWork(w), NEW f \in MissedTables
  PROVE  Leads(w, [w EXCEPT !.met.missed = f])
<1> DEFINE m == [w.met EXCEPT !.missed = f]
<1>1. m \in Metrics
  BY WorkIs DEF Metrics
<1>2. Leads(w, [w EXCEPT !.met = m])
  BY <1>1, MetricsPut
<1>3. QED
  BY <1>2

LEMMA CorrectionPut ==
  ASSUME NEW w, GoodWork(w), NEW n \in Int
  PROVE  Leads(w, [w EXCEPT !.met.block_counter_correction = n])
<1> DEFINE m == [w.met EXCEPT !.block_counter_correction = n]
<1>1. m \in Metrics
  BY WorkIs DEF Metrics
<1>2. Leads(w, [w EXCEPT !.met = m])
  BY <1>1, MetricsPut
<1>3. QED
  BY <1>2

LEMMA CalledKeeps ==
  ASSUME NEW w, GoodWork(w), NEW p \in Producer \cup {EOSIO}
  PROVE  Leads(w, CalledBy(w, p))
<1> DEFINE m == [w.met EXCEPT !.last_onblock_caller = p]
<1>1. m \in Metrics
  BY WorkIs DEF Metrics
<1>2. Leads(w, [w EXCEPT !.met = m])
  BY <1>1, MetricsPut
<1>3. QED
  BY <1>2 DEF CalledBy

\* The time of an election is set.
LEMMA TimedKeeps ==
  ASSUME NEW w, GoodWork(w), NEW t \in Nat
  PROVE  /\ Leads(w, [w EXCEPT !.g.last_producer_schedule_update = t])
         /\ Leads(w, [w EXCEPT !.g.last_producer_schedule_size = t])
         /\ Leads(w, [w EXCEPT !.g.last_claimrewards = t])
         /\ Leads(w, [w EXCEPT !.g.block_num = t])
         /\ Leads(w, [w EXCEPT !.g.thresh_activated_stake_time = t])
<1>1. w.g \in eosio_global_state
  BY WorkIs
<1>2. ASSUME NEW g \in {[w.g EXCEPT !.last_producer_schedule_update = t],
                        [w.g EXCEPT !.last_producer_schedule_size = t],
                        [w.g EXCEPT !.last_claimrewards = t], [w.g EXCEPT !.block_num = t],
                        [w.g EXCEPT !.thresh_activated_stake_time = t]}
      PROVE  Leads(w, [w EXCEPT !.g = g])
  <2>1. /\ g \in eosio_global_state /\ g.perblock_bucket = w.g.perblock_bucket
        /\ g.total_unpaid_blocks = w.g.total_unpaid_blocks
        /\ g.last_pervote_bucket_fill = w.g.last_pervote_bucket_fill
    BY <1>1 DEF eosio_global_state
  <2>2. QED
    BY <2>1, GlobalPut
<1>3. QED
  BY <1>2

-----------------------------------------------------------------------------
(* Rows of producers *)

\* A row differs in nothing that votes or pay are counted from.
LikeRow(old, new) == /\ new \in producer_info
                     /\ new.total_votes = old.total_votes
                     /\ new.unpaid_blocks = old.unpaid_blocks

LEMMA RowsChange ==
  ASSUME NEW w, GoodWork(w), NEW ps, ps = [p \in Producer |-> ps[p]],
         \A p \in Producer : \/ ps[p] = w.producers[p]
                             \/ w.producers[p] # Nil /\ LikeRow(w.producers[p], ps[p])
  PROVE  Leads(w, [w EXCEPT !.producers = ps])
<1> DEFINE old == w.producers
<1>1. old \in ProducerTable /\ Nil \notin producer_info
  BY WorkIs, VotingFinite
<1>2. ASSUME NEW p \in Producer
      PROVE  /\ ps[p] \in producer_info \cup {Nil}
             /\ ps[p] = Nil <=> old[p] = Nil
             /\ VotesOf(ps[p]) = VotesOf(old[p])
             /\ Unpaid(ps[p]) = Unpaid(old[p])
  <2>1. old[p] \in producer_info \cup {Nil}
    BY <1>1 DEF ProducerTable
  <2>2. CASE ps[p] = old[p]
    BY <2>1, <2>2
  <2>3. CASE old[p] # Nil /\ LikeRow(old[p], ps[p])
    <3>1. ps[p] \in producer_info /\ ps[p] # Nil
      BY <1>1, <2>3 DEF LikeRow
    <3>2. VotesOf(ps[p]) = VotesOf(old[p]) /\ Unpaid(ps[p]) = Unpaid(old[p])
      BY <2>3, <3>1 DEF LikeRow, VotesOf, Unpaid
    <3>3. QED
      BY <2>3, <3>1, <3>2
  <2>4. QED
    BY <2>2, <2>3
<1>3. ps \in ProducerTable /\ SameVotes(old, ps)
  BY <1>2 DEF ProducerTable, SameVotes
<1>4. QED
  BY <1>2, <1>3, RowsPut

\* Two to a power is a number: of the subsets of as many.
LEMMA PowerNat ==
  ASSUME NEW n \in Nat
  PROVE  2 ^ n \in Nat
<1>1. IsFiniteSet(1..n) /\ Cardinality(1..n) = n
  BY FS_Interval
<1>2. IsFiniteSet(SUBSET (1..n)) /\ Cardinality(SUBSET (1..n)) = 2 ^ n
  BY <1>1, FS_SUBSET
<1>3. QED
  BY <1>2, FS_CardinalityType

LEMMA KickedLike ==
  ASSUME NEW old \in producer_info, now \in Time, NEW h \in Nat
  PROVE  LikeRow(old, Kicked(old, h))
<1> DEFINE T == Time
           kicks == old.times_kicked + 1
           hours == IF h = 0 THEN 2 ^ (old.times_kicked + 1) ELSE h
<1>1. producer_info = [total_votes : Nat, is_active : BOOLEAN, unpaid_blocks : Nat,
                       missed_blocks_per_rotation : Int, times_kicked : Nat,
                       kick_penalty_hours : Nat, last_time_kicked : T] /\ now \in T
  BY DEF producer_info
<1>2. kicks \in Nat
  BY DEF producer_info
<1>3. hours \in Nat
  BY <1>2, PowerNat
<1>4. Kicked(old, h) = [old EXCEPT !.times_kicked = kicks, !.last_time_kicked = now,
                          !.kick_penalty_hours = hours, !.missed_blocks_per_rotation = 0,
                          !.is_active = FALSE]
  BY DEF Kicked
<1> HIDE DEF T, kicks, hours
<1> DEFINE later == [old EXCEPT !.times_kicked = kicks, !.last_time_kicked = now,
                                !.kick_penalty_hours = hours]
<1>5. /\ later \in producer_info /\ later.total_votes = old.total_votes
      /\ later.unpaid_blocks = old.unpaid_blocks
  BY <1>1, <1>2, <1>3
<1>6. Kicked(old, h) = [later EXCEPT !.missed_blocks_per_rotation = 0, !.is_active = FALSE]
  BY <1>4
<1> HIDE DEF later
<1> DEFINE cleared == [later EXCEPT !.missed_blocks_per_rotation = 0]
<1>7. /\ cleared \in producer_info /\ cleared.total_votes = later.total_votes
      /\ cleared.unpaid_blocks = later.unpaid_blocks
  BY <1>1, <1>5
<1>8. Kicked(old, h) = [cleared EXCEPT !.is_active = FALSE]
  BY <1>6
<1> HIDE DEF cleared
<1>9. /\ [cleared EXCEPT !.is_active = FALSE] \in producer_info
      /\ [cleared EXCEPT !.is_active = FALSE].total_votes = cleared.total_votes
      /\ [cleared EXCEPT !.is_active = FALSE].unpaid_blocks = cleared.unpaid_blocks
  BY <1>1, <1>7
<1>10. QED
  BY <1>5, <1>7, <1>8, <1>9 DEF LikeRow

LEMMA ActiveLike ==
  ASSUME NEW old \in producer_info, NEW b \in BOOLEAN
  PROVE  LikeRow(old, [old EXCEPT !.is_active = b])
<1> DEFINE T == Time
<1>1. producer_info = [total_votes : Nat, is_active : BOOLEAN, unpaid_blocks : Nat,
                       missed_blocks_per_rotation : Int, times_kicked : Nat,
                       kick_penalty_hours : Nat, last_time_kicked : T]
  BY DEF producer_info
<1> HIDE DEF T
<1> DEFINE new == [old EXCEPT !.is_active = b]
<1>2. new \in producer_info /\ new.total_votes = old.total_votes /\ new.unpaid_blocks = old.unpaid_blocks
  BY <1>1
<1> HIDE DEF new
<1>3. LikeRow(old, new)
  BY <1>2 DEF LikeRow
<1>4. QED
  BY <1>3 DEF new

LEMMA MissedLike ==
  ASSUME NEW old \in producer_info, NEW n \in Int
  PROVE  LikeRow(old, [old EXCEPT !.missed_blocks_per_rotation = n])
<1> DEFINE T == Time
<1>1. producer_info = [total_votes : Nat, is_active : BOOLEAN, unpaid_blocks : Nat,
                       missed_blocks_per_rotation : Int, times_kicked : Nat,
                       kick_penalty_hours : Nat, last_time_kicked : T]
  BY DEF producer_info
<1> HIDE DEF T
<1> DEFINE new == [old EXCEPT !.missed_blocks_per_rotation = n]
<1>2. new \in producer_info /\ new.total_votes = old.total_votes /\ new.unpaid_blocks = old.unpaid_blocks
  BY <1>1
<1> HIDE DEF new
<1>3. LikeRow(old, new)
  BY <1>2 DEF LikeRow
<1>4. QED
  BY <1>3 DEF new

LEMMA KickedLess ==
  ASSUME NEW old \in producer_info, NEW n \in Nat
  PROVE  LikeRow(old, [old EXCEPT !.times_kicked = n])
<1> DEFINE T == Time
<1>1. producer_info = [total_votes : Nat, is_active : BOOLEAN, unpaid_blocks : Nat,
                       missed_blocks_per_rotation : Int, times_kicked : Nat,
                       kick_penalty_hours : Nat, last_time_kicked : T]
  BY DEF producer_info
<1> HIDE DEF T
<1> DEFINE new == [old EXCEPT !.times_kicked = n]
<1>2. new \in producer_info /\ new.total_votes = old.total_votes /\ new.unpaid_blocks = old.unpaid_blocks
  BY <1>1
<1> HIDE DEF new
<1>3. LikeRow(old, new)
  BY <1>2 DEF LikeRow
<1>4. QED
  BY <1>3 DEF new

\* Registered producers have rows, and are finitely many.
LEMMA RegisteredAre ==
  ASSUME NEW w, GoodWork(w)
  PROVE  /\ Registered(w) \in SUBSET Producer /\ IsFiniteSet(Registered(w))
         /\ \A p \in Registered(w) : /\ w.producers[p] \in producer_info /\ w.producers[p] # Nil
                                     /\ w.producers[p].total_votes \in Nat
                                     /\ w.producers[p].missed_blocks_per_rotation \in Int
                                     /\ w.producers[p].unpaid_blocks \in Nat
                                     /\ w.producers[p].times_kicked \in Nat
         /\ \A p \in Producer : IsActive(w, p) => p \in Registered(w)
<1>1. w.producers \in ProducerTable
  BY WorkIs
<1>2. Registered(w) \in SUBSET Producer
  BY DEF Registered
<1>3. IsFiniteSet(Registered(w))
  BY <1>2, VotingFinite, FS_Subset
<1>4. \A p \in Registered(w) : w.producers[p] \in producer_info /\ w.producers[p] # Nil
  BY <1>1 DEF Registered, ProducerTable
<1>5. QED
  BY <1>2, <1>3, <1>4 DEF IsActive, producer_info

\* By votes they are in an order.
LEMMA ByVotesRanks ==
  ASSUME NEW w, GoodWork(w)
  PROVE  Ranks(Registered(w), ByVotes(w))
<1> DEFINE key == [p \in Registered(w) |-> IF IsActive(w, p) THEN -w.producers[p].total_votes
                                           ELSE w.producers[p].total_votes]
<1>1. key \in [Registered(w) -> Int]
  BY RegisteredAre
<1> HIDE DEF key
<1>2. Ranks(Registered(w), ByName)
  BY RegisteredAre, ByNameRanks, RanksWithin
<1>3. Ranks(Registered(w), ByKey(key, ByName))
  BY <1>1, <1>2, ByKeyRanks
<1>4. QED
  BY <1>3 DEF ByVotes, key

\* Some of them, the first by votes.
LEMMA FirstByVotes ==
  ASSUME NEW w, GoodWork(w), NEW S \in SUBSET Registered(w), NEW n \in Nat
  PROVE  LET f == FirstOf(InOrder(S, ByVotes(w)), n)
         IN /\ Distinct(f, S) /\ Distinct(f, Registered(w))
            /\ Len(f) \in Nat /\ DOMAIN f = 1..Len(f)
            /\ Len(f) = (IF Cardinality(S) < n THEN Cardinality(S) ELSE n)
            /\ \A i \in 1..Len(f) : i \in 1..Cardinality(S) /\ f[i] = InOrder(S, ByVotes(w))[i]
<1> DEFINE R == ByVotes(w)
           o == InOrder(S, R)
<1>1. IsFiniteSet(S) /\ Ranks(S, R)
  BY RegisteredAre, ByVotesRanks, RanksWithin, FS_Subset
<1> HIDE DEF R
<1>2. Distinct(o, S) /\ Len(o) = Cardinality(S)
  BY <1>1, OrderedAre
<1> HIDE DEF o
<1> DEFINE f == FirstOf(o, n)
<1>3. /\ Distinct(f, S) /\ Len(f) = (IF Len(o) < n THEN Len(o) ELSE n)
      /\ Len(f) \in Nat /\ DOMAIN f = 1..Len(f)
      /\ \A i \in 1..Len(f) : i \in 1..Len(o) /\ f[i] = o[i]
  BY <1>2, FirstOfIs
<1> HIDE DEF f
<1>4. Distinct(f, Registered(w))
  BY <1>3 DEF Distinct
<1>5. QED
  BY <1>2, <1>3, <1>4 DEF f, o, R

-----------------------------------------------------------------------------
(* Elections and rotation *)

Electable(w) == {p \in Registered(w) : IsActive(w, p) /\ w.producers[p].total_votes > 0}

LEMMA ElectedAre ==
  ASSUME NEW w, GoodWork(w)
  PROVE  /\ Distinct(Elected(w), Registered(w))
         /\ Len(Elected(w)) \in Nat /\ Len(Elected(w)) <= MAX_PRODUCERS
         /\ DOMAIN Elected(w) = 1..Len(Elected(w))
         /\ Electable(w) = {} => Len(Elected(w)) = 0
<1>1. /\ Electable(w) \in SUBSET Registered(w)
      /\ Elected(w) = FirstOf(InOrder(Electable(w), ByVotes(w)), MAX_PRODUCERS)
  BY DEF Electable, Elected
<1>2. /\ Distinct(Elected(w), Registered(w)) /\ Len(Elected(w)) \in Nat
      /\ DOMAIN Elected(w) = 1..Len(Elected(w))
      /\ Len(Elected(w)) = (IF Cardinality(Electable(w)) < MAX_PRODUCERS
                            THEN Cardinality(Electable(w)) ELSE MAX_PRODUCERS)
  <2> DEFINE o == InOrder(Electable(w), ByVotes(w))
             f == FirstOf(o, MAX_PRODUCERS)
  <2>1. MAX_PRODUCERS \in Nat
    BY BlockNumbers
  <2>2. /\ Distinct(f, Registered(w)) /\ Len(f) \in Nat /\ DOMAIN f = 1..Len(f)
        /\ Len(f) = (IF Cardinality(Electable(w)) < MAX_PRODUCERS
                     THEN Cardinality(Electable(w)) ELSE MAX_PRODUCERS)
    BY <1>1, <2>1, FirstByVotes
  <2> HIDE DEF f
  <2>3. Elected(w) = f
    BY <1>1 DEF f
  <2>4. QED
    BY <2>2, <2>3
<1>3. IsFiniteSet(Electable(w))
  BY <1>1, RegisteredAre, FS_Subset
<1>4. Cardinality(Electable(w)) \in Nat
  BY <1>3, FS_CardinalityType
<1>5. Electable(w) = {} => Cardinality(Electable(w)) = 0
  BY FS_EmptySet
<1>6. QED
  BY <1>2, <1>4, <1>5, BlockNumbers

\* A list of registered producers.
Listed(w, prods) == Distinct(prods, Registered(w)) /\ Len(prods) \in Nat /\ DOMAIN prods = 1..Len(prods)

\* It has them at its places.
LEMMA ListedAre ==
  ASSUME NEW w, GoodWork(w), NEW prods, Listed(w, prods)
  PROVE  /\ \A i \in 1..Len(prods) : prods[i] \in Registered(w) /\ prods[i] \in Producer
         /\ Range(prods) \subseteq Registered(w)
BY RegisteredAre DEF Listed, Distinct, Range

\* And the place of one of them is where it stands.
LEMMA PositionIs ==
  ASSUME NEW w, NEW prods, Listed(w, prods), NEW i \in 1..Len(prods)
  PROVE  Position(prods, prods[i]) = i - 1
<1>1. \A j \in 1..Len(prods) : prods[j] = prods[i] => j = i
  BY DEF Listed, Distinct
<1>2. (CHOOSE j \in DOMAIN prods : prods[j] = prods[i]) = i
  BY <1>1 DEF Listed
<1>3. QED
  BY <1>2 DEF Position, Listed

LEMMA RestartedKeeps ==
  ASSUME NEW w, GoodWork(w), NEW prods, Listed(w, prods)
  PROVE  Leads(w, [w EXCEPT !.producers = Restarted(w.producers, prods)])
<1> DEFINE ps == Restarted(w.producers, prods)
<1>1. ps = [p \in Producer |-> ps[p]]
  BY DEF Restarted
<1>2. ASSUME NEW p \in Producer, p \in Range(prods)
      PROVE  w.producers[p] # Nil /\ LikeRow(w.producers[p], ps[p])
  <2> DEFINE old == w.producers[p]
             n == IF old.times_kicked > 0 /\ old.missed_blocks_per_rotation = 0
                  THEN old.times_kicked - 1 ELSE old.times_kicked
             less == [old EXCEPT !.times_kicked = n]
  <2>1. old \in producer_info /\ old # Nil /\ old.times_kicked \in Nat
    BY <1>2, ListedAre, RegisteredAre
  <2>2. n \in Nat
    BY <2>1
  <2>3. ps[p] = [old EXCEPT !.times_kicked = n, !.missed_blocks_per_rotation = 0]
    BY <1>2 DEF Restarted
  <2> HIDE DEF n, old
  <2>4. LikeRow(old, less)
    BY <2>1, <2>2, KickedLess
  <2>5. ps[p] = [less EXCEPT !.missed_blocks_per_rotation = 0]
    BY <2>3
  <2> HIDE DEF less, ps
  <2>6. LikeRow(less, ps[p])
    BY <2>4, <2>5, MissedLike DEF LikeRow
  <2>7. QED
    BY <2>1, <2>4, <2>6 DEF LikeRow, old
<1>3. ASSUME NEW p \in Producer, p \notin Range(prods)
      PROVE  ps[p] = w.producers[p]
  BY <1>3 DEF Restarted
<1> HIDE DEF ps
<1>4. QED
  BY <1>1, <1>2, <1>3, RowsChange DEF ps

\* A field of the rotation is set.
LEMMA RotationFields ==
  ASSUME NEW r \in rotation_state, NEW p \in Producer \cup {Nil}, NEW n \in Nat
  PROVE  /\ [r EXCEPT !.bp_currently_out = p] \in rotation_state
         /\ [r EXCEPT !.sbp_currently_in = p] \in rotation_state
         /\ [r EXCEPT !.bp_out_index = n] \in rotation_state
         /\ [r EXCEPT !.sbp_in_index = n] \in rotation_state
         /\ [r EXCEPT !.next_rotation_time = n] \in rotation_state
         /\ [r EXCEPT !.last_rotation_time = n] \in rotation_state
         /\ r.bp_out_index \in Nat /\ r.sbp_in_index \in Nat
<1> DEFINE P == Producer \cup {Nil}
<1>1. /\ rotation_state = [bp_currently_out : P, sbp_currently_in : P, bp_out_index : Nat,
                           sbp_in_index : Nat, next_rotation_time : Nat, last_rotation_time : Nat]
      /\ p \in P
  BY DEF rotation_state
<1> HIDE DEF P
<1>2. QED
  BY <1>1

\* The next pair has one who stands by, if anybody does.
LEMMA RotatedKeeps ==
  ASSUME NEW w, GoodWork(w), NEW prods, Listed(w, prods), NEW t \in Nat
  PROVE  /\ Leads(w, Rotated(w, prods, t))
         /\ Len(prods) > TOP_PRODUCERS =>
              \E j \in (TOP_PRODUCERS + 1)..Len(prods) :
                Rotated(w, prods, t).rot.sbp_currently_in = prods[j]
<1> DEFINE out == IF w.rot.bp_out_index >= TOP_PRODUCERS - 1 THEN 0 ELSE w.rot.bp_out_index + 1
           in == IF w.rot.sbp_in_index >= Len(prods) - 1 THEN TOP_PRODUCERS ELSE w.rot.sbp_in_index + 1
           timed == [w.rot EXCEPT !.last_rotation_time = t, !.next_rotation_time = t + ROTATION_SLOTS]
           paired == [timed EXCEPT !.bp_out_index = out, !.sbp_in_index = in,
                                   !.bp_currently_out = prods[out + 1], !.sbp_currently_in = prods[in + 1]]
           rot == IF Len(prods) > TOP_PRODUCERS THEN paired ELSE timed
           ps == Restarted(w.producers, prods)
           rested == [w EXCEPT !.producers = ps]
<1>1. /\ w.rot \in rotation_state /\ w.rot.bp_out_index \in Nat /\ w.rot.sbp_in_index \in Nat
      /\ TOP_PRODUCERS - 1 <= w.rot.sbp_in_index /\ Len(prods) \in Nat
  BY WorkIs DEF rotation_state, GoodWork, Listed
<1>2. timed \in rotation_state /\ timed.sbp_in_index = w.rot.sbp_in_index
  <2> DEFINE r == [w.rot EXCEPT !.last_rotation_time = t]
  <2>1. t + ROTATION_SLOTS \in Nat
    BY BlockNumbers
  <2>2. r \in rotation_state /\ r.sbp_in_index = w.rot.sbp_in_index
    BY <1>1, RotationFields DEF rotation_state
  <2>3. timed = [r EXCEPT !.next_rotation_time = t + ROTATION_SLOTS]
    OBVIOUS
  <2> HIDE DEF r, timed
  <2>4. timed \in rotation_state
    BY <2>1, <2>2, <2>3, RotationFields
  <2>5. timed.sbp_in_index = r.sbp_in_index
    BY <2>2, <2>3 DEF rotation_state
  <2>6. QED
    BY <2>2, <2>4, <2>5
<1>3. /\ out \in 0..(TOP_PRODUCERS - 1) /\ in \in Nat /\ in >= TOP_PRODUCERS
      /\ Len(prods) > TOP_PRODUCERS => in + 1 \in (TOP_PRODUCERS + 1)..Len(prods)
  <2> DEFINE a == w.rot.bp_out_index
             b == w.rot.sbp_in_index
             n == Len(prods)
  <2>1. a \in Nat /\ b \in Nat /\ n \in Nat /\ TOP_PRODUCERS \in Nat /\ TOP_PRODUCERS >= 1
        /\ b >= TOP_PRODUCERS - 1
    BY <1>1, BlockNumbers
  <2> HIDE DEF a, b, n
  <2>2. out = IF a >= TOP_PRODUCERS - 1 THEN 0 ELSE a + 1
    BY DEF a
  <2>3. in = IF b >= n - 1 THEN TOP_PRODUCERS ELSE b + 1
    BY DEF b, n
  <2> HIDE DEF out, in
  <2>4. out \in 0..(TOP_PRODUCERS - 1)
    BY <2>1, <2>2
  <2>5. in \in Nat /\ in >= TOP_PRODUCERS /\ (n > TOP_PRODUCERS => in + 1 \in (TOP_PRODUCERS + 1)..n)
    BY <2>1, <2>3
  <2>6. QED
    BY <2>4, <2>5 DEF n
<1>4. Rotated(w, prods, t) = [w EXCEPT !.producers = ps, !.rot = rot]
  BY DEF Rotated
<1> HIDE DEF timed, out, in
<1>5. CASE Len(prods) > TOP_PRODUCERS
  <2>1. prods[out + 1] \in Producer /\ prods[in + 1] \in Producer
    BY <1>1, <1>3, <1>5, BlockNumbers, ListedAre
  <2>2. paired \in rotation_state /\ paired.sbp_in_index = in /\ paired.sbp_currently_in = prods[in + 1]
    <3> DEFINE r1 == [timed EXCEPT !.bp_out_index = out]
               r2 == [r1 EXCEPT !.sbp_in_index = in]
               r3 == [r2 EXCEPT !.bp_currently_out = prods[out + 1]]
    <3>1. out \in Nat /\ in \in Nat
      BY <1>3
    <3>2. r1 \in rotation_state
      BY <1>2, <3>1, RotationFields
    <3> HIDE DEF r1
    <3>3. r2 \in rotation_state /\ r2.sbp_in_index = in
      BY <3>1, <3>2, RotationFields DEF rotation_state
    <3> HIDE DEF r2
    <3>4. r3 \in rotation_state /\ r3.sbp_in_index = in
      BY <2>1, <3>3, RotationFields DEF rotation_state
    <3>5. paired = [r3 EXCEPT !.sbp_currently_in = prods[in + 1]]
      BY DEF r3, r2, r1
    <3> HIDE DEF r3, paired
    <3>6. paired \in rotation_state
      BY <2>1, <3>4, <3>5, RotationFields
    <3>7. paired.sbp_in_index = r3.sbp_in_index /\ paired.sbp_currently_in = prods[in + 1]
      BY <3>4, <3>5 DEF rotation_state
    <3>8. QED
      BY <3>4, <3>6, <3>7
  <2>3. rot = paired
    BY <1>5
  <2> HIDE DEF paired, rot, ps
  <2>4. Leads(w, rested)
    BY RestartedKeeps DEF ps
  <2>5. GoodWork(rested)
    BY <2>4 DEF Leads
  <2> HIDE DEF rested
  <2>6. Leads(rested, [rested EXCEPT !.rot = rot])
    <3>1. rot \in rotation_state /\ TOP_PRODUCERS - 1 <= rot.sbp_in_index
      BY <1>3, <2>2, <2>3, BlockNumbers
    <3>2. QED
      BY <2>5, <3>1, RotationPut
  <2>7. Leads(w, [rested EXCEPT !.rot = rot])
    BY <2>4, <2>6, LeadsOn
  <2>8. [rested EXCEPT !.rot = rot] = Rotated(w, prods, t)
    BY <1>4 DEF rested
  <2>9. Rotated(w, prods, t).rot = rot
    BY <1>4 DEF GoodWork, WorkTables
  <2>10. QED
    BY <1>3, <1>5, <2>2, <2>3, <2>7, <2>8, <2>9
<1>6. CASE ~(Len(prods) > TOP_PRODUCERS)
  <2>1. rot = timed
    BY <1>6
  <2> HIDE DEF paired, rot, ps
  <2>2. Leads(w, rested)
    BY RestartedKeeps DEF ps
  <2>3. GoodWork(rested)
    BY <2>2 DEF Leads
  <2> HIDE DEF rested
  <2>4. Leads(rested, [rested EXCEPT !.rot = rot])
    BY <1>1, <1>2, <2>1, <2>3, RotationPut
  <2>5. Leads(w, [rested EXCEPT !.rot = rot])
    BY <2>2, <2>4, LeadsOn
  <2>6. [rested EXCEPT !.rot = rot] = Rotated(w, prods, t)
    BY <1>4 DEF rested
  <2>7. QED
    BY <1>6, <2>5, <2>6
<1>7. QED
  BY <1>5, <1>6

\* A pair that is kept is on its sides of the line.
LEMMA PairKeptIs ==
  ASSUME NEW w, GoodWork(w), NEW prods, Listed(w, prods)
  PROVE  LET rot == PairKept(w.rot, prods)
         IN /\ Leads(w, [w EXCEPT !.rot = rot])
            /\ rot \in rotation_state
            /\ BothElected(rot, prods) => /\ rot.sbp_currently_in \in Producer
                                          /\ StillApart(prods, rot.bp_currently_out, rot.sbp_currently_in)
<1> DEFINE old == w.rot
           none == [old EXCEPT !.bp_currently_out = Nil, !.sbp_currently_in = Nil]
           gone == [none EXCEPT !.bp_out_index = TOP_PRODUCERS, !.sbp_in_index = MAX_PRODUCERS + 1]
           rot == PairKept(old, prods)
<1>1. old \in rotation_state /\ TOP_PRODUCERS - 1 <= old.sbp_in_index
  BY WorkIs DEF GoodWork
<1>2. /\ none \in rotation_state /\ none.sbp_in_index = old.sbp_in_index
      /\ none.bp_currently_out = Nil
  BY <1>1 DEF rotation_state
<1>3. /\ gone \in rotation_state /\ gone.sbp_in_index = MAX_PRODUCERS + 1
      /\ gone.bp_currently_out = Nil
  <2> DEFINE r == [none EXCEPT !.bp_out_index = TOP_PRODUCERS]
  <2>1. TOP_PRODUCERS \in Nat /\ MAX_PRODUCERS + 1 \in Nat
    BY BlockNumbers
  <2>2. gone = [r EXCEPT !.sbp_in_index = MAX_PRODUCERS + 1]
    OBVIOUS
  <2> HIDE DEF none, gone
  <2>3. r \in rotation_state /\ r.bp_currently_out = Nil
    BY <1>2, <2>1, RotationFields DEF rotation_state
  <2> HIDE DEF r
  <2>4. gone \in rotation_state
    BY <2>1, <2>2, <2>3, RotationFields
  <2>5. gone.sbp_in_index = MAX_PRODUCERS + 1 /\ gone.bp_currently_out = r.bp_currently_out
    BY <2>2, <2>3 DEF rotation_state
  <2>6. QED
    BY <2>3, <2>4, <2>5
<1>4. \/ rot = old /\ ~HasPair(old)
      \/ rot = old /\ StillApart(prods, old.bp_currently_out, old.sbp_currently_in)
      \/ rot = none \/ rot = gone
  BY DEF PairKept
<1> HIDE DEF none, gone, rot
<1>5. rot \in rotation_state /\ TOP_PRODUCERS - 1 <= rot.sbp_in_index
  BY <1>1, <1>2, <1>3, <1>4, BlockNumbers DEF rotation_state
<1>6. ASSUME BothElected(rot, prods)
      PROVE  /\ rot.sbp_currently_in \in Producer
             /\ StillApart(prods, rot.bp_currently_out, rot.sbp_currently_in)
  <2>1. HasPair(rot)
    BY <1>6 DEF BothElected
  <2>2. rot.bp_currently_out # Nil /\ rot.sbp_currently_in # Nil
    BY <2>1 DEF HasPair
  <2>3. StillApart(prods, rot.bp_currently_out, rot.sbp_currently_in)
    BY <1>2, <1>3, <1>4, <2>1, <2>2
  <2>4. rot.sbp_currently_in \in Producer
    BY <1>5, <2>2 DEF rotation_state
  <2>5. QED
    BY <2>3, <2>4
<1>7. Leads(w, [w EXCEPT !.rot = rot])
  BY <1>5, RotationPut
<1>8. QED
  BY <1>5, <1>6, <1>7 DEF rot

\* So whoever the standby takes the place of, nobody is named twice.
LEMMA CheckedRotation ==
  ASSUME NEW w, GoodWork(w), NEW prods, Listed(w, prods), NEW t \in Nat
  PROVE  LET checked == check_rotation_state(w, prods, t)
             swaps == IF RotationDue(w, t) THEN Len(prods) > TOP_PRODUCERS
                      ELSE BothElected(checked.rot, prods)
         IN /\ Leads(w, checked)
            /\ swaps => checked.rot.sbp_currently_in \in Producer
            /\ swaps /\ Len(prods) > TOP_PRODUCERS =>
                 \A j \in 1..TOP_PRODUCERS : prods[j] # checked.rot.sbp_currently_in
<1> DEFINE checked == check_rotation_state(w, prods, t)
           in == checked.rot.sbp_currently_in
<1>1. CASE RotationDue(w, t)
  <2>1. checked = Rotated(w, prods, t)
    BY <1>1 DEF check_rotation_state
  <2> HIDE DEF checked
  <2>2. /\ Leads(w, checked)
        /\ Len(prods) > TOP_PRODUCERS => \E j \in (TOP_PRODUCERS + 1)..Len(prods) : in = prods[j]
    BY <2>1, RotatedKeeps
  <2>3. ASSUME Len(prods) > TOP_PRODUCERS
        PROVE  in \in Producer /\ \A j \in 1..TOP_PRODUCERS : prods[j] # in
    <3>1. PICK i \in (TOP_PRODUCERS + 1)..Len(prods) : in = prods[i]
      BY <2>2, <2>3
    <3> HIDE DEF in
    <3>2. Len(prods) \in Nat /\ \A k, l \in 1..Len(prods) : prods[k] = prods[l] => k = l
      BY DEF Listed, Distinct
    <3>3. i \in 1..Len(prods) /\ \A j \in 1..TOP_PRODUCERS : j \in 1..Len(prods) /\ j # i
      BY <2>3, <3>2, BlockNumbers
    <3>4. in \in Producer
      BY <3>1, <3>3, ListedAre
    <3>5. QED
      BY <3>1, <3>2, <3>3, <3>4
  <2>4. QED
    BY <1>1, <2>2, <2>3 DEF checked
<1>2. CASE ~RotationDue(w, t)
  <2> DEFINE rot == PairKept(w.rot, prods)
  <2>1. checked = [w EXCEPT !.rot = rot]
    BY <1>2 DEF check_rotation_state
  <2>2. /\ Leads(w, [w EXCEPT !.rot = rot])
        /\ BothElected(rot, prods) => /\ rot.sbp_currently_in \in Producer
                                      /\ StillApart(prods, rot.bp_currently_out, rot.sbp_currently_in)
    BY PairKeptIs
  <2> HIDE DEF rot
  <2>3. checked.rot = rot
    BY <2>1 DEF GoodWork, WorkTables
  <2> HIDE DEF checked
  <2>4. ASSUME BothElected(rot, prods), Len(prods) > TOP_PRODUCERS, NEW j \in 1..TOP_PRODUCERS,
               prods[j] = rot.sbp_currently_in
        PROVE  FALSE
    <3>1. Position(prods, prods[j]) \in TOP_PRODUCERS..(MAX_PRODUCERS - 1)
      BY <2>2, <2>4 DEF StillApart
    <3>2. j \in 1..Len(prods)
      BY <2>4, BlockNumbers DEF Listed
    <3>3. Position(prods, prods[j]) = j - 1
      BY <3>2, PositionIs
    <3>4. QED
      BY <3>1, <3>3, BlockNumbers
  <2>5. QED
    BY <1>2, <2>1, <2>2, <2>3, <2>4 DEF checked
<1>3. QED
  BY <1>1, <1>2

\* The producers at the top are producers, and while others stand by nobody is
\* there twice.
LEMMA TopAre ==
  ASSUME NEW w, GoodWork(w), NEW prods, Listed(w, prods), NEW t \in Nat
  PROVE  LET top == TopProducers(w, prods, check_rotation_state(w, prods, t).rot, t)
             n == Len(top)
         IN /\ n \in Nat /\ top \in [1..n -> Producer]
            /\ Len(prods) > TOP_PRODUCERS => \A i, j \in 1..n : top[i] = top[j] => i = j
<1> DEFINE rot == check_rotation_state(w, prods, t).rot
           swaps == IF RotationDue(w, t) THEN Len(prods) > TOP_PRODUCERS ELSE BothElected(rot, prods)
           first == FirstOf(prods, TOP_PRODUCERS)
           k == Len(first)
           top == TopProducers(w, prods, rot, t)
<1>1. /\ swaps => rot.sbp_currently_in \in Producer
      /\ swaps /\ Len(prods) > TOP_PRODUCERS => \A j \in 1..TOP_PRODUCERS : prods[j] # rot.sbp_currently_in
  BY CheckedRotation
<1>2. /\ k \in Nat /\ DOMAIN first = 1..k
      /\ k = (IF Len(prods) < TOP_PRODUCERS THEN Len(prods) ELSE TOP_PRODUCERS)
      /\ \A i \in 1..k : i \in 1..Len(prods)
  <2>1. Distinct(prods, Registered(w)) /\ TOP_PRODUCERS \in Nat
    BY BlockNumbers DEF Listed
  <2>2. QED
    BY <2>1, FirstOfIs
<1> HIDE DEF rot, first
<1>3. top = [i \in 1..k |-> IF swaps /\ prods[i] = rot.bp_currently_out
                            THEN rot.sbp_currently_in ELSE prods[i]]
  BY <1>2 DEF TopProducers, first
<1> HIDE DEF swaps, top, k
<1>4. \A i \in 1..k : prods[i] \in Producer
  BY <1>2, ListedAre
<1>5. top \in [1..k -> Producer] /\ Len(top) = k
  <2>1. top \in [1..k -> Producer]
    BY <1>1, <1>3, <1>4
  <2>2. QED
    BY <1>2, <2>1
<1>6. ASSUME Len(prods) > TOP_PRODUCERS, NEW i \in 1..k, NEW j \in 1..k, top[i] = top[j]
      PROVE  i = j
  <2>1. k = TOP_PRODUCERS /\ i \in 1..Len(prods) /\ j \in 1..Len(prods)
    <3>1. TOP_PRODUCERS \in Nat /\ Len(prods) \in Nat
      BY BlockNumbers DEF Listed
    <3>2. k = TOP_PRODUCERS
      BY <1>2, <1>6, <3>1
    <3>3. QED
      BY <1>2, <1>6, <3>2
  <2>2. prods[i] = prods[j] => i = j
    BY <2>1 DEF Listed, Distinct
  <2>3. swaps => prods[i] # rot.sbp_currently_in /\ prods[j] # rot.sbp_currently_in
    BY <1>1, <1>6, <2>1
  <2>4. QED
    BY <1>3, <1>6, <2>2, <2>3
<1>7. QED
  BY <1>2, <1>5, <1>6 DEF top, rot

\* As many as it is long are those whom a list names, if it names nobody twice.
LEMMA NamedOnce ==
  ASSUME NEW n \in Nat, NEW S, NEW f \in [1..n -> S], \A i, j \in 1..n : f[i] = f[j] => i = j
  PROVE  Cardinality(Range(f)) = n
<1> DEFINE T == Range(f)
<1>1. IsFiniteSet(1..n) /\ Cardinality(1..n) = n
  BY FS_Interval
<1>2. f \in Surjection(1..n, T)
  BY DEF Range, Surjection
<1>3. f \in Injection(1..n, T)
  BY <1>2 DEF Injection, IsInjective, Surjection
<1>4. Cardinality(T) = Cardinality(1..n)
  BY <1>1, <1>2, <1>3, FS_Surjection
<1>5. QED
  BY <1>1, <1>4

\* A proposal of the chain.
LEMMA ChainFields ==
  ASSUME NEW c \in Chain, NEW turns \in Turns, NEW t \in Nat
  PROVE  [c EXCEPT !.proposed = turns, !.since = t] \in Chain
<1> DEFINE T == Turns
           W == Turns \cup {Nil}
<1>1. Chain = [active : T, pending : W, proposed : W, since : Nat] /\ turns \in W
  BY DEF Chain
<1> HIDE DEF T, W
<1>2. QED
  BY <1>1

\* An election fails only of too few.
LEMMA UpdateElectedKeeps ==
  ASSUME NEW w, GoodWork(w), NEW t \in Nat, now \in Time
  PROVE  Leads(w, update_elected_producers(w, t))
<1> DEFINE prods == Elected(w)
           checked == check_rotation_state(w, prods, t)
           top == TopProducers(w, prods, checked.rot, t)
           schedule == InOrder(Range(top), ByName)
           timed == [checked EXCEPT !.g.last_producer_schedule_update = t]
           n == Len(prods)
           update == update_elected_producers(w, t)
<1>1. Listed(w, prods) /\ n \in Nat /\ n <= MAX_PRODUCERS
  BY ElectedAre DEF Listed
<1> HIDE DEF prods
<1>2. Leads(w, checked)
  BY <1>1, CheckedRotation
<1>3. /\ Len(top) \in Nat /\ top \in [1..Len(top) -> Producer]
      /\ n > TOP_PRODUCERS => \A i, j \in 1..Len(top) : top[i] = top[j] => i = j
  BY <1>1, TopAre
<1> HIDE DEF checked, top
<1>4. Leads(w, timed) /\ GoodWork(timed)
  <2>1. GoodWork(checked)
    BY <1>2 DEF Leads
  <2>2. Leads(checked, timed)
    BY <2>1, TimedKeeps
  <2> HIDE DEF timed
  <2>3. Leads(w, timed)
    BY <1>2, <2>2, LeadsOn
  <2>4. QED
    BY <2>3 DEF Leads
<1>5. /\ Range(top) \in SUBSET Producer
      /\ schedule \in Seq(Range(top)) /\ Len(schedule) = Cardinality(Range(top))
  <2>1. Range(top) \in SUBSET Producer
    BY <1>3 DEF Range
  <2>2. QED
    BY <2>1, NamedAre
<1>6. n > TOP_PRODUCERS => Len(schedule) = Len(top)
  BY <1>3, <1>5, NamedOnce
<1> HIDE DEF schedule
<1>7. update = IF Len(schedule) # Len(top)
               THEN [timed EXCEPT !.failed = @ \cup {<<"schedule", n>>}]
               ELSE IF ~Accepted(w.sch, schedule) THEN timed
               ELSE [timed EXCEPT !.sch = [w.sch EXCEPT !.proposed = schedule, !.since = now],
                                  !.met.missed = [p \in Range(schedule) |-> MAX_BLOCK_PER_CYCLE],
                                  !.g.last_producer_schedule_size = Len(schedule)]
  BY DEF update_elected_producers, schedule, top, checked, prods
<1> HIDE DEF timed, update
<1>8. CASE Len(schedule) # Len(top)
  <2>1. <<"schedule", n>> \in Failures /\ <<"schedule", n>> \in Causes
    <3>1. n \in 0..TOP_PRODUCERS
      BY <1>1, <1>6, <1>8, BlockNumbers
    <3> HIDE DEF n
    <3>2. n \in Nat
      BY <3>1, BlockNumbers
    <3>3. QED
      BY <3>1, <3>2 DEF Failures, Always, Causes
  <2>2. Leads(timed, [timed EXCEPT !.failed = @ \cup {<<"schedule", n>>}])
    BY <1>4, <2>1, FailurePut
  <2>3. QED
    BY <1>4, <1>7, <1>8, <2>2, LeadsOn DEF update
<1>9. CASE Len(schedule) = Len(top) /\ ~Accepted(w.sch, schedule)
  BY <1>4, <1>7, <1>9 DEF update
<1>10. CASE Len(schedule) = Len(top) /\ Accepted(w.sch, schedule)
  <2> DEFINE chain == [w.sch EXCEPT !.proposed = schedule, !.since = now]
             full == [p \in Range(schedule) |-> MAX_BLOCK_PER_CYCLE]
             size == Len(schedule)
             u1 == [timed EXCEPT !.sch = chain]
             u2 == [u1 EXCEPT !.met.missed = full]
             u3 == [u2 EXCEPT !.g.last_producer_schedule_size = size]
  <2>1. schedule \in Turns /\ Range(schedule) \in SUBSET Producer /\ size \in Nat
    <3>1. schedule # <<>>
      BY <1>10 DEF Accepted
    <3>2. \A i \in DOMAIN schedule : schedule[i] \in Range(top)
      BY <1>5
    <3>3. schedule \in Seq(Producer \cup {EOSIO})
      BY <1>5
    <3>4. QED
      BY <1>5, <3>1, <3>2, <3>3 DEF Turns, Range
  <2>2. chain \in Chain
    <3>1. w.sch \in Chain /\ now \in Nat
      BY WorkIs, BlockNumbers
    <3>2. QED
      BY <2>1, <3>1, ChainFields
  <2>3. full \in MissedTables
    <3>1. full \in [Range(schedule) -> 0..(Width - 1)]
      BY BlockNumbers
    <3>2. QED
      BY <2>1, <3>1, MissedNew
  <2>4. update = u3
    BY <1>7, <1>10
  <2> HIDE DEF chain, full, size
  <2>5. Leads(timed, u1)
    BY <1>4, <2>2, ChainPut
  <2>6. GoodWork(u1)
    BY <2>5 DEF Leads
  <2> HIDE DEF u1
  <2>7. Leads(u1, u2)
    BY <2>3, <2>6, MissedPut
  <2>8. GoodWork(u2)
    BY <2>7 DEF Leads
  <2> HIDE DEF u2
  <2>9. Leads(u2, u3)
    BY <2>1, <2>8, TimedKeeps
  <2> HIDE DEF u3
  <2>10. Leads(w, u3)
    BY <1>4, <2>5, <2>7, <2>9, LeadsOn
  <2>11. QED
    BY <2>4, <2>10 DEF update
<1>11. QED
  BY <1>8, <1>9, <1>10

-----------------------------------------------------------------------------
(* Missed blocks *)

LEMMA WithMissedKeeps ==
  ASSUME NEW w, GoodWork(w), NEW p, NEW n \in 0..(Width - 1)
  PROVE  Leads(w, WithMissed(w, p, n))
<1> DEFINE D == DOMAIN w.met.missed
           f == [q \in D |-> IF q = p THEN n ELSE w.met.missed[q]]
<1>1. D \in SUBSET Producer /\ \A q \in D : w.met.missed[q] \in 0..(Width - 1)
  BY WorkIs, MissedAre
<1>2. f \in [D -> 0..(Width - 1)]
  BY <1>1
<1> HIDE DEF D
<1>3. f \in MissedTables
  BY <1>1, <1>2, MissedNew
<1> HIDE DEF f
<1>4. Leads(w, [w EXCEPT !.met.missed = f])
  BY <1>3, MissedPut
<1>5. QED
  BY <1>4 DEF WithMissed, f, D

LEMMA ResetKeeps ==
  ASSUME NEW w, GoodWork(w), NEW p
  PROVE  Leads(w, reset_schedule_metrics(w, p))
<1> DEFINE D == DOMAIN w.met.missed
           f == [q \in D |-> IF q = p THEN MAX_BLOCK_PER_CYCLE - 1 ELSE MAX_BLOCK_PER_CYCLE]
<1>1. D \in SUBSET Producer
  BY WorkIs, MissedAre
<1>2. f \in [D -> 0..(Width - 1)]
  <2>1. MAX_BLOCK_PER_CYCLE \in 0..(Width - 1) /\ MAX_BLOCK_PER_CYCLE - 1 \in 0..(Width - 1)
    BY BlockNumbers
  <2>2. QED
    BY <2>1
<1> HIDE DEF D
<1>3. f \in MissedTables
  BY <1>1, <1>2, MissedNew
<1> HIDE DEF f
<1>4. Leads(w, [w EXCEPT !.met.missed = f])
  BY <1>3, MissedPut
<1>5. QED
  BY <1>4 DEF reset_schedule_metrics, f, D

LEMMA ChargedKeeps ==
  ASSUME NEW w, GoodWork(w)
  PROVE  Leads(w, Charged(w)) /\ Charged(w).met = w.met
<1> DEFINE ps == [p \in Producer |->
             IF p \in DOMAIN w.met.missed /\ IsActive(w, p)
             THEN [w.producers[p] EXCEPT !.missed_blocks_per_rotation = @ + w.met.missed[p]]
             ELSE w.producers[p]]
<1>1. ASSUME NEW p \in Producer, p \in DOMAIN w.met.missed, IsActive(w, p)
      PROVE  w.producers[p] # Nil /\ LikeRow(w.producers[p], ps[p])
  <2> DEFINE old == w.producers[p]
             n == old.missed_blocks_per_rotation + w.met.missed[p]
  <2>1. old \in producer_info /\ old # Nil /\ old.missed_blocks_per_rotation \in Int
    BY <1>1, RegisteredAre
  <2>2. w.met.missed[p] \in 0..(Width - 1)
    BY <1>1, WorkIs, MissedAre
  <2>3. n \in Int
    BY <2>1, <2>2
  <2>4. ps[p] = [old EXCEPT !.missed_blocks_per_rotation = n]
    BY <1>1
  <2> HIDE DEF n, old, ps
  <2>5. LikeRow(old, ps[p])
    BY <2>1, <2>3, <2>4, MissedLike
  <2>6. QED
    BY <2>1, <2>5 DEF old
<1>2. \A p \in Producer : \/ ps[p] = w.producers[p]
                          \/ w.producers[p] # Nil /\ LikeRow(w.producers[p], ps[p])
  <2> TAKE p \in Producer
  <2>1. ~(p \in DOMAIN w.met.missed /\ IsActive(w, p)) => ps[p] = w.producers[p]
    OBVIOUS
  <2>2. QED
    BY <1>1, <2>1
<1>3. ps = [p \in Producer |-> ps[p]]
  OBVIOUS
<1>4. Charged(w) = [w EXCEPT !.producers = ps]
  BY DEF Charged
<1> HIDE DEF ps
<1>5. Charged(w).met = w.met
  BY <1>4 DEF GoodWork, WorkTables
<1>6. QED
  BY <1>2, <1>3, <1>4, <1>5, RowsChange

\* Who is kicked is active.
LEMMA KickableAre ==
  ASSUME NEW w, GoodWork(w), NEW n \in Nat
  PROVE  \A p \in Range(FirstOf(Kickable(w), n)) : p \in Registered(w)
<1> DEFINE Missed(p) == w.producers[p].missed_blocks_per_rotation
           C == {p \in DOMAIN w.met.missed :
                   /\ IsActive(w, p) /\ Missed(p) > 0
                   /\ crossed_missed_blocks_threshold(w.rot, Missed(p), Cardinality(DOMAIN w.met.missed))}
           votes == [p \in C |-> w.producers[p].total_votes]
           missed == [p \in C |-> -Missed(p)]
           R == ByKey(missed, ByKey(votes, ByName))
<1>1. DOMAIN w.met.missed \in SUBSET Producer
  BY WorkIs, MissedAre
<1>2. C \in SUBSET Registered(w)
  BY <1>1, RegisteredAre
<1>3. Kickable(w) = InOrder(C, R)
  BY DEF Kickable
<1> HIDE DEF C
<1>4. votes \in [C -> Int] /\ missed \in [C -> Int]
  <2>1. \A p \in C : w.producers[p].total_votes \in Int /\ Missed(p) \in Int
    BY <1>2, RegisteredAre
  <2> HIDE DEF Missed
  <2>2. QED
    BY <2>1
<1> HIDE DEF votes, missed
<1>5. IsFiniteSet(C) /\ Ranks(C, ByName)
  BY <1>2, RegisteredAre, FS_Subset, ByNameRanks, RanksWithin
<1>6. Ranks(C, R)
  BY <1>4, <1>5, ByKeyRanks
<1> HIDE DEF R
<1>7. Distinct(Kickable(w), C)
  BY <1>3, <1>5, <1>6, OrderedAre
<1>8. Distinct(FirstOf(Kickable(w), n), C)
  BY <1>7, FirstOfIs
<1>9. QED
  BY <1>2, <1>8 DEF Distinct, Range

LEMMA KicksKeep ==
  ASSUME NEW w, GoodWork(w), now \in Time
  PROVE  Leads(w, update_missed_blocks_per_rotation(w))
<1> DEFINE charged == Charged(w)
           n == Cardinality(DOMAIN w.met.missed) \div KICK_SHARE
           Out == Range(FirstOf(Kickable(charged), n))
           ps == [p \in Producer |-> IF p \in Out THEN Kicked(charged.producers[p], 0)
                                     ELSE charged.producers[p]]
<1>1. Leads(w, charged)
  BY ChargedKeeps
<1>2. n \in Nat
  <2>1. IsFiniteSet(DOMAIN w.met.missed)
    BY WorkIs, MissedAre, VotingFinite, FS_Subset
  <2>2. Cardinality(DOMAIN w.met.missed) \in Nat
    BY <2>1, FS_CardinalityType
  <2> DEFINE c == Cardinality(DOMAIN w.met.missed)
  <2> HIDE DEF c
  <2>3. c \div KICK_SHARE \in Nat
    BY <2>2, BlockNumbers DEF c
  <2>4. QED
    BY <2>3 DEF c
<1>3. GoodWork(charged)
  BY <1>1 DEF Leads
<1>4. update_missed_blocks_per_rotation(w) = [charged EXCEPT !.producers = ps]
  BY DEF update_missed_blocks_per_rotation
<1> HIDE DEF charged, n
<1>5. \A p \in Out : charged.producers[p] \in producer_info /\ charged.producers[p] # Nil
  BY <1>2, <1>3, KickableAre, RegisteredAre
<1> HIDE DEF Out
<1>6. \A p \in Producer : \/ ps[p] = charged.producers[p]
                          \/ charged.producers[p] # Nil /\ LikeRow(charged.producers[p], ps[p])
  BY <1>5, KickedLike
<1>7. ps = [p \in Producer |-> ps[p]]
  OBVIOUS
<1> HIDE DEF ps
<1>8. Leads(charged, [charged EXCEPT !.producers = ps])
  BY <1>3, <1>6, <1>7, RowsChange
<1>9. QED
  BY <1>1, <1>4, <1>8, LeadsOn

\* Block by block.
LEMMA CorrectedKeeps ==
  ASSUME NEW w, GoodWork(w), NEW p \in Producer \cup {EOSIO}
  PROVE  Leads(w, Corrected(w, p))
<1> DEFINE correction == w.met.block_counter_correction
           reset == reset_schedule_metrics(w, Nil)
           restarted == [reset EXCEPT !.met.block_counter_correction = -3]
           n == (w.met.missed[p] + Width - correction) % Width
           u == IF w.met.last_onblock_caller # EOSIO THEN restarted
                ELSE IF p \notin DOMAIN w.met.missed THEN w ELSE WithMissed(w, p, n)
<1>1. Corrected(w, p) = IF correction <= 0 THEN w ELSE CalledBy(u, p)
  BY DEF Corrected
<1>2. Leads(w, u)
  <2>1. Leads(w, restarted)
    <3>1. Leads(w, reset)
      BY ResetKeeps
    <3>2. GoodWork(reset)
      BY <3>1 DEF Leads
    <3> HIDE DEF reset
    <3>3. Leads(reset, restarted)
      BY <3>2, CorrectionPut
    <3>4. QED
      BY <3>1, <3>3, LeadsOn
  <2>2. ASSUME p \in DOMAIN w.met.missed
        PROVE  Leads(w, WithMissed(w, p, n))
    <3> DEFINE m == w.met.missed[p]
    <3>1. m \in 0..(Width - 1) /\ correction \in Int /\ Width \in Nat \ {0}
      BY <2>2, WorkIs, MissedAre, BlockNumbers
    <3> HIDE DEF m, correction
    <3>2. (m + Width - correction) % Width \in 0..(Width - 1)
      BY <3>1
    <3>3. n \in 0..(Width - 1)
      BY <3>2 DEF m
    <3> HIDE DEF n
    <3>4. QED
      BY <3>3, WithMissedKeeps
  <2>3. Leads(w, w)
    BY LeadsItself
  <2> HIDE DEF restarted, n
  <2>4. QED
    BY <2>1, <2>2, <2>3
<1>3. GoodWork(u)
  BY <1>2 DEF Leads
<1> HIDE DEF u
<1>4. Leads(w, CalledBy(u, p))
  BY <1>2, <1>3, CalledKeeps, LeadsOn
<1>5. QED
  BY <1>1, <1>4, LeadsItself

LEMMA CounterKeeps ==
  ASSUME NEW w, GoodWork(w), NEW n \in Int, NEW p \in Producer \cup {EOSIO}
  PROVE  Leads(w, CalledBy([w EXCEPT !.met.block_counter_correction = n], p))
<1> DEFINE u == [w EXCEPT !.met.block_counter_correction = n]
<1>1. Leads(w, u)
  BY CorrectionPut
<1>2. GoodWork(u)
  BY <1>1 DEF Leads
<1> HIDE DEF u
<1>3. Leads(w, CalledBy(u, p))
  BY <1>1, <1>2, CalledKeeps, LeadsOn
<1>4. QED
  BY <1>3 DEF u

LEMMA WaitedKeeps ==
  ASSUME NEW w, GoodWork(w), NEW p \in Producer \cup {EOSIO}
  PROVE  Leads(w, Waited(w, p)) /\ Leads(w, NotActivated(w, p))
<1> DEFINE correction == w.met.block_counter_correction
           n == IF w.met.last_onblock_caller # p THEN correction + 1 ELSE correction
           m == IF p = EOSIO \/ w.met.last_onblock_caller = p THEN correction + 1 ELSE 1
<1>1. n \in Int /\ m \in Int
  BY WorkIs, MissedAre
<1>2. Waited(w, p) = IF correction >= 0 THEN w
                     ELSE CalledBy([w EXCEPT !.met.block_counter_correction = n], p)
  BY DEF Waited
<1>3. NotActivated(w, p) = CalledBy([w EXCEPT !.met.block_counter_correction = m], p)
  BY DEF NotActivated
<1> HIDE DEF n, m
<1>4. QED
  BY <1>1, <1>2, <1>3, CounterKeeps, LeadsItself

LEMMA CountedKeeps ==
  ASSUME NEW w, GoodWork(w), NEW p \in Producer \cup {EOSIO}, now \in Time
  PROVE  Leads(w, Counted(w, p))
<1> DEFINE counts == p \in DOMAIN w.met.missed
           over == /\ w.met.last_onblock_caller # p
                   /\ counts /\ w.met.missed[p] # MAX_BLOCK_PER_CYCLE
           called == CalledBy(w, p)
           kicked == update_missed_blocks_per_rotation(called)
           n == w.met.missed[p] - 1
<1>1. Leads(w, called)
  BY CalledKeeps
<1>2. GoodWork(called)
  BY <1>1 DEF Leads
<1>3. Counted(w, p) = IF over THEN reset_schedule_metrics(kicked, p)
                      ELSE IF ~counts \/ w.met.missed[p] = 0 THEN called
                      ELSE WithMissed(called, p, n)
  BY DEF Counted
<1> HIDE DEF called, over
<1>4. Leads(w, reset_schedule_metrics(kicked, p))
  <2>1. Leads(called, kicked)
    BY <1>2, KicksKeep
  <2>2. GoodWork(kicked)
    BY <2>1 DEF Leads
  <2> HIDE DEF kicked
  <2>3. Leads(kicked, reset_schedule_metrics(kicked, p))
    BY <2>2, ResetKeeps
  <2>4. QED
    BY <1>1, <2>1, <2>3, LeadsOn
<1>5. ASSUME counts, w.met.missed[p] # 0
      PROVE  Leads(w, WithMissed(called, p, n))
  <2>1. n \in 0..(Width - 1)
    <3> DEFINE m == w.met.missed[p]
    <3>1. m \in 0..(Width - 1) /\ m # 0 /\ Width \in Nat
      BY <1>5, WorkIs, MissedAre, BlockNumbers
    <3> HIDE DEF m
    <3>2. m - 1 \in 0..(Width - 1)
      BY <3>1
    <3>3. QED
      BY <3>2 DEF m
  <2> HIDE DEF n
  <2>2. Leads(called, WithMissed(called, p, n))
    BY <1>2, <2>1, WithMissedKeeps
  <2>3. QED
    BY <1>1, <2>2, LeadsOn
<1> HIDE DEF kicked, n
<1>6. QED
  BY <1>1, <1>3, <1>4, <1>5

\* A block: its slot and producer.
BlockSet == [slot : Nat, producer : Producer \cup {EOSIO}]

LEMMA CheckMissedKeeps ==
  ASSUME NEW w, GoodWork(w), NEW block \in BlockSet, now \in Time
  PROVE  Leads(w, CheckMissedBlocks(w, block))
<1> DEFINE p == block.producer
           corrected == Corrected(w, p)
           waited == Waited(corrected, p)
           reset == reset_schedule_metrics(waited, Nil)
<1>1. p \in Producer \cup {EOSIO} /\ block.slot \in Nat
  BY DEF BlockSet
<1>2. \/ CheckMissedBlocks(w, block) = NotActivated(w, p)
      \/ CheckMissedBlocks(w, block) = waited
      \/ CheckMissedBlocks(w, block) = update_elected_producers(reset, block.slot)
      \/ CheckMissedBlocks(w, block) = Counted(waited, p)
  BY DEF CheckMissedBlocks
<1> HIDE DEF p
<1>3. Leads(w, corrected)
  BY <1>1, CorrectedKeeps
<1>4. GoodWork(corrected)
  BY <1>3 DEF Leads
<1> HIDE DEF corrected
<1>5. Leads(w, waited)
  BY <1>1, <1>3, <1>4, WaitedKeeps, LeadsOn
<1>6. GoodWork(waited)
  BY <1>5 DEF Leads
<1> HIDE DEF waited
<1>7. Leads(w, reset)
  BY <1>5, <1>6, ResetKeeps, LeadsOn
<1>8. GoodWork(reset)
  BY <1>7 DEF Leads
<1> HIDE DEF reset
<1>9. Leads(w, update_elected_producers(reset, block.slot))
  BY <1>1, <1>7, <1>8, UpdateElectedKeeps, LeadsOn
<1>10. Leads(w, Counted(waited, p))
  BY <1>1, <1>5, <1>6, CountedKeeps, LeadsOn
<1>11. Leads(w, NotActivated(w, p))
  BY <1>1, WaitedKeeps
<1>12. QED
  BY <1>2, <1>5, <1>9, <1>10, <1>11

-----------------------------------------------------------------------------
(* Pay *)

\* The accounts of the system are others than each other and the producers.
LEMMA PayApart ==
  /\ bpay_account \in Holder /\ tedp_account \in Holder /\ works_account \in Holder
  /\ Producer \subseteq Holder /\ bpay_account \notin Producer
  /\ bpay_account # tedp_account /\ bpay_account # works_account /\ tedp_account # works_account
  /\ unissued \in Holder /\ unissued \notin Producer \cup {tedp_account, works_account, bpay_account}
  /\ tedp_account \notin Producer
<1>1. ASSUME NEW a, NEW b, NEW c, {EOSIO, tedp_account, works_account, bpay_account} = {a, b, c}
      PROVE  FALSE
  <2>1. IsFiniteSet({c}) /\ Cardinality({c}) = 1
    BY FS_Singleton
  <2>2. IsFiniteSet({c} \cup {b}) /\ Cardinality({c} \cup {b}) <= 2
    BY <2>1, FS_AddElement
  <2>3. Cardinality({c} \cup {b}) \in Nat
    BY <2>2, FS_CardinalityType
  <2>4. Cardinality(({c} \cup {b}) \cup {a}) <= 3
    BY <2>2, <2>3, FS_AddElement
  <2>5. {a, b, c} = ({c} \cup {b}) \cup {a}
    OBVIOUS
  <2>6. Cardinality({a, b, c}) <= 3
    BY <2>4, <2>5
  <2>7. Cardinality({a, b, c}) = 4
    BY <1>1, BlocksAssumption
  <2>8. QED
    BY <2>6, <2>7
<1>2. bpay_account # tedp_account
  BY <1>1
<1>3. bpay_account # works_account
  BY <1>1
<1>4. tedp_account # works_account
  BY <1>1
<1>5. QED
  BY <1>2, <1>3, <1>4, BlocksAssumption DEF Holder

\* The sums of pay are numbers.
LEMMA PaySums ==
  ASSUME NEW w, GoodWork(w)
  PROVE  /\ \A p \in Producer : ToClaim(w.pay[p]) \in Int /\ Unpaid(w.producers[p]) \in Nat
         /\ ClaimsIn(w.pay) \in Int /\ UnpaidIn(w.producers) \in Nat
         /\ w.g.perblock_bucket \in Int /\ w.g.total_unpaid_blocks \in Nat
         /\ \A h \in Holder : w.bal[h] \in Nat
<1> DEFINE f == [p \in Producer |-> ToClaim(w.pay[p])]
           h == [p \in Producer |-> Unpaid(w.producers[p])]
<1>1. w.pay \in PayTable /\ w.producers \in ProducerTable /\ w.bal \in HeldTable /\ w.g \in eosio_global_state
  BY WorkIs
<1>2. \A p \in Producer : ToClaim(w.pay[p]) \in Int
  BY <1>1 DEF PayTable, ToClaim
<1>3. \A p \in Producer : Unpaid(w.producers[p]) \in Nat
  BY <1>1 DEF ProducerTable, producer_info, Unpaid
<1>4. \A p \in Producer : f[p] \in Int /\ h[p] \in Nat
  BY <1>2, <1>3
<1> HIDE DEF f, h
<1>5. SumFunctionOnSet(f, Producer) \in Int /\ SumFunctionOnSet(h, Producer) \in Nat
  BY <1>4, VotingFinite, SumInt, SumNat
<1>6. QED
  BY <1>1, <1>2, <1>3, <1>5 DEF ClaimsIn, UnpaidIn, eosio_global_state, HeldTable, f, h

\* What pay changes in the global state.
LEMMA BucketField ==
  ASSUME NEW g \in eosio_global_state, NEW n \in Int
  PROVE  LET h == [g EXCEPT !.perblock_bucket = n]
         IN /\ h \in eosio_global_state /\ h.perblock_bucket = n
            /\ h.total_unpaid_blocks = g.total_unpaid_blocks
            /\ h.last_pervote_bucket_fill = g.last_pervote_bucket_fill
<1> DEFINE T == Nat \cup {Nil}
<1>1. /\ eosio_global_state =
           [block_num : Nat, thresh_activated_stake_time : T, last_pervote_bucket_fill : T,
            perblock_bucket : Int, total_unpaid_blocks : Nat, last_claimrewards : Nat,
            last_producer_schedule_update : Nat, last_producer_schedule_size : Nat]
      /\ n \in Int
  BY DEF eosio_global_state
<1> HIDE DEF T
<1>2. QED
  BY <1>1

LEMMA UnpaidField ==
  ASSUME NEW g \in eosio_global_state, NEW n \in Nat
  PROVE  LET h == [g EXCEPT !.total_unpaid_blocks = n]
         IN /\ h \in eosio_global_state /\ h.perblock_bucket = g.perblock_bucket
            /\ h.total_unpaid_blocks = n
            /\ h.last_pervote_bucket_fill = g.last_pervote_bucket_fill
<1> DEFINE T == Nat \cup {Nil}
<1>1. /\ eosio_global_state =
           [block_num : Nat, thresh_activated_stake_time : T, last_pervote_bucket_fill : T,
            perblock_bucket : Int, total_unpaid_blocks : Nat, last_claimrewards : Nat,
            last_producer_schedule_update : Nat, last_producer_schedule_size : Nat]
      /\ n \in Nat
  BY DEF eosio_global_state
<1> HIDE DEF T
<1>2. QED
  BY <1>1

LEMMA FillField ==
  ASSUME NEW g \in eosio_global_state, NEW n \in Nat
  PROVE  LET h == [g EXCEPT !.last_pervote_bucket_fill = n]
         IN /\ h \in eosio_global_state /\ h.perblock_bucket = g.perblock_bucket
            /\ h.total_unpaid_blocks = g.total_unpaid_blocks
            /\ h.last_pervote_bucket_fill = n
<1> DEFINE T == Nat \cup {Nil}
<1>1. /\ eosio_global_state =
           [block_num : Nat, thresh_activated_stake_time : T, last_pervote_bucket_fill : T,
            perblock_bucket : Int, total_unpaid_blocks : Nat, last_claimrewards : Nat,
            last_producer_schedule_update : Nat, last_producer_schedule_size : Nat]
      /\ n \in T
  BY DEF eosio_global_state
<1> HIDE DEF T
<1>2. QED
  BY <1>1

\* A bucket is filled with what is put into eosio.bpay.
LEMMA BucketKeeps ==
  ASSUME NEW w, GoodWork(w), w.g.last_pervote_bucket_fill # Nil, now \in Time, ~SupplyShort(w)
  PROVE  /\ Leads(w, BucketFilled(w)) /\ BucketFilled(w).producers = w.producers
         /\ BucketFilled(w).failed = w.failed
<1> DEFINE slots == now - w.g.last_pervote_bucket_fill
           to_workers == ToWorkers * slots
           to_producers == ToProducers * slots
           take == Smaller(w.bal[tedp_account], NewTokens(w))
           issue == NewTokens(w) - take
           bal == [w.bal EXCEPT ![tedp_account] = @ - take, ![unissued] = @ - issue,
                                ![works_account] = @ + to_workers, ![bpay_account] = @ + to_producers]
           g == [w.g EXCEPT !.perblock_bucket = @ + to_producers, !.last_pervote_bucket_fill = now]
           u == [w EXCEPT !.bal = bal, !.g = g]
<1>1. /\ w.g \in eosio_global_state /\ w.bal \in HeldTable
      /\ w.bal[tedp_account] \in Nat /\ w.bal[works_account] \in Nat /\ w.bal[bpay_account] \in Nat
      /\ w.bal[unissued] \in Nat /\ w.g.perblock_bucket \in Int /\ ClaimsIn(w.pay) \in Int
  BY WorkIs, PaySums, PayApart
<1>2. slots \in Int /\ now \in Nat /\ w.g.last_pervote_bucket_fill \in Nat
  BY <1>1, BlockNumbers DEF eosio_global_state
<1>0. /\ NewTokens(w) = Rate * slots /\ Rate \in Nat
      /\ Rate * now = Rate * w.g.last_pervote_bucket_fill + Rate * slots
  <2> DEFINE fill == w.g.last_pervote_bucket_fill
             left == now - fill
  <2>1. NewTokens(w) = Rate * left /\ Rate \in Nat
    BY BlockNumbers DEF NewTokens, Rate
  <2>2. fill \in Int /\ now \in Int
    BY <1>2
  <2> HIDE DEF fill, Rate
  <2>3. Rate * now = Rate * fill + Rate * (now - fill)
    BY <2>1, <2>2
  <2>4. QED
    BY <2>1, <2>3 DEF fill
<1>3. BucketFilled(w) = IF slots <= 0 THEN w ELSE u
  BY DEF BucketFilled
<1> HIDE DEF slots
<1>4. CASE slots <= 0
  BY <1>3, <1>4, LeadsItself
<1>5. CASE ~(slots <= 0)
  <2>1. slots \in Nat
    BY <1>2, <1>5
  <2>2. to_workers \in Nat /\ to_producers \in Nat
    BY <2>1, BlockNumbers
  <2>12. NewTokens(w) \in Nat /\ NewTokens(w) <= w.bal[tedp_account] + w.bal[unissued]
    <3>1. NewTokens(w) \in Nat
      BY <1>0, <2>1
    <3>2. QED
      BY <1>1, <3>1 DEF SupplyShort
  <2> HIDE DEF to_workers, to_producers
  <2>3. /\ w.bal[tedp_account] - take \in Nat /\ w.bal[unissued] - issue \in Nat
        /\ take \in Nat /\ issue \in Int /\ take + issue = NewTokens(w)
    <3> DEFINE a == w.bal[tedp_account]
               b == w.bal[unissued]
               m == NewTokens(w)
    <3>1. a \in Nat /\ b \in Nat /\ m \in Nat /\ m <= a + b
      BY <1>1, <2>12
    <3>2. take = (IF a < m THEN a ELSE m) /\ issue = m - take
      BY DEF Smaller
    <3> HIDE DEF a, b, m, take, issue
    <3>3. a - take \in Nat /\ b - issue \in Nat /\ take \in Nat /\ issue \in Int /\ take + issue = m
      BY <3>1, <3>2
    <3>4. QED
      BY <3>3 DEF a, b, m
  <2> HIDE DEF take, issue
  <2>4. /\ bal \in HeldTable /\ bal[bpay_account] = w.bal[bpay_account] + to_producers
        /\ bal[tedp_account] = w.bal[tedp_account] - take /\ bal[unissued] = w.bal[unissued] - issue
    <3> DEFINE b0 == [w.bal EXCEPT ![tedp_account] = @ - take]
               b1 == [b0 EXCEPT ![unissued] = @ - issue]
               b2 == [b1 EXCEPT ![works_account] = @ + to_workers]
    <3>5. /\ b0 \in HeldTable /\ b0[works_account] = w.bal[works_account]
          /\ b0[bpay_account] = w.bal[bpay_account] /\ b0[unissued] = w.bal[unissued]
          /\ b0[tedp_account] = w.bal[tedp_account] - take
      BY <1>1, <2>3, PayApart DEF HeldTable
    <3>2. bal = [b2 EXCEPT ![bpay_account] = @ + to_producers]
      OBVIOUS
    <3> HIDE DEF b0, bal
    <3>1. /\ b1 \in HeldTable /\ b1[works_account] = w.bal[works_account]
          /\ b1[bpay_account] = w.bal[bpay_account] /\ b1[unissued] = w.bal[unissued] - issue
          /\ b1[tedp_account] = w.bal[tedp_account] - take
      BY <1>1, <2>3, <3>5, PayApart DEF HeldTable
    <3> HIDE DEF b1
    <3>3. /\ b2 \in HeldTable /\ b2[bpay_account] = w.bal[bpay_account]
          /\ b2[tedp_account] = w.bal[tedp_account] - take /\ b2[unissued] = w.bal[unissued] - issue
      BY <1>1, <2>2, <3>1, PayApart DEF HeldTable
    <3> HIDE DEF b2
    <3>4. QED
      BY <1>1, <2>2, <3>2, <3>3, PayApart DEF HeldTable
  <2>5. /\ g \in eosio_global_state /\ g.perblock_bucket = w.g.perblock_bucket + to_producers
        /\ g.last_pervote_bucket_fill = now /\ now # Nil
        /\ g.total_unpaid_blocks = w.g.total_unpaid_blocks
    <3> DEFINE n == w.g.perblock_bucket + to_producers
               g1 == [w.g EXCEPT !.perblock_bucket = n]
    <3>1. n \in Int
      BY <1>1, <2>2
    <3>2. g = [g1 EXCEPT !.last_pervote_bucket_fill = now]
      OBVIOUS
    <3> HIDE DEF n, g
    <3>3. /\ g1 \in eosio_global_state /\ g1.perblock_bucket = n
          /\ g1.total_unpaid_blocks = w.g.total_unpaid_blocks
      BY <1>1, <3>1, BucketField
    <3> HIDE DEF g1
    <3>4. /\ g \in eosio_global_state /\ g.perblock_bucket = n
          /\ g.total_unpaid_blocks = g1.total_unpaid_blocks /\ g.last_pervote_bucket_fill = now
      BY <1>2, <3>2, <3>3, FillField
    <3>5. now # Nil
      BY <1>2, BlockNumbers
    <3>6. QED
      BY <3>3, <3>4, <3>5 DEF n
  <2> HIDE DEF bal, g
  <2>6. /\ u \in WorkTables /\ u.producers = w.producers /\ u.failed = w.failed /\ u.g = g
        /\ u.bal = bal /\ u.pay = w.pay /\ u.rot = w.rot
    BY <2>4, <2>5 DEF GoodWork, WorkTables
  <2>7. BucketFilled(w) = u
    BY <1>3, <1>5
  <2> HIDE DEF u
  <2>8. u.bal[bpay_account] = u.g.perblock_bucket + ClaimsIn(u.pay)
    BY <1>1, <2>2, <2>4, <2>5, <2>6 DEF GoodWork
  <2>9. GoodWork(u)
    BY <2>5, <2>6, <2>8 DEF GoodWork
  <2>13. Funds(u) = Funds(w)
    <3> DEFINE a == w.bal[tedp_account]
               b == w.bal[unissued]
               m == Rate * w.g.last_pervote_bucket_fill
    <3>1. Funds(w) = a + b + m
      BY DEF Funds, Spent
    <3>2. Funds(u) = (a - take) + (b - issue) + Rate * now
      BY <2>4, <2>5, <2>6 DEF Funds, Spent
    <3>3. Rate * now = m + take + issue /\ m \in Int
      <4>1. Rate * slots = take + issue
        BY <1>0, <2>3
      <4>2. Rate * now = m + Rate * slots
        BY <1>0
      <4>3. m \in Int
        BY <1>0, <1>2
      <4> HIDE DEF m
      <4>4. QED
        BY <2>3, <4>1, <4>2, <4>3
    <3>4. a \in Int /\ b \in Int
      BY <1>1
    <3> HIDE DEF a, b, m
    <3>5. QED
      BY <2>3, <3>1, <3>2, <3>3, <3>4
  <2>10. Leads(w, u)
    BY <2>5, <2>6, <2>9, <2>13 DEF Leads, SameVotes
  <2>11. QED
    BY <2>6, <2>7, <2>10
<1>6. QED
  BY <1>4, <1>5

\* There are shares unless nobody is to be elected.
LEMMA SharesAre ==
  ASSUME NEW w, GoodWork(w)
  PROVE  ShareCount(w) \in Nat /\ (ShareCount(w) = 0 => Electable(w) = {})
<1> DEFINE S == Registered(w)
           R == ByVotes(w)
           order == FirstOf(InOrder(S, R), MAX_PRODUCERS)
           Off == {i \in DOMAIN order : ~IsActive(w, order[i])}
           n == ActiveCount(w)
<1>1. MAX_PRODUCERS \in Nat /\ MAX_PRODUCERS >= 1 /\ TOP_PRODUCERS \in Nat /\ TOP_PRODUCERS >= 1
  BY BlockNumbers
<1>2. IsFiniteSet(S) /\ Ranks(S, R)
  BY RegisteredAre, ByVotesRanks
<1>3. /\ Len(order) \in Nat /\ DOMAIN order = 1..Len(order)
      /\ Len(order) = (IF Cardinality(S) < MAX_PRODUCERS THEN Cardinality(S) ELSE MAX_PRODUCERS)
      /\ \A i \in 1..Len(order) : i \in 1..Cardinality(S) /\ order[i] = InOrder(S, R)[i]
  <2>1. S \in SUBSET Registered(w)
    OBVIOUS
  <2>2. QED
    BY <1>1, <2>1, FirstByVotes
<1>4. n = IF Off = {} THEN Len(order) ELSE (CHOOSE i \in Off : \A j \in Off : i <= j) - 1
  BY DEF ActiveCount
<1>5. CASE Off = {}
  <2>1. n = Len(order) /\ n \in Nat
    BY <1>3, <1>4, <1>5
  <2>2. n = 0 => Cardinality(S) = 0
    BY <1>1, <1>3, <2>1
  <2>3. Cardinality(S) = 0 => Electable(w) = {}
    BY <1>2, FS_EmptySet DEF Electable
  <2> HIDE DEF n
  <2>4. QED
    BY <1>1, <2>1, <2>2, <2>3 DEF ShareCount, n
<1>6. CASE Off # {}
  <2>1. Off \subseteq Nat
    BY <1>3
  <2>2. \E i \in Off : \A j \in Off : i <= j
    BY <1>6, <2>1, LeastNat
  <2>3. PICK i \in Off : n = i - 1
    BY <1>4, <1>6, <2>2
  <2>4. i \in 1..Len(order) /\ ~IsActive(w, order[i]) /\ n \in Nat
    BY <1>3, <2>3
  <2> HIDE DEF n, Off
  <2>5. ASSUME n = 0
        PROVE  Electable(w) = {}
    <3> DEFINE q == order[1]
    <3>1. i = 1
      BY <2>3, <2>4, <2>5
    <3>2. /\ 1 \in 1..Cardinality(S) /\ q = InOrder(S, R)[1] /\ ~IsActive(w, q)
      BY <1>3, <2>4, <3>1
    <3> HIDE DEF order, q
    <3>3. q \in S /\ Cardinality(Before(S, R, q)) = 0
      BY <1>2, <3>2, PlacesAre
    <3>4. Before(S, R, q) \in SUBSET S
      BY DEF Before
    <3>5. Before(S, R, q) = {}
      BY <1>2, <3>3, <3>4, FS_Subset, FS_EmptySet
    <3>6. ASSUME NEW p \in Electable(w)
          PROVE  FALSE
      <4> DEFINE key == [r \in S |-> IF IsActive(w, r) THEN -w.producers[r].total_votes
                                     ELSE w.producers[r].total_votes]
      <4>1. p \in S /\ IsActive(w, p) /\ w.producers[p].total_votes > 0
        BY <3>6 DEF Electable
      <4>2. key[p] = -w.producers[p].total_votes /\ key[q] = w.producers[q].total_votes
        BY <3>2, <3>3, <4>1
      <4>3. w.producers[p].total_votes \in Nat /\ w.producers[q].total_votes \in Nat
        BY <3>3, <4>1, RegisteredAre
      <4>4. key[p] < key[q] /\ DOMAIN key = S
        BY <4>1, <4>2, <4>3
      <4> HIDE DEF key, S
      <4>5. <<p, q>> \in ByKey(key, ByName)
        BY <3>3, <4>1, <4>4 DEF ByKey
      <4>6. R = ByKey(key, ByName)
        BY DEF ByVotes, key, S
      <4>7. p \in Before(S, R, q)
        BY <4>1, <4>5, <4>6 DEF Before
      <4>8. QED
        BY <3>5, <4>7
    <3>7. QED
      BY <3>6
  <2>6. QED
    BY <1>1, <2>4, <2>5 DEF ShareCount, n
<1>7. QED
  BY <1>5, <1>6

\* The blocks of a producer to be paid are set.
LEMMA UnpaidPut ==
  ASSUME NEW old \in producer_info, NEW n \in Nat
  PROVE  LET new == [old EXCEPT !.unpaid_blocks = n]
         IN new \in producer_info /\ new.total_votes = old.total_votes /\ new.unpaid_blocks = n
<1> DEFINE T == Time
<1>1. producer_info = [total_votes : Nat, is_active : BOOLEAN, unpaid_blocks : Nat,
                       missed_blocks_per_rotation : Int, times_kicked : Nat,
                       kick_penalty_hours : Nat, last_time_kicked : T]
  BY DEF producer_info
<1> HIDE DEF T
<1>2. QED
  BY <1>1

\* What is shared out is claimed, and the blocks paid for are taken off.
LEMMA SharedKeeps ==
  ASSUME NEW w, GoodWork(w), NEW share \in Int
  PROVE  Leads(w, Shared(w, share))
<1> DEFINE A == {p \in Registered(w) : IsActive(w, p)}
           paid == FirstOf(InOrder(A, ByVotes(w)), MAX_PRODUCERS)
           Paid == Range(paid)
           amount == [p \in Paid |-> IF Position(paid, p) < TOP_PRODUCERS THEN 2 * share ELSE share]
           unpaid == [p \in Paid |-> w.producers[p].unpaid_blocks]
           ps == [p \in Producer |-> IF p \in Paid THEN [w.producers[p] EXCEPT !.unpaid_blocks = 0]
                                     ELSE w.producers[p]]
           pay == [p \in Producer |-> IF p \in Paid THEN Added(w.pay[p], amount[p]) ELSE w.pay[p]]
           spent == SumFunctionOnSet(amount, Paid)
           paidFor == SumFunctionOnSet(unpaid, Paid)
           g == [w.g EXCEPT !.perblock_bucket = @ - spent, !.total_unpaid_blocks = @ - paidFor]
           u == [w EXCEPT !.g = g, !.producers = ps, !.pay = pay]
<1>1. /\ w.g \in eosio_global_state /\ w.pay \in PayTable /\ w.producers \in ProducerTable
      /\ w.g.perblock_bucket \in Int /\ w.g.total_unpaid_blocks \in Nat
      /\ ClaimsIn(w.pay) \in Int /\ UnpaidIn(w.producers) \in Nat
  BY WorkIs, PaySums
<1>2. Shared(w, share) = u
  BY DEF Shared
<1>3. Paid \in SUBSET Registered(w) /\ Paid \in SUBSET Producer /\ IsFiniteSet(Paid)
  <2>1. A \in SUBSET Registered(w) /\ MAX_PRODUCERS \in Nat
    BY BlockNumbers
  <2>2. Distinct(paid, A)
    BY <2>1, FirstByVotes
  <2> HIDE DEF paid
  <2>3. Paid \in SUBSET A
    BY <2>2 DEF Distinct, Range
  <2>4. QED
    BY <2>3, RegisteredAre, FS_Subset
<1> HIDE DEF Paid, paid
<1>4. \A p \in Paid : amount[p] \in Int
  BY BlockNumbers
<1>5. \A p \in Paid : /\ w.producers[p] \in producer_info /\ w.producers[p] # Nil
                      /\ unpaid[p] \in Nat /\ unpaid[p] = Unpaid(w.producers[p])
                      /\ w.pay[p] \in Int \cup {Nil}
  BY <1>1, <1>3, RegisteredAre DEF Unpaid, PayTable
<1> HIDE DEF amount, unpaid
<1>6. /\ pay \in PayTable
      /\ \A p \in Paid : ToClaim(pay[p]) \in Int /\ ToClaim(pay[p]) = ToClaim(w.pay[p]) + amount[p]
  <2>1. \A p \in Paid : /\ Added(w.pay[p], amount[p]) \in Int
                        /\ Added(w.pay[p], amount[p]) = ToClaim(w.pay[p]) + amount[p]
    BY <1>4, <1>5 DEF Added, ToClaim
  <2>2. \A p \in Paid : pay[p] = Added(w.pay[p], amount[p])
    BY <1>3
  <2>3. \A p \in Producer : pay[p] \in Int \cup {Nil}
    BY <1>1, <2>1 DEF PayTable
  <2>4. pay \in PayTable
    BY <2>3 DEF PayTable
  <2> HIDE DEF pay
  <2>5. \A p \in Paid : ToClaim(pay[p]) = pay[p]
    BY <2>1, <2>2, BlockNumbers DEF ToClaim
  <2>6. QED
    BY <2>1, <2>2, <2>4, <2>5
<1>7. \A p \in Producer \ Paid : pay[p] = w.pay[p] /\ ps[p] = w.producers[p]
  OBVIOUS
<1>8. /\ ps \in ProducerTable /\ SameVotes(w.producers, ps)
      /\ \A p \in Paid : Unpaid(ps[p]) = 0
  <2>1. ASSUME NEW p \in Paid
        PROVE  /\ ps[p] \in producer_info /\ ps[p] # Nil /\ Unpaid(ps[p]) = 0
               /\ VotesOf(ps[p]) = VotesOf(w.producers[p])
    <3>1. ps[p] = [w.producers[p] EXCEPT !.unpaid_blocks = 0]
      BY <1>3
    <3> HIDE DEF ps
    <3>2. /\ ps[p] \in producer_info /\ ps[p].total_votes = w.producers[p].total_votes
          /\ ps[p].unpaid_blocks = 0
      BY <1>5, <3>1, UnpaidPut
    <3>3. ps[p] # Nil
      BY <3>2, VotingFinite
    <3>4. QED
      BY <1>5, <3>2, <3>3 DEF Unpaid, VotesOf
  <2>2. ps \in ProducerTable
    BY <1>1, <2>1 DEF ProducerTable
  <2>3. SameVotes(w.producers, ps)
    BY <1>5, <1>7, <2>1 DEF SameVotes
  <2>4. QED
    BY <2>1, <2>2, <2>3
<1> HIDE DEF ps, pay
<1>9. ClaimsIn(pay) = ClaimsIn(w.pay) + spent /\ spent \in Int
  <2> DEFINE f == [p \in Producer |-> ToClaim(w.pay[p])]
             h == [p \in Producer |-> ToClaim(pay[p])]
  <2>1. \A p \in Producer : f[p] \in Int /\ h[p] \in Int
    BY <1>1, <1>6 DEF PayTable, ToClaim
  <2>2. \A p \in Paid : amount[p] \in Int /\ h[p] = f[p] + amount[p]
    BY <1>3, <1>4, <1>6
  <2>3. \A p \in Producer \ Paid : h[p] = f[p]
    BY <1>7
  <2> HIDE DEF f, h
  <2>4. SumFunctionOnSet(h, Producer) = SumFunctionOnSet(f, Producer) + spent
    BY <1>3, <2>1, <2>2, <2>3, VotingFinite, SumShift
  <2>5. spent \in Int
    BY <1>3, <1>4, SumInt
  <2>6. QED
    BY <2>4, <2>5 DEF ClaimsIn, f, h
<1>10. UnpaidIn(w.producers) = UnpaidIn(ps) + paidFor /\ paidFor \in Nat /\ UnpaidIn(ps) \in Nat
  <2> DEFINE f == [p \in Producer |-> Unpaid(ps[p])]
             h == [p \in Producer |-> Unpaid(w.producers[p])]
  <2>1. \A p \in Producer : f[p] \in Nat /\ h[p] \in Nat
    BY <1>1, <1>8 DEF ProducerTable, producer_info, Unpaid
  <2>2. \A p \in Paid : unpaid[p] \in Nat /\ h[p] = f[p] + unpaid[p]
    BY <1>3, <1>5, <1>8
  <2>3. \A p \in Producer \ Paid : h[p] = f[p]
    BY <1>7
  <2> HIDE DEF f, h
  <2>4. SumFunctionOnSet(h, Producer) = SumFunctionOnSet(f, Producer) + paidFor
    BY <1>3, <2>1, <2>2, <2>3, VotingFinite, SumShift
  <2>5. paidFor \in Nat /\ SumFunctionOnSet(f, Producer) \in Nat
    BY <1>3, <2>1, <2>2, VotingFinite, SumNat
  <2>6. QED
    BY <2>4, <2>5 DEF UnpaidIn, f, h
<1> HIDE DEF spent, paidFor
<1>11. /\ g \in eosio_global_state /\ g.perblock_bucket = w.g.perblock_bucket - spent
       /\ g.total_unpaid_blocks = UnpaidIn(ps)
       /\ g.last_pervote_bucket_fill = w.g.last_pervote_bucket_fill
  <2> DEFINE n == w.g.perblock_bucket - spent
             m == w.g.total_unpaid_blocks - paidFor
             g1 == [w.g EXCEPT !.perblock_bucket = n]
  <2>1. n \in Int /\ m = UnpaidIn(ps) /\ m \in Nat
    BY <1>1, <1>9, <1>10 DEF GoodWork
  <2>2. g = [g1 EXCEPT !.total_unpaid_blocks = m]
    OBVIOUS
  <2> HIDE DEF n, m, g
  <2>3. /\ g1 \in eosio_global_state /\ g1.perblock_bucket = n
        /\ g1.last_pervote_bucket_fill = w.g.last_pervote_bucket_fill
    BY <1>1, <2>1, BucketField
  <2> HIDE DEF g1
  <2>4. /\ g \in eosio_global_state /\ g.perblock_bucket = g1.perblock_bucket
        /\ g.total_unpaid_blocks = m /\ g.last_pervote_bucket_fill = g1.last_pervote_bucket_fill
    BY <2>1, <2>2, <2>3, UnpaidField
  <2>5. QED
    BY <2>1, <2>3, <2>4 DEF n
<1> HIDE DEF g
<1>12. /\ u \in WorkTables /\ u.g = g /\ u.producers = ps /\ u.pay = pay /\ u.bal = w.bal
       /\ u.rot = w.rot /\ u.failed = w.failed
  BY <1>6, <1>8, <1>11 DEF GoodWork, WorkTables
<1> HIDE DEF u
<1>13. u.bal[bpay_account] = u.g.perblock_bucket + ClaimsIn(u.pay)
  BY <1>1, <1>9, <1>11, <1>12 DEF GoodWork
<1>14. GoodWork(u)
  BY <1>11, <1>12, <1>13 DEF GoodWork
<1>15. Leads(w, u)
  BY <1>8, <1>11, <1>12, <1>14 DEF Leads, Funds, Spent
<1>16. QED
  BY <1>2, <1>15

LEMMA SnapshotKeeps ==
  ASSUME NEW w, GoodWork(w), w.g.last_pervote_bucket_fill # Nil, now \in Time, Reserve <= Funds(w)
  PROVE  Leads(w, claimrewards_snapshot(w))
<1> DEFINE filled == BucketFilled(w)
           count == ShareCount(w)
           share == Quotient(filled.g.perblock_bucket, count)
           Failing(cause, n) == [w EXCEPT !.failed = @ \cup {<<cause, n>>}]
<1>1. claimrewards_snapshot(w) =
        IF w.g.total_unpaid_blocks = 0 THEN w
        ELSE IF NoSaving(w) THEN Failing("saving", now)
        ELSE IF count = 0 THEN Failing("shares", Len(Elected(w)))
        ELSE IF SupplyShort(w) THEN Failing("supply", now)
        ELSE Shared(filled, share)
  BY DEF claimrewards_snapshot
<1>2. ASSUME ~SupplyShort(w)
      PROVE  Leads(w, filled) /\ GoodWork(filled)
  BY <1>2, BucketKeeps DEF Leads
<1> HIDE DEF filled
<1>3. now \in Nat
  BY BlockNumbers
<1>4. count \in Nat /\ (count = 0 => Electable(w) = {})
  BY SharesAre
<1> HIDE DEF count
<1>5. CASE NoSaving(w)
  <2>1. <<"saving", now>> \in Failures /\ <<"saving", now>> \in Causes
    BY <1>3, <1>5 DEF Failures, Causes, NoSaving
  <2>2. QED
    BY <1>1, <1>5, <2>1, FailurePut, LeadsItself
<1>6. CASE ~NoSaving(w) /\ count = 0
  <2> DEFINE none == <<"shares", Len(Elected(w))>>
  <2>1. Len(Elected(w)) = 0
    BY <1>4, <1>6, ElectedAre
  <2>2. none \in Failures /\ none \in Causes
    BY <2>1 DEF Failures, Always, Causes
  <2>3. none = <<"shares", Len(Elected(w))>>
    OBVIOUS
  <2> HIDE DEF none
  <2>4. Leads(w, [w EXCEPT !.failed = @ \cup {none}])
    BY <2>2, FailurePut
  <2>5. QED
    BY <1>1, <1>6, <2>3, <2>4, LeadsItself
<1>8. CASE ~NoSaving(w) /\ count # 0 /\ SupplyShort(w)
  <2>1. Reserve < Rate * now
    <3> DEFINE a == w.bal[tedp_account]
               b == w.bal[unissued]
               fill == w.g.last_pervote_bucket_fill
    <3>1. a \in Nat /\ b \in Nat /\ fill \in Nat
      BY WorkIs, PayApart DEF HeldTable, eosio_global_state
    <3>2. /\ Reserve \in Int /\ Rate \in Nat
          /\ Reserve <= a + b + Rate * fill /\ Rate * (now - fill) > a + b
      BY <1>8, BlockNumbers DEF Funds, Spent, SupplyShort, NewTokens, Rate, Reserve
    <3> HIDE DEF a, b, fill, Rate, Reserve
    <3>3. Rate * now = Rate * fill + Rate * (now - fill) /\ Rate * fill \in Int /\ Rate * (now - fill) \in Int
      BY <1>3, <3>1, <3>2
    <3>4. QED
      BY <3>1, <3>2, <3>3
  <2>2. <<"supply", now>> \in Failures /\ <<"supply", now>> \in Causes
    BY <1>3, <2>1 DEF Failures, Causes
  <2>3. QED
    BY <1>1, <1>8, <2>2, FailurePut, LeadsItself
<1>7. CASE ~NoSaving(w) /\ count # 0 /\ ~SupplyShort(w)
  <2> DEFINE bucket == filled.g.perblock_bucket
  <2>1. bucket \in Int /\ count \in Nat \ {0}
    BY <1>2, <1>4, <1>7, PaySums
  <2> HIDE DEF bucket
  <2>2. bucket \div count \in Int /\ (-bucket) \div count \in Int
    BY <2>1
  <2>3. Quotient(bucket, count) \in Int
    BY <2>1, <2>2 DEF Quotient
  <2>4. share \in Int
    BY <2>3 DEF bucket
  <2> HIDE DEF share
  <2>5. Leads(w, Shared(filled, share))
    BY <1>2, <1>7, <2>4, SharedKeeps, LeadsOn
  <2>6. QED
    BY <1>1, <1>7, <2>5, LeadsItself
<1>9. QED
  BY <1>5, <1>6, <1>7, <1>8

LEMMA PayingKeeps ==
  ASSUME NEW w, GoodWork(w), w.g.last_pervote_bucket_fill # Nil, now \in Time, Reserve <= Funds(w),
         NEW block \in BlockSet
  PROVE  Leads(w, Paying(w, block))
<1> DEFINE u == claimrewards_snapshot(w)
<1>1. Leads(w, u)
  BY SnapshotKeeps
<1>2. GoodWork(u) /\ block.slot \in Nat
  BY <1>1 DEF Leads, BlockSet
<1> HIDE DEF u
<1>3. Leads(w, [u EXCEPT !.g.last_claimrewards = block.slot])
  BY <1>1, <1>2, TimedKeeps, LeadsOn
<1>4. QED
  BY <1>3, LeadsItself DEF Paying, u

\* One more block to be paid.
LEMMA UnpaidBlockKeeps ==
  ASSUME NEW w, GoodWork(w), NEW producer \in Producer \cup {EOSIO}
  PROVE  Leads(w, UnpaidBlock(w, producer))
<1> DEFINE old == w.producers[producer]
           n == old.unpaid_blocks + 1
           new == [old EXCEPT !.unpaid_blocks = n]
           ps == [p \in Producer |-> IF p = producer
                                     THEN [w.producers[p] EXCEPT !.unpaid_blocks = @ + 1]
                                     ELSE w.producers[p]]
           m == w.g.total_unpaid_blocks + 1
           g == [w.g EXCEPT !.total_unpaid_blocks = m]
           u == [w EXCEPT !.g = g, !.producers = ps]
<1>1. CASE producer \notin Registered(w)
  BY <1>1, LeadsItself DEF UnpaidBlock
<1>2. CASE producer \in Registered(w)
  <2>1. /\ w.g \in eosio_global_state /\ w.producers \in ProducerTable
        /\ w.g.total_unpaid_blocks \in Nat /\ UnpaidIn(w.producers) \in Nat
        /\ w.g.total_unpaid_blocks = UnpaidIn(w.producers)
    BY WorkIs, PaySums DEF GoodWork
  <2>2. /\ old \in producer_info /\ old # Nil /\ n \in Nat /\ producer \in Producer
        /\ old.unpaid_blocks \in Nat
    BY <1>2, RegisteredAre
  <2>3. UnpaidBlock(w, producer) = u
    BY <1>2 DEF UnpaidBlock
  <2>4. \A p \in Producer : ps[p] = IF p = producer THEN new ELSE w.producers[p]
    OBVIOUS
  <2>5. ps \in [Producer -> {new} \cup {w.producers[p] : p \in Producer}]
    OBVIOUS
  <2> HIDE DEF ps
  <2>6. new \in producer_info /\ new.total_votes = old.total_votes /\ new.unpaid_blocks = n
    BY <2>2, UnpaidPut
  <2> HIDE DEF new
  <2>7. new # Nil /\ VotesOf(new) = VotesOf(old) /\ Unpaid(new) = n /\ Unpaid(old) = n - 1
    BY <2>2, <2>6, VotingFinite DEF VotesOf, Unpaid
  <2>8. ps \in ProducerTable
    BY <2>1, <2>4, <2>5, <2>6 DEF ProducerTable
  <2>9. SameVotes(w.producers, ps)
    BY <2>2, <2>4, <2>7 DEF SameVotes
  <2>10. UnpaidIn(ps) = UnpaidIn(w.producers) + 1
    <3> DEFINE f == [p \in Producer |-> Unpaid(w.producers[p])]
               h == [p \in Producer |-> Unpaid(ps[p])]
    <3>1. \A p \in Producer : f[p] \in Int /\ h[p] \in Int
      BY <2>1, <2>8 DEF ProducerTable, producer_info, Unpaid
    <3>2. \A p \in Producer \ {producer} : h[p] = f[p]
      BY <2>4
    <3>3. h[producer] = n /\ f[producer] = n - 1
      BY <2>2, <2>4, <2>7
    <3> HIDE DEF f, h
    <3>4. SumFunctionOnSet(h, Producer) = SumFunctionOnSet(f, Producer) + h[producer] - f[producer]
      BY <2>2, <3>1, <3>2, VotingFinite, SumChange
    <3>5. SumFunctionOnSet(f, Producer) \in Int
      BY <3>1, VotingFinite, SumInt
    <3> HIDE DEF n
    <3>6. SumFunctionOnSet(h, Producer) = SumFunctionOnSet(f, Producer) + 1
      BY <2>2, <3>3, <3>4, <3>5
    <3>7. QED
      BY <3>6 DEF UnpaidIn, f, h
  <2>11. m \in Nat /\ m = UnpaidIn(ps)
    BY <2>1, <2>10
  <2> HIDE DEF m
  <2>12. /\ g \in eosio_global_state /\ g.perblock_bucket = w.g.perblock_bucket
         /\ g.total_unpaid_blocks = m /\ g.last_pervote_bucket_fill = w.g.last_pervote_bucket_fill
    BY <2>1, <2>11, UnpaidField
  <2> HIDE DEF g
  <2>13. /\ u \in WorkTables /\ u.g = g /\ u.producers = ps /\ u.pay = w.pay /\ u.bal = w.bal
         /\ u.rot = w.rot /\ u.failed = w.failed
    BY <2>8, <2>12 DEF GoodWork, WorkTables
  <2> HIDE DEF u
  <2>14. GoodWork(u)
    BY <2>11, <2>12, <2>13 DEF GoodWork
  <2>15. Leads(w, u)
    BY <2>9, <2>12, <2>13, <2>14 DEF Leads, Funds, Spent
  <2>16. QED
    BY <2>3, <2>15
<1>3. QED
  BY <1>1, <1>2

LEMMA NotYetKeeps ==
  ASSUME NEW w, GoodWork(w), now \in Time, NEW block \in BlockSet
  PROVE  Leads(w, NotYetActivated(w, block))
<1> DEFINE n == w.g.block_num + 1
           counted == [w EXCEPT !.g.block_num = n]
           begun == [counted EXCEPT !.g.thresh_activated_stake_time = now]
           done == [begun EXCEPT !.g.last_claimrewards = block.slot]
<1>1. n \in Nat /\ now \in Nat /\ block.slot \in Nat
  BY WorkIs, BlockNumbers DEF eosio_global_state, BlockSet
<1>2. NotYetActivated(w, block) = counted \/ NotYetActivated(w, block) = done
  BY DEF NotYetActivated
<1>3. Leads(w, counted)
  BY <1>1, TimedKeeps
<1>4. GoodWork(counted)
  BY <1>3 DEF Leads
<1> HIDE DEF counted
<1>5. Leads(w, begun)
  BY <1>1, <1>3, <1>4, TimedKeeps, LeadsOn
<1>6. GoodWork(begun)
  BY <1>5 DEF Leads
<1> HIDE DEF begun
<1>7. Leads(w, done)
  BY <1>1, <1>5, <1>6, TimedKeeps, LeadsOn
<1>8. QED
  BY <1>2, <1>3, <1>7

LEMMA BucketStarts ==
  ASSUME NEW w, GoodWork(w), now \in Time
  PROVE  Leads(w, BucketStarted(w)) /\ BucketStarted(w).g.last_pervote_bucket_fill # Nil
<1> DEFINE old == w.g.last_pervote_bucket_fill
           n == IF old = Nil THEN now ELSE old
           g == [w.g EXCEPT !.last_pervote_bucket_fill = n]
<1>1. w.g \in eosio_global_state /\ n \in Nat /\ n # Nil /\ (n = old \/ old = Nil)
  <2>1. old \in Nat \cup {Nil} /\ now \in Nat /\ w.g \in eosio_global_state
    BY WorkIs, BlockNumbers DEF eosio_global_state
  <2> HIDE DEF old
  <2>2. QED
    BY <2>1, BlockNumbers
<1>2. BucketStarted(w) = [w EXCEPT !.g = g]
  BY DEF BucketStarted
<1> HIDE DEF n
<1>3. /\ g \in eosio_global_state /\ g.perblock_bucket = w.g.perblock_bucket
      /\ g.total_unpaid_blocks = w.g.total_unpaid_blocks /\ g.last_pervote_bucket_fill = n
  BY <1>1, FillField
<1> HIDE DEF g
<1>4. Leads(w, [w EXCEPT !.g = g])
  BY <1>1, <1>3, GlobalPut
<1>5. BucketStarted(w).g = g
  BY <1>2 DEF GoodWork, WorkTables
<1>6. QED
  BY <1>1, <1>2, <1>3, <1>4, <1>5

\* So all that onblock does keeps the tables.
LEMMA OnblockKeeps ==
  ASSUME NEW w, GoodWork(w), NEW block \in BlockSet, now \in Time, Reserve <= Funds(w)
  PROVE  Leads(w, onblock(w, block))
<1> DEFINE started == BucketStarted(w)
           checked == CheckMissedBlocks(started, block)
           due == UnpaidBlock(checked, block.producer)
           elected == Scheduling(due, block)
           paid == Paying(elected, block)
<1>1. onblock(w, block) = IF w.g.thresh_activated_stake_time = Nil THEN NotYetActivated(w, block) ELSE paid
  BY DEF onblock
<1>2. block.slot \in Nat /\ block.producer \in Producer \cup {EOSIO}
  BY DEF BlockSet
<1>3. Leads(w, started) /\ started.g.last_pervote_bucket_fill # Nil
  BY BucketStarts
<1>4. GoodWork(started)
  BY <1>3 DEF Leads
<1> HIDE DEF started
<1>5. Leads(started, checked)
  BY <1>4, CheckMissedKeeps
<1>6. GoodWork(checked)
  BY <1>5 DEF Leads
<1> HIDE DEF checked
<1>7. Leads(checked, due)
  BY <1>2, <1>6, UnpaidBlockKeeps
<1>8. GoodWork(due)
  BY <1>7 DEF Leads
<1> HIDE DEF due
<1>9. Leads(due, elected)
  BY <1>2, <1>8, UpdateElectedKeeps, LeadsItself DEF Scheduling
<1>10. GoodWork(elected)
  BY <1>9 DEF Leads
<1> HIDE DEF elected
<1>11. elected.g.last_pervote_bucket_fill # Nil /\ Reserve <= Funds(elected)
  <2>1. Reserve \in Int
    BY BlockNumbers DEF Reserve
  <2> HIDE DEF Reserve
  <2>2. QED
    BY <1>3, <1>5, <1>7, <1>9, <2>1 DEF Leads
<1>12. Leads(elected, paid)
  BY <1>10, <1>11, PayingKeeps
<1> HIDE DEF paid
<1>13. Leads(w, paid)
  BY <1>3, <1>5, <1>7, <1>9, <1>12, LeadsOn
<1>14. QED
  BY <1>1, <1>13, NotYetKeeps

-----------------------------------------------------------------------------
(* Between blocks *)

\* The tables are sound, no stake is below zero, what is saved and can be issued
\* falls short of the beginning only by what the slots were given, and onblock has
\* failed of nothing else; REX is not part of it here.
BlocksInv ==
  /\ now \in Time /\ 1 <= now /\ VotesInv
  /\ rexpool = Nil /\ rexbalance = [a \in Account |-> Nil]
  /\ \A a \in Account : voters[a] # Nil => 0 <= voters[a].staked
  /\ GoodWork(Work)
  /\ head \in BlockSet /\ idle \subseteq Producer /\ hurried \in BOOLEAN
  /\ saving_since \in Time \cup {Nil} /\ Reserve <= Funds(Work)
  /\ failed \subseteq PastFailures

\* Neither changes with what is claimed, scheduled or voted.
LEMMA FundsSame ==
  ASSUME now \in Time, now \in Nat, UNCHANGED saving_since, gstate' = gstate,
         balances'[tedp_account] = balances[tedp_account], balances'[unissued] = balances[unissued],
         now <= now', now' \in Nat
  PROVE  /\ Reserve <= Funds(Work) => (Reserve <= Funds(Work))'
         /\ PastFailures \subseteq PastFailures'
<1>1. Funds(Work)' = Funds(Work) /\ Reserve' = Reserve
  BY DEF Funds, Work, Spent, Reserve
<1> HIDE DEF Reserve
<1>2. \A t \in Time : t < now => t < now'
  BY BlockNumbers
<1>3. PastFailures \subseteq PastFailures'
  BY <1>1, <1>2 DEF PastFailures
<1>4. QED
  BY <1>1, <1>3

\* The tables that a block leaves are those of the next.
LEMMA WorkNext ==
  ASSUME NEW u, GoodWork(u), producers' = u.producers, gstate' = u.g, rotation' = u.rot,
         metrics' = u.met, payments' = u.pay, balances' = u.bal, schedules' = u.sch
  PROVE  GoodWork(Work')
<1> DEFINE v == Work'
<1>1. /\ u.producers \in ProducerTable /\ u.g \in eosio_global_state /\ u.rot \in rotation_state
      /\ u.met \in Metrics /\ u.pay \in PayTable /\ u.bal \in HeldTable /\ u.sch \in Chain
  BY WorkIs
<1>2. v = [producers |-> u.producers, g |-> u.g, rot |-> u.rot, met |-> u.met,
           pay |-> u.pay, bal |-> u.bal, sch |-> u.sch, failed |-> {}]
  BY DEF Work
<1> HIDE DEF v
<1>3. v \in WorkTables
  BY <1>1, <1>2 DEF WorkTables
<1>4. GoodWork(v)
  BY <1>2, <1>3 DEF GoodWork
<1>5. QED
  BY <1>4 DEF v

LEMMA WorkParts ==
  ASSUME GoodWork(Work)
  PROVE  /\ producers \in ProducerTable /\ gstate \in eosio_global_state /\ rotation \in rotation_state
         /\ metrics \in Metrics /\ payments \in PayTable /\ balances \in HeldTable
         /\ schedules \in Chain
         /\ TOP_PRODUCERS - 1 <= rotation.sbp_in_index
         /\ balances[bpay_account] = gstate.perblock_bucket + ClaimsIn(payments)
         /\ gstate.total_unpaid_blocks = UnpaidIn(producers)
BY WorkIs DEF GoodWork, Work

\* Rows of producers with the same blocks to be paid.
LEMMA UnpaidSame ==
  ASSUME NEW ps, NEW qs, \A p \in Producer : Unpaid(qs[p]) = Unpaid(ps[p])
  PROVE  UnpaidIn(qs) = UnpaidIn(ps)
<1> DEFINE f == [p \in Producer |-> Unpaid(qs[p])]
           h == [p \in Producer |-> Unpaid(ps[p])]
<1>1. \A p \in Producer : f[p] = h[p]
  OBVIOUS
<1> HIDE DEF f, h
<1>2. SumFunctionOnSet(f, Producer) = SumFunctionOnSet(h, Producer)
  BY <1>1, VotingFinite, SumEqual
<1>3. QED
  BY <1>2 DEF UnpaidIn, f, h

\* Rows of producers with the same votes.
LEMMA VotesSame ==
  ASSUME VotesInv, producers' \in ProducerTable, SameVotes(producers, producers'),
         UNCHANGED <<voters, tallies>>
  PROVE  VotesInv'
<1>1. voters \in VoterTable /\ producers \in ProducerTable
  BY DEF VotesInv
<1>2. WeightIn(producers') = WeightIn(producers)
  <2> DEFINE f == [p \in Producer |-> VotesOf(producers[p])]
             h == [p \in Producer |-> VotesOf(producers'[p])]
  <2>1. \A p \in Producer : f[p] = h[p]
    BY DEF SameVotes
  <2> HIDE DEF f, h
  <2>2. SumFunctionOnSet(f, Producer) = SumFunctionOnSet(h, Producer)
    BY <2>1, VotingFinite, SumEqual
  <2>3. QED
    BY <2>2 DEF WeightIn, f, h
<1>3. AllSound(voters, producers')
  BY <1>1 DEF VotesInv, AllSound, Sound, SameVotes, VoterTable, voter_info
<1>4. ASSUME NEW p \in Producer, producers'[p] # Nil
      PROVE  producers'[p].total_votes = VotesIn(voters, p)
  <2>1. producers[p] # Nil /\ VotesOf(producers'[p]) = VotesOf(producers[p])
    BY <1>4 DEF SameVotes
  <2>2. producers'[p].total_votes = producers[p].total_votes
    BY <1>4, <2>1 DEF VotesOf
  <2>3. QED
    BY <2>1, <2>2 DEF VotesInv, CountedIn
<1>5. CountedIn(voters, producers', total_producer_vote_weight, total_activated_stake)
  BY <1>2, <1>4 DEF VotesInv, CountedIn
<1>6. QED
  BY <1>1, <1>3, <1>5 DEF VotesInv, tallies

-----------------------------------------------------------------------------
(* Steps *)

\* A block.
LEMMA ProduceKeeps ==
  ASSUME BlocksInv, Produce
  PROVE  BlocksInv'
<1> DEFINE w == onblock(Work, head)
<1>1. /\ now \in Time /\ VotesInv /\ GoodWork(Work) /\ head \in BlockSet
      /\ failed \subseteq PastFailures /\ idle \subseteq Producer /\ hurried \in BOOLEAN
      /\ Reserve <= Funds(Work) /\ 1 <= now
  BY DEF BlocksInv
<1>2. Leads(Work, w)
  BY <1>1, OnblockKeeps
<1>3. /\ now < MaxTime /\ now' = now + 1 /\ head' = [slot |-> now, producer |-> Scheduled]
      /\ failed' = failed \cup w.failed
      /\ hurried' = (hurried \/ CutsWait(Work, head))
      /\ idle' = idle \cup {p \in Registered(Work) : p = head.producer /\ ~IsActive(Work, p)}
      /\ \/ /\ producers' = w.producers /\ gstate' = w.g /\ rotation' = w.rot /\ metrics' = w.met
            /\ payments' = w.pay /\ balances' = w.bal /\ schedules' = w.sch
         \/ UNCHANGED <<producers, gstate, rotation, metrics, payments, balances, schedules>>
      /\ UNCHANGED <<voters, tallies, rexVars, saving_since>>
  BY DEF Produce
<1> HIDE DEF w
<1>4. GoodWork(w)
  BY <1>2 DEF Leads
<1>5. now' \in Time /\ now \in Nat
  BY <1>1, <1>3, BlockNumbers DEF Time
<1>6. head' \in BlockSet
  <2> DEFINE a == schedules.active
             t == now \div MAX_BLOCK_PER_CYCLE
             i == (t % Len(a)) + 1
  <2>1. a \in Seq(Producer \cup {EOSIO}) /\ a # <<>>
    BY <1>1, WorkParts DEF Chain, Turns
  <2>2. Len(a) \in Nat \ {0} /\ MAX_BLOCK_PER_CYCLE \in Nat \ {0}
    BY <2>1, BlockNumbers
  <2> HIDE DEF a
  <2>3. t \in Nat
    BY <1>5, <2>2
  <2> HIDE DEF t
  <2>4. i \in 1..Len(a)
    BY <2>2, <2>3
  <2> HIDE DEF i
  <2>5. a[i] \in Producer \cup {EOSIO}
    BY <2>1, <2>4
  <2>6. Scheduled = a[i]
    BY DEF Scheduled, a, t, i
  <2>7. QED
    BY <1>3, <1>5, <2>5, <2>6 DEF BlockSet
<1>7. GoodWork(Work') /\ producers' \in ProducerTable /\ SameVotes(producers, producers')
  <2>1. CASE /\ producers' = w.producers /\ gstate' = w.g /\ rotation' = w.rot /\ metrics' = w.met
             /\ payments' = w.pay /\ balances' = w.bal /\ schedules' = w.sch
    <3>1. GoodWork(Work')
      BY <1>4, <2>1, WorkNext
    <3>2. Work.producers = producers
      BY DEF Work
    <3>3. QED
      BY <1>2, <1>4, <2>1, <3>1, <3>2, WorkIs DEF Leads
  <2>2. CASE UNCHANGED <<producers, gstate, rotation, metrics, payments, balances, schedules>>
    <3>1. Work' = Work
      BY <2>2 DEF Work
    <3>2. QED
      BY <1>1, <2>2, <3>1, WorkParts DEF SameVotes
  <2>3. QED
    BY <1>3, <2>1, <2>2
<1>8. VotesInv'
  BY <1>1, <1>3, <1>7, VotesSame
<1>14. Reserve \in Int /\ Reserve' = Reserve
  BY <1>3, BlockNumbers DEF Reserve
<1> HIDE DEF Reserve
<1>15. Reserve' <= Funds(Work')
  <2>1. CASE gstate' = w.g /\ balances' = w.bal
    <3>1. Funds(Work') = Funds(w)
      BY <2>1 DEF Funds, Work
    <3>2. QED
      BY <1>1, <1>2, <1>14, <3>1 DEF Leads
  <2>2. CASE UNCHANGED <<gstate, balances>>
    <3>1. Funds(Work') = Funds(Work)
      BY <2>2 DEF Funds, Work
    <3>2. QED
      BY <1>1, <1>14, <3>1
  <2>3. QED
    BY <1>3, <2>1, <2>2
<1>9. failed' \subseteq PastFailures'
  <2>1. w.failed \subseteq Failures
    BY <1>2 DEF Leads, Work
  <2>2. now \in Time /\ now < now' /\ \A t \in Time : t < now => t < now'
    BY <1>1, <1>3, <1>5, BlockNumbers
  <2>3. PastFailures \subseteq PastFailures'
    BY <1>3, <1>14, <2>2 DEF PastFailures
  <2>4. Failures \subseteq PastFailures'
    BY <1>3, <1>14, <2>2 DEF PastFailures, Failures
  <2>5. QED
    BY <1>1, <1>3, <2>1, <2>3, <2>4
<1>10. idle' \subseteq Producer
  BY <1>1, <1>3, RegisteredAre
<1>11. hurried' \in BOOLEAN
  BY <1>3
<1>12. /\ rexpool' = Nil /\ rexbalance' = [a \in Account |-> Nil]
       /\ \A a \in Account : voters'[a] # Nil => 0 <= voters'[a].staked
  BY <1>3 DEF BlocksInv, rexVars
<1>13. QED
  <2>1. 1 <= now' /\ saving_since' \in Time \cup {Nil}
    BY <1>1, <1>3, <1>5 DEF BlocksInv
  <2>2. QED
    BY <1>5, <1>6, <1>7, <1>8, <1>9, <1>10, <1>11, <1>12, <1>15, <2>1 DEF BlocksInv

\* A slot without a block, and schedules that move on.
LEMMA ChainSteps ==
  ASSUME BlocksInv, Miss \/ BecomePending \/ BecomeActive
  PROVE  BlocksInv'
<1>1. /\ now \in Time /\ VotesInv /\ GoodWork(Work) /\ schedules \in Chain
      /\ idle \subseteq Producer
  BY WorkParts DEF BlocksInv
<1>2. UNCHANGED <<voters, producers, tallies, rexVars, gstate, rotation, metrics, payments,
                  balances, saving_since, head, hurried, failed>>
  BY DEF Miss, BecomePending, BecomeActive, votingVars
<1>3. VotesInv'
  BY <1>1, <1>2, VotesFrame
<1>4. now' \in Time /\ now <= now' /\ idle' \subseteq Producer /\ now \in Nat
  BY <1>1, BlockNumbers DEF Miss, BecomePending, BecomeActive, votingVars, Time
<1>5. schedules' \in Chain
  <2> DEFINE T == Turns
             U == Turns \cup {Nil}
  <2>1. Chain = [active : T, pending : U, proposed : U, since : Nat]
    BY DEF Chain
  <2>2. Nil \in U /\ T \subseteq U /\ \A s \in U : s # Nil => s \in T
    OBVIOUS
  <2> HIDE DEF T, U
  <2>3. CASE Miss
    BY <1>1, <2>3 DEF Miss
  <2>4. CASE BecomePending
    <3>1. schedules' = [schedules EXCEPT !.pending = schedules.proposed, !.proposed = Nil, !.since = now]
      BY <2>4 DEF BecomePending
    <3>2. QED
      BY <1>1, <1>4, <2>1, <2>2, <3>1
  <2>5. CASE BecomeActive
    <3>1. /\ schedules.pending # Nil
          /\ schedules' = [schedules EXCEPT !.active = schedules.pending, !.pending = Nil, !.since = now]
      BY <2>5 DEF BecomeActive
    <3>2. schedules.pending \in T
      BY <1>1, <2>1, <2>2, <3>1
    <3>3. QED
      BY <1>1, <1>4, <2>1, <2>2, <3>1, <3>2
  <2>6. QED
    BY <2>3, <2>4, <2>5
<1>6. GoodWork(Work')
  <2> DEFINE u == [Work EXCEPT !.sch = schedules']
  <2>1. /\ u.producers = producers /\ u.g = gstate /\ u.rot = rotation /\ u.met = metrics
        /\ u.pay = payments /\ u.bal = balances /\ u.sch = schedules'
    BY DEF Work
  <2>2. GoodWork(u)
    BY <1>1, <1>5, ChainPut DEF Leads
  <2> HIDE DEF u
  <2>3. QED
    BY <1>2, <2>1, <2>2, WorkNext
<1>7. /\ rexpool' = Nil /\ rexbalance' = [a \in Account |-> Nil]
      /\ \A a \in Account : voters'[a] # Nil => 0 <= voters'[a].staked
      /\ head' \in BlockSet /\ hurried' \in BOOLEAN /\ saving_since' \in Time \cup {Nil}
  BY <1>2 DEF BlocksInv, rexVars
<1>8. (Reserve <= Funds(Work))' /\ failed' \subseteq PastFailures' /\ 1 <= now'
  <2>1. now' \in Nat
    BY <1>4, BlockNumbers
  <2>2. 1 <= now'
    BY <1>4, <2>1 DEF BlocksInv
  <2>3. QED
    BY <1>1, <1>2, <1>4, <2>1, <2>2, FundsSame DEF BlocksInv
<1>9. QED
  BY <1>3, <1>4, <1>6, <1>7, <1>8 DEF BlocksInv

\* Pay is claimed.
LEMMA ClaimKeeps ==
  ASSUME BlocksInv, NEW owner \in Producer, ClaimRewards(owner)
  PROVE  BlocksInv'
<1> DEFINE x == payments[owner]
           pay == [payments EXCEPT ![owner] = Nil]
           bal == [balances EXCEPT ![bpay_account] = @ - x, ![owner] = @ + x]
<1>1. /\ x # Nil /\ 0 < x /\ x <= balances[bpay_account]
      /\ payments' = pay /\ balances' = bal
      /\ UNCHANGED <<votingVars, gstate, rotation, metrics, saving_since, head, schedules, idle,
                     hurried, failed>>
  BY DEF ClaimRewards
<1>2. /\ VotesInv /\ GoodWork(Work) /\ payments \in PayTable /\ balances \in HeldTable
      /\ balances[bpay_account] = gstate.perblock_bucket + ClaimsIn(payments)
      /\ gstate.perblock_bucket \in Int
  BY WorkParts DEF BlocksInv, eosio_global_state
<1>3. x \in Int
  BY <1>1, <1>2 DEF PayTable
<1>4. pay \in PayTable /\ pay[owner] = Nil /\ \A p \in Producer \ {owner} : pay[p] = payments[p]
  BY <1>2 DEF PayTable
<1>5. /\ bal \in HeldTable /\ bal[bpay_account] = balances[bpay_account] - x
      /\ bal[tedp_account] = balances[tedp_account] /\ bal[unissued] = balances[unissued]
  <2>1. /\ bpay_account \in Holder /\ owner \in Holder /\ bpay_account # owner
        /\ tedp_account \in Holder \ {bpay_account, owner} /\ unissued \in Holder \ {bpay_account, owner}
    BY PayApart
  <2>2. balances[bpay_account] \in Nat /\ balances[owner] \in Nat
    BY <1>2, <2>1 DEF HeldTable
  <2> DEFINE H == Holder
             less == balances[bpay_account] - x
             more == balances[owner] + x
  <2> HIDE DEF H, x
  <2>3. less \in Nat /\ more \in Nat
    BY <1>1, <1>3, <2>2
  <2>4. bal = [[balances EXCEPT ![bpay_account] = less] EXCEPT ![owner] = more]
    BY <2>1
  <2>5. balances \in [H -> Nat] /\ bpay_account \in H /\ owner \in H
        /\ tedp_account \in H \ {bpay_account, owner} /\ unissued \in H \ {bpay_account, owner}
    BY <1>2, <2>1 DEF HeldTable, H
  <2> HIDE DEF less, more
  <2>6. /\ bal \in [H -> Nat] /\ bal[bpay_account] = less
        /\ bal[tedp_account] = balances[tedp_account] /\ bal[unissued] = balances[unissued]
    BY <2>1, <2>3, <2>4, <2>5
  <2>7. QED
    BY <2>6 DEF HeldTable, H, less
<1> HIDE DEF pay, bal
<1>6. ClaimsIn(pay) = ClaimsIn(payments) - x /\ ClaimsIn(payments) \in Int
  <2> DEFINE f == [p \in Producer |-> ToClaim(payments[p])]
             h == [p \in Producer |-> ToClaim(pay[p])]
  <2>1. \A p \in Producer : f[p] \in Int /\ h[p] \in Int
    BY <1>2, <1>4 DEF PayTable, ToClaim
  <2>2. \A p \in Producer \ {owner} : h[p] = f[p]
    BY <1>4
  <2>3. f[owner] = x /\ h[owner] = 0
    BY <1>1, <1>4 DEF ToClaim
  <2> HIDE DEF f, h, x
  <2>4. SumFunctionOnSet(h, Producer) = SumFunctionOnSet(f, Producer) + h[owner] - f[owner]
    BY <2>1, <2>2, VotingFinite, SumChange
  <2>5. SumFunctionOnSet(f, Producer) \in Int
    BY <2>1, VotingFinite, SumInt
  <2>6. SumFunctionOnSet(h, Producer) = SumFunctionOnSet(f, Producer) - x
    BY <1>3, <2>3, <2>4, <2>5
  <2>7. QED
    BY <2>5, <2>6 DEF ClaimsIn, f, h
<1>7. GoodWork(Work')
  <2> DEFINE paid == [Work EXCEPT !.pay = pay]
             u == [paid EXCEPT !.bal = bal]
  <2> HIDE DEF x
  <2>1. /\ u \in WorkTables /\ u.producers = producers /\ u.g = gstate /\ u.rot = rotation
        /\ u.met = metrics /\ u.pay = pay /\ u.bal = bal /\ u.sch = schedules
    <3>1. Work \in WorkTables
      BY <1>2 DEF GoodWork
    <3>2. paid \in WorkTables
      BY <1>4, <3>1 DEF WorkTables
    <3>3. u \in WorkTables
      BY <1>5, <3>2 DEF WorkTables
    <3>4. QED
      BY <3>3 DEF Work
  <2>2. bal[bpay_account] = gstate.perblock_bucket + ClaimsIn(pay)
    BY <1>2, <1>3, <1>5, <1>6
  <2> HIDE DEF u
  <2>3. GoodWork(u)
    BY <1>2, <2>1, <2>2, WorkParts DEF GoodWork
  <2>4. QED
    BY <1>1, <2>1, <2>3, WorkNext DEF votingVars
<1>8. VotesInv'
  BY <1>1, <1>2, VotesFrame DEF votingVars
<1>9. now \in Time /\ now \in Nat /\ now' = now
  BY <1>1, BlockNumbers DEF BlocksInv, votingVars
<1>10. (Reserve <= Funds(Work))' /\ failed' \subseteq PastFailures'
  BY <1>1, <1>5, <1>9, FundsSame DEF BlocksInv
<1>11. QED
  BY <1>1, <1>7, <1>8, <1>9, <1>10 DEF BlocksInv, votingVars, rexVars

\* The saving account gets tokens, or loses the row of its balance.
LEMMA SavingKeeps ==
  ASSUME BlocksInv, CloseSaving \/ \E n \in TedpAmounts : Save(n)
  PROVE  BlocksInv'
<1> DEFINE old == balances[tedp_account]
<1>1. /\ VotesInv /\ GoodWork(Work) /\ balances \in HeldTable /\ now \in Time /\ 1 <= now
      /\ saving_since \in Time \cup {Nil} /\ Reserve <= Funds(Work) /\ failed \subseteq PastFailures
      /\ gstate \in eosio_global_state
  BY WorkParts DEF BlocksInv
<1>2. /\ UNCHANGED <<votingVars, gstate, rotation, metrics, payments, head, schedules, idle, hurried,
                     failed>>
      /\ \E n \in Nat : balances' = [balances EXCEPT ![tedp_account] = @ + n]
      /\ saving_since' = Nil \/ saving_since' = (IF saving_since = Nil THEN now ELSE saving_since)
  <2>1. CASE CloseSaving
    <3>1. balances' = [balances EXCEPT ![tedp_account] = @ + 0]
      BY <1>1, <2>1, PayApart DEF CloseSaving, HeldTable
    <3>2. \E n \in Nat : balances' = [balances EXCEPT ![tedp_account] = @ + n]
      BY <3>1
    <3>3. QED
      BY <2>1, <3>2 DEF CloseSaving
  <2>2. CASE \E n \in TedpAmounts : Save(n)
    BY <2>2, BlocksAssumption DEF Save
  <2>3. QED
    BY <2>1, <2>2
<1>3. PICK n \in Nat : balances' = [balances EXCEPT ![tedp_account] = @ + n]
  BY <1>2
<1>4. /\ balances' \in HeldTable /\ balances'[bpay_account] = balances[bpay_account]
      /\ balances'[tedp_account] = old + n /\ balances'[unissued] = balances[unissued]
      /\ old \in Nat /\ balances[unissued] \in Nat
  BY <1>1, <1>3, PayApart DEF HeldTable
<1>5. GoodWork(Work')
  <2> DEFINE u == [Work EXCEPT !.bal = balances']
  <2>1. /\ u \in WorkTables /\ u.producers = producers /\ u.g = gstate /\ u.rot = rotation
        /\ u.met = metrics /\ u.pay = payments /\ u.bal = balances' /\ u.sch = schedules
    BY <1>1, <1>4 DEF GoodWork, WorkTables, Work
  <2> HIDE DEF u
  <2>2. GoodWork(u)
    BY <1>1, <1>4, <2>1, WorkParts DEF GoodWork
  <2>3. QED
    BY <1>2, <2>1, <2>2, WorkNext DEF votingVars
<1>6. Reserve' <= Reserve /\ Reserve \in Int /\ Reserve' \in Int /\ now \in Nat
  BY <1>1, <1>2, BlockNumbers DEF Reserve
<1>7. Reserve' <= Funds(Work')
  <2> DEFINE b == balances[unissued]
             c == Spent(gstate)
  <2>1. Funds(Work) = old + b + c /\ Funds(Work') = (old + n) + b + c
    BY <1>2, <1>4 DEF Funds, Work, Spent
  <2>2. c \in Int
    BY <1>1, BlockNumbers DEF Spent, Rate, eosio_global_state
  <2> HIDE DEF old, b, c, Reserve
  <2>3. QED
    BY <1>1, <1>4, <1>6, <2>1, <2>2 DEF b
<1>8. failed' \subseteq PastFailures'
  <2>1. now' = now /\ failed' = failed
    BY <1>2 DEF votingVars
  <2> HIDE DEF Reserve
  <2>2. Rate \in Nat /\ \A t \in Time : t \in Nat
    BY BlockNumbers DEF Rate
  <2> HIDE DEF Rate
  <2>3. \A t \in Time : Reserve < Rate * t => Reserve' < Rate * t
    BY <1>6, <2>2
  <2>4. \A t \in Time : t < now /\ (saving_since # Nil => t < saving_since) =>
                        (saving_since' # Nil => t < saving_since')
    BY <1>2
  <2>5. PastFailures \subseteq PastFailures'
    BY <2>1, <2>3, <2>4 DEF PastFailures
  <2>6. QED
    BY <1>1, <2>1, <2>5
<1>9. saving_since' \in Time \cup {Nil}
  BY <1>1, <1>2
<1>10. VotesInv'
  BY <1>1, <1>2, VotesFrame DEF votingVars
<1>11. QED
  BY <1>1, <1>2, <1>5, <1>7, <1>8, <1>9, <1>10 DEF BlocksInv, votingVars, rexVars

\* A change of votes, or of rows of producers but for their blocks to be paid.
LEMMA OutsideKeeps ==
  ASSUME BlocksInv, VotesInv', UNCHANGED <<now, rexVars, blockVars>>,
         \A p \in Producer : Unpaid(producers'[p]) = Unpaid(producers[p]),
         \A a \in Account : voters'[a] # Nil => 0 <= voters'[a].staked
  PROVE  BlocksInv'
<1>1. producers' \in ProducerTable /\ GoodWork(Work)
  BY DEF VotesInv, BlocksInv
<1>2. UnpaidIn(producers') = UnpaidIn(producers)
  BY UnpaidSame
<1>3. UNCHANGED <<gstate, rotation, metrics, payments, balances, saving_since, head, schedules, idle,
                  hurried, failed>>
  BY DEF blockVars
<1>4. GoodWork(Work')
  <2> DEFINE u == [Work EXCEPT !.producers = producers']
  <2>1. /\ u \in WorkTables /\ u.producers = producers' /\ u.g = gstate /\ u.rot = rotation
        /\ u.met = metrics /\ u.pay = payments /\ u.bal = balances /\ u.sch = schedules
    BY <1>1 DEF GoodWork, WorkTables, Work
  <2> HIDE DEF u
  <2>2. GoodWork(u)
    BY <1>1, <1>2, <2>1, WorkParts DEF GoodWork
  <2>3. QED
    BY <1>3, <2>1, <2>2, WorkNext
<1>5. (Reserve <= Funds(Work))' /\ failed' \subseteq PastFailures'
  <2>1. now \in Time /\ now \in Nat
    BY BlockNumbers DEF BlocksInv
  <2>2. QED
    BY <1>3, <2>1, FundsSame DEF BlocksInv
<1>6. QED
  BY <1>3, <1>4, <1>5 DEF BlocksInv, rexVars

\* One row of producers changes.
LEMMA RowKeeps ==
  ASSUME BlocksInv, NEW p \in Producer, NEW row \in producer_info,
         VotesOf(row) = VotesOf(producers[p]), Unpaid(row) = Unpaid(producers[p]),
         producers' = [producers EXCEPT ![p] = row], UNCHANGED <<now, voters, tallies, rexVars, blockVars>>
  PROVE  BlocksInv'
<1>1. VotesInv /\ producers \in ProducerTable
  BY DEF BlocksInv, VotesInv
<1>2. VotesInv'
  BY <1>1, ProducerPutKeeps
<1>3. \A q \in Producer : Unpaid(producers'[q]) = Unpaid(producers[q])
  BY <1>1 DEF ProducerTable
<1>4. \A a \in Account : voters'[a] # Nil => 0 <= voters'[a].staked
  BY DEF BlocksInv
<1>5. QED
  BY <1>2, <1>3, <1>4, OutsideKeeps

\* Votes change nothing else of producers.
LEMMA VotesOnly ==
  ASSUME BlocksInv, VotesInv', NEW table, NEW voter, NEW prods, NEW voting,
         UpdateVotes(table, voter, prods, voting) \/ UNCHANGED producers,
         \A p \in Producer : producers'[p] = Nil <=> producers[p] = Nil
  PROVE  \A p \in Producer : Unpaid(producers'[p]) = Unpaid(producers[p])
<1>1. producers \in ProducerTable /\ producers' \in ProducerTable /\ Nil \notin producer_info
  BY VotingFinite DEF BlocksInv, VotesInv
<1>2. ASSUME NEW p \in Producer
      PROVE  producers'[p] = producers[p] \/ \E n : producers'[p] = [producers[p] EXCEPT !.total_votes = n]
  BY DEF UpdateVotes
<1>3. ASSUME NEW p \in Producer
      PROVE  Unpaid(producers'[p]) = Unpaid(producers[p])
  <2>1. CASE producers'[p] = producers[p] \/ producers[p] = Nil
    BY <2>1
  <2>2. ASSUME NEW n, producers'[p] = [producers[p] EXCEPT !.total_votes = n], producers[p] # Nil
        PROVE  Unpaid(producers'[p]) = Unpaid(producers[p])
    <3>1. producers[p] \in producer_info
      BY <1>1, <2>2 DEF ProducerTable
    <3>2. producers'[p].unpaid_blocks = producers[p].unpaid_blocks /\ producers'[p] # Nil
      BY <2>2, <3>1 DEF producer_info
    <3>3. QED
      BY <2>2, <3>2 DEF Unpaid
  <2>3. QED
    BY <1>2, <2>1, <2>2
<1>4. QED
  BY <1>3

\* Registrations and kicks.
LEMMA RowSteps ==
  ASSUME BlocksInv, NEW p \in Producer, UNCHANGED blockVars,
         RegProducer(p) \/ UnregProd(p) \/ \E h \in Penalties : VoteBpOut(p, h)
  PROVE  BlocksInv'
<1> DEFINE old == producers[p]
<1>1. /\ producers \in ProducerTable /\ old \in producer_info \cup {Nil} /\ now \in Time
      /\ Nil \notin producer_info
  BY VotingFinite DEF BlocksInv, VotesInv, ProducerTable
<1>2. /\ NewProducer \in producer_info /\ VotesOf(NewProducer) = 0 /\ Unpaid(NewProducer) = 0
  <2>1. NewProducer \in producer_info
    BY VotingAssumption DEF NewProducer, producer_info, Time
  <2>2. QED
    BY <1>1, <2>1 DEF NewProducer, VotesOf, Unpaid
<1>3. ASSUME NEW row, old # Nil, LikeRow(old, row), producers' = [producers EXCEPT ![p] = row],
             UNCHANGED <<now, voters, tallies, rexVars>>
      PROVE  BlocksInv'
  <2>1. row \in producer_info /\ VotesOf(row) = VotesOf(old) /\ Unpaid(row) = Unpaid(old)
    BY <1>1, <1>3 DEF LikeRow, VotesOf, Unpaid
  <2>2. QED
    BY <1>3, <2>1, RowKeeps
<1>4. CASE RegProducer(p)
  <2>1. CASE old = Nil
    <3>1. producers' = [producers EXCEPT ![p] = NewProducer] /\ UNCHANGED <<now, voters, tallies, rexVars>>
      BY <1>4, <2>1 DEF RegProducer
    <3>2. VotesOf(old) = 0 /\ Unpaid(old) = 0
      BY <2>1 DEF VotesOf, Unpaid
    <3>3. QED
      BY <1>2, <3>1, <3>2, RowKeeps
  <2>2. CASE old # Nil
    <3> DEFINE row == [old EXCEPT !.is_active = TRUE]
    <3>1. producers' = [producers EXCEPT ![p] = row] /\ UNCHANGED <<now, voters, tallies, rexVars>>
      BY <1>4, <2>2 DEF RegProducer
    <3>2. LikeRow(old, row)
      BY <1>1, <2>2, ActiveLike
    <3> HIDE DEF row
    <3>3. QED
      BY <1>3, <2>2, <3>1, <3>2
  <2>3. QED
    BY <2>1, <2>2
<1>5. CASE UnregProd(p)
  <2> DEFINE row == [old EXCEPT !.is_active = FALSE]
  <2>1. /\ old # Nil /\ producers' = [producers EXCEPT ![p] = row]
        /\ UNCHANGED <<now, voters, tallies, rexVars>>
    BY <1>5 DEF UnregProd
  <2>2. LikeRow(old, row)
    BY <1>1, <2>1, ActiveLike
  <2> HIDE DEF row
  <2>3. QED
    BY <1>3, <2>1, <2>2
<1>6. ASSUME NEW h \in Penalties, VoteBpOut(p, h)
      PROVE  BlocksInv'
  <2> DEFINE row == Kicked(old, h)
  <2>1. /\ old # Nil /\ producers' = [producers EXCEPT ![p] = row]
        /\ UNCHANGED <<now, voters, tallies, rexVars>>
    BY <1>6 DEF VoteBpOut
  <2>2. h \in Nat
    BY VotingAssumption
  <2>3. LikeRow(old, row)
    BY <1>1, <2>1, <2>2, KickedLike
  <2> HIDE DEF row
  <2>4. QED
    BY <1>3, <2>1, <2>3
<1>7. QED
  BY <1>4, <1>5, <1>6

\* Votes and stake.
LEMMA VoterSteps ==
  ASSUME BlocksInv, NEW a \in Account, UNCHANGED blockVars,
         RegProxy(a) \/ \E prods \in SUBSET Producer : VoteProducer(a, prods)
  PROVE  BlocksInv'
<1> DEFINE row == voters[a]
<1>1. VotesInv /\ voters \in VoterTable /\ rexpool = Nil /\ rexbalance = [b \in Account |-> Nil]
  BY DEF BlocksInv, VotesInv
<1>2. CASE RegProxy(a)
  <2>1. /\ row = Nil /\ voters' = [voters EXCEPT ![a] = NewVoter]
        /\ UNCHANGED <<now, producers, tallies, rexVars>>
    BY <1>2 DEF RegProxy
  <2>2. NewVoter \in voter_info /\ Sound(NewVoter, producers) /\ CountsAs(NewVoter, row)
    BY <1>1, <2>1, BaseSound DEF Base
  <2>3. VotesInv'
    BY <1>1, <2>1, <2>2, VoterPutKeeps
  <2>4. ASSUME NEW b \in Account, voters'[b] # Nil
        PROVE  0 <= voters'[b].staked
    <3>1. CASE b = a
      BY <1>1, <2>1, <3>1 DEF NewVoter, VoterTable
    <3>2. CASE b # a
      BY <1>1, <2>1, <2>4, <3>2 DEF BlocksInv, VoterTable
    <3>3. QED
      BY <3>1, <3>2
  <2>5. QED
    BY <2>1, <2>3, <2>4, OutsideKeeps
<1>3. ASSUME NEW prods \in SUBSET Producer, VoteProducer(a, prods)
      PROVE  BlocksInv'
  <2>1. rexbalance[a] = Nil
    BY <1>1
  <2>2. /\ row # Nil /\ UpdateVotes(voters, a, prods, TRUE)
        /\ UNCHANGED <<now, rexVars>>
    BY <1>3, <2>1 DEF VoteProducer, Restaked, Revalued, rexVars
  <2>3. row \in voter_info /\ 0 <= row.staked /\ Sound(row, producers) /\ CountsAs(row, voters[a])
    BY <1>1, <2>2 DEF VoterTable, VotesInv, AllSound, BlocksInv, CountsAs
  <2>4. voters = [voters EXCEPT ![a] = row]
    BY <1>1 DEF VoterTable
  <2> HIDE DEF row
  <2>5. UpdateVotes([voters EXCEPT ![a] = row], a, prods, TRUE)
    BY <2>2, <2>4
  <2>6. /\ VotesInv' /\ voters' = [voters EXCEPT ![a] = Cast(row, prods, TRUE)]
        /\ \A p \in Producer : producers'[p] = Nil <=> producers[p] = Nil
    BY <1>1, <2>3, <2>5, UpdateVotesKeeps
  <2>7. \A p \in Producer : Unpaid(producers'[p]) = Unpaid(producers[p])
    BY <2>2, <2>6, VotesOnly
  <2>8. Cast(row, prods, TRUE).staked = row.staked
    BY <2>3, CastRow
  <2>9. ASSUME NEW b \in Account, voters'[b] # Nil
        PROVE  0 <= voters'[b].staked
    <3>1. CASE b = a
      BY <1>1, <2>3, <2>6, <2>8, <3>1 DEF VoterTable
    <3>2. CASE b # a
      BY <1>1, <2>6, <2>9, <3>2 DEF BlocksInv, VoterTable
    <3>3. QED
      BY <3>1, <3>2
  <2>10. QED
    BY <2>2, <2>6, <2>7, <2>9, OutsideKeeps
<1>4. QED
  BY <1>2, <1>3

LEMMA RestakeKeeps ==
  ASSUME BlocksInv, NEW a \in Account, Restake(a)
  PROVE  BlocksInv'
<1>1. VotesInv
  BY DEF BlocksInv
<1>2. PICK change \in Restakes : UpdateVotingPower(voters, a, change)
  BY DEF Restake
<1>3. change \in Int
  BY BlocksAssumption
<1>4. UNCHANGED <<now, rexVars, blockVars>>
  BY DEF Restake
<1>5. ShiftedTable(voters, a, 0) /\ 0 \in Int
  BY DEF ShiftedTable
<1>6. /\ VotesInv' /\ 0 <= voters'[a].staked
      /\ \A b \in Account : b # a => voters'[b] = voters[b]
      /\ \A p \in Producer : producers'[p] = Nil <=> producers[p] = Nil
  BY <1>1, <1>2, <1>3, <1>5, PowerKeeps
<1>7. \A p \in Producer : Unpaid(producers'[p]) = Unpaid(producers[p])
  <2>1. \/ UNCHANGED producers
        \/ \E table, prods : UpdateVotes(table, a, prods, FALSE)
    BY <1>2 DEF UpdateVotingPower
  <2>2. QED
    BY <1>6, <2>1, VotesOnly
<1>8. \A b \in Account : voters'[b] # Nil => 0 <= voters'[b].staked
  BY <1>6 DEF BlocksInv
<1>9. QED
  BY <1>4, <1>6, <1>7, <1>8, OutsideKeeps

LEMMA BlocksStep == BlocksInv /\ [BlocksNext]_allVars => BlocksInv'
<1> SUFFICES ASSUME BlocksInv, [BlocksNext]_allVars
             PROVE  BlocksInv'
  OBVIOUS
<1>1. CASE Produce
  BY <1>1, ProduceKeeps
<1>2. CASE Miss \/ BecomePending \/ BecomeActive
  BY <1>2, ChainSteps
<1>3. CASE \E a \in Account : Restake(a)
  BY <1>3, RestakeKeeps
<1>4. CASE \E p \in Producer : ClaimRewards(p)
  BY <1>4, ClaimKeeps
<1>8. CASE CloseSaving \/ \E n \in TedpAmounts : Save(n)
  BY <1>8, SavingKeeps
<1>5. CASE VotingNext /\ UNCHANGED blockVars
  BY <1>5, RowSteps, VoterSteps DEF VotingNext
<1>6. CASE UNCHANGED allVars
  <2>1. UNCHANGED <<now, voters, producers, tallies, rexVars, blockVars>>
    BY <1>6 DEF allVars, votingVars
  <2>2. VotesInv'
    BY <2>1, VotesFrame DEF BlocksInv
  <2>3. QED
    BY <2>1, <2>2, OutsideKeeps DEF BlocksInv
<1>7. QED
  BY <1>1, <1>2, <1>3, <1>4, <1>5, <1>6, <1>8 DEF BlocksNext

LEMMA BlocksStart == VotingInit /\ BlocksInit => BlocksInv
<1> SUFFICES ASSUME VotingInit, BlocksInit
             PROVE  BlocksInv
  OBVIOUS
<1>1. /\ now = 1 /\ rexpool = Nil /\ rexbalance = [a \in Account |-> Nil]
      /\ voters = [a \in Account |-> Nil] /\ producers = [p \in Producer |-> Nil]
      /\ total_activated_stake = 0 /\ total_producer_vote_weight = 0
  BY DEF VotingInit
<1>2. VotesInv
  <2>1. \A p \in Producer : VotesIn(voters, p) = 0
    <3> TAKE p \in Producer
    <3> DEFINE f == [a \in Account |-> VotesFor(voters[a], p)]
    <3>1. \A a \in Account : f[a] = 0
      BY <1>1 DEF VotesFor
    <3> HIDE DEF f
    <3>2. SumFunctionOnSet(f, Account) = 0
      BY <3>1, VotingFinite, SumZero
    <3>3. QED
      BY <3>2 DEF VotesIn, f
  <2>2. ActivatedIn(voters) = 0
    <3> DEFINE f == [a \in Account |-> ActivatedBy(voters[a])]
    <3>1. \A a \in Account : f[a] = 0
      BY <1>1 DEF ActivatedBy
    <3> HIDE DEF f
    <3>2. SumFunctionOnSet(f, Account) = 0
      BY <3>1, VotingFinite, SumZero
    <3>3. QED
      BY <3>2 DEF ActivatedIn, f
  <2>3. WeightIn(producers) = 0
    <3> DEFINE f == [p \in Producer |-> VotesOf(producers[p])]
    <3>1. \A p \in Producer : f[p] = 0
      BY <1>1 DEF VotesOf
    <3> HIDE DEF f
    <3>2. SumFunctionOnSet(f, Producer) = 0
      BY <3>1, VotingFinite, SumZero
    <3>3. QED
      BY <3>2 DEF WeightIn, f
  <2>4. QED
    BY <1>1, <2>1, <2>2, <2>3 DEF VotesInv, VoterTable, ProducerTable, AllSound, CountedIn
<1>3. /\ gstate \in eosio_global_state /\ gstate.perblock_bucket = 0 /\ gstate.total_unpaid_blocks = 0
  BY DEF BlocksInit, eosio_global_state
<1>4. rotation \in rotation_state /\ TOP_PRODUCERS - 1 <= rotation.sbp_in_index
  <2> DEFINE n == TOP_PRODUCERS
             P == Producer \cup {Nil}
  <2>1. n \in Nat /\ n <= 76
    BY BlockNumbers
  <2>2. rotation = [bp_currently_out |-> Nil, sbp_currently_in |-> Nil, bp_out_index |-> n,
                    sbp_in_index |-> 75, next_rotation_time |-> 0, last_rotation_time |-> 0]
    BY DEF BlocksInit
  <2>3. Nil \in P /\ rotation_state = [bp_currently_out : P, sbp_currently_in : P, bp_out_index : Nat,
                                       sbp_in_index : Nat, next_rotation_time : Nat,
                                       last_rotation_time : Nat]
    BY DEF rotation_state
  <2> HIDE DEF n, P
  <2>4. rotation \in rotation_state /\ rotation.sbp_in_index = 75 /\ n - 1 <= 75
    BY <2>1, <2>2, <2>3
  <2>5. QED
    BY <2>4 DEF n
<1>5. metrics \in Metrics
  <2> DEFINE none == <<>>
  <2>1. none \in [{} -> 0..(Width - 1)]
    OBVIOUS
  <2> HIDE DEF none
  <2>2. none \in MissedTables
    BY <2>1, MissedNew
  <2>3. metrics = [last_onblock_caller |-> Nil, block_counter_correction |-> 0, missed |-> none]
    BY DEF BlocksInit, none
  <2>4. QED
    BY <2>2, <2>3 DEF Metrics
<1>6. payments \in PayTable /\ \A p \in Producer : payments[p] = Nil
  BY DEF BlocksInit, PayTable
<1>7. /\ balances \in HeldTable /\ balances[bpay_account] = 0
      /\ balances[unissued] = Issuable
      /\ balances[tedp_account] = IF saving_since # Nil THEN Saved ELSE 0
  BY PayApart, BlockNumbers DEF BlocksInit, HeldTable
<1>8. schedules \in Chain
  <2> DEFINE first == <<EOSIO>>
  <2>1. first \in Turns
    BY DEF Turns
  <2> HIDE DEF first
  <2>2. schedules = [active |-> first, pending |-> Nil, proposed |-> Nil, since |-> 0]
    BY DEF BlocksInit, first
  <2>3. QED
    BY <2>1, <2>2 DEF Chain
<1>9. ClaimsIn(payments) = 0 /\ UnpaidIn(producers) = 0
  <2> DEFINE f == [p \in Producer |-> ToClaim(payments[p])]
             h == [p \in Producer |-> Unpaid(producers[p])]
  <2>1. \A p \in Producer : f[p] = 0 /\ h[p] = 0
    BY <1>1, <1>6 DEF ToClaim, Unpaid
  <2> HIDE DEF f, h
  <2>2. SumFunctionOnSet(f, Producer) = 0 /\ SumFunctionOnSet(h, Producer) = 0
    BY <2>1, VotingFinite, SumZero
  <2>3. QED
    BY <2>2 DEF ClaimsIn, UnpaidIn, f, h
<1>10. GoodWork(Work)
  <2> DEFINE w == Work
  <2>1. /\ w = [producers |-> producers, g |-> gstate, rot |-> rotation, met |-> metrics,
                pay |-> payments, bal |-> balances, sch |-> schedules, failed |-> {}]
        /\ producers \in ProducerTable
    BY <1>2 DEF Work, VotesInv
  <2> HIDE DEF w
  <2>2. w \in WorkTables
    BY <1>3, <1>4, <1>5, <1>6, <1>7, <1>8, <2>1 DEF WorkTables
  <2>3. GoodWork(w)
    BY <1>3, <1>4, <1>7, <1>9, <2>1, <2>2 DEF GoodWork
  <2>4. QED
    BY <2>3 DEF w
<1>11. head \in BlockSet /\ idle \subseteq Producer /\ hurried \in BOOLEAN /\ failed = {}
  BY DEF BlocksInit, BlockSet
<1>14. saving_since \in Time \cup {Nil} /\ Reserve <= Funds(Work)
  <2>1. saving_since \in {Nil, 0} /\ Spent(gstate) = 0
    BY DEF BlocksInit, Spent
  <2>2. Funds(Work) = balances[tedp_account] + balances[unissued] + 0
    BY <2>1 DEF Funds, Work
  <2>3. QED
    BY <1>7, <2>1, <2>2, BlockNumbers DEF Reserve, Time
<1>12. now \in Time
  BY <1>1, VotingAssumption DEF Time
<1>13. QED
  BY <1>1, <1>2, <1>10, <1>11, <1>12, <1>14 DEF BlocksInv

\* So it always holds.
LEMMA BlocksAlways == BlocksSpec => []BlocksInv
BY BlocksStart, BlocksStep, PTL DEF BlocksSpec

-----------------------------------------------------------------------------
(* What follows *)

\* Whatever onblock does to them, the tables keep their types: no balance and no
\* count of blocks to be paid goes below zero, and the counts of missed blocks,
\* which are unsigned and corrected by subtraction, stay within their width.
THEOREM BlocksTypes == BlocksSpec => []BlocksTypeOK
<1> SUFFICES ASSUME BlocksInv
             PROVE  BlocksTypeOK
  BY BlocksAlways, PTL
<1>1. VotingTypeOK
  <2>1. voters \in VoterTable /\ producers \in ProducerTable
    BY DEF BlocksInv, VotesInv
  <2>2. total_activated_stake \in Int
    <3> DEFINE f == [a \in Account |-> ActivatedBy(voters[a])]
    <3>1. \A a \in Account : f[a] \in Int
      BY <2>1, RowsCount DEF VoterTable
    <3> HIDE DEF f
    <3>2. SumFunctionOnSet(f, Account) \in Int
      BY <3>1, VotingFinite, SumInt
    <3>3. total_activated_stake = ActivatedIn(voters)
      BY DEF BlocksInv, VotesInv, CountedIn
    <3>4. QED
      BY <3>2, <3>3 DEF ActivatedIn, f
  <2>3. total_producer_vote_weight \in Int
    <3> DEFINE f == [p \in Producer |-> VotesOf(producers[p])]
    <3>1. \A p \in Producer : f[p] \in Int
      BY <2>1, RowsCount DEF ProducerTable
    <3> HIDE DEF f
    <3>2. SumFunctionOnSet(f, Producer) \in Int
      BY <3>1, VotingFinite, SumInt
    <3>3. total_producer_vote_weight = WeightIn(producers)
      BY DEF BlocksInv, VotesInv, CountedIn
    <3>4. QED
      BY <3>2, <3>3 DEF WeightIn, f
  <2>4. rexpool \in rex_pool \cup {Nil} /\ rexbalance \in [Account -> rex_balance \cup {Nil}] /\ now \in Time
    BY DEF BlocksInv
  <2>5. QED
    BY <2>1, <2>2, <2>3, <2>4 DEF VotingTypeOK, VoterTable, ProducerTable
<1>2. /\ gstate \in eosio_global_state /\ rotation \in rotation_state /\ metrics \in Metrics
      /\ payments \in PayTable /\ balances \in HeldTable /\ schedules \in Chain
  BY WorkParts DEF BlocksInv
<1>3. IsMetrics(metrics)
  <2>1. metrics.last_onblock_caller \in Producer \cup {EOSIO, Nil}
    BY <1>2 DEF Metrics
  <2>2. QED
    BY <1>2, <2>1, MissedAre DEF IsMetrics
<1>4. schedules \in [active : Schedule, pending : Schedule \cup {Nil},
                     proposed : Schedule \cup {Nil}, since : Nat]
  <2> DEFINE S == Schedule
             T == Turns
  <2>1. T \subseteq S
    BY DEF Turns, Schedule
  <2>2. Chain = [active : T, pending : T \cup {Nil}, proposed : T \cup {Nil}, since : Nat]
    BY DEF Chain
  <2> HIDE DEF S, T
  <2>3. schedules \in [active : S, pending : S \cup {Nil}, proposed : S \cup {Nil}, since : Nat]
    BY <1>2, <2>1, <2>2
  <2>4. QED
    BY <2>3 DEF S
<1>5. /\ head \in [slot : Nat, producer : Producer \cup {EOSIO}] /\ idle \subseteq Producer
      /\ hurried \in BOOLEAN
  BY DEF BlocksInv, BlockSet
<1>6. /\ failed \subseteq {"schedule", "shares", "saving", "supply"} \X Nat
      /\ saving_since \in Time \cup {Nil}
  <2>1. 0..TOP_PRODUCERS \subseteq Nat /\ 0 \in Nat /\ Time \subseteq Nat
    BY BlockNumbers
  <2>2. PastFailures \subseteq {"schedule", "shares", "saving", "supply"} \X Nat
    BY <2>1 DEF PastFailures, Always
  <2>3. QED
    BY <2>2 DEF BlocksInv
<1>7. QED
  BY <1>1, <1>2, <1>3, <1>4, <1>5, <1>6 DEF BlocksTypeOK, PayTable, HeldTable

\* What lies in eosio.bpay is what producers may claim and what is yet to be
\* shared, and the blocks to be paid are those of the producers, in every order of
\* blocks, kicks, snapshots, claims and registrations (claimrewards_snapshot,
\* claimrewards, onblock): share_count counts other producers than are paid.
THEOREM PayIsHeld == BlocksSpec => []PayHeld
<1>1. BlocksInv => PayHeld
  BY WorkParts DEF BlocksInv, PayHeld, ClaimsIn, UnpaidIn
<1>2. QED
  BY <1>1, BlocksAlways, PTL

\* When onblock fails of its schedule, a producer is named twice while nobody stands
\* by; of shares, nobody is elected; of the saving account, it has no row of
\* balances; of the supply, what was saved and could be issued does not pay for all
\* slots so far (update_elected_producers, check_rotation_state,
\* claimrewards_snapshot).  It fails of nothing else that is modelled (BlocksTypes).
THEOREM OnblockRunsOn == BlocksSpec => []OnblockRuns
<1>1. ASSUME BlocksInv
      PROVE  OnblockRuns
  <2>1. \A x \in failed :
          \/ \E n \in 0..TOP_PRODUCERS : x = <<"schedule", n>>
          \/ x = <<"shares", 0>>
          \/ \E t \in Time : x = <<"saving", t>> /\ (saving_since # Nil => t < saving_since)
          \/ \E t \in Time : x = <<"supply", t>> /\ Reserve < Rate * t
    BY <1>1 DEF BlocksInv, PastFailures, Always
  <2> HIDE DEF Reserve
  <2>2. ASSUME NEW n \in 0..MAX_PRODUCERS, <<"schedule", n>> \in failed
        PROVE  n <= TOP_PRODUCERS
    BY <2>1, <2>2, BlockNumbers
  <2>3. ASSUME NEW n \in 0..MAX_PRODUCERS, <<"shares", n>> \in failed
        PROVE  n = 0
    BY <2>1, <2>3, BlockNumbers
  <2>4. ASSUME NEW t \in Time, <<"saving", t>> \in failed
        PROVE  saving_since = Nil \/ t < saving_since
    BY <2>1, <2>4
  <2>5. ASSUME NEW t \in Time, <<"supply", t>> \in failed
        PROVE  Reserve < Rate * t
    BY <2>1, <2>5
  <2>6. QED
    BY <2>2, <2>3, <2>4, <2>5 DEF OnblockRuns, Rate
<1>2. QED
  BY <1>1, BlocksAlways, PTL
=============================================================================
