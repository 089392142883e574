---------------------------- MODULE TokensProofs ----------------------------
(***************************************************************************)
(* Proofs about TrailTokens and the Token it is composed with, for every   *)
(* number of accounts, publishers and symbols, whatever the bounds.        *)
(***************************************************************************)
EXTENDS TrailTokens, Collections

-----------------------------------------------------------------------------
(* TLOS *)

\* Those who can have TLOS.
Holder == Account \cup {Self}

\* The balance in a row.
Value(row) == IF row = Nil THEN 0 ELSE row

\* The sum of the balances in a table.
Holdings(table) == SumFunctionOnSet([a \in Holder |-> Value(table[a])], Holder)

LedgerOf == [Holder -> Nat \cup {Nil}]

\* There are finitely many holders.
LEMMA HoldersFinite == IsFiniteSet(Holder)
BY ConstantsAssumption, FS_AddElement DEF Holder

\* One row changes, and with it the sum.
LEMMA HoldingsChange ==
  ASSUME NEW table \in LedgerOf, NEW a \in Holder, NEW row \in Nat \cup {Nil}
  PROVE  /\ [table EXCEPT ![a] = row] \in LedgerOf
         /\ Holdings([table EXCEPT ![a] = row]) = Holdings(table) + Value(row) - Value(table[a])
         /\ Holdings(table) \in Int
<1> DEFINE new == [table EXCEPT ![a] = row]
           f == [h \in Holder |-> Value(table[h])]
           g == [h \in Holder |-> Value(new[h])]
<1>1. /\ new \in LedgerOf /\ new[a] = row
      /\ \A h \in Holder : h # a => new[h] = table[h]
  BY DEF LedgerOf
<1>2. \A h \in Holder : f[h] \in Int /\ g[h] \in Int
  BY <1>1 DEF Value, LedgerOf
<1>3. \A h \in Holder \ {a} : g[h] = f[h]
  BY <1>1
<1>4. f[a] = Value(table[a]) /\ g[a] = Value(row)
  BY <1>1
<1> HIDE DEF f, g
<1>5. SumFunctionOnSet(g, Holder) = SumFunctionOnSet(f, Holder) + g[a] - f[a]
  BY <1>2, <1>3, HoldersFinite, SumChange
<1>6. SumFunctionOnSet(f, Holder) \in Int
  BY <1>2, HoldersFinite, SumInt
<1>7. QED
  BY <1>1, <1>4, <1>5, <1>6 DEF Holdings, f, g

\* Without rows there is nothing.
LEMMA HoldingsNone ==
  ASSUME NEW table, \A a \in Holder : table[a] = Nil
  PROVE  Holdings(table) = 0
<1> DEFINE f == [h \in Holder |-> Value(table[h])]
<1>1. \A h \in Holder : f[h] = 0
  BY DEF Value
<1> HIDE DEF f
<1>2. SumFunctionOnSet(f, Holder) = 0
  BY <1>1, HoldersFinite, SumZero
<1>3. QED
  BY <1>2 DEF Holdings, f

\* Token takes its sums from the same module.
LEMMA TlosSums ==
  ASSUME NEW f, NEW S
  PROVE  TLOS!SumFunctionOnSet(f, S) = SumFunctionOnSet(f, S)
BY DEF TLOS!SumFunctionOnSet, SumFunctionOnSet, TLOS!FoldFunctionOnSet, FoldFunctionOnSet,
       TLOS!MapThenFoldSet, MapThenFoldSet

\* What eosio.token promises of its supply.
LEMMA TlosHeld ==
  TLOS!SupplyIsHeld <=>
    (stat # Nil => stat.supply = Holdings(accounts) /\ stat.supply <= stat.max_supply)
<1> DEFINE f == [a \in Account \cup {Self} |-> TLOS!Balance(a)]
           g == [a \in Account \cup {Self} |-> Value(accounts[a])]
<1>1. f = g
  BY DEF TLOS!Balance, Value
<1>2. Holdings(accounts) = SumFunctionOnSet(g, Account \cup {Self})
  BY DEF Holdings, Holder
<1>3. TLOS!SupplyIsHeld <=>
        (stat # Nil => stat.supply = SumFunctionOnSet(f, Account \cup {Self})
                       /\ stat.supply <= stat.max_supply)
  BY TlosSums DEF TLOS!SupplyIsHeld
<1>4. QED
  BY <1>1, <1>2, <1>3

\* TLOS have their types, and the supply is held.
TlosInv == /\ stat \in TLOS!currency_stats \cup {Nil}
           /\ accounts \in LedgerOf
           /\ stat = Nil => \A a \in Holder : accounts[a] = Nil
           /\ stat # Nil => stat.supply = Holdings(accounts) /\ stat.supply <= stat.max_supply

\* It is what Token calls it.
LEMMA TlosInvIs == TlosInv <=> TLOS!TypeOK /\ TLOS!SupplyIsHeld
<1>1. TLOS!TypeOK <=> /\ stat \in TLOS!currency_stats \cup {Nil}
                      /\ accounts \in LedgerOf
                      /\ stat = Nil => \A a \in Holder : accounts[a] = Nil
  BY DEF TLOS!TypeOK, TLOS!Owners, LedgerOf, Holder
<1>2. QED
  BY <1>1, TlosHeld DEF TlosInv

\* The steps of eosio.token.
TlosMoves ==
  \/ \E a \in Holder, m \in Int : TLOS!Create(a, m)
  \/ \E a \in Holder, q \in Int : TLOS!Issue(a, q)
  \/ \E q \in Int : TLOS!Retire(q)
  \/ \E from, to \in Holder, q \in Int : TLOS!Transfer(from, to, q)
  \/ \E a \in Holder : TLOS!Open(a) \/ TLOS!Close(a)

\* They keep the types and the supply: what is issued or retired is added to or
\* taken from one balance, and a transfer moves what it takes.
LEMMA TlosStep ==
  ASSUME TlosInv, TlosMoves
  PROVE  TlosInv'
<1>1. /\ stat \in TLOS!currency_stats \cup {Nil}
      /\ accounts \in LedgerOf
      /\ stat = Nil => \A a \in Holder : accounts[a] = Nil
      /\ stat # Nil => stat.supply = Holdings(accounts) /\ stat.supply <= stat.max_supply
  BY DEF TlosInv
<1>0. accounts \in LedgerOf
  BY <1>1
<1>2. Nil \notin TLOS!currency_stats /\ Nil \notin Int
  BY ConstantsAssumption
<1>3. TLOS!currency_stats = [supply : Int, max_supply : Int, issuer : Holder]
  BY DEF TLOS!currency_stats, Holder
<1>4. ASSUME NEW a \in Holder, NEW m \in Int, TLOS!Create(a, m)
      PROVE  TlosInv'
  <2>1. /\ stat' = [supply |-> 0, max_supply |-> m, issuer |-> a]
        /\ m > 0 /\ stat = Nil /\ accounts' = accounts
    BY <1>4 DEF TLOS!Create
  <2>2. Holdings(accounts) = 0
    BY <1>1, <2>1, HoldingsNone
  <2>3. stat' # Nil
    BY <1>2, <1>3, <2>1
  <2>4. QED
    BY <1>1, <1>3, <2>1, <2>2, <2>3 DEF TlosInv
<1>5. ASSUME NEW a \in Holder, NEW q \in Int, TLOS!Issue(a, q)
      PROVE  TlosInv'
  <2> DEFINE row == IF accounts[a] = Nil THEN q ELSE accounts[a] + q
  <2>1. /\ stat # Nil /\ q > 0 /\ q <= stat.max_supply - stat.supply
        /\ stat' = [stat EXCEPT !.supply = @ + q]
        /\ accounts' = [accounts EXCEPT ![a] = row]
    BY <1>5 DEF TLOS!Issue, TLOS!add_balance
  <2>2. accounts[a] \in Nat \cup {Nil}
    BY <1>1 DEF LedgerOf
  <2>3. row \in Nat /\ Value(row) - Value(accounts[a]) = q
    BY <1>2, <2>1, <2>2 DEF Value
  <2> HIDE DEF row
  <2>4. /\ accounts' \in LedgerOf
        /\ Holdings(accounts') = Holdings(accounts) + Value(row) - Value(accounts[a])
        /\ Holdings(accounts) \in Int
    BY <1>0, <2>1, <2>3, HoldingsChange
  <2>5. Value(row) \in Int /\ Value(accounts[a]) \in Int
    BY <2>2, <2>3 DEF Value
  <2>6. Holdings(accounts') = Holdings(accounts) + q
    BY <2>3, <2>4, <2>5
  <2>7. /\ stat' \in TLOS!currency_stats /\ stat'.supply = stat.supply + q
        /\ stat'.max_supply = stat.max_supply /\ stat.max_supply \in Int /\ stat.supply \in Int
    BY <1>1, <1>3, <2>1
  <2>8. stat' # Nil
    BY <1>2, <2>7
  <2>9. stat'.supply = Holdings(accounts') /\ stat'.supply <= stat'.max_supply
    BY <1>1, <2>1, <2>6, <2>7
  <2>10. QED
    BY <2>4, <2>7, <2>8, <2>9 DEF TlosInv
<1>6. ASSUME NEW q \in Int, TLOS!Retire(q)
      PROVE  TlosInv'
  <2> DEFINE a == stat.issuer
             row == accounts[a] - q
  <2>1. /\ stat # Nil /\ q > 0 /\ accounts[a] # Nil /\ accounts[a] >= q
        /\ stat' = [stat EXCEPT !.supply = @ - q]
        /\ accounts' = [accounts EXCEPT ![a] = row]
    BY <1>6 DEF TLOS!Retire, TLOS!CanPay, TLOS!sub_balance
  <2>2. a \in Holder
    BY <1>1, <1>3, <2>1
  <2>3. accounts[a] \in Nat
    BY <1>1, <2>1, <2>2 DEF LedgerOf
  <2>4. row \in Nat /\ Value(row) - Value(accounts[a]) = 0 - q
    BY <1>2, <2>1, <2>3 DEF Value
  <2>5. Value(row) \in Int /\ Value(accounts[a]) \in Int
    BY <2>3, <2>4 DEF Value
  <2> HIDE DEF row, a
  <2>6. /\ accounts' \in LedgerOf
        /\ Holdings(accounts') = Holdings(accounts) + Value(row) - Value(accounts[a])
        /\ Holdings(accounts) \in Int
    BY <1>1, <2>1, <2>2, <2>4, HoldingsChange
  <2>7. Holdings(accounts') = Holdings(accounts) - q
    BY <2>4, <2>5, <2>6
  <2>8. /\ stat' \in TLOS!currency_stats /\ stat'.supply = stat.supply - q
        /\ stat'.max_supply = stat.max_supply /\ stat.max_supply \in Int /\ stat.supply \in Int
    BY <1>1, <1>3, <2>1
  <2>9. stat' # Nil
    BY <1>2, <2>8
  <2>10. stat'.supply = Holdings(accounts') /\ stat'.supply <= stat'.max_supply
    BY <1>1, <2>1, <2>7, <2>8
  <2>11. QED
    BY <2>6, <2>8, <2>9, <2>10 DEF TlosInv
<1>7. ASSUME NEW from \in Holder, NEW to \in Holder, NEW q \in Int, TLOS!Transfer(from, to, q)
      PROVE  TlosInv'
  <2> DEFINE less == accounts[from] - q
             mid == [accounts EXCEPT ![from] = less]
             row == IF mid[to] = Nil THEN q ELSE mid[to] + q
  <2>1. /\ from # to /\ stat # Nil /\ q > 0 /\ accounts[from] # Nil /\ accounts[from] >= q
        /\ accounts' = [mid EXCEPT ![to] = row] /\ stat' = stat
    BY <1>7 DEF TLOS!Transfer, TLOS!CanPay, TLOS!Moved, TLOS!sub_balance, TLOS!add_balance
  <2>2. accounts[from] \in Nat /\ accounts[to] \in Nat \cup {Nil}
    BY <1>1, <2>1 DEF LedgerOf
  <2>3. less \in Nat /\ Value(less) - Value(accounts[from]) = 0 - q
    BY <1>2, <2>1, <2>2 DEF Value
  <2>4. Value(less) \in Int /\ Value(accounts[from]) \in Int
    BY <2>2, <2>3 DEF Value
  <2> HIDE DEF less
  <2>5. mid = [accounts EXCEPT ![from] = less]
    OBVIOUS
  <2> HIDE DEF mid
  <2>6. /\ mid \in LedgerOf
        /\ Holdings(mid) = Holdings(accounts) + Value(less) - Value(accounts[from])
        /\ Holdings(accounts) \in Int
    BY <1>1, <2>1, <2>3, <2>5, HoldingsChange
  <2>61. mid[to] = accounts[to]
    BY <1>1, <2>1, <2>5 DEF LedgerOf
  <2>7. row \in Nat /\ Value(row) - Value(mid[to]) = q
    BY <1>2, <2>1, <2>2, <2>61 DEF Value
  <2>8. Value(row) \in Int /\ Value(mid[to]) \in Int
    BY <2>2, <2>61, <2>7 DEF Value
  <2> HIDE DEF row
  <2>9. /\ accounts' \in LedgerOf
        /\ Holdings(accounts') = Holdings(mid) + Value(row) - Value(mid[to])
    BY <2>1, <2>6, <2>7, HoldingsChange
  <2>10. Holdings(accounts') = Holdings(accounts)
    BY <2>3, <2>4, <2>6, <2>7, <2>8, <2>9
  <2>11. QED
    BY <1>1, <2>1, <2>9, <2>10 DEF TlosInv
<1>8. ASSUME NEW a \in Holder, TLOS!Open(a)
      PROVE  TlosInv'
  <2> DEFINE row == IF accounts[a] = Nil THEN 0 ELSE accounts[a]
  <2>1. stat # Nil /\ stat' = stat /\ accounts' = [accounts EXCEPT ![a] = row]
    BY <1>8 DEF TLOS!Open
  <2>2. accounts[a] \in Nat \cup {Nil}
    BY <1>1 DEF LedgerOf
  <2>3. row \in Nat /\ Value(row) = Value(accounts[a]) /\ Value(accounts[a]) \in Int
    BY <1>2, <2>2 DEF Value
  <2> HIDE DEF row
  <2>4. /\ accounts' \in LedgerOf
        /\ Holdings(accounts') = Holdings(accounts) + Value(row) - Value(accounts[a])
        /\ Holdings(accounts) \in Int
    BY <1>1, <2>1, <2>3, HoldingsChange
  <2>5. Holdings(accounts') = Holdings(accounts)
    BY <2>3, <2>4
  <2>6. QED
    BY <1>1, <2>1, <2>4, <2>5 DEF TlosInv
<1>9. ASSUME NEW a \in Holder, TLOS!Close(a)
      PROVE  TlosInv'
  <2>1. /\ accounts[a] # Nil /\ accounts[a] = 0
        /\ stat' = stat /\ accounts' = [accounts EXCEPT ![a] = Nil]
    BY <1>9 DEF TLOS!Close
  <2>2. Value(accounts[a]) = 0 /\ Value(Nil) = 0
    BY <2>1 DEF Value
  <2>3. /\ accounts' \in LedgerOf
        /\ Holdings(accounts') = Holdings(accounts) + Value(Nil) - Value(accounts[a])
        /\ Holdings(accounts) \in Int
    BY <1>1, <2>1, HoldingsChange
  <2>4. Holdings(accounts') = Holdings(accounts) /\ stat # Nil
    BY <1>1, <2>1, <2>2, <2>3
  <2>5. QED
    BY <1>1, <2>1, <2>3, <2>4 DEF TlosInv
<1>10. QED
  BY <1>4, <1>5, <1>6, <1>7, <1>8, <1>9 DEF TlosMoves

\* A step of the contract is one of eosio.token or leaves TLOS alone.
LEMMA TlosSteps ==
  ASSUME [Next]_vars
  PROVE  TlosMoves \/ UNCHANGED tlosVars
<1>1. Quantity \subseteq Int /\ MaxSupplies \subseteq Int
  BY ConstantsAssumption
<1>2. ASSUME TlosOther
      PROVE  TlosMoves
  BY <1>1, <1>2 DEF TlosOther, TlosMoves, Holder
<1>3. ASSUME NEW from \in Account \cup {Self}, NEW to \in Account \cup {Self}, NEW q \in Quantity,
             TlosTransfer(from, to, q)
      PROVE  TlosMoves
  BY <1>1, <1>3 DEF TlosTransfer, TlosMoves, Holder
<1>4. ASSUME RegistryNext
      PROVE  UNCHANGED tlosVars
  BY <1>4 DEF RegistryNext, RegToken, InitSettings, RaiseMax, LowerMax, UnregToken, tlosVars
<1>5. ASSUME HolderNext
      PROVE  UNCHANGED tlosVars
  <2>1. ASSUME NEW s \in Symbol, NEW publisher \in Publisher, NEW a \in Account, NEW q \in Quantity,
               \/ \E airgrab \in BOOLEAN : IssueToken(publisher, a, s, q, airgrab)
               \/ SeizeToken(publisher, a, s, q)
               \/ SeizeAirgrab(publisher, a, s, q)
               \/ \E group \in Groups : SeizeByGroup(publisher, group, s, q)
        PROVE  UNCHANGED tlosVars
    BY <2>1, Zenon DEF IssueToken, SeizeToken, SeizeAirgrab, SeizeByGroup
  <2>2. ASSUME NEW s \in Symbol, NEW a \in Account, NEW b \in Account, NEW q \in Quantity,
               Transfer(a, b, s, q) \/ BurnToken(a, s, q)
        PROVE  UNCHANGED tlosVars
    BY <2>2, Zenon DEF Transfer, BurnToken
  <2>3. ASSUME NEW s \in Symbol, NEW a \in Account,
               ClaimAirgrab(a, s) \/ RegVoter(a, s) \/ UnregVoter(a, s)
        PROVE  UNCHANGED tlosVars
    BY <2>3, Zenon DEF ClaimAirgrab, RegVoter, UnregVoter
  <2>4. QED
    BY <1>5, <2>1, <2>2, <2>3, Zenon DEF HolderNext
<1>6. ASSUME Tick \/ \E voter \in Account : MirrorCast(voter)
      PROVE  UNCHANGED tlosVars
  BY <1>6 DEF Tick, MirrorCast, tlosVars
<1>7. ASSUME UNCHANGED vars
      PROVE  UNCHANGED tlosVars
  BY <1>7 DEF vars, tlosVars
<1>8. QED
  BY <1>2, <1>3, <1>4, <1>5, <1>6, <1>7, Zenon DEF Next

\* There are none at first.
LEMMA TlosStart == Init => TlosInv
<1>1. ASSUME Init PROVE TlosInv
  <2>1. stat = Nil /\ accounts = [a \in Holder |-> Nil]
    BY <1>1 DEF Init, TLOS!Init, Holder
  <2>2. QED
    BY <2>1 DEF TlosInv, LedgerOf
<1>2. QED
  BY <1>1

\* In every state, TLOS are held as their supply says, whatever the contract is
\* notified of: SupplyIsHeld of Token, for the accounts and Self.
THEOREM TlosSupply == Spec => []TlosSupplyIsHeld
<1>1. Init => TlosInv
  BY TlosStart
<1>2. TlosInv /\ [Next]_vars => TlosInv'
  <2>1. TlosInv /\ UNCHANGED tlosVars => TlosInv'
    BY DEF TlosInv, tlosVars
  <2>2. QED
    BY <2>1, TlosStep, TlosSteps
<1>3. TlosInv => TlosSupplyIsHeld
  BY TlosInvIs DEF TlosSupplyIsHeld
<1>4. QED
  BY <1>1, <1>2, <1>3, PTL DEF Spec

-----------------------------------------------------------------------------
(* Rows of tokens *)

\* Tables of rows.
RowsOf(keys) == [keys -> [Account -> Tokens \cup {Nil}]]

\* One row of a table is written.
Put(table, k, a, row) == [table EXCEPT ![k][a] = row]

\* What an amount of tokens is of a symbol.
Part(amount, symbol, s) == IF symbol = s THEN amount ELSE 0

\* There are finitely many rows.
LEMMA RowsFinite ==
  ASSUME NEW keys, IsFiniteSet(keys)
  PROVE  IsFiniteSet(keys \X Account)
BY ConstantsAssumption, FS_Product

\* What a row has of a symbol is a natural number.
LEMMA AmountNat ==
  ASSUME NEW row \in Tokens \cup {Nil}, NEW s
  PROVE  AmountOf(row, s) \in Nat
<1>1. ASSUME row \in Tokens
      PROVE  row.amount \in Nat
  BY <1>1 DEF Tokens
<1>2. QED
  BY <1>1 DEF AmountOf

\* And so is what a table has of it.
LEMMA HoldsNat ==
  ASSUME NEW keys, IsFiniteSet(keys), NEW table \in RowsOf(keys), NEW s
  PROVE  TableHolds(table, keys, s) \in Nat
<1> DEFINE f == [k \in keys \X Account |-> AmountOf(table[k[1]][k[2]], s)]
<1>1. ASSUME NEW k \in keys \X Account
      PROVE  f[k] \in Nat
  <2>1. table[k[1]][k[2]] \in Tokens \cup {Nil}
    BY DEF RowsOf
  <2>2. AmountOf(table[k[1]][k[2]], s) \in Nat
    BY <2>1, AmountNat
  <2>3. QED
    BY <2>2
<1> HIDE DEF f
<1>2. IsFiniteSet(keys \X Account)
  BY RowsFinite
<1>3. SumFunctionOnSet(f, keys \X Account) \in Nat
  BY <1>1, <1>2, SumNat
<1>4. QED
  BY <1>3 DEF TableHolds, f

\* A row is written: what the table has changes by what the row has.
LEMMA PutRow ==
  ASSUME NEW keys, IsFiniteSet(keys), NEW table \in RowsOf(keys), NEW k \in keys,
         NEW a \in Account, NEW row \in Tokens \cup {Nil}
  PROVE  /\ Put(table, k, a, row) \in RowsOf(keys)
         /\ \A s : TableHolds(Put(table, k, a, row), keys, s)
                     = TableHolds(table, keys, s) + AmountOf(row, s) - AmountOf(table[k][a], s)
<1> DEFINE new == Put(table, k, a, row)
<1>1. /\ new \in RowsOf(keys)
      /\ new[k][a] = row
      /\ \A l \in keys, b \in Account : l # k \/ b # a => new[l][b] = table[l][b]
  BY DEF RowsOf, Put
<1>2. ASSUME NEW s
      PROVE  TableHolds(new, keys, s)
               = TableHolds(table, keys, s) + AmountOf(row, s) - AmountOf(table[k][a], s)
  <2> HIDE DEF new
  <2> DEFINE f == [r \in keys \X Account |-> AmountOf(table[r[1]][r[2]], s)]
             g == [r \in keys \X Account |-> AmountOf(new[r[1]][r[2]], s)]
             e == <<k, a>>
  <2>1. ASSUME NEW r \in keys \X Account
        PROVE  f[r] \in Int /\ g[r] \in Int
    <3>1. table[r[1]][r[2]] \in Tokens \cup {Nil} /\ new[r[1]][r[2]] \in Tokens \cup {Nil}
      BY <1>1 DEF RowsOf
    <3>2. AmountOf(table[r[1]][r[2]], s) \in Nat /\ AmountOf(new[r[1]][r[2]], s) \in Nat
      BY <3>1, AmountNat
    <3>3. QED
      BY <3>2
  <2>2. ASSUME NEW r \in (keys \X Account) \ {e}
        PROVE  g[r] = f[r]
    <3>1. r[1] \in keys /\ r[2] \in Account /\ (r[1] # k \/ r[2] # a)
      OBVIOUS
    <3>2. new[r[1]][r[2]] = table[r[1]][r[2]]
      BY <1>1, <3>1
    <3>3. QED
      BY <3>2
  <2>3. e \in keys \X Account /\ f[e] = AmountOf(table[k][a], s) /\ g[e] = AmountOf(row, s)
    BY <1>1
  <2> HIDE DEF f, g, e
  <2> DEFINE D == keys \X Account
  <2>4. IsFiniteSet(D) /\ e \in D
    BY <2>3, RowsFinite
  <2>5. \A r \in D : f[r] \in Int /\ g[r] \in Int
    BY <2>1
  <2>6. \A r \in D \ {e} : g[r] = f[r]
    BY <2>2
  <2> HIDE DEF D
  <2>7. SumFunctionOnSet(g, D) = SumFunctionOnSet(f, D) + g[e] - f[e]
    BY <2>4, <2>5, <2>6, SumChange
  <2>8. QED
    BY <2>3, <2>7 DEF TableHolds, f, g, D
<1>3. QED
  BY <1>1, <1>2

\* An amount is added to a row, or taken when it has it.
LEMMA RowAdds ==
  ASSUME NEW row \in Tokens, NEW n \in Int, row.amount + n >= 0
  PROVE  /\ [row EXCEPT !.amount = @ + n] \in Tokens
         /\ \A s : AmountOf([row EXCEPT !.amount = @ + n], s)
                     = AmountOf(row, s) + Part(n, row.symbol, s)
<1> DEFINE new == [row EXCEPT !.amount = @ + n]
<1>1. /\ new \in Tokens /\ new.symbol = row.symbol /\ new.amount = row.amount + n
      /\ row.amount \in Int
  BY DEF Tokens
<1>2. row # Nil /\ new # Nil
  BY <1>1, ConstantsAssumption
<1> HIDE DEF new
<1>3. \A s : AmountOf(new, s) = AmountOf(row, s) + Part(n, row.symbol, s)
  BY <1>1, <1>2 DEF AmountOf, Part
<1>4. QED
  BY <1>1, <1>3 DEF new

\* Tokens are credited to a row of their symbol, or make one.
LEMMA CreditAdds ==
  ASSUME NEW row \in Tokens \cup {Nil}, NEW tokens \in Tokens, CanTake(row, tokens.symbol)
  PROVE  /\ Credit(row, tokens) \in Tokens
         /\ \A s : AmountOf(Credit(row, tokens), s)
                     = AmountOf(row, s) + Part(tokens.amount, tokens.symbol, s)
<1>1. tokens.amount \in Nat /\ tokens # Nil
  BY ConstantsAssumption DEF Tokens
<1>2. ASSUME row = Nil
      PROVE  \A s : AmountOf(tokens, s) = AmountOf(row, s) + Part(tokens.amount, tokens.symbol, s)
  BY <1>1, <1>2 DEF AmountOf, Part
<1>3. ASSUME row # Nil
      PROVE  row \in Tokens /\ row.symbol = tokens.symbol /\ row.amount + tokens.amount >= 0
  BY <1>1, <1>3 DEF CanTake, Tokens
<1>4. CASE row = Nil
  BY <1>2, <1>4 DEF Credit
<1>5. CASE row # Nil
  BY <1>1, <1>3, <1>5, RowAdds DEF Credit
<1>6. QED
  BY <1>4, <1>5

-----------------------------------------------------------------------------
(* The invariant of the registries *)

\* Tokens of a symbol in the two tables.
HeldIn(bals, grabs, s) == TableHolds(bals, Symbol, s) + TableHolds(grabs, Publisher, s)

\* What a registry says is so, given what is held and what it found.
Accounted(reg, held, found, s) ==
  /\ reg.supply = held - found
  /\ s # VOTE => reg.supply <= reg.max_supply

\* The tables have their types; a settings' rate is never zero.
Tables == /\ registries \in [Symbol -> registry \cup {Nil}]
          /\ balances \in RowsOf(Symbol)
          /\ airgrabs \in RowsOf(Publisher)
          /\ stranded \in [Symbol -> Nat]
          /\ \A s \in Symbol :
               registries[s] # Nil => registries[s].settings.counterbal_decay_rate > 0

Supplied == \A s \in Symbol :
  registries[s] # Nil => Accounted(registries[s], HeldIn(balances, airgrabs, s), stranded[s], s)

CbsOf == [Symbol -> [Holder -> counter_balance \cup {Nil}]]

Clocks == now \in Time /\ counterbals \in CbsOf

\* TypeOK, the rates, SupplyIsHeld.
TokensInv == Tables /\ Supplied /\ Clocks /\ TlosInv

\* There are finitely many symbols and publishers.
LEMMA KeysFinite == IsFiniteSet(Symbol) /\ IsFiniteSet(Publisher)
BY ConstantsAssumption, FS_Subset

\* What is held is a natural number.
LEMMA HeldNat ==
  ASSUME NEW bals \in RowsOf(Symbol), NEW grabs \in RowsOf(Publisher), NEW s
  PROVE  HeldIn(bals, grabs, s) \in Nat
<1>1. TableHolds(bals, Symbol, s) \in Nat /\ TableHolds(grabs, Publisher, s) \in Nat
  BY KeysFinite, HoldsNat
<1>2. QED
  BY <1>1 DEF HeldIn

\* A balance is written.
LEMMA PutBalance ==
  ASSUME NEW bals \in RowsOf(Symbol), NEW grabs \in RowsOf(Publisher),
         NEW k \in Symbol, NEW a \in Account, NEW row \in Tokens \cup {Nil}
  PROVE  /\ Put(bals, k, a, row) \in RowsOf(Symbol)
         /\ \A s : HeldIn(Put(bals, k, a, row), grabs, s)
                     = HeldIn(bals, grabs, s) + AmountOf(row, s) - AmountOf(bals[k][a], s)
<1>1. /\ Put(bals, k, a, row) \in RowsOf(Symbol)
      /\ \A s : TableHolds(Put(bals, k, a, row), Symbol, s)
                  = TableHolds(bals, Symbol, s) + AmountOf(row, s) - AmountOf(bals[k][a], s)
  BY KeysFinite, PutRow
<1>2. bals[k][a] \in Tokens \cup {Nil}
  BY DEF RowsOf
<1>3. ASSUME NEW s
      PROVE  HeldIn(Put(bals, k, a, row), grabs, s)
               = HeldIn(bals, grabs, s) + AmountOf(row, s) - AmountOf(bals[k][a], s)
  <2>1. TableHolds(bals, Symbol, s) \in Nat /\ TableHolds(grabs, Publisher, s) \in Nat
    BY KeysFinite, HoldsNat
  <2>2. AmountOf(row, s) \in Nat /\ AmountOf(bals[k][a], s) \in Nat
    BY <1>2, AmountNat
  <2>3. QED
    BY <1>1, <2>1, <2>2 DEF HeldIn
<1>4. QED
  BY <1>1, <1>3

\* An airgrab is written.
LEMMA PutAirgrab ==
  ASSUME NEW bals \in RowsOf(Symbol), NEW grabs \in RowsOf(Publisher),
         NEW k \in Publisher, NEW a \in Account, NEW row \in Tokens \cup {Nil}
  PROVE  /\ Put(grabs, k, a, row) \in RowsOf(Publisher)
         /\ \A s : HeldIn(bals, Put(grabs, k, a, row), s)
                     = HeldIn(bals, grabs, s) + AmountOf(row, s) - AmountOf(grabs[k][a], s)
<1>1. /\ Put(grabs, k, a, row) \in RowsOf(Publisher)
      /\ \A s : TableHolds(Put(grabs, k, a, row), Publisher, s)
                  = TableHolds(grabs, Publisher, s) + AmountOf(row, s) - AmountOf(grabs[k][a], s)
  BY KeysFinite, PutRow
<1>2. grabs[k][a] \in Tokens \cup {Nil}
  BY DEF RowsOf
<1>3. ASSUME NEW s
      PROVE  HeldIn(bals, Put(grabs, k, a, row), s)
               = HeldIn(bals, grabs, s) + AmountOf(row, s) - AmountOf(grabs[k][a], s)
  <2>1. TableHolds(bals, Symbol, s) \in Nat /\ TableHolds(grabs, Publisher, s) \in Nat
    BY KeysFinite, HoldsNat
  <2>2. AmountOf(row, s) \in Nat /\ AmountOf(grabs[k][a], s) \in Nat
    BY <1>2, AmountNat
  <2>3. QED
    BY <1>1, <2>1, <2>2 DEF HeldIn
<1>4. QED
  BY <1>1, <1>3

\* A registry's supply changes by what the tables change by.
LEMMA SupplyMoves ==
  ASSUME Tables, Supplied, NEW s \in Symbol, NEW d \in Int, NEW reg \in registry,
         registries[s] # Nil,
         reg.supply = registries[s].supply + d,
         s # VOTE => reg.supply <= reg.max_supply,
         reg.settings.counterbal_decay_rate > 0,
         registries' = [registries EXCEPT ![s] = reg],
         stranded' = stranded,
         balances' \in RowsOf(Symbol), airgrabs' \in RowsOf(Publisher),
         \A t : HeldIn(balances', airgrabs', t) = HeldIn(balances, airgrabs, t) + Part(d, s, t)
  PROVE  Tables' /\ Supplied'
<1>1. /\ registries' \in [Symbol -> registry \cup {Nil}]
      /\ registries'[s] = reg
      /\ \A t \in Symbol : t # s => registries'[t] = registries[t]
  BY DEF Tables
<1>2. Tables'
  BY <1>1 DEF Tables
<1>3. ASSUME NEW t \in Symbol, registries'[t] # Nil
      PROVE  Accounted(registries'[t], HeldIn(balances', airgrabs', t), stranded'[t], t)
  <2>1. HeldIn(balances, airgrabs, t) \in Nat /\ stranded[t] \in Nat
    BY HeldNat DEF Tables
  <2>2. CASE t = s
    <3>1. /\ registries[s].supply = HeldIn(balances, airgrabs, s) - stranded[s]
          /\ HeldIn(balances', airgrabs', s) = HeldIn(balances, airgrabs, s) + d
      BY DEF Supplied, Accounted, Part
    <3>2. QED
      BY <1>1, <2>1, <2>2, <3>1 DEF Accounted
  <2>3. CASE t # s
    <3>1. HeldIn(balances', airgrabs', t) = HeldIn(balances, airgrabs, t)
      BY <2>1, <2>3 DEF Part
    <3>2. QED
      BY <1>1, <1>3, <2>3, <3>1 DEF Supplied
  <2>4. QED
    BY <2>2, <2>3
<1>4. QED
  BY <1>2, <1>3 DEF Supplied

\* Tokens move, and the registries stay.
LEMMA HeldMoves ==
  ASSUME Tables, Supplied, registries' = registries, stranded' = stranded,
         balances' \in RowsOf(Symbol), airgrabs' \in RowsOf(Publisher),
         \A t : HeldIn(balances', airgrabs', t) = HeldIn(balances, airgrabs, t)
  PROVE  Tables' /\ Supplied'
<1>1. Tables'
  BY DEF Tables
<1>2. Supplied'
  BY DEF Supplied
<1>3. QED
  BY <1>1, <1>2

-----------------------------------------------------------------------------
(* The steps of the registries *)

\* What a registry is.
LEMMA RegistryFields ==
  ASSUME NEW reg \in registry
  PROVE  /\ reg.max_supply \in Int /\ reg.supply \in Int
         /\ reg.total_voters \in 0..(COUNTER_RANGE - 1) /\ reg.publisher \in Publisher
         /\ reg.settings \in token_settings /\ reg.settings.counterbal_decay_rate \in Nat
BY DEF registry, token_settings

\* A registry that is made for a symbol counts nothing of what it finds.
LEMMA RegTokenKeeps ==
  ASSUME Tables, Supplied, NEW s \in Symbol, NEW max_supply \in MaxSupplies,
         NEW publisher \in Publisher, RegToken(s, max_supply, publisher)
  PROVE  Tables' /\ Supplied'
<1> DEFINE reg == [max_supply |-> max_supply, supply |-> 0, total_voters |-> 0,
                   publisher |-> publisher, settings |-> DefaultSettings]
           held == HeldIn(balances, airgrabs, s)
<1>1. /\ registries' = [registries EXCEPT ![s] = reg]
      /\ stranded' = [stranded EXCEPT ![s] = held]
      /\ balances' = balances /\ airgrabs' = airgrabs
  BY DEF RegToken, Held, HeldIn
<1>2. /\ reg \in registry /\ reg.settings.counterbal_decay_rate > 0
      /\ reg.supply = 0 /\ reg.supply <= reg.max_supply
  BY ConstantsAssumption DEF registry, token_settings, DefaultSettings
<1>3. held \in Nat
  BY HeldNat DEF Tables
<1> HIDE DEF reg, held
<1>4. Tables'
  BY <1>1, <1>2, <1>3 DEF Tables
<1>5. ASSUME NEW t \in Symbol, registries'[t] # Nil
      PROVE  Accounted(registries'[t], HeldIn(balances', airgrabs', t), stranded'[t], t)
  <2>1. CASE t = s
    <3>1. registries'[s] = reg /\ stranded'[s] = held /\ HeldIn(balances', airgrabs', s) = held
      BY <1>1 DEF Tables, held
    <3>2. QED
      BY <1>2, <1>3, <2>1, <3>1 DEF Accounted
  <2>2. CASE t # s
    <3>1. registries'[t] = registries[t] /\ stranded'[t] = stranded[t]
      BY <1>1, <2>2 DEF Tables
    <3>2. QED
      BY <1>1, <1>5, <3>1 DEF Supplied
  <2>3. QED
    BY <2>1, <2>2
<1>6. QED
  BY <1>4, <1>5 DEF Supplied

\* One that is destroyed leaves what was held in its symbol.
LEMMA UnregTokenKeeps ==
  ASSUME Tables, Supplied, NEW s \in Symbol, UnregToken(s)
  PROVE  Tables' /\ Supplied'
<1>1. /\ registries' = [registries EXCEPT ![s] = Nil]
      /\ balances' = balances /\ airgrabs' = airgrabs /\ stranded' = stranded
  BY DEF UnregToken
<1>2. /\ registries' \in [Symbol -> registry \cup {Nil}]
      /\ registries'[s] = Nil
      /\ \A t \in Symbol : t # s => registries'[t] = registries[t]
  BY <1>1 DEF Tables
<1>3. Tables'
  BY <1>1, <1>2 DEF Tables
<1>4. Supplied'
  BY <1>1, <1>2 DEF Supplied
<1>5. QED
  BY <1>3, <1>4

\* A registry changes in other than its supply.
LEMMA RegistryKeeps ==
  ASSUME Tables, Supplied, NEW s \in Symbol, registries[s] # Nil, NEW reg \in registry,
         reg.supply = registries[s].supply,
         s # VOTE => reg.supply <= reg.max_supply,
         reg.settings.counterbal_decay_rate > 0,
         registries' = [registries EXCEPT ![s] = reg],
         stranded' = stranded, balances' = balances, airgrabs' = airgrabs
  PROVE  Tables' /\ Supplied'
<1>1. balances' \in RowsOf(Symbol) /\ airgrabs' \in RowsOf(Publisher)
  BY DEF Tables
<1> DEFINE d == 0
<1>2. \A t : HeldIn(balances', airgrabs', t) = HeldIn(balances, airgrabs, t) + Part(d, s, t)
  BY HeldNat DEF Tables, Part
<1>3. reg.supply = registries[s].supply + d /\ d \in Int
  BY RegistryFields DEF Tables
<1> HIDE DEF d
<1>4. QED
  BY <1>1, <1>2, <1>3, SupplyMoves

\* The settings are given, once unless they say otherwise.
LEMMA InitSettingsKeeps ==
  ASSUME Tables, Supplied, NEW s \in Symbol, NEW publisher \in Publisher,
         NEW new_settings \in Settings, InitSettings(publisher, s, new_settings)
  PROVE  Tables' /\ Supplied'
<1> DEFINE old == registries[s]
<1>1. /\ old # Nil /\ new_settings.counterbal_decay_rate > 0
      /\ \/ registries' = [registries EXCEPT ![s].settings = new_settings]
         \/ registries' = [registries EXCEPT ![s].settings =
                             [new_settings EXCEPT !.is_initialized = TRUE]]
      /\ balances' = balances /\ airgrabs' = airgrabs /\ stranded' = stranded
  BY DEF InitSettings, Published
<1>2. PICK given : /\ given \in {new_settings, [new_settings EXCEPT !.is_initialized = TRUE]}
                   /\ registries' = [registries EXCEPT ![s].settings = given]
  BY <1>1
<1>3. given \in token_settings /\ given.counterbal_decay_rate > 0
  <2>1. new_settings \in token_settings
    BY ConstantsAssumption
  <2>2. /\ [new_settings EXCEPT !.is_initialized = TRUE] \in token_settings
        /\ [new_settings EXCEPT !.is_initialized = TRUE].counterbal_decay_rate
             = new_settings.counterbal_decay_rate
    BY <2>1 DEF token_settings
  <2>3. QED
    BY <1>1, <1>2, <2>1, <2>2
<1> DEFINE reg == [old EXCEPT !.settings = given]
<1>4. old \in registry
  BY <1>1 DEF Tables
<1>5. /\ reg \in registry /\ reg.supply = old.supply /\ reg.max_supply = old.max_supply
      /\ reg.settings = given
  BY <1>3, <1>4 DEF registry
<1>6. registries' = [registries EXCEPT ![s] = reg]
  BY <1>2
<1>7. s # VOTE => old.supply <= old.max_supply
  BY <1>1 DEF Supplied, Accounted
<1> HIDE DEF reg
<1>8. QED
  BY <1>1, <1>3, <1>5, <1>6, <1>7, RegistryKeeps

\* The maximum is raised, or lowered to no less than the supply.
LEMMA MaxKeeps ==
  ASSUME Tables, Supplied, NEW s \in Symbol, NEW publisher \in Publisher, NEW q \in Int,
         RaiseMax(publisher, s, q) \/ LowerMax(publisher, s, q)
  PROVE  Tables' /\ Supplied'
<1> DEFINE old == registries[s]
<1>1. /\ old # Nil /\ q > 0
      /\ balances' = balances /\ airgrabs' = airgrabs /\ stranded' = stranded
  BY DEF RaiseMax, LowerMax, Published
<1>2. old \in registry /\ old.supply \in Int /\ old.max_supply \in Int
      /\ old.settings.counterbal_decay_rate > 0
  BY <1>1, RegistryFields DEF Tables
<1>3. PICK m \in Int : /\ registries' = [registries EXCEPT ![s].max_supply = m]
                       /\ m > old.max_supply \/ old.supply <= m
  <2>1. CASE RaiseMax(publisher, s, q)
    <3> DEFINE raised == old.max_supply + q
    <3>1. registries' = [registries EXCEPT ![s].max_supply = raised]
      BY <2>1 DEF RaiseMax
    <3>2. raised \in Int /\ raised > old.max_supply
      BY <1>1, <1>2
    <3> HIDE DEF raised, old
    <3>3. QED
      BY <3>1, <3>2
  <2>2. CASE LowerMax(publisher, s, q)
    <3> DEFINE lowered == old.max_supply - q
    <3>1. registries' = [registries EXCEPT ![s].max_supply = lowered]
      BY <2>2 DEF LowerMax
    <3>2. lowered \in Int /\ old.supply <= lowered
      BY <1>2, <2>2 DEF LowerMax, CanLower
    <3> HIDE DEF lowered, old
    <3>3. QED
      BY <3>1, <3>2
  <2>3. QED
    BY <2>1, <2>2
<1> DEFINE reg == [old EXCEPT !.max_supply = m]
<1>4. /\ reg \in registry /\ reg.supply = old.supply /\ reg.max_supply = m
      /\ reg.settings = old.settings
  BY <1>2, <1>3 DEF registry
<1>5. registries' = [registries EXCEPT ![s] = reg]
  BY <1>3
<1>6. s # VOTE => old.supply <= old.max_supply
  BY <1>1 DEF Supplied, Accounted
<1> HIDE DEF reg
<1>7. s # VOTE => reg.supply <= reg.max_supply
  BY <1>2, <1>3, <1>4, <1>6
<1>8. QED
  BY <1>1, <1>2, <1>4, <1>5, <1>7, RegistryKeeps

-----------------------------------------------------------------------------
(* The steps of the holders *)

\* The supply in a registry changes.
LEMMA RegistrySupply ==
  ASSUME Tables, Supplied, NEW s \in Symbol, registries[s] # Nil, NEW supply \in Int
  PROVE  /\ registries[s] \in registry /\ registries[s].supply \in Int
         /\ registries[s].max_supply \in Int
         /\ s # VOTE => registries[s].supply <= registries[s].max_supply
         /\ [registries[s] EXCEPT !.supply = supply] \in registry
         /\ [registries[s] EXCEPT !.supply = supply].supply = supply
         /\ [registries[s] EXCEPT !.supply = supply].max_supply = registries[s].max_supply
         /\ [registries[s] EXCEPT !.supply = supply].settings.counterbal_decay_rate > 0
<1>1. registries[s] \in registry /\ registries[s].settings.counterbal_decay_rate > 0
  BY DEF Tables
<1>2. s # VOTE => registries[s].supply <= registries[s].max_supply
  BY DEF Supplied, Accounted
<1>3. QED
  BY <1>1, <1>2 DEF registry

\* What is issued goes to a balance or to an airgrab.
LEMMA IssueTokenKeeps ==
  ASSUME Tables, Supplied, NEW s \in Symbol, NEW publisher \in Publisher,
         NEW recipient \in Account, NEW amount \in Int, NEW airgrab \in BOOLEAN,
         IssueToken(publisher, recipient, s, amount, airgrab)
  PROVE  Tables' /\ Supplied'
<1> DEFINE tokens == [amount |-> amount, symbol |-> s]
           supply == registries[s].supply + amount
           reg == [registries[s] EXCEPT !.supply = supply]
<1>1. /\ amount > 0 /\ registries[s] # Nil /\ supply <= registries[s].max_supply
      /\ registries' = [registries EXCEPT ![s] = reg]
      /\ stranded' = stranded
  BY DEF IssueToken, Published
<1>2. \/ /\ CanTake(airgrabs[publisher][recipient], s)
         /\ airgrabs' = Put(airgrabs, publisher, recipient,
                            Credit(airgrabs[publisher][recipient], tokens))
         /\ balances' = balances
      \/ /\ CanTake(balances[s][recipient], s)
         /\ balances' = Put(balances, s, recipient, Credit(balances[s][recipient], tokens))
         /\ airgrabs' = airgrabs
  BY DEF IssueToken, Put
<1>3. tokens \in Tokens /\ tokens.symbol = s /\ tokens.amount = amount
  BY <1>1 DEF Tokens
<1>4. supply \in Int
  BY <1>1, RegistryFields DEF Tables
<1> HIDE DEF tokens
<1>5. /\ balances \in RowsOf(Symbol) /\ airgrabs \in RowsOf(Publisher)
      /\ airgrabs[publisher][recipient] \in Tokens \cup {Nil}
      /\ balances[s][recipient] \in Tokens \cup {Nil}
  BY DEF Tables, RowsOf
<1>6. /\ balances' \in RowsOf(Symbol) /\ airgrabs' \in RowsOf(Publisher)
      /\ \A t : HeldIn(balances', airgrabs', t) = HeldIn(balances, airgrabs, t) + Part(amount, s, t)
  <2>1. ASSUME NEW t
        PROVE  /\ HeldIn(balances, airgrabs, t) \in Nat /\ Part(amount, s, t) \in Int
               /\ AmountOf(airgrabs[publisher][recipient], t) \in Nat
               /\ AmountOf(balances[s][recipient], t) \in Nat
    BY <1>5, HeldNat, AmountNat DEF Part
  <2>2. ASSUME NEW row \in Tokens \cup {Nil}, CanTake(row, s)
        PROVE  /\ Credit(row, tokens) \in Tokens
               /\ \A t : AmountOf(Credit(row, tokens), t) = AmountOf(row, t) + Part(amount, s, t)
    BY <1>3, <2>2, CreditAdds
  <2>3. ASSUME CanTake(airgrabs[publisher][recipient], s),
               airgrabs' = Put(airgrabs, publisher, recipient,
                               Credit(airgrabs[publisher][recipient], tokens)),
               balances' = balances
        PROVE  /\ balances' \in RowsOf(Symbol) /\ airgrabs' \in RowsOf(Publisher)
               /\ \A t : HeldIn(balances', airgrabs', t)
                           = HeldIn(balances, airgrabs, t) + Part(amount, s, t)
    <3> DEFINE old == airgrabs[publisher][recipient]
               row == Credit(old, tokens)
    <3>1. /\ row \in Tokens \cup {Nil}
          /\ \A t : AmountOf(row, t) = AmountOf(old, t) + Part(amount, s, t)
      BY <1>5, <2>2, <2>3
    <3> HIDE DEF row
    <3>2. /\ Put(airgrabs, publisher, recipient, row) \in RowsOf(Publisher)
          /\ \A t : HeldIn(balances, Put(airgrabs, publisher, recipient, row), t)
                      = HeldIn(balances, airgrabs, t) + AmountOf(row, t) - AmountOf(old, t)
      BY <1>5, <3>1, PutAirgrab
    <3>3. airgrabs' = Put(airgrabs, publisher, recipient, row)
      BY <2>3 DEF row
    <3>4. QED
      BY <1>5, <2>1, <2>3, <3>1, <3>2, <3>3
  <2>4. ASSUME CanTake(balances[s][recipient], s),
               balances' = Put(balances, s, recipient, Credit(balances[s][recipient], tokens)),
               airgrabs' = airgrabs
        PROVE  /\ balances' \in RowsOf(Symbol) /\ airgrabs' \in RowsOf(Publisher)
               /\ \A t : HeldIn(balances', airgrabs', t)
                           = HeldIn(balances, airgrabs, t) + Part(amount, s, t)
    <3> DEFINE old == balances[s][recipient]
               row == Credit(old, tokens)
    <3>1. /\ row \in Tokens \cup {Nil}
          /\ \A t : AmountOf(row, t) = AmountOf(old, t) + Part(amount, s, t)
      BY <1>5, <2>2, <2>4
    <3> HIDE DEF row
    <3>2. /\ Put(balances, s, recipient, row) \in RowsOf(Symbol)
          /\ \A t : HeldIn(Put(balances, s, recipient, row), airgrabs, t)
                      = HeldIn(balances, airgrabs, t) + AmountOf(row, t) - AmountOf(old, t)
      BY <1>5, <3>1, PutBalance
    <3>3. balances' = Put(balances, s, recipient, row)
      BY <2>4 DEF row
    <3>4. QED
      BY <1>5, <2>1, <2>4, <3>1, <3>2, <3>3
  <2>5. QED
    BY <1>2, <2>3, <2>4
<1>7. /\ reg \in registry /\ reg.supply = registries[s].supply + amount
      /\ s # VOTE => reg.supply <= reg.max_supply
      /\ reg.settings.counterbal_decay_rate > 0
  BY <1>1, <1>4, RegistrySupply
<1> HIDE DEF reg, supply
<1>8. QED
  BY <1>1, <1>6, <1>7, SupplyMoves

\* What is claimed leaves the airgrab for a balance of its own symbol,
\* whichever registry it was claimed through.
LEMMA ClaimAirgrabKeeps ==
  ASSUME Tables, Supplied, NEW s \in Symbol, NEW claimant \in Account, ClaimAirgrab(claimant, s)
  PROVE  Tables' /\ Supplied'
<1> DEFINE publisher == registries[s].publisher
           grab == airgrabs[publisher][claimant]
           old == balances[s][claimant]
           row == Credit(old, grab)
           mid == Put(balances, s, claimant, row)
<1>1. /\ registries[s] # Nil /\ grab # Nil /\ CanTake(old, grab.symbol)
      /\ balances' = mid /\ airgrabs' = Put(airgrabs, publisher, claimant, Nil)
      /\ registries' = registries /\ stranded' = stranded
  BY DEF ClaimAirgrab, Put
<1>2. publisher \in Publisher
  BY <1>1, RegistryFields DEF Tables
<1>3. /\ balances \in RowsOf(Symbol) /\ airgrabs \in RowsOf(Publisher)
      /\ grab \in Tokens /\ old \in Tokens \cup {Nil}
  BY <1>1, <1>2 DEF Tables, RowsOf
<1>4. /\ row \in Tokens
      /\ \A t : AmountOf(row, t) = AmountOf(old, t) + Part(grab.amount, grab.symbol, t)
  BY <1>1, <1>3, CreditAdds
<1> HIDE DEF row, publisher
<1>5. /\ mid \in RowsOf(Symbol)
      /\ \A t : HeldIn(mid, airgrabs, t)
                  = HeldIn(balances, airgrabs, t) + AmountOf(row, t) - AmountOf(old, t)
  BY <1>3, <1>4, PutBalance
<1> HIDE DEF mid
<1>6. /\ airgrabs' \in RowsOf(Publisher)
      /\ \A t : HeldIn(mid, airgrabs', t)
                  = HeldIn(mid, airgrabs, t) + AmountOf(Nil, t) - AmountOf(grab, t)
  BY <1>1, <1>2, <1>3, <1>5, PutAirgrab
<1>7. ASSUME NEW t
      PROVE  HeldIn(mid, airgrabs', t) = HeldIn(balances, airgrabs, t)
  <2>1. /\ AmountOf(Nil, t) = 0
        /\ AmountOf(grab, t) = Part(grab.amount, grab.symbol, t)
    BY <1>1 DEF AmountOf, Part
  <2>2. /\ HeldIn(balances, airgrabs, t) \in Nat
        /\ AmountOf(old, t) \in Nat /\ AmountOf(grab, t) \in Nat
    BY <1>3, HeldNat, AmountNat
  <2> HIDE DEF grab, old
  <2>3. QED
    BY <1>4, <1>5, <1>6, <2>1, <2>2
<1>8. QED
  BY <1>1, <1>5, <1>6, <1>7, HeldMoves

\* The amount in a balance is written.
LEMMA BalanceSet ==
  ASSUME NEW bals \in RowsOf(Symbol), NEW grabs \in RowsOf(Publisher),
         NEW k \in Symbol, NEW a \in Account, bals[k][a] # Nil, NEW m \in Nat
  PROVE  /\ bals[k][a] \in Tokens
         /\ Put(bals, k, a, [bals[k][a] EXCEPT !.amount = m]) \in RowsOf(Symbol)
         /\ \A s : HeldIn(Put(bals, k, a, [bals[k][a] EXCEPT !.amount = m]), grabs, s)
                     = HeldIn(bals, grabs, s) + Part(m - bals[k][a].amount, bals[k][a].symbol, s)
<1> DEFINE old == bals[k][a]
           row == [old EXCEPT !.amount = m]
<1>1. old \in Tokens
  BY DEF RowsOf
<1>2. old.amount \in Nat /\ row \in Tokens /\ row.amount = m /\ row.symbol = old.symbol
  BY <1>1 DEF Tokens
<1>3. row # Nil
  BY <1>2, ConstantsAssumption
<1>4. ASSUME NEW s
      PROVE  /\ AmountOf(row, s) - AmountOf(old, s) = Part(m - old.amount, old.symbol, s)
             /\ AmountOf(row, s) \in Nat /\ AmountOf(old, s) \in Nat
  <2> HIDE DEF row, old
  <2>1. old # Nil
    BY DEF old
  <2>2. QED
    BY <1>2, <1>3, <2>1 DEF AmountOf, Part
<1> HIDE DEF row
<1>5. /\ Put(bals, k, a, row) \in RowsOf(Symbol)
      /\ \A s : HeldIn(Put(bals, k, a, row), grabs, s)
                  = HeldIn(bals, grabs, s) + AmountOf(row, s) - AmountOf(bals[k][a], s)
  BY <1>2, PutBalance
<1>6. ASSUME NEW s
      PROVE  HeldIn(Put(bals, k, a, row), grabs, s)
               = HeldIn(bals, grabs, s) + Part(m - old.amount, old.symbol, s)
  <2>1. HeldIn(bals, grabs, s) \in Nat
    BY HeldNat
  <2>2. QED
    BY <1>4, <1>5, <2>1
<1>7. QED
  BY <1>1, <1>5, <1>6 DEF row

\* A balance less an amount; then another one more.
Lowered(bals, s, from, q) == Put(bals, s, from, [bals[s][from] EXCEPT !.amount = @ - q])

MovedIn(bals, s, from, to, q) ==
  Put(Lowered(bals, s, from, q), s, to,
      [Lowered(bals, s, from, q)[s][to] EXCEPT !.amount = @ + q])

\* Tokens of one symbol move between two balances, or from one to itself.
LEMMA BalancesMove ==
  ASSUME NEW bals \in RowsOf(Symbol), NEW grabs \in RowsOf(Publisher),
         NEW s \in Symbol, NEW from \in Account, NEW to \in Account, NEW q \in Nat,
         Holds(bals[s][from], s, q), Holds(bals[s][to], s, 0)
  PROVE  /\ MovedIn(bals, s, from, to, q) \in RowsOf(Symbol)
         /\ \A t : HeldIn(MovedIn(bals, s, from, to, q), grabs, t) = HeldIn(bals, grabs, t)
<1> DEFINE lowered == Lowered(bals, s, from, q)
           after == MovedIn(bals, s, from, to, q)
<1>0. /\ lowered = Put(bals, s, from, [bals[s][from] EXCEPT !.amount = @ - q])
      /\ after = Put(lowered, s, to, [lowered[s][to] EXCEPT !.amount = @ + q])
  BY DEF Lowered, MovedIn
<1> HIDE DEF lowered, after
<1>1. bals[s][from] \in Tokens /\ bals[s][to] \in Tokens
  BY DEF Holds, RowsOf
<1>2. /\ bals[s][from].amount \in Nat /\ bals[s][to].amount \in Nat
      /\ bals[s][from].symbol = s /\ bals[s][to].symbol = s /\ bals[s][from].amount >= q
      /\ bals[s][from] # Nil
  BY <1>1 DEF Tokens, Holds
<1> DEFINE m == bals[s][from].amount - q
<1>3. m \in Nat /\ m - bals[s][from].amount = 0 - q
  BY <1>2
<1>4. lowered = Put(bals, s, from, [bals[s][from] EXCEPT !.amount = m])
  BY <1>0
<1> HIDE DEF m
<1>5. /\ lowered \in RowsOf(Symbol)
      /\ \A t : HeldIn(lowered, grabs, t) = HeldIn(bals, grabs, t) + Part(0 - q, s, t)
  BY <1>2, <1>3, <1>4, BalanceSet
<1>6. lowered[s][to] \in Tokens /\ lowered[s][to].symbol = s
  <2>1. CASE to = from
    <3>1. lowered[s][to] = [bals[s][from] EXCEPT !.amount = m]
      BY <1>4, <2>1 DEF Put, RowsOf
    <3>2. QED
      BY <1>1, <1>2, <1>3, <3>1 DEF Tokens
  <2>2. CASE to # from
    <3>1. lowered[s][to] = bals[s][to]
      BY <1>4, <2>2 DEF Put, RowsOf
    <3>2. QED
      BY <1>1, <1>2, <3>1
  <2>3. QED
    BY <2>1, <2>2
<1>7. lowered[s][to].amount \in Nat /\ lowered[s][to] # Nil
  BY <1>6, ConstantsAssumption DEF Tokens
<1> DEFINE n == lowered[s][to].amount + q
<1>8. n \in Nat /\ n - lowered[s][to].amount = q
  BY <1>7
<1>9. after = Put(lowered, s, to, [lowered[s][to] EXCEPT !.amount = n])
  BY <1>0
<1> HIDE DEF n
<1>10. /\ after \in RowsOf(Symbol)
       /\ \A t : HeldIn(after, grabs, t) = HeldIn(lowered, grabs, t) + Part(q, s, t)
  <2>1. lowered \in RowsOf(Symbol) /\ lowered[s][to] # Nil
    BY <1>5, <1>7
  <2>2. /\ Put(lowered, s, to, [lowered[s][to] EXCEPT !.amount = n]) \in RowsOf(Symbol)
        /\ \A t : HeldIn(Put(lowered, s, to, [lowered[s][to] EXCEPT !.amount = n]), grabs, t)
                    = HeldIn(lowered, grabs, t)
                      + Part(n - lowered[s][to].amount, lowered[s][to].symbol, t)
    BY <1>8, <2>1, BalanceSet
  <2>3. QED
    BY <1>6, <1>8, <1>9, <2>2
<1>11. ASSUME NEW t
       PROVE  HeldIn(after, grabs, t) = HeldIn(bals, grabs, t)
  <2>1. HeldIn(bals, grabs, t) \in Nat
    BY HeldNat
  <2>2. /\ HeldIn(lowered, grabs, t) = HeldIn(bals, grabs, t) + Part(0 - q, s, t)
        /\ HeldIn(after, grabs, t) = HeldIn(lowered, grabs, t) + Part(q, s, t)
    BY <1>5, <1>10
  <2>3. CASE s = t
    BY <2>1, <2>2, <2>3 DEF Part
  <2>4. CASE s # t
    BY <2>1, <2>2, <2>4 DEF Part
  <2>5. QED
    BY <2>3, <2>4
<1>12. QED
  BY <1>10, <1>11 DEF after

\* The balances of a symbol are replaced.
Line(bals, s, after) == [bals EXCEPT ![s] = after]

\* A seizure moves tokens to the publisher, whose own may be seized too.
LEMMA SeizedMoves ==
  ASSUME NEW bals \in RowsOf(Symbol), NEW grabs \in RowsOf(Publisher),
         NEW s \in Symbol, NEW publisher \in Publisher, NEW owner \in Account, NEW q \in Nat,
         Seized(bals[s], publisher, owner, s, q) # Nil
  PROVE  /\ Line(bals, s, Seized(bals[s], publisher, owner, s, q)) \in RowsOf(Symbol)
         /\ \A t : HeldIn(Line(bals, s, Seized(bals[s], publisher, owner, s, q)), grabs, t)
                     = HeldIn(bals, grabs, t)
<1> DEFINE line == [bals[s] EXCEPT ![owner].amount = @ - q]
           lowered == Lowered(bals, s, owner, q)
           after == Seized(bals[s], publisher, owner, s, q)
           new == MovedIn(bals, s, owner, publisher, q)
<1>1. /\ Holds(bals[s][owner], s, q) /\ Holds(bals[s][publisher], s, 0)
      /\ after = [line EXCEPT ![publisher].amount = @ + q]
  BY DEF Seized
<1>2. publisher \in Account
  BY ConstantsAssumption
<1>3. lowered = [bals EXCEPT ![s] = line] /\ lowered[s] = line
  BY DEF Lowered, Put, RowsOf
<1>4. new = Put(lowered, s, publisher, [lowered[s][publisher] EXCEPT !.amount = @ + q])
  BY DEF MovedIn
<1> HIDE DEF line, lowered, new, after
<1>5. new = [bals EXCEPT ![s] = after]
  <2>1. new = [lowered EXCEPT ![s] = after]
    BY <1>1, <1>3, <1>4 DEF Put
  <2>2. [lowered EXCEPT ![s] = after] = [bals EXCEPT ![s] = after]
    BY <1>3
  <2>3. QED
    BY <2>1, <2>2
<1>6. /\ new \in RowsOf(Symbol)
      /\ \A t : HeldIn(new, grabs, t) = HeldIn(bals, grabs, t)
  BY <1>1, <1>2, BalancesMove DEF new
<1>7. QED
  BY <1>5, <1>6 DEF after, Line

\* What a publisher seizes from an owner was the owner's.
LEMMA SeizeTokenKeeps ==
  ASSUME Tables, Supplied, NEW s \in Symbol, NEW publisher \in Publisher,
         NEW owner \in Account, NEW q \in Int, SeizeToken(publisher, owner, s, q)
  PROVE  Tables' /\ Supplied'
<1>1. /\ q \in Nat /\ Seized(balances[s], publisher, owner, s, q) # Nil
      /\ balances' = [balances EXCEPT ![s] = Seized(balances[s], publisher, owner, s, q)]
      /\ airgrabs' = airgrabs /\ registries' = registries /\ stranded' = stranded
  BY DEF SeizeToken, Seizable
<1>2. balances \in RowsOf(Symbol) /\ airgrabs \in RowsOf(Publisher)
  BY DEF Tables
<1>3. /\ balances' \in RowsOf(Symbol)
      /\ \A t : HeldIn(balances', airgrabs, t) = HeldIn(balances, airgrabs, t)
  <2> DEFINE new == Line(balances, s, Seized(balances[s], publisher, owner, s, q))
  <2>1. new \in RowsOf(Symbol) /\ \A t : HeldIn(new, airgrabs, t) = HeldIn(balances, airgrabs, t)
    BY <1>1, <1>2, SeizedMoves
  <2>2. balances' = new
    BY <1>1 DEF Line
  <2> HIDE DEF new
  <2>3. QED
    BY <2>1, <2>2
<1>4. QED
  BY <1>1, <1>2, <1>3, HeldMoves

\* What is transferred is.
LEMMA TransferKeeps ==
  ASSUME Tables, Supplied, NEW s \in Symbol, NEW sender \in Account, NEW recipient \in Account,
         NEW q \in Int, Transfer(sender, recipient, s, q)
  PROVE  Tables' /\ Supplied'
<1> DEFINE lowered == Lowered(balances, s, sender, q)
<1>1. /\ q \in Nat /\ sender # recipient
      /\ Holds(balances[s][sender], s, q) /\ Holds(balances[s][recipient], s, 0)
      /\ airgrabs' = airgrabs /\ registries' = registries /\ stranded' = stranded
  BY DEF Transfer
<1>2. balances \in RowsOf(Symbol) /\ airgrabs \in RowsOf(Publisher)
  BY DEF Tables
<1>3. balances' = MovedIn(balances, s, sender, recipient, q)
  <2>1. balances' = [balances EXCEPT ![s][sender].amount = @ - q,
                                     ![s][recipient].amount = @ + q]
    BY DEF Transfer
  <2>2. lowered = [balances EXCEPT ![s][sender].amount = @ - q]
    BY DEF Lowered, Put
  <2>3. MovedIn(balances, s, sender, recipient, q)
          = Put(lowered, s, recipient, [lowered[s][recipient] EXCEPT !.amount = @ + q])
    BY DEF MovedIn
  <2> HIDE DEF lowered
  <2>21. lowered[s][recipient] = balances[s][recipient]
    BY <1>1, <1>2, <2>2 DEF RowsOf
  <2>4. balances' = [lowered EXCEPT ![s][recipient].amount = @ + q]
    BY <2>1, <2>2, <2>21
  <2>5. QED
    BY <2>3, <2>4 DEF Put
<1>4. /\ balances' \in RowsOf(Symbol)
      /\ \A t : HeldIn(balances', airgrabs, t) = HeldIn(balances, airgrabs, t)
  BY <1>1, <1>2, <1>3, BalancesMove
<1>5. QED
  BY <1>1, <1>2, <1>4, HeldMoves

\* What is burnt leaves the supply and a balance.
LEMMA BurnTokenKeeps ==
  ASSUME Tables, Supplied, NEW s \in Symbol, NEW owner \in Account, NEW q \in Int,
         BurnToken(owner, s, q)
  PROVE  Tables' /\ Supplied'
<1> DEFINE old == balances[s][owner]
           m == old.amount - q
           supply == registries[s].supply - q
           reg == [registries[s] EXCEPT !.supply = supply]
           d == 0 - q
<1>1. /\ q > 0 /\ registries[s] # Nil /\ Holds(old, s, q)
      /\ registries' = [registries EXCEPT ![s] = reg]
      /\ balances' = Put(balances, s, owner, [balances[s][owner] EXCEPT !.amount = m])
      /\ airgrabs' = airgrabs /\ stranded' = stranded
  BY DEF BurnToken, Put
<1>2. balances \in RowsOf(Symbol) /\ airgrabs \in RowsOf(Publisher)
  BY DEF Tables
<1>3. old \in Tokens \cup {Nil} /\ old # Nil /\ old.symbol = s /\ old.amount >= q
  BY <1>1, <1>2 DEF Holds, RowsOf
<1>4. old.amount \in Nat /\ m \in Nat /\ m - old.amount = d /\ d \in Int
  BY <1>1, <1>3 DEF Tokens
<1>5. registries[s].supply \in Int
  BY <1>1, RegistryFields DEF Tables
<1>6. supply \in Int /\ supply <= registries[s].supply /\ supply = registries[s].supply + d
  BY <1>1, <1>5
<1>7. /\ reg \in registry /\ reg.supply = registries[s].supply + d
      /\ reg.settings.counterbal_decay_rate > 0
      /\ s # VOTE => reg.supply <= reg.max_supply
  BY <1>1, <1>5, <1>6, RegistrySupply
<1> HIDE DEF reg, supply, m, d
<1>8. /\ balances' \in RowsOf(Symbol)
      /\ \A t : HeldIn(balances', airgrabs, t) = HeldIn(balances, airgrabs, t) + Part(d, s, t)
  BY <1>1, <1>2, <1>3, <1>4, BalanceSet
<1>9. QED
  BY <1>1, <1>2, <1>4, <1>7, <1>8, SupplyMoves

\* What is seized from an airgrab, or all of it, is the publisher's.
LEMMA SeizeAirgrabKeeps ==
  ASSUME Tables, Supplied, NEW s \in Symbol, NEW publisher \in Publisher,
         NEW recipient \in Account, NEW q \in Int, SeizeAirgrab(publisher, recipient, s, q)
  PROVE  Tables' /\ Supplied'
<1> DEFINE grab == airgrabs[publisher][recipient]
           row == LeftOf(grab, q)
           own == balances[s][publisher]
           m == own.amount + q
           mid == Put(airgrabs, publisher, recipient, row)
           after == Put(balances, s, publisher, [own EXCEPT !.amount = m])
<1>1. /\ q > 0 /\ Holds(grab, s, q) /\ Holds(own, s, 0)
      /\ registries' = registries /\ stranded' = stranded
      /\ airgrabs' = mid /\ balances' = after
  <2>1. /\ q > 0 /\ Holds(grab, s, q) /\ Holds(own, s, 0)
        /\ registries' = registries /\ stranded' = stranded
    BY DEF SeizeAirgrab, Seizable
  <2>2. airgrabs' = [airgrabs EXCEPT ![publisher][recipient] = row]
    BY DEF SeizeAirgrab
  <2>3. balances' = [balances EXCEPT ![s][publisher].amount = m]
    BY DEF SeizeAirgrab
  <2> HIDE DEF row, m
  <2>4. QED
    BY <2>1, <2>2, <2>3 DEF Put
<1>2. /\ balances \in RowsOf(Symbol) /\ airgrabs \in RowsOf(Publisher) /\ publisher \in Account
      /\ own \in Tokens \cup {Nil} /\ grab \in Tokens \cup {Nil}
  BY ConstantsAssumption DEF Tables, RowsOf
<1>3. /\ own # Nil /\ own.symbol = s /\ grab # Nil /\ grab.symbol = s /\ grab.amount >= q
      /\ own \in Tokens /\ grab \in Tokens
  BY <1>1, <1>2 DEF Holds
<1>4. own.amount \in Nat /\ m \in Nat /\ m - own.amount = q /\ grab.amount \in Nat
  BY <1>1, <1>3 DEF Tokens
<1>5. /\ row \in Tokens \cup {Nil}
      /\ \A t : AmountOf(row, t) - AmountOf(grab, t) = Part(0 - q, s, t)
  <2>1. CASE grab.amount = q
    BY <1>1, <1>3, <1>4, <2>1 DEF AmountOf, Part, LeftOf
  <2>2. CASE grab.amount # q
    <3> DEFINE n == grab.amount - q
               rest == [grab EXCEPT !.amount = n]
    <3>1. n \in Nat /\ row = rest
      BY <1>1, <1>3, <1>4, <2>2 DEF LeftOf
    <3> HIDE DEF n, row
    <3>2. rest \in Tokens /\ rest.amount = n /\ rest.symbol = s
      BY <1>3, <3>1 DEF Tokens
    <3>3. rest # Nil
      BY <3>2, ConstantsAssumption
    <3> HIDE DEF rest, grab
    <3>4. \A t : AmountOf(rest, t) - AmountOf(grab, t) = Part(0 - q, s, t)
      BY <1>1, <1>3, <1>4, <3>1, <3>2, <3>3 DEF AmountOf, Part, n
    <3>5. QED
      BY <3>1, <3>2, <3>4
  <2>3. QED
    BY <2>1, <2>2
<1> HIDE DEF row, m
<1>6. /\ mid \in RowsOf(Publisher)
      /\ \A t : HeldIn(balances, mid, t)
                  = HeldIn(balances, airgrabs, t) + AmountOf(row, t) - AmountOf(grab, t)
  BY <1>2, <1>5, PutAirgrab
<1> HIDE DEF mid
<1>7. /\ after \in RowsOf(Symbol)
      /\ \A t : HeldIn(after, mid, t) = HeldIn(balances, mid, t) + Part(q, s, t)
  BY <1>2, <1>3, <1>4, <1>6, BalanceSet
<1> HIDE DEF after
<1>8. ASSUME NEW t
      PROVE  HeldIn(after, mid, t) = HeldIn(balances, airgrabs, t)
  <2>1. /\ HeldIn(balances, airgrabs, t) \in Nat
        /\ AmountOf(row, t) \in Nat /\ AmountOf(grab, t) \in Nat
    BY <1>2, <1>5, HeldNat, AmountNat
  <2>2. Part(q, s, t) + Part(0 - q, s, t) = 0 /\ Part(q, s, t) \in Int /\ Part(0 - q, s, t) \in Int
    BY DEF Part
  <2> HIDE DEF grab
  <2>3. QED
    BY <1>5, <1>6, <1>7, <2>1, <2>2
<1>9. QED
  BY <1>1, <1>6, <1>7, <1>8, HeldMoves

\* The number of voters is kept in uint32_t.
LEMMA CounterRange ==
  ASSUME NEW n \in Int
  PROVE  n % COUNTER_RANGE \in 0..(COUNTER_RANGE - 1)
<1>1. COUNTER_RANGE \in Nat /\ COUNTER_RANGE > 0
  BY ConstantsAssumption
<1>2. QED
  BY <1>1

\* A voter that registers has nothing yet.
LEMMA RegVoterKeeps ==
  ASSUME Tables, Supplied, NEW s \in Symbol, NEW voter \in Account, RegVoter(voter, s)
  PROVE  Tables' /\ Supplied'
<1> DEFINE row == [amount |-> 0, symbol |-> s]
           voters == (registries[s].total_voters + 1) % COUNTER_RANGE
           reg == [registries[s] EXCEPT !.total_voters = voters]
<1>1. /\ registries[s] # Nil /\ balances[s][voter] = Nil
      /\ balances' = Put(balances, s, voter, row)
      /\ registries' = [registries EXCEPT ![s] = reg]
      /\ airgrabs' = airgrabs /\ stranded' = stranded
  BY DEF RegVoter, Put
<1>2. /\ registries[s] \in registry /\ registries[s].settings.counterbal_decay_rate > 0
      /\ s # VOTE => registries[s].supply <= registries[s].max_supply
      /\ balances \in RowsOf(Symbol) /\ airgrabs \in RowsOf(Publisher)
  BY <1>1 DEF Tables, Supplied, Accounted
<1>3. voters \in 0..(COUNTER_RANGE - 1)
  <2>1. registries[s].total_voters + 1 \in Int
    BY <1>2, ConstantsAssumption, RegistryFields
  <2>2. QED
    BY <2>1, CounterRange
<1> HIDE DEF voters
<1>4. /\ reg \in registry /\ reg.supply = registries[s].supply
      /\ reg.max_supply = registries[s].max_supply
      /\ reg.settings = registries[s].settings
  BY <1>2, <1>3 DEF registry
<1>5. row \in Tokens /\ row.amount = 0
  BY DEF Tokens
<1> HIDE DEF reg, row
<1>6. /\ balances' \in RowsOf(Symbol)
      /\ \A t : HeldIn(balances', airgrabs, t)
                  = HeldIn(balances, airgrabs, t) + AmountOf(row, t) - AmountOf(balances[s][voter], t)
  BY <1>1, <1>2, <1>5, PutBalance
<1> DEFINE d == 0
<1>7. ASSUME NEW t
      PROVE  HeldIn(balances', airgrabs', t) = HeldIn(balances, airgrabs, t) + Part(d, s, t)
  <2>1. AmountOf(row, t) = 0 /\ AmountOf(balances[s][voter], t) = 0 /\ Part(d, s, t) = 0
    BY <1>1, <1>5 DEF AmountOf, Part
  <2>2. HeldIn(balances, airgrabs, t) \in Nat
    BY <1>2, HeldNat
  <2>3. QED
    BY <1>1, <1>6, <2>1, <2>2
<1>8. d \in Int /\ reg.supply = registries[s].supply + d
  BY <1>2, <1>4, RegistryFields
<1> HIDE DEF d
<1>9. /\ s # VOTE => reg.supply <= reg.max_supply
      /\ reg.settings.counterbal_decay_rate > 0
  BY <1>2, <1>4
<1>10. airgrabs' \in RowsOf(Publisher)
  BY <1>1, <1>2
<1>11. QED
  BY <1>1, <1>4, <1>6, <1>7, <1>8, <1>9, <1>10, SupplyMoves

\* One that leaves takes its balance out of the supply, too.
LEMMA UnregVoterKeeps ==
  ASSUME Tables, Supplied, NEW s \in Symbol, NEW voter \in Account, UnregVoter(voter, s)
  PROVE  Tables' /\ Supplied'
<1> DEFINE old == balances[s][voter]
           supply == registries[s].supply - old.amount
           voters == (registries[s].total_voters - 1) % COUNTER_RANGE
           reg == [registries[s] EXCEPT !.supply = supply, !.total_voters = voters]
           d == 0 - old.amount
<1>1. /\ registries[s] # Nil /\ Holds(old, s, 0)
      /\ balances' = Put(balances, s, voter, Nil)
      /\ airgrabs' = airgrabs /\ stranded' = stranded
  BY DEF UnregVoter, Put
<1>2. /\ registries[s] \in registry /\ registries[s].settings.counterbal_decay_rate > 0
      /\ s # VOTE => registries[s].supply <= registries[s].max_supply
      /\ balances \in RowsOf(Symbol) /\ airgrabs \in RowsOf(Publisher)
  BY <1>1 DEF Tables, Supplied, Accounted
<1>3. old \in Tokens /\ old.symbol = s /\ old # Nil /\ old.amount \in Nat
  BY <1>1, <1>2 DEF Holds, RowsOf, Tokens
<1>4. /\ voters \in 0..(COUNTER_RANGE - 1)
      /\ supply \in Int /\ supply <= registries[s].supply /\ supply = registries[s].supply + d
      /\ d \in Int /\ registries[s].max_supply \in Int /\ registries[s].supply \in Int
  <2>1. /\ registries[s].max_supply \in Int /\ registries[s].supply \in Int
        /\ registries[s].total_voters \in Int /\ COUNTER_RANGE \in Nat \ {0}
    BY <1>2, ConstantsAssumption, RegistryFields
  <2>2. voters \in 0..(COUNTER_RANGE - 1)
    <3>1. registries[s].total_voters - 1 \in Int
      BY <2>1
    <3>2. QED
      BY <3>1, CounterRange
  <2> HIDE DEF voters, old
  <2>3. QED
    BY <1>3, <2>1, <2>2
<1>5. registries' = [registries EXCEPT ![s] = reg]
  <2>1. registries' = [registries EXCEPT ![s].supply = supply, ![s].total_voters = voters]
    BY DEF UnregVoter
  <2> HIDE DEF supply, voters
  <2>2. QED
    BY <2>1 DEF Tables
<1> HIDE DEF supply, voters
<1>6. /\ reg \in registry /\ reg.supply = supply
      /\ reg.max_supply = registries[s].max_supply
      /\ reg.settings = registries[s].settings
  BY <1>2, <1>4 DEF registry
<1> HIDE DEF reg, d
<1>7. /\ balances' \in RowsOf(Symbol)
      /\ \A t : HeldIn(balances', airgrabs, t)
                  = HeldIn(balances, airgrabs, t) + AmountOf(Nil, t) - AmountOf(old, t)
  BY <1>1, <1>2, PutBalance
<1>8. ASSUME NEW t
      PROVE  HeldIn(balances', airgrabs', t) = HeldIn(balances, airgrabs, t) + Part(d, s, t)
  <2>1. AmountOf(Nil, t) = 0 /\ Part(d, s, t) = 0 - AmountOf(old, t)
    BY <1>3 DEF AmountOf, Part, d
  <2>2. HeldIn(balances, airgrabs, t) \in Nat /\ AmountOf(old, t) \in Nat
    BY <1>2, <1>3, HeldNat, AmountNat
  <2> HIDE DEF old
  <2>3. QED
    BY <1>1, <1>7, <2>1, <2>2
<1>9. /\ s # VOTE => reg.supply <= reg.max_supply
      /\ reg.settings.counterbal_decay_rate > 0
      /\ reg.supply = registries[s].supply + d
  BY <1>2, <1>4, <1>6
<1>10. airgrabs' \in RowsOf(Publisher)
  BY <1>1, <1>2
<1>11. QED
  BY <1>1, <1>4, <1>5, <1>6, <1>7, <1>8, <1>9, <1>10, SupplyMoves

-----------------------------------------------------------------------------
(* Counterbalances *)

\* A row decays by a whole number, and never below zero.
LEMMA DecayInt ==
  ASSUME Clocks, NEW row \in counter_balance \cup {Nil}, NEW rate \in Nat, rate > 0
  PROVE  /\ Decay(row, rate) \in Int
         /\ row # Nil => \A decay \in Int : Decayed(row, decay) \in Nat
<1>1. CASE row = Nil
  BY <1>1 DEF Decay
<1>2. CASE row # Nil
  <2>1. row.last_decay \in Int /\ now \in Int /\ row.decayable_cb \in Int
    BY <1>2, ConstantsAssumption DEF counter_balance, Clocks, Time
  <2>2. (now - row.last_decay) \div rate \in Int
    BY <2>1
  <2>3. QED
    BY <1>2, <2>1, <2>2 DEF Decay, Decayed, AtLeastZero
<1>3. QED
  BY <1>1, <1>2

\* What a transfer makes of its parties' rows.
LEMMA PartiesTyped ==
  ASSUME Clocks, NEW row \in counter_balance \cup {Nil}, NEW decay \in Int,
         NEW amount \in Int, amount > 0
  PROVE  /\ SenderCb(row, decay, amount) \in counter_balance
         /\ RecipientCb(row, decay, amount) \in counter_balance
<1>1. now \in Time
  BY DEF Clocks
<1>2. CASE row = Nil
  BY <1>1, <1>2 DEF SenderCb, RecipientCb, counter_balance
<1>3. CASE row # Nil
  <2>1. row \in counter_balance /\ row.decayable_cb \in Int
    BY <1>3 DEF counter_balance
  <2> DEFINE less == AtLeastZero(row.decayable_cb - decay - amount)
             more == AtLeastZero(row.decayable_cb - decay) + amount
  <2>2. less \in Nat /\ more \in Nat
    BY <2>1 DEF AtLeastZero
  <2>3. /\ SenderCb(row, decay, amount) = [row EXCEPT !.decayable_cb = less]
        /\ RecipientCb(row, decay, amount) = [row EXCEPT !.decayable_cb = more]
    BY <1>3 DEF SenderCb, RecipientCb, Decayed
  <2> HIDE DEF less, more
  <2>4. QED
    BY <2>1, <2>2, <2>3 DEF counter_balance
<1>4. QED
  BY <1>2, <1>3

\* Two rows of a symbol are written.
LEMMA TwoCbs ==
  ASSUME NEW table \in CbsOf, NEW s \in Symbol, NEW a \in Holder, NEW b \in Holder,
         NEW row \in counter_balance, NEW other \in counter_balance
  PROVE  [table EXCEPT ![s][a] = row, ![s][b] = other] \in CbsOf
<1> DEFINE mid == [table EXCEPT ![s][a] = row]
<1>1. mid \in CbsOf
  BY DEF CbsOf
<1> HIDE DEF mid
<1>2. [mid EXCEPT ![s][b] = other] \in CbsOf
  BY <1>1 DEF CbsOf
<1>3. QED
  BY <1>2 DEF mid

\* Counterbalances of the parties of a transfer of tokens.
LEMMA TransferClocks ==
  ASSUME Tables, Clocks, NEW s \in Symbol, NEW sender \in Account, NEW recipient \in Account,
         NEW q \in Int, Transfer(sender, recipient, s, q)
  PROVE  Clocks'
<1> DEFINE rate == registries[s].settings.counterbal_decay_rate
           from == counterbals[s][sender]
           to == counterbals[s][recipient]
           row == SenderCb(from, Decay(from, rate), q)
           other == RecipientCb(to, Decay(to, rate), q)
<1>1. q > 0 /\ registries[s] # Nil /\ sender # recipient /\ now' = now
  BY DEF Transfer
<1>2. rate \in Nat /\ rate > 0
  BY <1>1, RegistryFields DEF Tables
<1>3. /\ sender \in Holder /\ recipient \in Holder /\ counterbals \in CbsOf
      /\ from \in counter_balance \cup {Nil} /\ to \in counter_balance \cup {Nil}
  BY DEF Holder, CbsOf, Clocks
<1> HIDE DEF rate, from, to
<1>4. Decay(from, rate) \in Int /\ Decay(to, rate) \in Int
  BY <1>2, <1>3, DecayInt
<1>5. row \in counter_balance /\ other \in counter_balance
  BY <1>1, <1>3, <1>4, PartiesTyped
<1> DEFINE mid == [counterbals EXCEPT ![s][sender] = row]
<1>6. mid \in CbsOf /\ mid[s][recipient] = to
  BY <1>1, <1>3, <1>5 DEF CbsOf, to
<1>7. counterbals' = [counterbals EXCEPT ![s][sender] = row, ![s][recipient] = other]
  BY <1>1, <1>3 DEF Transfer, CbsOf, from, to, rate
<1> HIDE DEF row, other
<1>8. counterbals' \in CbsOf
  BY <1>3, <1>5, <1>7, TwoCbs
<1>9. QED
  BY <1>1, <1>8 DEF Clocks

\* And of TLOS, when the contract is told of it.
LEMMA TlosTransferClocks ==
  ASSUME Clocks, NEW from \in Holder, NEW to \in Holder, NEW q \in Int, TlosTransfer(from, to, q)
  PROVE  Clocks'
<1>1. q > 0 /\ from # to /\ now' = now /\ VOTE \in Symbol
  BY ConstantsAssumption DEF TlosTransfer, TLOS!Transfer
<1>2. CASE Self \notin {from, to}
  BY <1>1, <1>2 DEF TlosTransfer, NotifiedOfTransfer, Clocks
<1>3. CASE Self \in {from, to}
  <2> DEFINE payer == counterbals[VOTE][from]
             payee == counterbals[VOTE][to]
             none == 0
             row == SenderCb(payer, none, q)
             other == RecipientCb(payee, none, q)
  <2>1. /\ counterbals \in CbsOf
        /\ payer \in counter_balance \cup {Nil} /\ payee \in counter_balance \cup {Nil}
    BY <1>1 DEF CbsOf, Clocks
  <2>20. none \in Int
    OBVIOUS
  <2> HIDE DEF payer, payee, none
  <2>2. row \in counter_balance /\ other \in counter_balance
    BY <1>1, <2>1, <2>20, PartiesTyped
  <2>3. counterbals' = [counterbals EXCEPT ![VOTE][from] = row, ![VOTE][to] = other]
    BY <1>1, <1>3, <2>1 DEF TlosTransfer, NotifiedOfTransfer, CbsOf, payer, payee, none
  <2> HIDE DEF row, other
  <2>4. counterbals' \in CbsOf
    BY <1>1, <2>1, <2>2, <2>3, TwoCbs
  <2>5. QED
    BY <1>1, <2>4 DEF Clocks
<1>4. QED
  BY <1>2, <1>3

\* Votes are cast for the TLOS of a voter: they replace what it had, in its
\* balance and in the supply.
LEMMA MirrorCastKeeps ==
  ASSUME TokensInv, NEW voter \in Account, MirrorCast(voter)
  PROVE  Tables' /\ Supplied' /\ Clocks'
<1> DEFINE max_votes == get_liquid_tlos(voter) + Staked[voter]
           cb == counterbals[VOTE][voter]
           new_cb == IF cb = Nil THEN 0 ELSE Decayed(cb, Decay(cb, DECAY_RATE))
           new_votes == AtLeastZero(max_votes - new_cb)
           old == balances[VOTE][voter]
           supply == CastSupply(registries[VOTE].supply, old.amount, new_votes)
           reg == [registries[VOTE] EXCEPT !.supply = supply]
           after == Put(balances, VOTE, voter, [balances[VOTE][voter] EXCEPT !.amount = new_votes])
           d == new_votes - old.amount
           row == IF cb = Nil THEN Nil ELSE [cb EXCEPT !.decayable_cb = new_cb]
<1>1. Tables /\ Supplied /\ Clocks /\ TlosInv
  BY DEF TokensInv
<1>2. VOTE \in Symbol /\ DECAY_RATE \in Nat /\ DECAY_RATE > 0 /\ Staked[voter] \in Nat /\ voter \in Holder
  BY ConstantsAssumption DEF Holder
<1>3. /\ registries[VOTE] # Nil /\ Holds(old, VOTE, 0)
      /\ now' = now /\ airgrabs' = airgrabs /\ stranded' = stranded
  BY DEF MirrorCast
<1>4. balances' = [balances EXCEPT ![VOTE][voter].amount = new_votes]
  BY DEF MirrorCast
<1>5. registries' = [registries EXCEPT ![VOTE].supply = supply]
  BY DEF MirrorCast
<1>6. counterbals' = [counterbals EXCEPT ![VOTE][voter] =
                        IF @ = Nil THEN Nil ELSE [@ EXCEPT !.decayable_cb = new_cb]]
  BY DEF MirrorCast
<1>7. cb \in counter_balance \cup {Nil} /\ counterbals \in CbsOf
  BY <1>1, <1>2 DEF Clocks, CbsOf
<1>8. new_cb \in Nat
  BY <1>1, <1>2, <1>7, DecayInt
<1>9. max_votes \in Int
  BY <1>1, <1>2 DEF get_liquid_tlos, TlosInv, LedgerOf
<1>10. new_votes \in Nat
  BY <1>8, <1>9 DEF AtLeastZero
<1> HIDE DEF max_votes, new_votes, new_cb
<1>11. /\ balances \in RowsOf(Symbol) /\ airgrabs \in RowsOf(Publisher)
       /\ old \in Tokens /\ old # Nil /\ old.symbol = VOTE /\ old.amount \in Nat
  BY <1>1, <1>2, <1>3 DEF Tables, RowsOf, Holds, Tokens
<1>12. registries[VOTE].supply \in Int
  BY <1>1, <1>2, <1>3, RegistryFields DEF Tables
<1>13. supply = registries[VOTE].supply + d /\ d \in Int /\ supply \in Int
  BY <1>10, <1>11, <1>12 DEF CastSupply
<1> HIDE DEF supply
<1>14. /\ reg \in registry /\ reg.supply = registries[VOTE].supply + d
       /\ reg.settings.counterbal_decay_rate > 0
  BY <1>1, <1>2, <1>3, <1>13, RegistrySupply
<1>15. registries' = [registries EXCEPT ![VOTE] = reg] /\ balances' = after
  BY <1>4, <1>5 DEF Put
<1> HIDE DEF reg, d
<1>16. /\ after \in RowsOf(Symbol)
       /\ \A t : HeldIn(after, airgrabs, t) = HeldIn(balances, airgrabs, t) + Part(d, VOTE, t)
  BY <1>2, <1>10, <1>11, BalanceSet DEF d
<1> HIDE DEF after
<1>17. Tables' /\ Supplied'
  BY <1>1, <1>2, <1>3, <1>11, <1>13, <1>14, <1>15, <1>16, SupplyMoves
<1>18. row \in counter_balance \cup {Nil}
  BY <1>7, <1>8 DEF counter_balance
<1>19. counterbals' = [counterbals EXCEPT ![VOTE][voter] = row]
  BY <1>6
<1> HIDE DEF row
<1>20. counterbals' \in CbsOf
  BY <1>2, <1>7, <1>18, <1>19 DEF CbsOf
<1>21. QED
  BY <1>1, <1>3, <1>17, <1>20 DEF Clocks

-----------------------------------------------------------------------------
(* Seizures in turn *)

\* A seizure, unless one before it failed.
TurnOf(after, publisher, owner, s, q) ==
  IF after = Nil THEN Nil ELSE Seized(after, publisher, owner, s, q)

\* The functions that solve the recursion of the seizures over positions P.
Turns(iter, line, publisher, group, s, q, P) ==
  iter = [r \in SUBSET P |->
            IF r = {} THEN line
            ELSE TurnOf(iter[r \ {Max(r)}], publisher, group[Max(r)], s, q)]

\* The seizures are the value of a solution.
LEMMA TurnsAre ==
  ASSUME NEW line, NEW publisher, NEW group, NEW s, NEW q
  PROVE  SeizedInTurn(line, publisher, group, s, q)
           = (CHOOSE iter : Turns(iter, line, publisher, group, s, q, DOMAIN group))[DOMAIN group]
BY DEF SeizedInTurn, FoldLeft, MapThenFoldSet, Turns, TurnOf

\* There is one: over all positions but the last, and the last follows.
LEMMA TurnsExist ==
  ASSUME NEW line, NEW publisher, NEW group, NEW s, NEW q, NEW n \in Nat
  PROVE  \E iter : Turns(iter, line, publisher, group, s, q, 1..n)
<1> DEFINE Solved(iter, P) == Turns(iter, line, publisher, group, s, q, P)
           C == {P \in SUBSET (1..n) : ~ \E iter : Solved(iter, P)}
           After(value, i) == TurnOf(value, publisher, group[i], s, q)
<1>1. ASSUME C # {}
      PROVE  FALSE
  <2>1. PICK P \in C : \A Q \in C : Q \subseteq P => Q = P
    <3> DEFINE D == 1..n
    <3>1. C \subseteq SUBSET D /\ IsFiniteSet(D)
      BY FS_Interval
    <3> HIDE DEF C, D
    <3>2. QED
      BY <1>1, <3>1, LeastSet
  <2>2. P # {}
    <3>1. Solved([r \in SUBSET {} |-> line], {})
      BY DEF Turns
    <3>2. QED
      BY <2>1, <3>1
  <2> DEFINE m == Max(P)
             Q == P \ {m}
  <2>3. /\ m \in P /\ \A r \in SUBSET P : r # {} => Max(r) \in r
        /\ \A r \in SUBSET P : m \in r => Max(r) = m
    BY <2>1, <2>2, MaxIn
  <2> HIDE DEF m
  <2>4. PICK g : Solved(g, Q)
    <3>1. Q \notin C
      BY <2>1, <2>3
    <3>2. QED
      BY <2>1, <3>1
  <2>5. g = [r \in SUBSET Q |-> IF r = {} THEN line ELSE After(g[r \ {Max(r)}], Max(r))]
    BY <2>4 DEF Turns
  <2> DEFINE h == [r \in SUBSET P |-> IF r = {} THEN line ELSE After(g[r \ {Max(r)}], Max(r))]
  <2> HIDE DEF After
  <2>6. ASSUME NEW r \in SUBSET P, r # {}
        PROVE  r \ {Max(r)} \in SUBSET Q
    <3>1. CASE m \in r
      BY <2>3, <3>1
    <3>2. CASE m \notin r
      BY <3>2
    <3>3. QED
      BY <3>1, <3>2
  <2>7. \A r \in SUBSET Q : h[r] = g[r]
    BY <2>5
  <2>8. \A r \in SUBSET P : r # {} => g[r \ {Max(r)}] = h[r \ {Max(r)}]
    BY <2>6, <2>7
  <2>9. h = [r \in SUBSET P |-> IF r = {} THEN line ELSE After(h[r \ {Max(r)}], Max(r))]
    <3> DEFINE k == [r \in SUBSET P |-> IF r = {} THEN line ELSE After(h[r \ {Max(r)}], Max(r))]
    <3>1. \A r \in SUBSET P : h[r] = k[r]
      BY <2>8
    <3>2. QED
      BY <3>1
  <2> HIDE DEF h
  <2>10. Solved(h, P)
    BY <2>9 DEF Turns, After
  <2>11. QED
    BY <2>1, <2>10
<1>2. QED
  BY <1>1

\* Balances of a symbol that replace others without changing what is held.
SameHeld(bals, grabs, s, after) ==
  after # Nil => /\ Line(bals, s, after) \in RowsOf(Symbol)
                 /\ \A t : HeldIn(Line(bals, s, after), grabs, t) = HeldIn(bals, grabs, t)

\* Each seizure keeps what is held.
LEMMA TurnMoves ==
  ASSUME NEW bals \in RowsOf(Symbol), NEW grabs \in RowsOf(Publisher),
         NEW s \in Symbol, NEW publisher \in Publisher, NEW owner \in Account, NEW q \in Nat,
         NEW after, SameHeld(bals, grabs, s, after)
  PROVE  SameHeld(bals, grabs, s, TurnOf(after, publisher, owner, s, q))
<1> DEFINE then == TurnOf(after, publisher, owner, s, q)
           mid == Line(bals, s, after)
<1>1. ASSUME then # Nil
      PROVE  /\ Line(bals, s, then) \in RowsOf(Symbol)
             /\ \A t : HeldIn(Line(bals, s, then), grabs, t) = HeldIn(bals, grabs, t)
  <2>1. after # Nil /\ then = Seized(after, publisher, owner, s, q)
    BY <1>1 DEF TurnOf
  <2>2. mid \in RowsOf(Symbol) /\ \A t : HeldIn(mid, grabs, t) = HeldIn(bals, grabs, t)
    BY <2>1 DEF SameHeld
  <2>3. mid[s] = after
    BY DEF Line, RowsOf
  <2>4. \A x : Line(mid, s, x) = Line(bals, s, x)
    BY DEF Line
  <2> HIDE DEF mid
  <2>5. then = Seized(mid[s], publisher, owner, s, q)
    BY <2>1, <2>3
  <2> HIDE DEF then
  <2>6. /\ Line(mid, s, Seized(mid[s], publisher, owner, s, q)) \in RowsOf(Symbol)
        /\ \A t : HeldIn(Line(mid, s, Seized(mid[s], publisher, owner, s, q)), grabs, t)
                    = HeldIn(mid, grabs, t)
    <3>1. Seized(mid[s], publisher, owner, s, q) # Nil
      BY <1>1, <2>5
    <3>2. QED
      BY <2>2, <3>1, SeizedMoves
  <2>7. QED
    BY <2>2, <2>4, <2>5, <2>6
<1>2. QED
  BY <1>1 DEF SameHeld

\* And so do all of them.
LEMMA TurnsMove ==
  ASSUME NEW bals \in RowsOf(Symbol), NEW grabs \in RowsOf(Publisher),
         NEW s \in Symbol, NEW publisher \in Publisher, NEW group \in Seq(Account), NEW q \in Nat
  PROVE  SameHeld(bals, grabs, s, SeizedInTurn(bals[s], publisher, group, s, q))
<1> DEFINE n == Len(group)
           iter == CHOOSE i : Turns(i, bals[s], publisher, group, s, q, 1..n)
           C == {r \in SUBSET (1..n) : ~ SameHeld(bals, grabs, s, iter[r])}
<1>1. n \in Nat /\ DOMAIN group = 1..n /\ \A i \in 1..n : group[i] \in Account
  OBVIOUS
<1> HIDE DEF n
<1>2. Turns(iter, bals[s], publisher, group, s, q, 1..n)
  BY <1>1, TurnsExist
<1> HIDE DEF iter
<1>3. ASSUME NEW r \in SUBSET (1..n)
      PROVE  iter[r] = IF r = {} THEN bals[s]
                       ELSE TurnOf(iter[r \ {Max(r)}], publisher, group[Max(r)], s, q)
  BY <1>2 DEF Turns
<1>4. ASSUME C # {}
      PROVE  FALSE
  <2>1. PICK r \in C : \A t \in C : t \subseteq r => t = r
    <3> DEFINE D == 1..n
    <3>1. C \subseteq SUBSET D /\ IsFiniteSet(D)
      BY <1>1, FS_Interval
    <3> HIDE DEF C, D
    <3>2. QED
      BY <1>4, <3>1, LeastSet
  <2>2. CASE r = {}
    <3>1. Line(bals, s, bals[s]) = bals
      BY DEF Line, RowsOf
    <3>2. SameHeld(bals, grabs, s, bals[s])
      BY <3>1 DEF SameHeld
    <3>3. QED
      BY <1>3, <2>1, <2>2, <3>2
  <2>3. CASE r # {}
    <3> DEFINE m == Max(r)
               p == r \ {m}
    <3>1. m \in r
      BY <1>1, <2>1, <2>3, MaxIn
    <3>2. p \notin C
      BY <2>1, <3>1
    <3>3. SameHeld(bals, grabs, s, iter[p])
      BY <2>1, <3>2
    <3>4. group[m] \in Account
      BY <1>1, <2>1, <3>1
    <3>5. SameHeld(bals, grabs, s, TurnOf(iter[p], publisher, group[m], s, q))
      BY <3>3, <3>4, TurnMoves
    <3>6. iter[r] = TurnOf(iter[p], publisher, group[m], s, q)
      BY <1>3, <2>1, <2>3
    <3>7. QED
      BY <2>1, <3>5, <3>6
  <2>4. QED
    BY <2>2, <2>3
<1>5. SameHeld(bals, grabs, s, iter[1..n])
  BY <1>4
<1>6. SeizedInTurn(bals[s], publisher, group, s, q) = iter[1..n]
  BY <1>1, TurnsAre DEF iter
<1>7. QED
  BY <1>5, <1>6

\* What is seized from a group was the group's.
LEMMA SeizeByGroupKeeps ==
  ASSUME Tables, Supplied, NEW s \in Symbol, NEW publisher \in Publisher,
         NEW group \in Groups, NEW q \in Int, SeizeByGroup(publisher, group, s, q)
  PROVE  Tables' /\ Supplied'
<1> DEFINE after == SeizedInTurn(balances[s], publisher, group, s, q)
<1>1. /\ q \in Nat /\ after # Nil /\ balances' = Line(balances, s, after)
      /\ airgrabs' = airgrabs /\ registries' = registries /\ stranded' = stranded
  BY DEF SeizeByGroup, Seizable, Line
<1>2. balances \in RowsOf(Symbol) /\ airgrabs \in RowsOf(Publisher) /\ group \in Seq(Account)
  BY ConstantsAssumption DEF Tables
<1>3. SameHeld(balances, airgrabs, s, after)
  BY <1>1, <1>2, TurnsMove
<1> HIDE DEF after
<1>4. QED
  BY <1>1, <1>2, <1>3, HeldMoves DEF SameHeld

-----------------------------------------------------------------------------
(* The theorems *)

\* A step of a registry.
LEMMA RegistryStep ==
  ASSUME TokensInv, RegistryNext
  PROVE  Tables' /\ Supplied' /\ Clocks'
<1>1. Tables /\ Supplied /\ Clocks /\ Quantity \subseteq Int
  BY ConstantsAssumption DEF TokensInv
<1>2. PICK s \in Symbol :
        \/ \E publisher \in Publisher :
             \/ \E max_supply \in MaxSupplies : RegToken(s, max_supply, publisher)
             \/ \E settings \in Settings : InitSettings(publisher, s, settings)
             \/ \E q \in Quantity : RaiseMax(publisher, s, q) \/ LowerMax(publisher, s, q)
        \/ UnregToken(s)
  BY DEF RegistryNext
<1>3. ASSUME NEW publisher \in Publisher, NEW max_supply \in MaxSupplies,
             RegToken(s, max_supply, publisher)
      PROVE  Tables' /\ Supplied' /\ UNCHANGED <<now, counterbals>>
  BY <1>1, <1>3, RegTokenKeeps DEF RegToken
<1>4. ASSUME NEW publisher \in Publisher, NEW settings \in Settings,
             InitSettings(publisher, s, settings)
      PROVE  Tables' /\ Supplied' /\ UNCHANGED <<now, counterbals>>
  <2>1. UNCHANGED <<now, counterbals>>
    BY <1>4 DEF InitSettings
  <2>2. QED
    BY <1>1, <1>4, <2>1, InitSettingsKeeps
<1>5. ASSUME NEW publisher \in Publisher, NEW q \in Quantity,
             RaiseMax(publisher, s, q) \/ LowerMax(publisher, s, q)
      PROVE  Tables' /\ Supplied' /\ UNCHANGED <<now, counterbals>>
  <2>1. UNCHANGED <<now, counterbals>>
    BY <1>5 DEF RaiseMax, LowerMax
  <2>2. QED
    BY <1>1, <1>5, <2>1, MaxKeeps
<1>6. ASSUME UnregToken(s)
      PROVE  Tables' /\ Supplied' /\ UNCHANGED <<now, counterbals>>
  BY <1>1, <1>6, UnregTokenKeeps DEF UnregToken
<1>7. Tables' /\ Supplied' /\ UNCHANGED <<now, counterbals>>
  BY <1>2, <1>3, <1>4, <1>5, <1>6
<1>8. QED
  BY <1>1, <1>7 DEF Clocks

\* A step of a holder.
LEMMA HolderStep ==
  ASSUME TokensInv, HolderNext
  PROVE  Tables' /\ Supplied' /\ Clocks'
<1>1. Tables /\ Supplied /\ Clocks /\ Quantity \subseteq Int
  BY ConstantsAssumption DEF TokensInv
<1>2. UNCHANGED <<now, counterbals>> => Clocks'
  BY <1>1 DEF Clocks
<1>3. ASSUME NEW s \in Symbol, NEW publisher \in Publisher, NEW a \in Account, NEW q \in Quantity,
             NEW airgrab \in BOOLEAN, IssueToken(publisher, a, s, q, airgrab)
      PROVE  Tables' /\ Supplied' /\ Clocks'
  BY <1>1, <1>2, <1>3, IssueTokenKeeps DEF IssueToken
<1>4. ASSUME NEW s \in Symbol, NEW publisher \in Publisher, NEW a \in Account, NEW q \in Quantity,
             SeizeToken(publisher, a, s, q)
      PROVE  Tables' /\ Supplied' /\ Clocks'
  BY <1>1, <1>2, <1>4, SeizeTokenKeeps DEF SeizeToken
<1>5. ASSUME NEW s \in Symbol, NEW publisher \in Publisher, NEW a \in Account, NEW q \in Quantity,
             SeizeAirgrab(publisher, a, s, q)
      PROVE  Tables' /\ Supplied' /\ Clocks'
  BY <1>1, <1>2, <1>5, SeizeAirgrabKeeps DEF SeizeAirgrab
<1>6. ASSUME NEW s \in Symbol, NEW publisher \in Publisher, NEW q \in Quantity,
             NEW group \in Groups, SeizeByGroup(publisher, group, s, q)
      PROVE  Tables' /\ Supplied' /\ Clocks'
  BY <1>1, <1>2, <1>6, SeizeByGroupKeeps DEF SeizeByGroup
<1>7. ASSUME NEW s \in Symbol, NEW a \in Account, NEW b \in Account, NEW q \in Quantity,
             Transfer(a, b, s, q)
      PROVE  Tables' /\ Supplied' /\ Clocks'
  BY <1>1, <1>7, TransferKeeps, TransferClocks
<1>8. ASSUME NEW s \in Symbol, NEW a \in Account, NEW q \in Quantity, BurnToken(a, s, q)
      PROVE  Tables' /\ Supplied' /\ Clocks'
  BY <1>1, <1>2, <1>8, BurnTokenKeeps DEF BurnToken
<1>9. ASSUME NEW s \in Symbol, NEW a \in Account, ClaimAirgrab(a, s)
      PROVE  Tables' /\ Supplied' /\ Clocks'
  BY <1>1, <1>2, <1>9, ClaimAirgrabKeeps DEF ClaimAirgrab
<1>10. ASSUME NEW s \in Symbol, NEW a \in Account, RegVoter(a, s) \/ UnregVoter(a, s)
       PROVE  Tables' /\ Supplied' /\ Clocks'
  <2>1. UNCHANGED <<now, counterbals>>
    BY <1>10 DEF RegVoter, UnregVoter
  <2>2. QED
    BY <1>1, <1>2, <1>10, <2>1, RegVoterKeeps, UnregVoterKeeps
<1>11. QED
  BY <1>3, <1>4, <1>5, <1>6, <1>7, <1>8, <1>9, <1>10, Zenon DEF HolderNext

\* Every step keeps the invariant.
LEMMA TokensStep == TokensInv /\ [Next]_vars => TokensInv'
<1> SUFFICES ASSUME TokensInv, [Next]_vars
             PROVE  TokensInv'
  OBVIOUS
<1>1. TlosInv'
  <2>1. TlosInv
    BY DEF TokensInv
  <2>2. UNCHANGED tlosVars => TlosInv'
    BY <2>1 DEF TlosInv, tlosVars
  <2>3. QED
    BY <2>1, <2>2, TlosStep, TlosSteps
<1>2. Tables /\ Supplied /\ Clocks
  BY DEF TokensInv
<1>3. UNCHANGED <<registries, balances, airgrabs, stranded>> => Tables' /\ Supplied'
  BY <1>2 DEF Tables, Supplied
<1>4. UNCHANGED <<now, counterbals>> => Clocks'
  BY <1>2 DEF Clocks
<1>5. ASSUME Tick
      PROVE  Tables' /\ Supplied' /\ Clocks'
  <2>1. now' \in Time /\ counterbals' = counterbals
    BY <1>2, <1>5, ConstantsAssumption DEF Tick, Clocks, Time
  <2>2. Clocks'
    BY <1>2, <2>1 DEF Clocks
  <2>3. QED
    BY <1>3, <1>5, <2>2 DEF Tick
<1>6. ASSUME NEW voter \in Account, MirrorCast(voter)
      PROVE  Tables' /\ Supplied' /\ Clocks'
  BY <1>6, MirrorCastKeeps
<1>7. ASSUME NEW from \in Account \cup {Self}, NEW to \in Account \cup {Self}, NEW q \in Quantity,
             TlosTransfer(from, to, q)
      PROVE  Tables' /\ Supplied' /\ Clocks'
  <2>1. from \in Holder /\ to \in Holder /\ q \in Int
    BY ConstantsAssumption DEF Holder
  <2>2. Clocks'
    BY <1>2, <1>7, <2>1, TlosTransferClocks
  <2>3. QED
    BY <1>3, <1>7, <2>2 DEF TlosTransfer
<1>8. ASSUME TlosOther
      PROVE  Tables' /\ Supplied' /\ Clocks'
  BY <1>3, <1>4, <1>8 DEF TlosOther
<1>9. ASSUME UNCHANGED vars
      PROVE  Tables' /\ Supplied' /\ Clocks'
  BY <1>3, <1>4, <1>9 DEF vars
<1>10. Tables' /\ Supplied' /\ Clocks'
  BY <1>5, <1>6, <1>7, <1>8, <1>9, RegistryStep, HolderStep, Zenon DEF Next
<1>11. QED
  BY <1>1, <1>10 DEF TokensInv

\* There is nothing at first.
LEMMA TokensStart == Init => TokensInv
<1> SUFFICES ASSUME Init
             PROVE  TokensInv
  OBVIOUS
<1>1. /\ now = 0
      /\ registries = [s \in Symbol |-> Nil]
      /\ balances = [s \in Symbol |-> [a \in Account |-> Nil]]
      /\ airgrabs = [p \in Publisher |-> [a \in Account |-> Nil]]
      /\ counterbals = [s \in Symbol |-> [a \in Holder |-> Nil]]
      /\ stranded = [s \in Symbol |-> 0]
  BY DEF Init, TrailInit, Holder
<1>2. Tables
  BY <1>1 DEF Tables, RowsOf
<1>3. Supplied
  BY <1>1 DEF Supplied
<1>4. Clocks
  BY <1>1, ConstantsAssumption DEF Clocks, CbsOf, Time
<1>5. QED
  BY <1>2, <1>3, <1>4, TlosStart DEF TokensInv

\* Every state has the types of its tables: those of the code's rows.
THEOREM TokensTypes == Spec => []TypeOK
<1>1. TokensInv => TypeOK
  <2> SUFFICES ASSUME TokensInv
               PROVE  TypeOK
    OBVIOUS
  <2>1. TLOS!TypeOK
    BY TlosInvIs DEF TokensInv
  <2>2. Tables /\ Clocks
    BY DEF TokensInv
  <2>3. QED
    BY <2>1, <2>2 DEF TypeOK, Tables, Clocks, RowsOf, CbsOf, Holder
<1>2. QED
  BY <1>1, TokensStart, TokensStep, PTL DEF Spec

\* In every state a registry's supply is what is held and can be claimed, less
\* what was there when it was made, and but for VOTE within its maximum:
\* SupplyIsHeld, for any number of accounts, symbols, settings and groups.
THEOREM Supply == Spec => []SupplyIsHeld
<1>1. TokensInv => SupplyIsHeld
  BY DEF TokensInv, Supplied, Accounted, SupplyIsHeld, Held, HeldIn
<1>2. QED
  BY <1>1, TokensStart, TokensStep, PTL DEF Spec
=============================================================================
