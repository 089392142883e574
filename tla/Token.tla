-------------------------------- MODULE Token --------------------------------
(***************************************************************************)
(* contracts/eosio.token, one token: its statistics and its balances.      *)
(* Tokens are kept under their symbols and never meet.  The payer of a     *)
(* row's memory is left out.  Accounts of the chain are not created here.  *)
(***************************************************************************)
EXTENDS Integers, FiniteSets, Functions

CONSTANTS Account,
          Quantity,   \* amounts given to the actions; an asset may be negative
          Nil         \* no row

VARIABLES stat,      \* [supply, max_supply, issuer], or no token yet
          accounts   \* owner -> balance

vars == <<stat, accounts>>

currency_stats == [supply : Int, max_supply : Int, issuer : Account]

Owners == {a \in Account : accounts[a] # Nil}

TypeOK == /\ stat \in currency_stats \cup {Nil}
          /\ accounts \in [Account -> Nat \cup {Nil}]
          /\ stat = Nil => Owners = {}

Init == /\ stat = Nil
        /\ accounts = [a \in Account |-> Nil]

sub_balance(table, owner, value) == [table EXCEPT ![owner] = @ - value]

add_balance(table, owner, value) ==
  [table EXCEPT ![owner] = IF @ = Nil THEN value ELSE @ + value]

CanPay(owner, value) == accounts[owner] # Nil /\ accounts[owner] >= value

Create(issuer, maximum_supply) ==
  /\ maximum_supply > 0
  /\ stat = Nil
  /\ stat' = [supply |-> 0, max_supply |-> maximum_supply, issuer |-> issuer]
  /\ UNCHANGED accounts

Issue(to, quantity) ==
  /\ stat # Nil
  /\ to = stat.issuer
  /\ quantity > 0
  /\ quantity <= stat.max_supply - stat.supply
  /\ stat' = [stat EXCEPT !.supply = @ + quantity]
  /\ accounts' = add_balance(accounts, to, quantity)

Retire(quantity) ==
  /\ stat # Nil
  /\ quantity > 0
  /\ CanPay(stat.issuer, quantity)
  /\ stat' = [stat EXCEPT !.supply = @ - quantity]
  /\ accounts' = sub_balance(accounts, stat.issuer, quantity)

Moved(from, to, quantity) ==
  add_balance(sub_balance(accounts, from, quantity), to, quantity)

Transfer(from, to, quantity) ==
  /\ from # to
  /\ stat # Nil
  /\ quantity > 0
  /\ CanPay(from, quantity)
  /\ accounts' = Moved(from, to, quantity)
  /\ UNCHANGED stat

Open(owner) ==
  /\ stat # Nil
  /\ accounts' = [accounts EXCEPT ![owner] = IF @ = Nil THEN 0 ELSE @]
  /\ UNCHANGED stat

\* Mutant: a balance is closed with what is in it.
CloseAny(owner) ==
  /\ accounts[owner] # Nil
  /\ accounts' = [accounts EXCEPT ![owner] = Nil]
  /\ UNCHANGED stat

Close(owner) ==
  /\ accounts[owner] # Nil
  /\ accounts[owner] = 0
  /\ accounts' = [accounts EXCEPT ![owner] = Nil]
  /\ UNCHANGED stat

Next ==
  \/ \E a \in Account, q \in Quantity : Create(a, q) \/ Issue(a, q)
  \/ \E q \in Quantity : Retire(q)
  \/ \E from, to \in Account, q \in Quantity : Transfer(from, to, q)
  \/ \E a \in Account : Open(a) \/ Close(a)

Spec == Init /\ [][Next]_vars

-----------------------------------------------------------------------------
(* Properties *)

\* What an owner has.
Balance(owner) == IF accounts[owner] = Nil THEN 0 ELSE accounts[owner]

\* The supply is the sum of the balances and within its maximum, over any
\* order of issuing, retiring, transferring, opening and closing.
SupplyIsHeld ==
  stat # Nil =>
    /\ stat.supply = SumFunctionOnSet([a \in Account |-> Balance(a)], Account)
    /\ stat.supply <= stat.max_supply
=============================================================================
