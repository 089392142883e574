-------------------------------- MODULE MC_Rex --------------------------------
(***************************************************************************)
(* Small instances of RamMarket, and with it of NameBids and Rex, for TLC. *)
(* Each behaviour is about loans, savings, stake, names or RAM, its focus: *)
(* the actions and amounts that matter to it, from nothing.  Alice lends,  *)
(* Bob rents.                                                              *)
(***************************************************************************)
EXTENDS RamMarket

VARIABLE focus

CONSTANTS alice, bob, bp1, n1, n2

LOANS == "loans"
SAVINGS == "savings"
STAKING == "staking"
NAMES == "names"
RAM == "ram"

VoteWeights == [n \in 0..Cardinality(Producer) |-> n]

\* Time passes until then.
End == [f \in {LOANS, SAVINGS, STAKING, NAMES, RAM} |->
          CASE f = RAM -> 2 [] f = NAMES -> 3 [] f = SAVINGS -> MaxTime [] f = LOANS -> 4
            [] OTHER -> 3]

MCInit ==
  /\ RamInit
  /\ focus \in DOMAIN End
  /\ LET supply == CASE focus \in {NAMES, RAM} -> 11 [] focus = LOANS -> 9 [] OTHER -> 7
     IN stat = [supply |-> supply, max_supply |-> supply, issuer |-> alice]
  /\ accounts = [a \in Account \cup SystemAccounts |->
                   IF a = alice THEN 5 ELSE IF a # bob THEN Nil ELSE IF focus \in {NAMES, RAM} THEN 6
                   ELSE IF focus = LOANS THEN 4 ELSE 2]

\* What is asked of an action, in each focus.
At(asked) == IF focus \in DOMAIN asked THEN asked[focus] ELSE {}

\* REX comes before names are bid for and RAM is bought.
IsEarly == /\ focus = NAMES => bids[n1] = Nil
           /\ focus = RAM => ram.quote = InitialQuote

Deposits == LOANS :> {<<alice, 4>>, <<bob, 2>>} @@ SAVINGS :> {<<alice, 4>>, <<bob, 2>>}
            @@ STAKING :> {<<alice, 4>>} @@ NAMES :> {<<alice, 1>>} @@ RAM :> {<<alice, 1>>}

Purchases == LOANS :> {4} @@ SAVINGS :> {2, 4} @@ STAKING :> {2} @@ NAMES :> {1} @@ RAM :> {1}

Sales == LOANS :> {2, 4} @@ SAVINGS :> {2, 4} @@ STAKING :> {1, 2} @@ NAMES :> {1}

PoolCalls ==
  \/ IsEarly /\ \/ \E d \in At(Deposits) : Deposit(d[1], d[2])
                \/ \E amount \in At(Purchases) : BuyRex(alice, amount)
  \/ \E rex \in At(Sales) : SellRex(alice, rex)
  \/ \E fund \in At(LOANS :> {0, 1} @@ SAVINGS :> {0}), r \in RESOURCES :
       RentRex(r, bob, bob, 1, fund)
  \/ \E owner \in At(LOANS :> {bob} @@ SAVINGS :> {alice}) : CloseRex(owner)
  \/ \E max \in At(LOANS :> {1} @@ NAMES :> {1}) : RexExec(max)
  \/ focus \in {LOANS, SAVINGS} /\ CnclRexOrder(alice)

LoansNext ==
  \/ Withdraw(alice, 2) \/ Withdraw(bob, 1)
  \/ \E r \in RESOURCES : \E loan \in loans[r] : FundLoan(r, bob, loan, 1) \/ DefundLoan(r, bob, loan, 1)
  \/ \E balance \in {1, 3} : SetRex(balance)

SavingsNext ==
  \/ \E rex \in {2, 4} : MvToSavings(alice, rex) \/ MvFrSavings(alice, rex)
  \/ Consolidate(alice)

WithoutRex(A) == A /\ UNCHANGED rexOnlyVars

\* From an account of the contract somebody takes a token, once.
TakeOnce(from) == taken[from] = 0 /\ DistViaRex(from, 1)

StakingNext ==
  \/ WithoutRex(DelegateBw(alice, bob, 1, 0, FALSE))
  \/ UnstakeToRex(alice, bob, 1, 0)
  \/ WithoutRex((RegProducer(bp1) \/ VoteProducer(alice, {bp1})) /\ UNCHANGED bandwidthVars)
  \/ DistViaRex(bob, 2) \/ TakeOnce(STAKE_ACCOUNT) \/ UpdateRex(alice)

\* Bob may bid for one name, then Alice and Bob outbid each other for another.
NamesNext ==
  \/ bids[n1] = Nil /\ (BidName(bob, n2, 1) \/ BidName(alice, n1, 1))
  \/ bids[n1] # Nil /\ LET bid == bids[n1].high_bid + 1
                      IN bid \in 2..4 /\ BidName(IF bid = 3 THEN alice ELSE bob, n1, bid)
  \/ \E a \in Account : \E n \in NewName :
       \/ BidRefund(a, n) \/ DeferredBidRefund(a, n)
       \/ CloseName(n) \/ NewAccount(a, n)

\* Alice buys for both, Bob a number of bytes; Bob's stake and limits change
\* beside, and Alice may have REX before the first purchase.
MarketNext ==
  \/ SetRam(26) \/ SetRamRate(1)
  \/ \E a \in Account : BuyRam(alice, a, 5) \/ SellRam(a, 6)
  \/ BuyRamBytes(bob, bob, 6)
  \/ SetAcctRam(bob, 2) \/ UnsetAcctRam(bob)
  \/ /\ UNCHANGED <<ram, bidVars>>
     /\ \/ refunds[alice] = Nil /\ WithoutRex(DelegateBw(alice, bob, 1, 0, FALSE))
        \/ WithoutRex(UndelegateBw(alice, bob, 1, 0))
        \/ WithoutRex(SetALimits(bob, 4, 4, 4))

MCNext ==
  /\ UNCHANGED focus
  /\ \/ focus = RAM /\ activated /\ MarketNext
     \/ focus = NAMES /\ activated /\ NamesNext /\ UNCHANGED ram
     \/ /\ UNCHANGED <<bidVars, ram>>
        /\ \/ PoolCalls
           \/ now < End[focus] /\ WithoutRex(Tick)
           \/ focus \in {NAMES, RAM} /\ IsEarly /\ WithoutRex(Activate)
           \/ focus = LOANS /\ LoansNext
           \/ focus = SAVINGS /\ SavingsNext
           \/ \E from \in At(NAMES :> {NAMES_ACCOUNT} @@ RAM :> {RAM_ACCOUNT}) : TakeOnce(from)
           \/ focus = STAKING /\ StakingNext

MCSpec == MCInit /\ [][MCNext]_<<ramVars, focus>>
=============================================================================
