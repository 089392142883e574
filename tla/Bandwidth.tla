------------------------------ MODULE Bandwidth ------------------------------
(***************************************************************************)
(* contracts/eosio.system: tokens staked for bandwidth, the requests and   *)
(* deferred transactions that pay them back, and the limits the node       *)
(* enforces.  Tokens lie in eosio.token (Token); stake counts in votes     *)
(* (Voting).  Accounts here are users: eosio.stake delegates nothing.      *)
(***************************************************************************)
EXTENDS Voting

CONSTANTS STAKE_ACCOUNT, REX_ACCOUNT, NAMES_ACCOUNT,
          RAM_ACCOUNT, RAMFEE_ACCOUNT, \* accounts of the system contract
          Delta,           \* amounts of NET and CPU given to the actions
          Limits,          \* arguments of setacctnet, -cpu, -ram and setalimits
          ram_gift_bytes,
          refund_delay_sec,
          LastCall         \* bound on the time of calls that create requests

VARIABLES activated,       \* the chain is: 1000 blocks, or enough stake (onblock)
          del_bandwidth,   \* from -> to -> weights; no row is kept for zeros
          userres,         \* account -> totals
          limits,          \* account -> what the node enforces
          refunds,         \* owner -> refund_request
          deferred,        \* owner -> time its refund is due at
          cancelled,       \* history: owners whose refund lost its transaction
          stat, accounts   \* eosio.token

tlosVars == <<stat, accounts>>
refundVars == <<refunds, deferred, cancelled>>
resourceVars == <<userres, limits>>
bandwidthVars == <<activated, del_bandwidth, resourceVars, refundVars, tlosVars>>
vars == <<votingVars, bandwidthVars>>

SystemAccounts == {STAKE_ACCOUNT, REX_ACCOUNT, NAMES_ACCOUNT, RAM_ACCOUNT, RAMFEE_ACCOUNT}

TLOS == INSTANCE Token WITH Account <- Account \cup SystemAccounts, Quantity <- Delta

Weights == [net : Nat, cpu : Nat]
Zero == [net |-> 0, cpu |-> 0]

user_resources == [net : Nat, cpu : Nat, ram_bytes : Nat]
NoResources == [net |-> 0, cpu |-> 0, ram_bytes |-> 0]

refund_request == [net : Nat, cpu : Nat, request_time : Time]

ASSUME BandwidthAssumption ==
  /\ SystemAccounts \cap Account = {} /\ Cardinality(SystemAccounts) = 5
  /\ Delta \subseteq Nat /\ Limits \subseteq Int /\ ram_gift_bytes \in Nat
  /\ refund_delay_sec \in Nat /\ LastCall + refund_delay_sec <= MaxTime
  /\ Nil \notin user_resources /\ Nil \notin refund_request /\ Nil \notin Int

TypeOK == /\ VotingTypeOK
          /\ activated \in BOOLEAN
          /\ del_bandwidth \in [Account -> [Account -> Weights]]
          /\ userres \in [Account -> user_resources \cup {Nil}]
          /\ limits \in [Account -> [ram : Int, net : Int, cpu : Int]]
          /\ refunds \in [Account -> refund_request \cup {Nil}]
          /\ deferred \in [Account -> Nat \cup {Nil}]
          /\ cancelled \subseteq Account
          /\ TLOS!TypeOK

\* Accounts exist: newaccount has made a row of zeros for each.
BandwidthInit ==
  /\ VotingInit
  /\ activated = FALSE
  /\ del_bandwidth = [a \in Account |-> [b \in Account |-> Zero]]
  /\ userres = [a \in Account |-> NoResources]
  /\ limits = [a \in Account |-> [ram |-> 0, net |-> 0, cpu |-> 0]]
  /\ refunds = [a \in Account |-> Nil]
  /\ deferred = [a \in Account |-> Nil]
  /\ cancelled = {}

Activate ==
  /\ ~activated
  /\ activated' = TRUE
  /\ UNCHANGED <<votingVars, del_bandwidth, resourceVars, refundVars, tlosVars>>

Tick ==
  /\ now < MaxTime
  /\ now' = now + 1
  /\ UNCHANGED <<voters, producers, tallies, rexVars, bandwidthVars>>

Sum(weights) == weights.net + weights.cpu
Plus(w, net, cpu) == [net |-> w.net + net, cpu |-> w.cpu + cpu]

\* Transfers of one transaction, one after the other: the balances they leave,
\* Nil when one of them cannot be made.
Transferred(table, from, to, quantity) ==
  IF table = Nil \/ quantity <= 0 THEN Nil
  ELSE IF table[from] = Nil THEN Nil
  ELSE IF table[from] < quantity THEN Nil
  ELSE TLOS!add_balance(TLOS!sub_balance(table, from, quantity), to, quantity)

-----------------------------------------------------------------------------
(* Totals and limits *)

Managed(account) == IF voters[account] = Nil THEN {} ELSE voters[account].flags1

Resources(account) == IF userres[account] = Nil THEN NoResources ELSE userres[account]

\* What an account's limits become when its totals do.
LimitsFor(account, totals) ==
  [limits[account] EXCEPT !.net = IF "net_managed" \in Managed(account) THEN @ ELSE totals.net,
                          !.cpu = IF "cpu_managed" \in Managed(account) THEN @ ELSE totals.cpu]

\* changebw sees to it that RAM bought is not above the limit.
RamLimitFor(account, totals) ==
  LET bought == totals.ram_bytes + ram_gift_bytes
  IN IF "ram_managed" \in Managed(account) \/ {"net_managed", "cpu_managed"} \subseteq Managed(account)
        \/ limits[account].ram >= bought
     THEN limits[account].ram ELSE bought

\* Mutant: a row is taken for empty when nothing is staked.
KeptUnlessUnstaked(totals) == IF totals.net = 0 /\ totals.cpu = 0 THEN Nil ELSE totals

KeptUnlessEmpty(totals) == IF totals = NoResources THEN Nil ELSE totals

UpdateTotals(account, net_delta, cpu_delta) ==
  LET totals == [Resources(account) EXCEPT !.net = @ + net_delta, !.cpu = @ + cpu_delta]
  IN /\ 0 <= totals.net /\ 0 <= totals.cpu
     /\ userres' = [userres EXCEPT ![account] = KeptUnlessEmpty(totals)]
     /\ limits' = [limits EXCEPT ![account] =
                     [LimitsFor(account, totals) EXCEPT !.ram = RamLimitFor(account, totals)]]

-----------------------------------------------------------------------------
(* changebw *)

\* What is still to be refunded once some is staked again (or, with negative
\* deltas, more is unstaked), and what of the new stake has to be paid for.
StillOwed(req, net_delta, cpu_delta) ==
  [net |-> AtLeastZero(req.net - net_delta), cpu |-> AtLeastZero(req.cpu - cpu_delta)]

\* Mutant: staking again takes from the request and from the balance.
PayableInFull(req, net_delta, cpu_delta) ==
  AtLeastZero(net_delta) + AtLeastZero(cpu_delta)

Payable(req, net_delta, cpu_delta) ==
  AtLeastZero(net_delta - req.net) + AtLeastZero(cpu_delta - req.cpu)

\* Mutant: the transaction is sent only for a new request.
NeedsDeferredOnce(owner, touched, owed) == refunds[owner] = Nil /\ touched /\ owed # Zero

NeedsDeferred(owner, touched, owed) == touched /\ owed # Zero

\* touched: the owner stakes for itself or anybody unstakes.
UpdateRefund(owner, touched, net_delta, cpu_delta) ==
  LET req == refunds[owner]
      owed == StillOwed(IF req = Nil THEN Zero ELSE req, net_delta, cpu_delta)
      time == IF req = Nil \/ net_delta < 0 \/ cpu_delta < 0 THEN now ELSE req.request_time
  IN /\ refunds' = IF ~touched THEN refunds
                   ELSE [refunds EXCEPT ![owner] =
                           IF owed = Zero THEN Nil
                           ELSE [net |-> owed.net, cpu |-> owed.cpu, request_time |-> time]]
     /\ deferred' = [deferred EXCEPT ![owner] =
                       IF NeedsDeferred(owner, touched, owed) THEN now + refund_delay_sec ELSE Nil]
     /\ cancelled' = IF refunds'[owner] # Nil /\ ~touched THEN cancelled \cup {owner}
                     ELSE cancelled \ {owner}

\* transfer: the stake is given away, its owner is the receiver.
ChangeBw(from, receiver, net_delta, cpu_delta, transfer) ==
  LET owner == IF transfer THEN receiver ELSE from
      del == Plus(del_bandwidth[owner][receiver], net_delta, cpu_delta)
      touched == (~transfer /\ from = receiver) \/ net_delta + cpu_delta < 0
      req == IF touched /\ refunds[owner] # Nil THEN refunds[owner] ELSE Zero
      payment == Payable(req, net_delta, cpu_delta)
  IN /\ 0 <= del.net /\ 0 <= del.cpu
     /\ del_bandwidth' = [del_bandwidth EXCEPT ![owner][receiver] = del]
     /\ UpdateTotals(receiver, net_delta, cpu_delta)
     /\ UpdateRefund(owner, touched, net_delta, cpu_delta)
     /\ \/ payment > 0 /\ TLOS!Transfer(from, STAKE_ACCOUNT, payment)
        \/ payment = 0 /\ UNCHANGED tlosVars
     /\ rexbalance' = Revalued(owner)
     /\ UpdateVotingPower(Restaked(owner), owner, net_delta + cpu_delta)
     /\ UNCHANGED <<now, rexpool, activated>>

DelegateBw(from, receiver, net, cpu, transfer) ==
  /\ now <= LastCall
  /\ 0 <= net /\ 0 <= cpu /\ net + cpu > 0
  /\ ~transfer \/ from # receiver
  /\ ChangeBw(from, receiver, net, cpu, transfer)

UndelegateBw(from, receiver, net, cpu) ==
  /\ now <= LastCall
  /\ 0 <= net /\ 0 <= cpu /\ net + cpu > 0
  /\ activated
  /\ ChangeBw(from, receiver, -net, -cpu, FALSE)

-----------------------------------------------------------------------------
(* Refunds *)

CanRefund(owner) ==
  /\ refunds[owner] # Nil
  /\ refunds[owner].request_time + refund_delay_sec <= now

PayRefund(owner) ==
  /\ CanRefund(owner)
  /\ TLOS!Transfer(STAKE_ACCOUNT, owner, Sum(refunds[owner]))
  /\ refunds' = [refunds EXCEPT ![owner] = Nil]
  /\ cancelled' = cancelled \ {owner}

\* By hand.
Refund(owner) ==
  /\ PayRefund(owner)
  /\ UNCHANGED <<votingVars, activated, del_bandwidth, resourceVars, deferred>>

\* The deferred transaction: it is used up whether or not the action succeeds.
DeferredRefund(owner) ==
  /\ deferred[owner] # Nil
  /\ deferred[owner] <= now
  /\ deferred' = [deferred EXCEPT ![owner] = Nil]
  /\ \/ PayRefund(owner)
     \/ /\ ~CanRefund(owner)
        /\ UNCHANGED <<refunds, cancelled, tlosVars>>
  /\ UNCHANGED <<votingVars, activated, del_bandwidth, resourceVars>>

-----------------------------------------------------------------------------
(* Limits set by the system account *)

SetLimits(account, new) ==
  /\ limits' = [limits EXCEPT ![account] = new]
  /\ UNCHANGED <<now, producers, tallies, rexVars, activated, del_bandwidth, userres,
                 refundVars, tlosVars>>

SetALimits(account, ram, net, cpu) ==
  /\ userres[account] = Nil
  /\ Managed(account) = {}
  /\ SetLimits(account, [ram |-> ram, net |-> net, cpu |-> cpu])
  /\ UNCHANGED voters

Flagged(account, flags) ==
  [voters EXCEPT ![account] = [(IF @ = Nil THEN NewVoter ELSE @) EXCEPT !.flags1 = flags]]

SetAcctNet(account, net) ==
  /\ SetLimits(account, [limits[account] EXCEPT !.net = net])
  /\ voters' = Flagged(account, Managed(account) \cup {"net_managed"})

\* The flag is not taken back.
UnsetAcctNet(account) ==
  /\ "net_managed" \in Managed(account)
  /\ SetLimits(account, [limits[account] EXCEPT !.net = Resources(account).net])
  /\ UNCHANGED voters

SetAcctCpu(account, cpu) ==
  /\ cpu >= -1
  /\ SetLimits(account, [limits[account] EXCEPT !.cpu = cpu])
  /\ voters' = Flagged(account, Managed(account) \cup {"cpu_managed"})

\* Mutant: as UnsetAcctNet, but for the limit.
ReleasedToZero(account) == 0

ReleasedCpu(account) == Resources(account).cpu

UnsetAcctCpu(account) ==
  /\ "cpu_managed" \in Managed(account)
  /\ SetLimits(account, [limits[account] EXCEPT !.cpu = ReleasedCpu(account)])
  /\ voters' = Flagged(account, Managed(account) \ {"cpu_managed"})

-----------------------------------------------------------------------------

StakeNext ==
  \E from, receiver \in Account, net, cpu \in Delta :
    \/ \E transfer \in BOOLEAN : DelegateBw(from, receiver, net, cpu, transfer)
    \/ UndelegateBw(from, receiver, net, cpu)

LimitsNext ==
  \E a \in Account :
    \/ \E ram, net, cpu \in Limits : SetALimits(a, ram, net, cpu)
    \/ \E limit \in Limits : SetAcctNet(a, limit) \/ SetAcctCpu(a, limit)
    \/ UnsetAcctNet(a) \/ UnsetAcctCpu(a)

VotingStep == VotingNext /\ UNCHANGED bandwidthVars

Next == \/ Tick
        \/ Activate
        \/ VotingStep
        \/ StakeNext
        \/ LimitsNext
        \/ \E a \in Account : Refund(a) \/ DeferredRefund(a)

\* Nothing is staked before tokens are given out.
Init == /\ BandwidthInit
        /\ TLOS!TypeOK
        /\ accounts[STAKE_ACCOUNT] = Nil

Spec == Init /\ [][Next]_vars

\* Time passes and the chain runs the transactions that are due.
Fairness == WF_vars(Tick) /\ \A a \in Account : WF_vars(DeferredRefund(a))

-----------------------------------------------------------------------------
(* Properties *)

Delegated(from) == SumFunctionOnSet([to \in Account |-> Sum(del_bandwidth[from][to])], Account)

ToRefund(row) == IF row = Nil THEN 0 ELSE Sum(row)

\* Each refund is paid once: eosio.stake holds what is delegated and what is
\* owed, while requests grow, shrink under new stake, are paid by hand and by
\* their transactions.
StakeHeld ==
  TLOS!Balance(STAKE_ACCOUNT) =
    SumFunctionOnSet([a \in Account |-> Delegated(a)], Account)
    + SumFunctionOnSet([a \in Account |-> ToRefund(refunds[a])], Account)

\* Votes weigh what the voter has delegated, to whomever, and given REX; of a
\* voter who votes, at once.
VotesWeighStake ==
  \A a \in Account : voters[a] # Nil =>
    /\ voters[a].staked =
         Delegated(a) + (IF rexbalance[a] = Nil THEN 0 ELSE rexbalance[a].vote_stake)
    /\ voters[a].producers # {} => voters[a].last_stake = voters[a].staked

\* The limits that nobody manages are those of the account's totals, and the
\* totals those of the delegations to it.
LimitsFollow ==
  \A a \in Account :
    /\ userres[a] # Nil =>
         /\ "net_managed" \notin Managed(a) => limits[a].net = userres[a].net
         /\ "cpu_managed" \notin Managed(a) => limits[a].cpu = userres[a].cpu
    /\ Resources(a).net = SumFunctionOnSet([f \in Account |-> del_bandwidth[f][a].net], Account)
    /\ Resources(a).cpu = SumFunctionOnSet([f \in Account |-> del_bandwidth[f][a].cpu], Account)

\* "Unstaked tokens are transferred to `from` liquid balance via a deferred
\* transaction": every request is settled without further calls, unless staking
\* for somebody else, or by somebody else for the owner, took its transaction
\* away.
RefundArrives ==
  \A a \in Account : refunds[a] # Nil ~> (refunds[a] = Nil \/ a \in cancelled)
=============================================================================
