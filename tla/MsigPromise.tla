---------------------------- MODULE MsigPromise ----------------------------
(***************************************************************************)
(* What contracts/eosio.msig promises: a transaction is executed only with *)
(* approvals given to this very proposal that nobody has taken back since, *)
(* and a proposal is executed once.  An approval taken back is gone at     *)
(* once here; the contract keeps it and compares times when it executes.   *)
(***************************************************************************)
CONSTANTS Id,        \* proposer and proposal name
          Level,     \* permission levels that can be asked to approve
          ActorOf,   \* the account of a level
          Trx,       \* transactions
          Quorums,   \* sets of levels that authorize a transaction
          Nil

VARIABLES open,      \* proposals, with the levels behind them
          pending    \* transactions handed to the chain and not yet run

vars == <<open, pending>>

Proposal == [trx : Trx, support : SUBSET Level]

TypeOK == /\ open \in [Id -> Proposal \cup {Nil}]
          /\ pending \in [Id -> Trx \cup {Nil}]

\* Proposals of the contract's first version, with approvals, may be there.
Init == /\ open \in [Id -> Proposal \cup {Nil}]
        /\ pending = [id \in Id |-> Nil]

Propose(id) ==
  /\ open[id] = Nil
  /\ \E trx \in Trx : open' = [open EXCEPT ![id] = [trx |-> trx, support |-> {}]]
  /\ UNCHANGED pending

Approve(id, level) ==
  /\ open[id] # Nil
  /\ open' = [open EXCEPT ![id].support = @ \cup {level}]
  /\ UNCHANGED pending

Withdraw(id, level) ==
  /\ open[id] # Nil
  /\ open' = [open EXCEPT ![id].support = @ \ {level}]
  /\ UNCHANGED pending

WithoutActor(proposal, actor) ==
  IF proposal = Nil THEN Nil
  ELSE [proposal EXCEPT !.support = {l \in @ : ActorOf[l] # actor}]

WithdrawAll(actor) ==
  /\ open' = [id \in Id |-> WithoutActor(open[id], actor)]
  /\ UNCHANGED pending

Cancel(id) ==
  /\ open[id] # Nil
  /\ open' = [open EXCEPT ![id] = Nil]
  /\ UNCHANGED pending

Execute(id) ==
  /\ open[id] # Nil
  /\ pending[id] = Nil
  /\ \E quorum \in Quorums[open[id].trx] : quorum \subseteq open[id].support
  /\ open' = [open EXCEPT ![id] = Nil]
  /\ pending' = [pending EXCEPT ![id] = open[id].trx]

\* The chain runs the transaction, or lets it expire.
Settle(id) ==
  /\ pending[id] # Nil
  /\ pending' = [pending EXCEPT ![id] = Nil]
  /\ UNCHANGED open

Next == \/ \E id \in Id : Propose(id) \/ Cancel(id) \/ Execute(id) \/ Settle(id)
        \/ \E id \in Id, level \in Level : Approve(id, level) \/ Withdraw(id, level)
        \/ \E level \in Level : WithdrawAll(ActorOf[level])

Spec == Init /\ [][Next]_vars
=============================================================================
