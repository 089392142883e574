------------------------------- MODULE MC_Blocks -------------------------------
(***************************************************************************)
(* Small instances of Blocks for TLC, from a chain that eosio alone        *)
(* produces, with producers registered and voted for.  Each behaviour is   *)
(* about turns, rotation or pay, its focus.                                *)
(***************************************************************************)
EXTENDS Blocks

VARIABLES focus, calls

CONSTANTS alice, bob, p1, p2, p3

TURNS == "turns"
ROTATION == "rotation"
PAY == "pay"

VoteWeights == [n \in 0..Cardinality(Producer) |-> IF n = 0 THEN 0 ELSE 1]

Stake == [a \in Account |-> IF a = alice THEN 1 ELSE 2]

\* What the accounts vote for at first.
FirstVotes(account) ==
  CASE focus = PAY -> IF account = alice THEN {p1} ELSE {}
    [] focus = TURNS -> {p1, p2}
    [] OTHER -> IF account = alice THEN {p1, p2, p3} ELSE {p1, p2}

Voted(account) ==
  [NewVoter EXCEPT !.staked = Stake[account], !.producers = FirstVotes(account),
                   !.last_stake = IF FirstVotes(account) = {} THEN 0 ELSE Stake[account],
                   !.last_vote_weight = IF FirstVotes(account) = {} THEN 0 ELSE Stake[account]]

MCInit ==
  /\ focus \in {TURNS, ROTATION, PAY}
  /\ calls = 0
  /\ now = 1
  /\ voters = [a \in Account |-> Voted(a)]
  /\ producers = [p \in Producer |->
       [NewProducer EXCEPT !.total_votes =
          MapThenSumSet(LAMBDA a : Stake[a], {a \in Account : p \in FirstVotes(a)})]]
  /\ total_activated_stake = MapThenSumSet(LAMBDA a : voters[a].last_stake, Account)
  /\ total_producer_vote_weight = MapThenSumSet(LAMBDA p : producers[p].total_votes, Producer)
  /\ rexpool = Nil
  /\ rexbalance = [a \in Account |-> Nil]
  /\ BlocksInit
  /\ saving_since = Nil => focus = PAY

\* Blocks until this slot, and calls of users and misses that many.
End == [f \in {TURNS, ROTATION, PAY} |-> CASE f = TURNS -> 24 [] f = ROTATION -> 18 [] OTHER -> 16]
Calls == 3

\* Turns: blocks are missed, one producer more is voted in.  Rotation: voters
\* change their minds or their stake, a producer leaves.  Pay: producers come and
\* go and claim, and so does the row of the saving account.
CallsNext ==
  \/ focus = TURNS /\ Miss
  \/ focus = ROTATION /\ Restake(alice)
  \/ focus = TURNS /\ VoteProducer(bob, {p1, p2, p3}) /\ UNCHANGED blockVars
  \/ /\ focus = ROTATION
     /\ UNCHANGED blockVars
     /\ \/ \E prods \in {{p1, p3}, {p2, p3}, {}} : VoteProducer(bob, prods)
        \/ producers[p2].is_active /\ UnregProd(p2)
        \/ ~producers[p2].is_active /\ RegProducer(p2)
  \/ /\ focus = PAY
     /\ UNCHANGED blockVars
     /\ \E p \in {p1, p2} : \/ producers[p].is_active /\ UnregProd(p)
                            \/ ~producers[p].is_active /\ RegProducer(p)
  \/ focus = PAY /\ \E n \in TedpAmounts : Save(n)
  \/ focus = PAY /\ CloseSaving

MCNext ==
  /\ UNCHANGED focus
  /\ \/ /\ UNCHANGED calls
        /\ \/ now < End[focus] /\ Produce
           \/ BecomePending \/ BecomeActive
           \/ focus = PAY /\ \E p \in Producer : ClaimRewards(p)
     \/ /\ calls < Calls
        /\ calls' = calls + 1
        /\ CallsNext

MCSpec == MCInit /\ [][MCNext]_<<allVars, focus, calls>>
=============================================================================
