-------------------------------- MODULE Voting --------------------------------
(***************************************************************************)
(* contracts/eosio.system: producers, the votes for them, and the stake    *)
(* that votes weigh.  Stake is changed by the modules that extend this one *)
(* (Bandwidth, Rex), which call UpdateVotingPower; REX is seen here        *)
(* because its value is part of the stake.  Proxies cannot be registered   *)
(* (regproxy, voteproducer refuse them) and are left out.  Weights are     *)
(* integers, doubles in the code; now counts slots of half a second.       *)
(***************************************************************************)
EXTENDS Integers, SequencesExt

CONSTANTS Account,        \* users of the chain
          Producer,       \* accounts that may register as producers
          VoteWeight,     \* inverse_vote_weight per unit of stake, by votes given
          MAX_VOTE_PRODUCERS,
          Penalties,      \* arguments of votebpout, in hours
          SLOTS_PER_HOUR,
          MaxTimesKicked, \* bound on kicks of a producer
          MaxTime,        \* bound on the clock
          Maturity,       \* times that REX matures at
          Nil             \* no row

VARIABLES now,
          voters,                     \* account -> voter_info
          producers,                  \* producer -> producer_info
          total_activated_stake,
          total_producer_vote_weight,
          rexpool,                    \* rex_pool
          rexbalance                  \* account -> rex_balance

tallies == <<total_activated_stake, total_producer_vote_weight>>
rexVars == <<rexpool, rexbalance>>
votingVars == <<now, voters, producers, tallies, rexVars>>

Time == 0..MaxTime

flags1_fields == {"ram_managed", "net_managed", "cpu_managed"}

voter_info == [staked : Int, last_stake : Int, last_vote_weight : Int,
               producers : SUBSET Producer, flags1 : SUBSET flags1_fields]

\* The lifetime counters, which nothing reads, are left out.
producer_info == [total_votes : Nat, is_active : BOOLEAN, unpaid_blocks : Nat,
                  missed_blocks_per_rotation : Int, times_kicked : Nat,
                  kick_penalty_hours : Nat, last_time_kicked : Time]

rex_pool == [total_lent : Int, total_unlent : Int, total_rent : Int, total_lendable : Int,
             total_rex : Int, namebid_proceeds : Int]

\* Maturity buckets by their times; no bucket is an empty one.
rex_balance == [vote_stake : Int, rex_balance : Int, matured_rex : Int,
                rex_maturities : [Maturity -> Int]]

\* Names are numbers of 64 bits: there are finitely many accounts.
ASSUME VotingAssumption ==
  /\ IsFiniteSet(Account) /\ IsFiniteSet(Producer)
  /\ VoteWeight \in [0..Cardinality(Producer) -> Nat] /\ VoteWeight[0] = 0
  /\ MAX_VOTE_PRODUCERS \in Nat /\ Penalties \subseteq Nat /\ SLOTS_PER_HOUR \in Nat
  /\ MaxTimesKicked \in Nat /\ MaxTime \in Nat \ {0}
  /\ IsFiniteSet(Maturity) /\ Maturity \subseteq Nat
  /\ Nil \notin voter_info /\ Nil \notin producer_info /\ Nil \notin rex_pool
  /\ Nil \notin rex_balance

VotingTypeOK ==
  /\ now \in Time
  /\ voters \in [Account -> voter_info \cup {Nil}]
  /\ producers \in [Producer -> producer_info \cup {Nil}]
  /\ total_activated_stake \in Int /\ total_producer_vote_weight \in Int
  /\ rexpool \in rex_pool \cup {Nil}
  /\ rexbalance \in [Account -> rex_balance \cup {Nil}]

VotingInit ==
  /\ now = 1
  /\ voters = [a \in Account |-> Nil]
  /\ producers = [p \in Producer |-> Nil]
  /\ total_activated_stake = 0
  /\ total_producer_vote_weight = 0
  /\ rexpool = Nil
  /\ rexbalance = [a \in Account |-> Nil]

NewVoter == [staked |-> 0, last_stake |-> 0, last_vote_weight |-> 0,
             producers |-> {}, flags1 |-> {}]

AtLeastZero(n) == IF n < 0 THEN 0 ELSE n

-----------------------------------------------------------------------------
(* Producers *)

NewProducer == [total_votes |-> 0, is_active |-> TRUE, unpaid_blocks |-> 0,
                missed_blocks_per_rotation |-> 0, times_kicked |-> 0,
                kick_penalty_hours |-> 0, last_time_kicked |-> 0]

PenaltyServed(info) ==
  now > info.last_time_kicked + info.kick_penalty_hours * SLOTS_PER_HOUR

RegProducer(p) ==
  /\ producers[p] # Nil => PenaltyServed(producers[p])
  /\ producers' = [producers EXCEPT ![p] =
                     IF @ = Nil THEN NewProducer ELSE [@ EXCEPT !.is_active = TRUE]]
  /\ UNCHANGED <<now, voters, tallies, rexVars>>

\* unregprod, unregreason by the producer; rmvproducer by the system account.
UnregProd(p) ==
  /\ producers[p] # Nil
  /\ producers' = [producers EXCEPT ![p].is_active = FALSE]
  /\ UNCHANGED <<now, voters, tallies, rexVars>>

\* penalty 0 doubles the hours with every kick.
Kicked(info, penalty) ==
  [info EXCEPT !.times_kicked = @ + 1,
               !.last_time_kicked = now,
               !.kick_penalty_hours = IF penalty = 0 THEN 2 ^ (info.times_kicked + 1) ELSE penalty,
               !.missed_blocks_per_rotation = 0,
               !.is_active = FALSE]

VoteBpOut(p, penalty_hours) ==
  /\ penalty_hours # 0
  /\ producers[p] # Nil
  /\ producers[p].times_kicked < MaxTimesKicked
  /\ producers' = [producers EXCEPT ![p] = Kicked(@, penalty_hours)]
  /\ UNCHANGED <<now, voters, tallies, rexVars>>

-----------------------------------------------------------------------------
(* Votes *)

rex_available(pool) == IF pool = Nil THEN FALSE ELSE pool.total_rex > 0

\* Tokens that an amount of REX is worth.
Worth(pool, rex) == (rex * pool.total_lendable) \div pool.total_rex

\* update_rex_stake, called through vote_stake_updater: an account's REX at its
\* present value, in its row and in its stake.
Revalued(owner) ==
  IF rexbalance[owner] # Nil /\ rex_available(rexpool)
  THEN [rexbalance EXCEPT ![owner].vote_stake =
          Worth(rexpool, rexbalance[owner].rex_balance)]
  ELSE rexbalance

Restaked(owner) ==
  IF voters[owner] = Nil \/ rexbalance[owner] = Nil THEN voters
  ELSE [voters EXCEPT ![owner].staked =
          @ + Revalued(owner)[owner].vote_stake - rexbalance[owner].vote_stake]

\* Mutant: the new weight is added, the old one stays.
RetractedNever(v) == {}

\* Producers that a voter's old weight is taken from.
Retracted(v) == IF v.last_stake > 0 THEN v.producers ELSE {}

\* table is the voters table after the change of stake, if any.
UpdateVotes(table, voter, prods, voting) ==
  LET v == table[voter]
      totalStaked == IF voting /\ prods = {} THEN 0 ELSE v.staked
      new_vote_weight == VoteWeight[Cardinality(prods)] * totalStaked
      Added == IF new_vote_weight >= 0 THEN prods ELSE {}
      Changed == Retracted(v) \cup Added
      producer_deltas == [p \in Changed |->
        (IF p \in Added THEN new_vote_weight ELSE 0)
          - (IF p \in Retracted(v) THEN v.last_vote_weight ELSE 0)]
  IN /\ Cardinality(prods) <= MAX_VOTE_PRODUCERS
     /\ \A p \in Added : producers[p] # Nil
     /\ voting => \A p \in Added : producers[p].is_active
     /\ producers' = [p \in Producer |->
          IF p \in Changed
          THEN [producers[p] EXCEPT !.total_votes = AtLeastZero(@ + producer_deltas[p])]
          ELSE producers[p]]
     /\ total_activated_stake' = total_activated_stake + totalStaked - v.last_stake
     /\ total_producer_vote_weight' =
          total_producer_vote_weight + SumFunctionOnSet(producer_deltas, Changed)
     /\ voters' = [table EXCEPT ![voter] =
          [@ EXCEPT !.last_vote_weight = new_vote_weight, !.last_stake = totalStaked,
                    !.producers = prods]]

VoteProducer(voter, prods) ==
  /\ voters[voter] # Nil
  /\ rexbalance' = Revalued(voter)
  /\ UpdateVotes(Restaked(voter), voter, prods, TRUE)
  /\ UNCHANGED <<now, rexpool>>

\* regproxy registers nobody; of an unknown account it makes a voter.
RegProxy(account) ==
  /\ voters[account] = Nil
  /\ voters' = [voters EXCEPT ![account] = NewVoter]
  /\ UNCHANGED <<now, producers, tallies, rexVars>>

\* Mutant: the votes are left at the stake they were cast with.
StakeOnly(table, voter, total_update) ==
  LET row == IF table[voter] = Nil THEN NewVoter ELSE table[voter]
  IN /\ 0 <= row.staked + total_update
     /\ voters' = [table EXCEPT ![voter] = [row EXCEPT !.staked = @ + total_update]]
     /\ UNCHANGED <<producers, tallies>>

\* The stake of a voter in the table changes, and with it what the votes weigh.
UpdateVotingPower(table, voter, total_update) ==
  LET row == IF table[voter] = Nil THEN NewVoter ELSE table[voter]
      after == [table EXCEPT ![voter] = [row EXCEPT !.staked = @ + total_update]]
  IN /\ 0 <= after[voter].staked
     /\ \/ /\ row.producers # {}
           /\ UpdateVotes(after, voter, row.producers, FALSE)
        \/ /\ row.producers = {}
           /\ voters' = after
           /\ UNCHANGED <<producers, tallies>>

VotingNext ==
  \/ \E p \in Producer :
       RegProducer(p) \/ UnregProd(p) \/ \E h \in Penalties : VoteBpOut(p, h)
  \/ \E a \in Account : RegProxy(a) \/ \E prods \in SUBSET Producer : VoteProducer(a, prods)

-----------------------------------------------------------------------------
(* Properties *)

\* What a row of voters gives to a producer, and what it has activated; the
\* votes in a row of producers.
VotesFor(row, p) ==
  IF row = Nil THEN 0 ELSE IF p \in row.producers THEN row.last_vote_weight ELSE 0
ActivatedBy(row) == IF row = Nil THEN 0 ELSE row.last_stake
VotesOf(row) == IF row = Nil THEN 0 ELSE row.total_votes

\* Adding and taking away weights in any order of votes, changes of stake and
\* registrations leaves each producer with the weights of the present votes,
\* and the totals with the sums over producers and voters; so recalculate_votes,
\* which repairs a negative total, never has to.
VotesCounted ==
  /\ \A p \in Producer : producers[p] # Nil =>
       producers[p].total_votes = SumFunctionOnSet([a \in Account |-> VotesFor(voters[a], p)], Account)
  /\ total_producer_vote_weight =
       SumFunctionOnSet([p \in Producer |-> VotesOf(producers[p])], Producer)
  /\ total_activated_stake =
       SumFunctionOnSet([a \in Account |-> ActivatedBy(voters[a])], Account)
=============================================================================
