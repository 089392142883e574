---------------------------- MODULE SystemProofs ----------------------------
(***************************************************************************)
(* Proofs about Voting and Bandwidth, for every number of accounts and     *)
(* producers and every amount: what votes weigh, that stake is held, and   *)
(* which limits follow.  Then what the steps of Rex do to the tables they  *)
(* hand on, and the invariant of the whole contract, which funding,        *)
(* buying, selling and lending keep.  ContractProofs has the other actions *)
(* and what follows from it.                                               *)
(***************************************************************************)
EXTENDS RamMarket, Collections

-----------------------------------------------------------------------------
(* What a table of voters adds up to *)

VoterTable == [Account -> voter_info \cup {Nil}]
ProducerTable == [Producer -> producer_info \cup {Nil}]

\* The sums that VotesCounted compares the counts with.
VotesIn(vs, p) == SumFunctionOnSet([a \in Account |-> VotesFor(vs[a], p)], Account)
ActivatedIn(vs) == SumFunctionOnSet([a \in Account |-> ActivatedBy(vs[a])], Account)
WeightIn(ps) == SumFunctionOnSet([p \in Producer |-> VotesOf(ps[p])], Producer)

\* There are finitely many accounts and producers, and Nil is no row.
LEMMA VotingFinite ==
  /\ IsFiniteSet(Account) /\ IsFiniteSet(Producer)
  /\ Nil \notin voter_info /\ Nil \notin producer_info
BY VotingAssumption

\* What rows count for are integers.
LEMMA RowsCount ==
  /\ \A row \in voter_info \cup {Nil} : ActivatedBy(row) \in Int
  /\ \A row \in voter_info \cup {Nil}, p \in Producer : VotesFor(row, p) \in Int
  /\ \A row \in producer_info \cup {Nil} : VotesOf(row) \in Int
BY VotingFinite DEF voter_info, producer_info, ActivatedBy, VotesFor, VotesOf

\* A row is put into a table of voters: what producers have from it.
LEMMA VotesPut ==
  ASSUME NEW vs \in VoterTable, NEW a \in Account, NEW row \in voter_info, NEW p \in Producer
  PROVE  /\ VotesIn([vs EXCEPT ![a] = row], p) = VotesIn(vs, p) + VotesFor(row, p) - VotesFor(vs[a], p)
         /\ VotesIn(vs, p) \in Int
<1> DEFINE new == [vs EXCEPT ![a] = row]
           f == [b \in Account |-> VotesFor(vs[b], p)]
           g == [b \in Account |-> VotesFor(new[b], p)]
<1>1. /\ new \in VoterTable /\ new[a] = row
      /\ \A b \in Account : b # a => new[b] = vs[b]
  BY DEF VoterTable
<1>2. \A b \in Account : f[b] \in Int /\ g[b] \in Int
  BY <1>1, RowsCount DEF VoterTable
<1>3. \A b \in Account \ {a} : g[b] = f[b]
  BY <1>1
<1>4. f[a] = VotesFor(vs[a], p) /\ g[a] = VotesFor(row, p)
  BY <1>1
<1> HIDE DEF f, g
<1>5. SumFunctionOnSet(g, Account) = SumFunctionOnSet(f, Account) + g[a] - f[a]
  BY <1>2, <1>3, VotingFinite, SumChange
<1>6. SumFunctionOnSet(f, Account) \in Int
  BY <1>2, VotingFinite, SumInt
<1>7. QED
  BY <1>4, <1>5, <1>6 DEF VotesIn, f, g

\* And what stake is activated.
LEMMA ActivatedPut ==
  ASSUME NEW vs \in VoterTable, NEW a \in Account, NEW row \in voter_info
  PROVE  /\ ActivatedIn([vs EXCEPT ![a] = row]) = ActivatedIn(vs) + ActivatedBy(row) - ActivatedBy(vs[a])
         /\ ActivatedIn(vs) \in Int
<1> DEFINE new == [vs EXCEPT ![a] = row]
           f == [b \in Account |-> ActivatedBy(vs[b])]
           g == [b \in Account |-> ActivatedBy(new[b])]
<1>1. /\ new \in VoterTable /\ new[a] = row
      /\ \A b \in Account : b # a => new[b] = vs[b]
  BY DEF VoterTable
<1>2. \A b \in Account : f[b] \in Int /\ g[b] \in Int
  BY <1>1, RowsCount DEF VoterTable
<1>3. \A b \in Account \ {a} : g[b] = f[b]
  BY <1>1
<1>4. f[a] = ActivatedBy(vs[a]) /\ g[a] = ActivatedBy(row)
  BY <1>1
<1> HIDE DEF f, g
<1>5. SumFunctionOnSet(g, Account) = SumFunctionOnSet(f, Account) + g[a] - f[a]
  BY <1>2, <1>3, VotingFinite, SumChange
<1>6. SumFunctionOnSet(f, Account) \in Int
  BY <1>2, VotingFinite, SumInt
<1>7. QED
  BY <1>4, <1>5, <1>6 DEF ActivatedIn, f, g

\* The stake a voter is counted with is none below zero, without stake there is
\* no weight, and producers voted for are in the table: rows are never erased.
Sound(row, ps) ==
  /\ 0 <= row.last_stake /\ 0 <= row.last_vote_weight
  /\ row.last_stake = 0 => row.last_vote_weight = 0
  /\ \A p \in row.producers : ps[p] # Nil

AllSound(vs, ps) == \A a \in Account : vs[a] # Nil => Sound(vs[a], ps)

\* So nobody has votes below zero.
LEMMA VotesNat ==
  ASSUME NEW vs \in VoterTable, NEW ps, AllSound(vs, ps), NEW p \in Producer
  PROVE  VotesIn(vs, p) \in Nat
<1> DEFINE f == [a \in Account |-> VotesFor(vs[a], p)]
<1>1. ASSUME NEW a \in Account
      PROVE  f[a] \in Nat
  BY VotingFinite DEF AllSound, Sound, VoterTable, VotesFor, voter_info
<1> HIDE DEF f
<1>2. SumFunctionOnSet(f, Account) \in Nat
  BY <1>1, VotingFinite, SumNat
<1>3. QED
  BY <1>2 DEF VotesIn, f

-----------------------------------------------------------------------------
(* update_votes *)

\* The counts are right for the tables.
CountedIn(vs, ps, weight, activated_stake) ==
  /\ \A p \in Producer : ps[p] # Nil => ps[p].total_votes = VotesIn(vs, p)
  /\ weight = WeightIn(ps)
  /\ activated_stake = ActivatedIn(vs)

\* The tables of voters and producers keep their types, and their counts are right.
VotesInv == /\ voters \in VoterTable
            /\ producers \in ProducerTable
            /\ AllSound(voters, producers)
            /\ CountedIn(voters, producers, total_producer_vote_weight, total_activated_stake)

\* That is what VotesCounted says.
LEMMA VotesInvCounts == VotesInv => VotesCounted
BY DEF VotesInv, CountedIn, VotesCounted, VotesIn, WeightIn, ActivatedIn

\* The row of a voter after its vote.
StakeCounted(row, prods, voting) == IF voting /\ prods = {} THEN 0 ELSE row.staked
WeightCast(row, prods, voting) == VoteWeight[Cardinality(prods)] * StakeCounted(row, prods, voting)
Cast(row, prods, voting) ==
  [row EXCEPT !.last_vote_weight = WeightCast(row, prods, voting),
              !.last_stake = StakeCounted(row, prods, voting), !.producers = prods]

\* What it changes the votes of a producer by.
Changed(row, prods) == Retracted(row) \cup prods
Change(row, new, p) == (IF p \in new.producers THEN new.last_vote_weight ELSE 0)
                         - (IF p \in Retracted(row) THEN row.last_vote_weight ELSE 0)

\* The new row is one.
LEMMA CastRow ==
  ASSUME NEW row \in voter_info, 0 <= row.staked, NEW prods \in SUBSET Producer,
         NEW voting \in BOOLEAN
  PROVE  /\ Cast(row, prods, voting) \in voter_info
         /\ Cast(row, prods, voting).producers = prods
         /\ Cast(row, prods, voting).staked = row.staked
         /\ Cast(row, prods, voting).flags1 = row.flags1
         /\ Cast(row, prods, voting).last_stake = StakeCounted(row, prods, voting)
         /\ Cast(row, prods, voting).last_vote_weight = WeightCast(row, prods, voting)
         /\ StakeCounted(row, prods, voting) \in Nat /\ WeightCast(row, prods, voting) \in Nat
         /\ StakeCounted(row, prods, voting) = 0 => WeightCast(row, prods, voting) = 0
<1> DEFINE w == VoteWeight[Cardinality(prods)]
           t == StakeCounted(row, prods, voting)
           x == WeightCast(row, prods, voting)
<1>1. w \in Nat
  <2>1. IsFiniteSet(prods) /\ Cardinality(prods) <= Cardinality(Producer)
    BY VotingFinite, FS_Subset
  <2>2. Cardinality(prods) \in 0..Cardinality(Producer)
    BY <2>1, VotingFinite, FS_CardinalityType
  <2>3. QED
    BY <2>2, VotingAssumption
<1>2. t \in Nat
  BY DEF StakeCounted, voter_info
<1>3. x \in Nat /\ (t = 0 => x = 0)
  <2>1. x = w * t
    BY DEF WeightCast
  <2> HIDE DEF w, t, x
  <2>2. QED
    BY <1>1, <1>2, <2>1
<1>4. Cast(row, prods, voting) = [staked |-> row.staked, last_stake |-> t, last_vote_weight |-> x,
                                  producers |-> prods, flags1 |-> row.flags1]
  <2>1. Cast(row, prods, voting) = [row EXCEPT !.last_vote_weight = x, !.last_stake = t, !.producers = prods]
    BY DEF Cast
  <2> HIDE DEF t, x
  <2>2. QED
    BY <2>1 DEF voter_info
<1>5. row.staked \in Int /\ row.flags1 \in SUBSET flags1_fields /\ t \in Int /\ x \in Int
  BY <1>2, <1>3 DEF voter_info
<1> HIDE DEF t, x
<1>6. Cast(row, prods, voting) \in voter_info
  BY <1>4, <1>5 DEF voter_info
<1>7. QED
  BY <1>2, <1>3, <1>4, <1>6 DEF t, x

\* update_votes in these terms: of a voter whose row is put into the table first.
LEMMA UpdateVotesIs ==
  ASSUME NEW voter \in Account, NEW row \in voter_info, 0 <= row.staked,
         voters \in VoterTable, producers \in ProducerTable,
         NEW prods \in SUBSET Producer, NEW voting \in BOOLEAN,
         UpdateVotes([voters EXCEPT ![voter] = row], voter, prods, voting)
  PROVE  LET new == Cast(row, prods, voting)
             d == [p \in Changed(row, prods) |-> Change(row, new, p)]
         IN /\ \A p \in prods : producers[p] # Nil
            /\ voters' = [voters EXCEPT ![voter] = new]
            /\ producers' = [p \in Producer |->
                 IF p \in Changed(row, prods)
                 THEN [producers[p] EXCEPT !.total_votes = AtLeastZero(@ + d[p])] ELSE producers[p]]
            /\ total_activated_stake' = total_activated_stake + new.last_stake - row.last_stake
            /\ total_producer_vote_weight' =
                 total_producer_vote_weight + SumFunctionOnSet(d, Changed(row, prods))
<1> DEFINE table == [voters EXCEPT ![voter] = row]
           w == WeightCast(row, prods, voting)
           t == StakeCounted(row, prods, voting)
           new == Cast(row, prods, voting)
           d == [p \in Changed(row, prods) |-> Change(row, new, p)]
           e == [p \in Changed(row, prods) |->
                  (IF p \in prods THEN w ELSE 0) - (IF p \in Retracted(row) THEN row.last_vote_weight ELSE 0)]
<1>1. table[voter] = row
  BY DEF VoterTable
<1>2. 0 <= w /\ new.producers = prods /\ new.last_stake = t /\ new.last_vote_weight = w
  BY CastRow
<1>3. d = e
  BY <1>2 DEF Change
<1> HIDE DEF d
<1> DEFINE Body(v, added, x) ==
             LET c == Retracted(v) \cup added
                 deltas == [p \in c |-> (IF p \in added THEN x ELSE 0)
                                        - (IF p \in Retracted(v) THEN v.last_vote_weight ELSE 0)]
             IN /\ \A p \in added : producers[p] # Nil
                /\ producers' = [p \in Producer |->
                     IF p \in c THEN [producers[p] EXCEPT !.total_votes = AtLeastZero(@ + deltas[p])]
                     ELSE producers[p]]
                /\ total_activated_stake' = total_activated_stake + t - v.last_stake
                /\ total_producer_vote_weight' = total_producer_vote_weight + SumFunctionOnSet(deltas, c)
                /\ voters' = [table EXCEPT ![voter] =
                     [@ EXCEPT !.last_vote_weight = x, !.last_stake = t, !.producers = prods]]
           stake(v) == IF voting /\ prods = {} THEN 0 ELSE v.staked
           weight(v) == VoteWeight[Cardinality(prods)] * stake(v)
           casts(v) == IF weight(v) >= 0 THEN prods ELSE {}
<1>4. stake(row) = t /\ weight(row) = w /\ casts(row) = prods
  BY <1>2, CastRow DEF StakeCounted, WeightCast
<1>5. Body(row, prods, w)
  <2>1. stake(table[voter]) = t /\ weight(table[voter]) = w /\ casts(table[voter]) = prods
    BY <1>1, <1>4
  <2>2. Body(table[voter], casts(table[voter]), weight(table[voter]))
    BY <2>1 DEF UpdateVotes
  <2> HIDE DEF Body
  <2>3. QED
    BY <1>1, <2>1, <2>2
<1>6. voters' = [voters EXCEPT ![voter] = new]
  BY <1>1, <1>5 DEF Cast, VoterTable
<1>7. QED
  BY <1>2, <1>3, <1>5, <1>6 DEF d, Changed

\* It is sound where its producers are known.
LEMMA CastSound ==
  ASSUME NEW row \in voter_info, 0 <= row.staked, NEW prods \in SUBSET Producer,
         NEW voting \in BOOLEAN, NEW ps, \A p \in prods : ps[p] # Nil
  PROVE  Sound(Cast(row, prods, voting), ps)
BY CastRow DEF Sound

\* A row that counts as the voter's own: update_stake changes only the stake.
CountsAs(row, old) == /\ ActivatedBy(row) = ActivatedBy(old)
                      /\ \A p \in Producer : VotesFor(row, p) = VotesFor(old, p)

\* What a sound row takes back and gives is what its votes change by.
LEMMA ChangeIs ==
  ASSUME NEW row \in voter_info, NEW new \in voter_info, NEW ps, Sound(row, ps), NEW p \in Producer
  PROVE  Change(row, new, p) = VotesFor(new, p) - VotesFor(row, p)
<1>1. row # Nil /\ new # Nil
  BY VotingFinite
<1>2. (IF p \in Retracted(row) THEN row.last_vote_weight ELSE 0) = VotesFor(row, p)
  BY <1>1 DEF Sound, Retracted, VotesFor, voter_info
<1>3. QED
  BY <1>1, <1>2 DEF Change, VotesFor

\* The row of a producer with other votes.
LEMMA TotalVotesPut ==
  ASSUME NEW row \in producer_info, NEW n \in Nat
  PROVE  /\ [row EXCEPT !.total_votes = n] \in producer_info
         /\ [row EXCEPT !.total_votes = n].total_votes = n
BY DEF producer_info

\* update_votes keeps the counts right.
LEMMA UpdateVotesKeeps ==
  ASSUME VotesInv, NEW voter \in Account, NEW row \in voter_info, 0 <= row.staked,
         Sound(row, producers), CountsAs(row, voters[voter]),
         NEW prods \in SUBSET Producer, NEW voting \in BOOLEAN,
         UpdateVotes([voters EXCEPT ![voter] = row], voter, prods, voting)
  PROVE  /\ VotesInv'
         /\ voters' = [voters EXCEPT ![voter] = Cast(row, prods, voting)]
         /\ \A p \in Producer : producers'[p] = Nil <=> producers[p] = Nil
<1> DEFINE new == Cast(row, prods, voting)
           D == Changed(row, prods)
           d == [p \in D |-> Change(row, new, p)]
<1>1. voters \in VoterTable /\ producers \in ProducerTable
  BY DEF VotesInv
<1>2. /\ \A p \in prods : producers[p] # Nil
      /\ voters' = [voters EXCEPT ![voter] = new]
      /\ producers' = [p \in Producer |->
           IF p \in D THEN [producers[p] EXCEPT !.total_votes = AtLeastZero(@ + d[p])] ELSE producers[p]]
      /\ total_activated_stake' = total_activated_stake + new.last_stake - row.last_stake
      /\ total_producer_vote_weight' = total_producer_vote_weight + SumFunctionOnSet(d, D)
  BY <1>1, UpdateVotesIs
<1>3. new \in voter_info /\ Sound(new, producers) /\ new.producers = prods
  BY <1>2, CastRow, CastSound
<1> HIDE DEF new
<1>4. voters' \in VoterTable /\ voters'[voter] = new /\ \A a \in Account : a # voter => voters'[a] = voters[a]
  BY <1>1, <1>2, <1>3 DEF VoterTable
<1>5. \A p \in D : d[p] = VotesFor(new, p) - VotesFor(row, p) /\ p \in Producer /\ producers[p] # Nil
  <2>1. D \subseteq Producer /\ \A p \in D : producers[p] # Nil
    BY <1>2 DEF Changed, Retracted, Sound, voter_info
  <2>2. QED
    BY <1>3, <2>1, ChangeIs
<1>6. ASSUME NEW p \in Producer, p \notin D
      PROVE  VotesFor(new, p) = VotesFor(row, p)
  <2>1. Change(row, new, p) = 0
    BY <1>3, <1>6 DEF Change, Changed
  <2>2. VotesFor(new, p) \in Int /\ VotesFor(row, p) \in Int
    BY <1>3, RowsCount
  <2>3. QED
    BY <1>3, <2>1, <2>2, ChangeIs
<1>7. ASSUME NEW p \in Producer
      PROVE  VotesIn(voters', p) = VotesIn(voters, p) + VotesFor(new, p) - VotesFor(row, p)
             /\ VotesIn(voters, p) \in Int
  BY <1>1, <1>2, <1>3, VotesPut DEF CountsAs
<1> HIDE DEF d, D
<1>8. ASSUME NEW p \in D
      PROVE  /\ producers'[p] = [producers[p] EXCEPT !.total_votes = VotesIn(voters', p)]
             /\ producers[p].total_votes = VotesIn(voters, p)
             /\ d[p] = VotesIn(voters', p) - VotesIn(voters, p)
             /\ p \in Producer /\ producers[p] \in producer_info
             /\ VotesIn(voters', p) \in Nat
  <2>1. p \in Producer /\ producers[p] \in producer_info
    BY <1>1, <1>5 DEF ProducerTable
  <2>2. producers[p].total_votes = VotesIn(voters, p)
    BY <1>5, <2>1 DEF VotesInv, CountedIn
  <2>3. /\ d[p] = VotesFor(new, p) - VotesFor(row, p)
        /\ VotesFor(new, p) \in Int /\ VotesFor(row, p) \in Int
    BY <1>3, <1>5, <2>1, RowsCount
  <2>4. AllSound(voters', producers)
    BY <1>3, <1>4 DEF VotesInv, AllSound
  <2>5. VotesIn(voters', p) \in Nat
    BY <1>4, <2>1, <2>4, VotesNat
  <2>6. producers[p].total_votes + d[p] = VotesIn(voters', p)
    BY <1>7, <2>1, <2>2, <2>3
  <2>7. AtLeastZero(producers[p].total_votes + d[p]) = VotesIn(voters', p)
    BY <2>5, <2>6 DEF AtLeastZero
  <2>8. producers'[p] = [producers[p] EXCEPT !.total_votes = AtLeastZero(producers[p].total_votes + d[p])]
    BY <1>2, <2>1
  <2>9. QED
    BY <1>7, <2>1, <2>2, <2>3, <2>5, <2>6, <2>7, <2>8
<1>9. ASSUME NEW p \in Producer, p \notin D
      PROVE  producers'[p] = producers[p] /\ VotesIn(voters', p) = VotesIn(voters, p)
  <2>1. VotesFor(new, p) = VotesFor(row, p) /\ VotesFor(row, p) \in Int
    BY <1>6, <1>9, RowsCount
  <2>2. producers'[p] = producers[p]
    BY <1>2, <1>9
  <2>3. VotesIn(voters', p) = VotesIn(voters, p) + VotesFor(new, p) - VotesFor(row, p)
        /\ VotesIn(voters, p) \in Int
    BY <1>7
  <2>4. QED
    BY <2>1, <2>2, <2>3
<1>10. ASSUME NEW p \in Producer
       PROVE  /\ producers'[p] \in producer_info \cup {Nil}
              /\ producers'[p] = Nil <=> producers[p] = Nil
              /\ producers'[p] # Nil => producers'[p].total_votes = VotesIn(voters', p)
  <2>1. CASE p \in D
    <3>1. /\ producers'[p] = [producers[p] EXCEPT !.total_votes = VotesIn(voters', p)]
          /\ producers[p] \in producer_info /\ VotesIn(voters', p) \in Nat
      BY <1>8, <2>1
    <3>2. producers'[p] \in producer_info /\ producers'[p].total_votes = VotesIn(voters', p)
      BY <3>1, TotalVotesPut
    <3>3. QED
      BY <3>1, <3>2, VotingFinite
  <2>2. CASE p \notin D
    BY <1>1, <1>9, <2>2 DEF ProducerTable, VotesInv, CountedIn
  <2>3. QED
    BY <2>1, <2>2
<1>11. producers' \in ProducerTable
  BY <1>2, <1>10 DEF ProducerTable
<1>12. AllSound(voters', producers')
  <2>1. \A r : Sound(r, producers) /\ r \in voter_info => Sound(r, producers')
    BY <1>10 DEF Sound, voter_info
  <2>2. QED
    BY <1>1, <1>3, <1>4, <2>1 DEF VotesInv, AllSound, VoterTable
<1>13. total_producer_vote_weight' = WeightIn(producers')
  <2> DEFINE f == [p \in Producer |-> VotesOf(producers[p])]
             g == [p \in Producer |-> VotesOf(producers'[p])]
  <2>1. \A p \in Producer : f[p] \in Int /\ g[p] \in Int
    BY <1>1, <1>10, RowsCount DEF ProducerTable
  <2>2. \A p \in D : d[p] \in Int /\ g[p] = f[p] + d[p]
    <3> TAKE p \in D
    <3>1. f[p] = producers[p].total_votes /\ g[p] = VotesIn(voters', p)
      BY <1>5, <1>8, <1>10 DEF VotesOf
    <3>2. VotesIn(voters, p) \in Int /\ VotesIn(voters', p) \in Int
      <4>1. p \in Producer /\ VotesIn(voters', p) \in Nat
        BY <1>8
      <4>2. VotesIn(voters, p) \in Int
        BY <1>7, <4>1
      <4>3. QED
        BY <4>1, <4>2
    <3>3. /\ producers[p].total_votes = VotesIn(voters, p)
          /\ d[p] = VotesIn(voters', p) - VotesIn(voters, p)
      BY <1>8
    <3> HIDE DEF f, g
    <3>4. QED
      BY <3>1, <3>2, <3>3
  <2>3. \A p \in Producer \ D : g[p] = f[p]
    BY <1>9
  <2>4. D \in SUBSET Producer
    BY <1>5
  <2> HIDE DEF f, g
  <2>5. SumFunctionOnSet(g, Producer) = SumFunctionOnSet(f, Producer) + SumFunctionOnSet(d, D)
    BY <2>1, <2>2, <2>3, <2>4, VotingFinite, SumShift
  <2>6. total_producer_vote_weight = SumFunctionOnSet(f, Producer)
    BY DEF VotesInv, CountedIn, WeightIn, f
  <2>7. QED
    BY <1>2, <2>5, <2>6 DEF WeightIn, g
<1>14. total_activated_stake' = ActivatedIn(voters')
  <2>1. ActivatedIn(voters') = ActivatedIn(voters) + ActivatedBy(new) - ActivatedBy(row)
    BY <1>1, <1>2, <1>3, ActivatedPut DEF CountsAs
  <2>2. ActivatedBy(new) = new.last_stake /\ ActivatedBy(row) = row.last_stake
    BY <1>3, VotingFinite DEF ActivatedBy
  <2>3. QED
    BY <1>2, <2>1, <2>2 DEF VotesInv, CountedIn
<1>15. CountedIn(voters', producers', total_producer_vote_weight', total_activated_stake')
  BY <1>10, <1>13, <1>14 DEF CountedIn
<1>16. QED
  BY <1>2, <1>4, <1>10, <1>11, <1>12, <1>15 DEF VotesInv, new

-----------------------------------------------------------------------------
(* The other changes of the two tables *)

\* What a voter has, or would begin with.
Base(old) == IF old = Nil THEN NewVoter ELSE old

\* It is a row, and sound, and counts for what the old one did.
LEMMA BaseSound ==
  ASSUME VotesInv, NEW voter \in Account
  PROVE  /\ Base(voters[voter]) \in voter_info
         /\ Sound(Base(voters[voter]), producers)
         /\ CountsAs(Base(voters[voter]), voters[voter])
<1>1. NewVoter \in voter_info /\ Sound(NewVoter, producers) /\ CountsAs(NewVoter, Nil)
  <2>1. NewVoter \in voter_info
    BY DEF NewVoter, voter_info
  <2>2. Sound(NewVoter, producers)
    BY DEF NewVoter, Sound
  <2>3. ActivatedBy(NewVoter) = 0 /\ \A p \in Producer : VotesFor(NewVoter, p) = 0
    BY DEF NewVoter, ActivatedBy, VotesFor
  <2>4. ActivatedBy(Nil) = 0 /\ \A p \in Producer : VotesFor(Nil, p) = 0
    BY DEF ActivatedBy, VotesFor
  <2>5. QED
    BY <2>1, <2>2, <2>3, <2>4 DEF CountsAs
<1>2. CASE voters[voter] = Nil
  BY <1>1, <1>2 DEF Base
<1>3. CASE voters[voter] # Nil
  BY <1>3 DEF Base, VotesInv, AllSound, VoterTable, CountsAs
<1>4. QED
  BY <1>2, <1>3

\* The same with another stake or other flags.
With(row, staked, flags) == [row EXCEPT !.staked = staked, !.flags1 = flags]

\* It is a row, as sound, and counts for the same.
LEMMA RowLike ==
  ASSUME NEW old, NEW ps, NEW row \in voter_info, Sound(row, ps), CountsAs(row, old),
         NEW staked \in Int, NEW flags \in SUBSET flags1_fields
  PROVE  /\ With(row, staked, flags) \in voter_info
         /\ Sound(With(row, staked, flags), ps) /\ CountsAs(With(row, staked, flags), old)
         /\ With(row, staked, flags).staked = staked /\ With(row, staked, flags).flags1 = flags
         /\ With(row, staked, flags).producers = row.producers
         /\ With(row, staked, flags).last_stake = row.last_stake
<1> DEFINE new == With(row, staked, flags)
<1>1. new \in voter_info
  BY DEF voter_info, With
<1>2. /\ new.staked = staked /\ new.flags1 = flags /\ new.producers = row.producers
      /\ new.last_stake = row.last_stake /\ new.last_vote_weight = row.last_vote_weight
  BY DEF voter_info, With
<1> HIDE DEF new
<1>3. Sound(new, ps)
  BY <1>2 DEF Sound
<1>4. row # Nil /\ new # Nil
  BY <1>1, VotingFinite
<1>5. CountsAs(new, old)
  BY <1>2, <1>4 DEF CountsAs, ActivatedBy, VotesFor
<1>6. QED
  BY <1>1, <1>2, <1>3, <1>5 DEF new

\* A row that counts as before changes no count.
LEMMA VoterPutKeeps ==
  ASSUME VotesInv, NEW voter \in Account, NEW row \in voter_info, Sound(row, producers),
         CountsAs(row, voters[voter]), voters' = [voters EXCEPT ![voter] = row],
         UNCHANGED <<producers, tallies>>
  PROVE  VotesInv'
<1>1. voters \in VoterTable /\ producers \in ProducerTable
  BY DEF VotesInv
<1>2. voters' \in VoterTable /\ voters'[voter] = row /\ \A a \in Account : a # voter => voters'[a] = voters[a]
  BY <1>1 DEF VoterTable
<1>3. \A p \in Producer : VotesIn(voters', p) = VotesIn(voters, p)
  <2> TAKE p \in Producer
  <2>1. /\ VotesIn(voters', p) = VotesIn(voters, p) + VotesFor(row, p) - VotesFor(voters[voter], p)
        /\ VotesIn(voters, p) \in Int
    BY <1>1, VotesPut
  <2>2. VotesFor(row, p) = VotesFor(voters[voter], p) /\ VotesFor(row, p) \in Int
    BY RowsCount DEF CountsAs
  <2>3. QED
    BY <2>1, <2>2
<1>4. ActivatedIn(voters') = ActivatedIn(voters)
  <2>1. /\ ActivatedIn(voters') = ActivatedIn(voters) + ActivatedBy(row) - ActivatedBy(voters[voter])
        /\ ActivatedIn(voters) \in Int
    BY <1>1, ActivatedPut
  <2>2. ActivatedBy(row) = ActivatedBy(voters[voter]) /\ ActivatedBy(row) \in Int
    BY RowsCount DEF CountsAs
  <2>3. QED
    BY <2>1, <2>2
<1>5. AllSound(voters', producers)
  BY <1>2 DEF VotesInv, AllSound
<1>6. CountedIn(voters', producers, total_producer_vote_weight, total_activated_stake)
  BY <1>3, <1>4 DEF VotesInv, CountedIn
<1>7. QED
  BY <1>1, <1>2, <1>5, <1>6 DEF VotesInv, tallies

\* Nobody votes for one who is not in the table.
LEMMA UnknownHasNone ==
  ASSUME VotesInv, NEW p \in Producer, producers[p] = Nil
  PROVE  VotesIn(voters, p) = 0
<1> DEFINE f == [a \in Account |-> VotesFor(voters[a], p)]
<1>1. \A a \in Account : f[a] = 0
  BY DEF VotesInv, AllSound, Sound, VotesFor
<1> HIDE DEF f
<1>2. SumFunctionOnSet(f, Account) = 0
  BY <1>1, VotingFinite, SumZero
<1>3. QED
  BY <1>2 DEF VotesIn, f

\* A producer's row changes, but for its votes.
LEMMA ProducerPutKeeps ==
  ASSUME VotesInv, NEW p \in Producer, NEW row \in producer_info, VotesOf(row) = VotesOf(producers[p]),
         producers' = [producers EXCEPT ![p] = row], UNCHANGED <<voters, tallies>>
  PROVE  VotesInv'
<1>1. voters \in VoterTable /\ producers \in ProducerTable
  BY DEF VotesInv
<1>2. /\ producers' \in ProducerTable /\ producers'[p] = row
      /\ \A q \in Producer : q # p => producers'[q] = producers[q]
  BY <1>1 DEF ProducerTable
<1>3. row # Nil
  BY VotingFinite
<1>4. row.total_votes = VotesIn(voters, p)
  BY <1>3, UnknownHasNone DEF VotesOf, VotesInv, CountedIn
<1>5. WeightIn(producers') = WeightIn(producers)
  <2> DEFINE f == [q \in Producer |-> VotesOf(producers[q])]
             g == [q \in Producer |-> VotesOf(producers'[q])]
  <2>1. \A q \in Producer : f[q] = g[q]
    BY <1>2
  <2> HIDE DEF f, g
  <2>2. SumFunctionOnSet(f, Producer) = SumFunctionOnSet(g, Producer)
    BY <2>1, VotingFinite, SumEqual
  <2>3. QED
    BY <2>2 DEF WeightIn, f, g
<1>6. AllSound(voters, producers')
  BY <1>1, <1>2, <1>3 DEF VotesInv, AllSound, Sound, VoterTable, voter_info
<1>7. CountedIn(voters, producers', total_producer_vote_weight, total_activated_stake)
  BY <1>2, <1>4, <1>5 DEF VotesInv, CountedIn
<1>8. QED
  BY <1>1, <1>2, <1>6, <1>7 DEF VotesInv, tallies

\* A table in which the stake of a voter has been changed.
ShiftedTable(table, voter, shift) ==
  \/ table = voters /\ shift = 0
  \/ voters[voter] # Nil /\ table = [voters EXCEPT ![voter].staked = @ + shift]

\* update_voting_power keeps the counts right and lets votes weigh the stake.
LEMMA PowerKeeps ==
  ASSUME VotesInv, NEW voter \in Account, NEW table, NEW shift \in Int, NEW delta \in Int,
         ShiftedTable(table, voter, shift),
         UpdateVotingPower(table, voter, delta)
  PROVE  LET old == Base(voters[voter])
             new == voters'[voter]
         IN /\ VotesInv'
            /\ \A a \in Account : a # voter => voters'[a] = voters[a]
            /\ new \in voter_info /\ new.staked = old.staked + shift + delta /\ 0 <= new.staked
            /\ new.flags1 = old.flags1 /\ new.producers = old.producers
            /\ new.producers # {} => new.last_stake = new.staked
            /\ \A p \in Producer : producers'[p] = Nil <=> producers[p] = Nil
<1> DEFINE old == Base(voters[voter])
           total == old.staked + shift + delta
           row == With(old, total, old.flags1)
<1>1. voters \in VoterTable
  BY DEF VotesInv
<1>2. old \in voter_info /\ Sound(old, producers) /\ CountsAs(old, voters[voter])
  BY BaseSound
<1>3. total \in Int /\ old.flags1 \in SUBSET flags1_fields
  BY <1>2 DEF voter_info
<1> HIDE DEF old
<1>4. /\ row \in voter_info /\ Sound(row, producers) /\ CountsAs(row, voters[voter])
      /\ row.staked = total /\ row.flags1 = old.flags1 /\ row.producers = old.producers
  <2> HIDE DEF total
  <2>1. QED
    BY <1>2, <1>3, RowLike
<1> DEFINE before == IF table[voter] = Nil THEN NewVoter ELSE table[voter]
           moved == [before EXCEPT !.staked = @ + delta]
<1>5. moved = row /\ before.producers = old.producers
  <2>1. row = [old EXCEPT !.staked = total]
    BY <1>2 DEF voter_info, With
  <2>2. CASE table = voters /\ shift = 0
    <3>1. before = old
      BY <2>2 DEF old, Base
    <3>2. old.staked + delta = total
      BY <1>2, <2>2 DEF voter_info
    <3>3. QED
      BY <1>2, <2>1, <3>1, <3>2 DEF voter_info
  <2>3. CASE voters[voter] # Nil /\ table = [voters EXCEPT ![voter].staked = @ + shift]
    <3>1. table[voter] = [old EXCEPT !.staked = @ + shift]
      BY <1>1, <2>3 DEF old, Base, VoterTable
    <3>2. [old EXCEPT !.staked = old.staked + shift] \in voter_info
      BY <1>2 DEF voter_info
    <3>3. before = [old EXCEPT !.staked = old.staked + shift]
      BY <3>1, <3>2, VotingFinite
    <3>4. moved = [old EXCEPT !.staked = (old.staked + shift) + delta]
      BY <1>2, <3>3 DEF voter_info
    <3>5. QED
      BY <1>2, <2>1, <3>3, <3>4 DEF voter_info
  <2>4. QED
    BY <2>2, <2>3 DEF ShiftedTable
<1>6. [table EXCEPT ![voter] = moved] = [voters EXCEPT ![voter] = row]
  <2> HIDE DEF moved, row
  <2>1. CASE table = voters /\ shift = 0
    BY <1>5, <2>1
  <2>2. CASE voters[voter] # Nil /\ table = [voters EXCEPT ![voter].staked = @ + shift]
    BY <1>1, <1>5, <2>2 DEF VoterTable
  <2>3. QED
    BY <2>1, <2>2 DEF ShiftedTable
<1> DEFINE after == [table EXCEPT ![voter] = moved]
<1>7. /\ 0 <= after[voter].staked
      /\ \/ /\ before.producers # {}
            /\ UpdateVotes(after, voter, before.producers, FALSE)
         \/ /\ before.producers = {}
            /\ voters' = after
            /\ UNCHANGED <<producers, tallies>>
  BY DEF UpdateVotingPower
<1> HIDE DEF moved, row, total, before
<1>8. /\ 0 <= row.staked
      /\ \/ /\ row.producers # {}
            /\ UpdateVotes([voters EXCEPT ![voter] = row], voter, row.producers, FALSE)
         \/ /\ row.producers = {}
            /\ voters' = [voters EXCEPT ![voter] = row]
            /\ UNCHANGED <<producers, tallies>>
  <2>1. [voters EXCEPT ![voter] = row][voter] = row
    BY <1>1 DEF VoterTable
  <2> HIDE DEF after
  <2>2. after = [voters EXCEPT ![voter] = row]
    BY <1>6 DEF after
  <2>3. QED
    BY <1>4, <1>5, <1>7, <2>1, <2>2
<1>9. CASE row.producers # {}
  <2>1. UpdateVotes([voters EXCEPT ![voter] = row], voter, row.producers, FALSE)
    BY <1>8, <1>9
  <2>2. row.producers \in SUBSET Producer /\ FALSE \in BOOLEAN
    BY <1>4 DEF voter_info
  <2>3. /\ VotesInv' /\ voters' = [voters EXCEPT ![voter] = Cast(row, row.producers, FALSE)]
        /\ \A p \in Producer : producers'[p] = Nil <=> producers[p] = Nil
    BY <1>4, <1>8, <2>1, <2>2, UpdateVotesKeeps
  <2>4. /\ Cast(row, row.producers, FALSE) \in voter_info
        /\ Cast(row, row.producers, FALSE).producers = row.producers
        /\ Cast(row, row.producers, FALSE).staked = row.staked
        /\ Cast(row, row.producers, FALSE).flags1 = row.flags1
        /\ Cast(row, row.producers, FALSE).last_stake = row.staked
    BY <1>4, <1>8, <2>2, CastRow DEF StakeCounted
  <2>5. /\ voters'[voter] = Cast(row, row.producers, FALSE)
        /\ \A a \in Account : a # voter => voters'[a] = voters[a]
    BY <1>1, <2>3 DEF VoterTable
  <2>6. QED
    BY <1>4, <1>8, <2>3, <2>4, <2>5 DEF total, old
<1>10. CASE row.producers = {}
  <2>1. voters' = [voters EXCEPT ![voter] = row] /\ UNCHANGED <<producers, tallies>>
    BY <1>8, <1>10
  <2>2. VotesInv'
    BY <1>4, <2>1, VoterPutKeeps
  <2>3. voters'[voter] = row /\ \A a \in Account : a # voter => voters'[a] = voters[a]
    BY <1>1, <2>1 DEF VoterTable
  <2>4. QED
    BY <1>4, <1>8, <1>10, <2>1, <2>2, <2>3 DEF total, old
<1>11. QED
  BY <1>9, <1>10

-----------------------------------------------------------------------------
(* Delegations *)

DelTable == [Account -> [Account -> Weights]]

\* What one has delegated, and all have; what has been delegated to one.
StakeOf(del, from) == SumFunctionOnSet([to \in Account |-> Sum(del[from][to])], Account)
StakeOfAll(del) == SumFunctionOnSet([a \in Account |-> StakeOf(del, a)], Account)
NetTo(del, to) == SumFunctionOnSet([f \in Account |-> del[f][to].net], Account)
CpuTo(del, to) == SumFunctionOnSet([f \in Account |-> del[f][to].cpu], Account)

\* The table with other weights in a row.
PutWeights(del, from, to, w) == [del EXCEPT ![from][to] = w]

\* Where the row is.
LEMMA WeightsPut ==
  ASSUME NEW del \in DelTable, NEW from \in Account, NEW to \in Account, NEW w \in Weights
  PROVE  /\ PutWeights(del, from, to, w) \in DelTable
         /\ PutWeights(del, from, to, w)[from][to] = w
         /\ \A f, t \in Account : f # from \/ t # to => PutWeights(del, from, to, w)[f][t] = del[f][t]
         /\ \A f \in Account : f # from => PutWeights(del, from, to, w)[f] = del[f]
<1> DEFINE row == [del[from] EXCEPT ![to] = w]
<1>1. del[from] \in [Account -> Weights]
  BY DEF DelTable
<1>2. /\ row \in [Account -> Weights] /\ row[to] = w
      /\ \A t \in Account : t # to => row[t] = del[from][t]
  BY <1>1
<1>3. PutWeights(del, from, to, w) = [del EXCEPT ![from] = row]
  BY DEF PutWeights
<1> HIDE DEF row
<1>4. QED
  BY <1>2, <1>3 DEF DelTable

\* Weights are naturals.
LEMMA WeightsNat ==
  ASSUME NEW w \in Weights
  PROVE  w.net \in Nat /\ w.cpu \in Nat /\ Sum(w) \in Nat
BY DEF Weights, Sum

\* Sums of naturals are naturals.
LEMMA StakeNat ==
  ASSUME NEW del \in DelTable, NEW a \in Account
  PROVE  StakeOf(del, a) \in Nat /\ NetTo(del, a) \in Nat /\ CpuTo(del, a) \in Nat
<1>1. \A f, t \in Account : del[f][t] \in Weights
  BY DEF DelTable
<1>2. StakeOf(del, a) \in Nat
  <2> DEFINE f == [t \in Account |-> Sum(del[a][t])]
  <2>1. \A t \in Account : f[t] \in Nat
    BY <1>1, WeightsNat
  <2> HIDE DEF f
  <2>2. SumFunctionOnSet(f, Account) \in Nat
    BY <2>1, VotingFinite, SumNat
  <2>3. QED
    BY <2>2 DEF StakeOf, f
<1>3. NetTo(del, a) \in Nat
  <2> DEFINE f == [t \in Account |-> del[t][a].net]
  <2>1. \A t \in Account : f[t] \in Nat
    BY <1>1, WeightsNat
  <2> HIDE DEF f
  <2>2. SumFunctionOnSet(f, Account) \in Nat
    BY <2>1, VotingFinite, SumNat
  <2>3. QED
    BY <2>2 DEF NetTo, f
<1>4. CpuTo(del, a) \in Nat
  <2> DEFINE f == [t \in Account |-> del[t][a].cpu]
  <2>1. \A t \in Account : f[t] \in Nat
    BY <1>1, WeightsNat
  <2> HIDE DEF f
  <2>2. SumFunctionOnSet(f, Account) \in Nat
    BY <2>1, VotingFinite, SumNat
  <2>3. QED
    BY <2>2 DEF CpuTo, f
<1>5. QED
  BY <1>2, <1>3, <1>4

\* A change of weights changes the stake of the one who delegates.
LEMMA StakePut ==
  ASSUME NEW del \in DelTable, NEW from \in Account, NEW to \in Account, NEW w \in Weights
  PROVE  /\ StakeOf(PutWeights(del, from, to, w), from) = StakeOf(del, from) + Sum(w) - Sum(del[from][to])
         /\ \A a \in Account : a # from => StakeOf(PutWeights(del, from, to, w), a) = StakeOf(del, a)
<1> DEFINE new == PutWeights(del, from, to, w)
           f == [t \in Account |-> Sum(del[from][t])]
           g == [t \in Account |-> Sum(new[from][t])]
<1>1. /\ new \in DelTable /\ new[from][to] = w
      /\ \A t \in Account : t # to => new[from][t] = del[from][t]
      /\ \A a \in Account : a # from => new[a] = del[a]
  BY WeightsPut
<1> HIDE DEF new
<1>2. \A t \in Account : f[t] \in Int /\ g[t] \in Int
  BY <1>1, WeightsNat DEF DelTable
<1>3. \A t \in Account \ {to} : g[t] = f[t]
  BY <1>1
<1>4. g[to] = Sum(w) /\ f[to] = Sum(del[from][to])
  BY <1>1
<1> HIDE DEF f, g
<1>5. SumFunctionOnSet(g, Account) = SumFunctionOnSet(f, Account) + g[to] - f[to]
  BY <1>2, <1>3, VotingFinite, SumChange
<1>6. StakeOf(new, from) = StakeOf(del, from) + Sum(w) - Sum(del[from][to])
  BY <1>4, <1>5 DEF StakeOf, f, g
<1>7. ASSUME NEW a \in Account, a # from
      PROVE  StakeOf(new, a) = StakeOf(del, a)
  BY <1>1, <1>7 DEF StakeOf
<1>8. QED
  BY <1>6, <1>7 DEF new

\* And of all.
LEMMA StakeOfAllPut ==
  ASSUME NEW del \in DelTable, NEW from \in Account, NEW to \in Account, NEW w \in Weights
  PROVE  /\ StakeOfAll(PutWeights(del, from, to, w)) = StakeOfAll(del) + Sum(w) - Sum(del[from][to])
         /\ StakeOfAll(del) \in Int
<1> DEFINE new == PutWeights(del, from, to, w)
           f == [a \in Account |-> StakeOf(del, a)]
           g == [a \in Account |-> StakeOf(new, a)]
<1>1. /\ StakeOf(new, from) = StakeOf(del, from) + Sum(w) - Sum(del[from][to])
      /\ \A a \in Account : a # from => StakeOf(new, a) = StakeOf(del, a)
      /\ new \in DelTable
  BY StakePut, WeightsPut
<1> HIDE DEF new
<1>2. \A a \in Account : f[a] \in Int /\ g[a] \in Int
  BY <1>1, StakeNat
<1>3. \A a \in Account \ {from} : g[a] = f[a]
  BY <1>1
<1>4. g[from] = StakeOf(new, from) /\ f[from] = StakeOf(del, from) /\ f[from] \in Int
      /\ Sum(w) \in Int /\ Sum(del[from][to]) \in Int
  BY StakeNat, WeightsNat DEF DelTable
<1> HIDE DEF f, g
<1>5. SumFunctionOnSet(g, Account) = SumFunctionOnSet(f, Account) + g[from] - f[from]
  BY <1>2, <1>3, VotingFinite, SumChange
<1>6. SumFunctionOnSet(f, Account) \in Int
  BY <1>2, VotingFinite, SumInt
<1>7. SumFunctionOnSet(g, Account) = SumFunctionOnSet(f, Account) + Sum(w) - Sum(del[from][to])
  BY <1>1, <1>4, <1>5, <1>6
<1>8. QED
  BY <1>6, <1>7 DEF StakeOfAll, f, g, new

\* And the totals of the one they are delegated to.
LEMMA TotalsPut ==
  ASSUME NEW del \in DelTable, NEW from \in Account, NEW to \in Account, NEW w \in Weights
  PROVE  /\ NetTo(PutWeights(del, from, to, w), to) = NetTo(del, to) + w.net - del[from][to].net
         /\ CpuTo(PutWeights(del, from, to, w), to) = CpuTo(del, to) + w.cpu - del[from][to].cpu
         /\ \A a \in Account : a # to => /\ NetTo(PutWeights(del, from, to, w), a) = NetTo(del, a)
                                         /\ CpuTo(PutWeights(del, from, to, w), a) = CpuTo(del, a)
<1> DEFINE new == PutWeights(del, from, to, w)
<1>1. /\ new \in DelTable /\ new[from][to] = w
      /\ \A f, t \in Account : f # from \/ t # to => new[f][t] = del[f][t]
  BY WeightsPut
<1> HIDE DEF new
<1>2. NetTo(new, to) = NetTo(del, to) + w.net - del[from][to].net
  <2> DEFINE f == [a \in Account |-> del[a][to].net]
             g == [a \in Account |-> new[a][to].net]
  <2>1. \A a \in Account : f[a] \in Int /\ g[a] \in Int
    BY <1>1, WeightsNat DEF DelTable
  <2>2. \A a \in Account \ {from} : g[a] = f[a]
    BY <1>1
  <2>3. g[from] = w.net /\ f[from] = del[from][to].net
    BY <1>1
  <2> HIDE DEF f, g
  <2>4. SumFunctionOnSet(g, Account) = SumFunctionOnSet(f, Account) + g[from] - f[from]
    BY <2>1, <2>2, VotingFinite, SumChange
  <2>5. QED
    BY <2>3, <2>4 DEF NetTo, f, g
<1>3. CpuTo(new, to) = CpuTo(del, to) + w.cpu - del[from][to].cpu
  <2> DEFINE f == [a \in Account |-> del[a][to].cpu]
             g == [a \in Account |-> new[a][to].cpu]
  <2>1. \A a \in Account : f[a] \in Int /\ g[a] \in Int
    BY <1>1, WeightsNat DEF DelTable
  <2>2. \A a \in Account \ {from} : g[a] = f[a]
    BY <1>1
  <2>3. g[from] = w.cpu /\ f[from] = del[from][to].cpu
    BY <1>1
  <2> HIDE DEF f, g
  <2>4. SumFunctionOnSet(g, Account) = SumFunctionOnSet(f, Account) + g[from] - f[from]
    BY <2>1, <2>2, VotingFinite, SumChange
  <2>5. QED
    BY <2>3, <2>4 DEF CpuTo, f, g
<1>4. ASSUME NEW a \in Account, a # to
      PROVE  NetTo(new, a) = NetTo(del, a) /\ CpuTo(new, a) = CpuTo(del, a)
  <2> DEFINE f == [b \in Account |-> del[b][a].net]
             g == [b \in Account |-> new[b][a].net]
             h == [b \in Account |-> del[b][a].cpu]
             k == [b \in Account |-> new[b][a].cpu]
  <2>1. f = g /\ h = k
    BY <1>1, <1>4
  <2>2. QED
    BY <2>1 DEF NetTo, CpuTo
<1>5. QED
  BY <1>2, <1>3, <1>4 DEF new

-----------------------------------------------------------------------------
(* Refunds *)

RefundTable == [Account -> refund_request \cup {Nil}]

OwedIn(refs) == SumFunctionOnSet([a \in Account |-> ToRefund(refs[a])], Account)

\* What is owed are naturals.
LEMMA RefundNat ==
  ASSUME NEW row \in refund_request \cup {Nil}
  PROVE  ToRefund(row) \in Nat
BY BandwidthAssumption DEF ToRefund, refund_request, Sum

\* A request changes what is owed.
LEMMA OwedPut ==
  ASSUME NEW refs \in RefundTable, NEW a \in Account, NEW row \in refund_request \cup {Nil}
  PROVE  /\ [refs EXCEPT ![a] = row] \in RefundTable
         /\ OwedIn([refs EXCEPT ![a] = row]) = OwedIn(refs) + ToRefund(row) - ToRefund(refs[a])
         /\ OwedIn(refs) \in Int
<1> DEFINE new == [refs EXCEPT ![a] = row]
           f == [b \in Account |-> ToRefund(refs[b])]
           g == [b \in Account |-> ToRefund(new[b])]
<1>1. /\ new \in RefundTable /\ new[a] = row
      /\ \A b \in Account : b # a => new[b] = refs[b]
  BY DEF RefundTable
<1>2. \A b \in Account : f[b] \in Int /\ g[b] \in Int
  BY <1>1, RefundNat DEF RefundTable
<1>3. \A b \in Account \ {a} : g[b] = f[b]
  BY <1>1
<1>4. f[a] = ToRefund(refs[a]) /\ g[a] = ToRefund(row)
  BY <1>1
<1> HIDE DEF f, g
<1>5. SumFunctionOnSet(g, Account) = SumFunctionOnSet(f, Account) + g[a] - f[a]
  BY <1>2, <1>3, VotingFinite, SumChange
<1>6. SumFunctionOnSet(f, Account) \in Int
  BY <1>2, VotingFinite, SumInt
<1>7. QED
  BY <1>1, <1>4, <1>5, <1>6 DEF OwedIn, f, g

-----------------------------------------------------------------------------
(* Tokens and REX *)

TokenHolder == Account \cup SystemAccounts

\* eosio.stake is no user.
LEMMA StakeApart == STAKE_ACCOUNT \in TokenHolder /\ STAKE_ACCOUNT \notin Account
BY BandwidthAssumption DEF TokenHolder, SystemAccounts

\* A transfer moves the tokens.
LEMMA TransferMoves ==
  ASSUME TLOS!TypeOK, NEW from \in TokenHolder, NEW to \in TokenHolder, NEW q \in Int,
         TLOS!Transfer(from, to, q)
  PROVE  /\ TLOS!TypeOK'
         /\ from = STAKE_ACCOUNT => TLOS!Balance(STAKE_ACCOUNT)' = TLOS!Balance(STAKE_ACCOUNT) - q
         /\ to = STAKE_ACCOUNT => TLOS!Balance(STAKE_ACCOUNT)' = TLOS!Balance(STAKE_ACCOUNT) + q
<1>1. /\ stat \in TLOS!currency_stats \cup {Nil} /\ stat # Nil
      /\ accounts \in [TokenHolder -> Nat \cup {Nil}]
      /\ from # to /\ q > 0 /\ accounts[from] # Nil /\ accounts[from] >= q
      /\ stat' = stat
      /\ accounts' = TLOS!add_balance(TLOS!sub_balance(accounts, from, q), to, q)
  BY DEF TLOS!TypeOK, TLOS!Transfer, TLOS!CanPay, TLOS!Moved, TokenHolder
<1>2. Nil \notin Int
  BY BandwidthAssumption
<1> DEFINE lowered == [accounts EXCEPT ![from] = accounts[from] - q]
<1>3. /\ accounts' = [lowered EXCEPT ![to] = IF lowered[to] = Nil THEN q ELSE lowered[to] + q]
      /\ lowered[to] = accounts[to] /\ lowered[from] = accounts[from] - q
      /\ lowered \in [TokenHolder -> Nat \cup {Nil}]
  BY <1>1, <1>2 DEF TLOS!add_balance, TLOS!sub_balance
<1> HIDE DEF lowered
<1>4. /\ accounts' \in [TokenHolder -> Nat \cup {Nil}]
      /\ accounts'[from] = accounts[from] - q
      /\ accounts'[to] = IF accounts[to] = Nil THEN q ELSE accounts[to] + q
  BY <1>1, <1>3
<1>5. TLOS!TypeOK'
  BY <1>1, <1>4 DEF TLOS!TypeOK, TokenHolder
<1>6. /\ TLOS!Balance(from)' = TLOS!Balance(from) - q
      /\ TLOS!Balance(to)' = TLOS!Balance(to) + q
  BY <1>1, <1>2, <1>4 DEF TLOS!Balance
<1>7. QED
  BY <1>5, <1>6

\* Balances are naturals.
LEMMA BalanceNat ==
  ASSUME TLOS!TypeOK
  PROVE  TLOS!Balance(STAKE_ACCOUNT) \in Nat
BY StakeApart, BandwidthAssumption DEF TLOS!TypeOK, TLOS!Balance, TokenHolder

\* REX is worth something, and counts as stake.
RexStake(row) == IF row = Nil THEN 0 ELSE row.vote_stake

RexInv ==
  /\ rexpool \in rex_pool \cup {Nil}
  /\ rexpool # Nil => 0 <= rexpool.total_lendable
  /\ rexbalance \in [Account -> rex_balance \cup {Nil}]
  /\ \A a \in Account : rexbalance[a] # Nil => /\ 0 <= rexbalance[a].rex_balance
                                               /\ 0 <= rexbalance[a].vote_stake

\* What it is worth is no less than nothing.
LEMMA WorthNat ==
  ASSUME RexInv, rex_available(rexpool), NEW rex \in Nat
  PROVE  Worth(rexpool, rex) \in Nat
<1>1. rexpool.total_lendable \in Nat /\ rexpool.total_rex \in Nat \ {0}
  BY DEF RexInv, rex_available, rex_pool
<1> DEFINE l == rexpool.total_lendable
           r == rexpool.total_rex
<1>2. (rex * l) \div r \in Nat
  <2> HIDE DEF l, r
  <2>1. l \in Nat /\ r \in Nat \ {0}
    BY <1>1 DEF l, r
  <2>2. rex * l \in Nat
    BY <2>1
  <2>3. QED
    BY <2>1, <2>2
<1>3. QED
  BY <1>2 DEF Worth

\* A balance of REX of another worth.
LEMMA VoteStakePut ==
  ASSUME NEW row \in rex_balance, NEW w \in Int
  PROVE  /\ [row EXCEPT !.vote_stake = w] \in rex_balance
         /\ [row EXCEPT !.vote_stake = w].vote_stake = w
         /\ [row EXCEPT !.vote_stake = w].rex_balance = row.rex_balance
BY DEF rex_balance

\* The value of one's REX is brought up to date, and one's stake with it.
LEMMA RevaluedIs ==
  ASSUME RexInv, NEW owner \in Account, rexbalance' = Revalued(owner), rexpool' = rexpool,
         voters[owner] = Nil => rexbalance[owner] = Nil, voters \in VoterTable
  PROVE  /\ RexInv'
         /\ RexStake(rexbalance[owner]) \in Nat /\ RexStake(rexbalance'[owner]) \in Nat
         /\ \A a \in Account : /\ a # owner => rexbalance'[a] = rexbalance[a]
                               /\ rexbalance'[a] = Nil <=> rexbalance[a] = Nil
         /\ ShiftedTable(Restaked(owner), owner,
                         RexStake(rexbalance'[owner]) - RexStake(rexbalance[owner]))
<1>1. Nil \notin rex_balance
  BY VotingAssumption
<1>2. rexbalance[owner] \in rex_balance \cup {Nil}
  BY DEF RexInv
<1> DEFINE w == Worth(rexpool, rexbalance[owner].rex_balance)
           row == [rexbalance[owner] EXCEPT !.vote_stake = w]
<1>3. ASSUME rexbalance[owner] # Nil, rex_available(rexpool)
      PROVE  /\ row \in rex_balance /\ row.vote_stake = w /\ w \in Nat
             /\ row.rex_balance = rexbalance[owner].rex_balance
             /\ rexbalance' = [rexbalance EXCEPT ![owner] = row]
  <2>1. rexbalance[owner].rex_balance \in Nat
    BY <1>2, <1>3 DEF RexInv, rex_balance
  <2>2. w \in Nat
    BY <1>3, <2>1, WorthNat
  <2>3. rexbalance' = [rexbalance EXCEPT ![owner] = row]
    BY <1>2, <1>3 DEF Revalued, RexInv
  <2>4. rexbalance[owner] \in rex_balance /\ w \in Int
    BY <1>2, <1>3, <2>2
  <2>5. /\ row \in rex_balance /\ row.vote_stake = w
        /\ row.rex_balance = rexbalance[owner].rex_balance
    <3> HIDE DEF w
    <3>1. QED
      BY <2>4, VoteStakePut
  <2>6. QED
    BY <2>2, <2>3, <2>5
<1>4. RexStake(rexbalance[owner]) \in Nat
  BY <1>1, <1>2 DEF RexInv, RexStake, rex_balance
<1>5. CASE rexbalance[owner] # Nil /\ rex_available(rexpool)
  <2> HIDE DEF w, row
  <2>1. /\ row \in rex_balance /\ row.vote_stake = w /\ w \in Nat
        /\ row.rex_balance = rexbalance[owner].rex_balance
        /\ rexbalance' = [rexbalance EXCEPT ![owner] = row]
    BY <1>3, <1>5 DEF row, w
  <2>2. rexbalance'[owner] = row /\ \A a \in Account : a # owner => rexbalance'[a] = rexbalance[a]
    BY <2>1 DEF RexInv
  <2>3. RexInv'
    BY <1>5, <2>1, <2>2 DEF RexInv
  <2>4. RexStake(rexbalance'[owner]) = w /\ RexStake(rexbalance[owner]) = rexbalance[owner].vote_stake
    BY <1>1, <1>5, <2>1, <2>2 DEF RexStake
  <2>5. \A a \in Account : rexbalance'[a] = Nil <=> rexbalance[a] = Nil
    BY <1>1, <1>5, <2>1, <2>2
  <2>6. voters[owner] # Nil /\ voters[owner] \in voter_info
    BY <1>5 DEF VoterTable
  <2>7. Restaked(owner) = [voters EXCEPT ![owner].staked = @ + w - rexbalance[owner].vote_stake]
    BY <1>5, <2>1, <2>2, <2>6 DEF Restaked
  <2>8. (voters[owner].staked + w) - rexbalance[owner].vote_stake
          = voters[owner].staked + (w - rexbalance[owner].vote_stake)
    BY <1>4, <2>1, <2>4, <2>6 DEF voter_info
  <2>9. Restaked(owner) = [voters EXCEPT ![owner].staked = @ + (w - rexbalance[owner].vote_stake)]
    BY <2>7, <2>8
  <2>10. QED
    BY <1>4, <2>1, <2>2, <2>3, <2>4, <2>5, <2>6, <2>9 DEF ShiftedTable
<1>6. CASE rexbalance[owner] = Nil
  <2>1. rexbalance' = rexbalance /\ Restaked(owner) = voters
    BY <1>6 DEF Revalued, Restaked
  <2>2. QED
    BY <1>4, <2>1 DEF ShiftedTable, RexInv
<1>7. CASE rexbalance[owner] # Nil /\ ~ rex_available(rexpool)
  <2>1. rexbalance' = rexbalance
    BY <1>7 DEF Revalued
  <2>2. voters[owner] # Nil /\ voters[owner] \in voter_info
    BY <1>7 DEF VoterTable
  <2>3. RexStake(rexbalance[owner]) = rexbalance[owner].vote_stake
    BY <1>7 DEF RexStake
  <2>4. Restaked(owner) = [voters EXCEPT ![owner].staked = @ + rexbalance[owner].vote_stake - rexbalance[owner].vote_stake]
    BY <1>7, <2>2 DEF Restaked, Revalued
  <2>5. (voters[owner].staked + rexbalance[owner].vote_stake) - rexbalance[owner].vote_stake
          = voters[owner].staked + (rexbalance[owner].vote_stake - rexbalance[owner].vote_stake)
    BY <1>4, <2>2, <2>3 DEF voter_info
  <2>6. Restaked(owner) = [voters EXCEPT ![owner].staked = @ + (rexbalance[owner].vote_stake - rexbalance[owner].vote_stake)]
    BY <2>4, <2>5
  <2>7. QED
    BY <1>4, <2>1, <2>2, <2>3, <2>6 DEF ShiftedTable, RexInv
<1>8. QED
  BY <1>5, <1>6, <1>7

-----------------------------------------------------------------------------
(* The invariant *)

\* Whom the stake of a voter is from.
Weighs(v, stake, rex) ==
  IF v = Nil THEN stake = 0 /\ rex = Nil
  ELSE /\ v.staked = stake + RexStake(rex)
       /\ v.producers # {} => v.last_stake = v.staked

WeighInv ==
  /\ del_bandwidth \in DelTable
  /\ \A a \in Account : Weighs(voters[a], StakeOf(del_bandwidth, a), rexbalance[a])

\* m of it is elsewhere.
HeldBut(m) ==
  /\ refunds \in RefundTable
  /\ TLOS!TypeOK
  /\ TLOS!Balance(STAKE_ACCOUNT) + m = StakeOfAll(del_bandwidth) + OwedIn(refunds)

HeldInv == HeldBut(0)

LimitSet == [ram : Int, net : Int, cpu : Int]
Flags(v) == IF v = Nil THEN {} ELSE v.flags1
Totals(row) == IF row = Nil THEN NoResources ELSE row

Follows(v, row, limit, net, cpu) ==
  /\ row # Nil => /\ "net_managed" \notin Flags(v) => limit.net = row.net
                  /\ "cpu_managed" \notin Flags(v) => limit.cpu = row.cpu
  /\ Totals(row).net = net /\ Totals(row).cpu = cpu

LimitsInv ==
  /\ userres \in [Account -> user_resources \cup {Nil}]
  /\ limits \in [Account -> LimitSet]
  /\ \A a \in Account : Follows(voters[a], userres[a], limits[a],
                                NetTo(del_bandwidth, a), CpuTo(del_bandwidth, a))

ClockInv == /\ now \in Time /\ activated \in BOOLEAN /\ cancelled \subseteq Account
            /\ deferred \in [Account -> Nat \cup {Nil}]

StakeInv == VotesInv /\ RexInv /\ WeighInv /\ HeldInv /\ LimitsInv /\ ClockInv

\* It says what the runs check.
LEMMA StakeInvSays ==
  StakeInv => TypeOK /\ VotesCounted /\ StakeHeld /\ VotesWeighStake /\ LimitsFollow
<1> SUFFICES ASSUME StakeInv
             PROVE  TypeOK /\ VotesCounted /\ StakeHeld /\ VotesWeighStake /\ LimitsFollow
  OBVIOUS
<1> USE DEF StakeInv
<1>1. VotesCounted
  BY VotesInvCounts
<1>2. \A a \in Account : Delegated(a) = StakeOf(del_bandwidth, a)
  BY DEF Delegated, StakeOf
<1>3. StakeHeld
  <2>1. [a \in Account |-> Delegated(a)] = [a \in Account |-> StakeOf(del_bandwidth, a)]
    BY <1>2
  <2>2. QED
    <3>1. TLOS!Balance(STAKE_ACCOUNT) \in Nat
      BY BalanceNat DEF HeldInv, HeldBut
    <3>2. TLOS!Balance(STAKE_ACCOUNT) = StakeOfAll(del_bandwidth) + OwedIn(refunds)
      BY <3>1 DEF HeldInv, HeldBut
    <3>3. QED
      BY <2>1, <3>2 DEF StakeHeld, StakeOfAll, OwedIn
<1>4. VotesWeighStake
  BY <1>2 DEF VotesWeighStake, WeighInv, Weighs, RexStake
<1>5. LimitsFollow
  BY DEF LimitsFollow, LimitsInv, Follows, Flags, Totals, Managed, Resources, NetTo, CpuTo
<1>6. total_activated_stake \in Int /\ total_producer_vote_weight \in Int
  <2>1. total_activated_stake \in Int
    <3> DEFINE f == [b \in Account |-> ActivatedBy(voters[b])]
    <3>1. \A b \in Account : f[b] \in Int
      BY RowsCount DEF VotesInv, VoterTable
    <3> HIDE DEF f
    <3>2. SumFunctionOnSet(f, Account) \in Int
      BY <3>1, VotingFinite, SumInt
    <3>3. QED
      BY <3>2 DEF VotesInv, CountedIn, ActivatedIn, f
  <2>2. total_producer_vote_weight \in Int
    <3> DEFINE f == [p \in Producer |-> VotesOf(producers[p])]
    <3>1. \A p \in Producer : f[p] \in Int
      BY RowsCount DEF VotesInv, ProducerTable
    <3> HIDE DEF f
    <3>2. SumFunctionOnSet(f, Producer) \in Int
      BY <3>1, VotingFinite, SumInt
    <3>3. QED
      BY <3>2 DEF VotesInv, CountedIn, WeightIn, f
  <2>3. QED
    BY <2>1, <2>2
<1>7. VotingTypeOK
  BY <1>6 DEF VotingTypeOK, VotesInv, RexInv, ClockInv, VoterTable, ProducerTable
<1>8. TypeOK
  BY <1>7 DEF TypeOK, WeighInv, DelTable, LimitsInv, LimitSet, HeldInv, HeldBut, RefundTable, ClockInv
<1>9. QED
  BY <1>1, <1>3, <1>4, <1>5, <1>8

-----------------------------------------------------------------------------
(* changebw *)

\* Whom a delegation is made for.
OwnerOf(from, receiver, transfer) == IF transfer THEN receiver ELSE from

\* The weights after it, where they are none below zero.
LEMMA PlusIs ==
  ASSUME NEW w \in Weights, NEW net \in Int, NEW cpu \in Int,
         0 <= Plus(w, net, cpu).net, 0 <= Plus(w, net, cpu).cpu
  PROVE  /\ Plus(w, net, cpu) \in Weights
         /\ Plus(w, net, cpu).net = w.net + net /\ Plus(w, net, cpu).cpu = w.cpu + cpu
         /\ Sum(Plus(w, net, cpu)) = Sum(w) + net + cpu
<1>1. w.net \in Nat /\ w.cpu \in Nat
  BY DEF Weights
<1>2. Plus(w, net, cpu).net = w.net + net /\ Plus(w, net, cpu).cpu = w.cpu + cpu
  BY DEF Plus
<1>3. Plus(w, net, cpu) \in Weights
  BY <1>1, <1>2 DEF Plus, Weights
<1>4. QED
  BY <1>1, <1>2, <1>3 DEF Sum

\* The stake of its owner changes by as much, and votes weigh it.
LEMMA ChangeWeighs ==
  ASSUME VotesInv, RexInv, WeighInv, NEW owner \in Account, NEW receiver \in Account,
         NEW net \in Int, NEW cpu \in Int,
         0 <= Plus(del_bandwidth[owner][receiver], net, cpu).net,
         0 <= Plus(del_bandwidth[owner][receiver], net, cpu).cpu,
         del_bandwidth' = PutWeights(del_bandwidth, owner, receiver,
                                     Plus(del_bandwidth[owner][receiver], net, cpu)),
         rexbalance' = Revalued(owner), rexpool' = rexpool,
         UpdateVotingPower(Restaked(owner), owner, net + cpu)
  PROVE  /\ VotesInv' /\ RexInv' /\ WeighInv'
         /\ \A a \in Account : Flags(voters'[a]) = Flags(voters[a])
<1> DEFINE w == del_bandwidth[owner][receiver]
           old == Base(voters[owner])
           shift == RexStake(rexbalance'[owner]) - RexStake(rexbalance[owner])
           stake == StakeOf(del_bandwidth, owner)
<1>1. voters \in VoterTable /\ del_bandwidth \in DelTable /\ w \in Weights
  BY DEF VotesInv, WeighInv, DelTable
<1>2. /\ RexInv' /\ ShiftedTable(Restaked(owner), owner, shift)
      /\ RexStake(rexbalance[owner]) \in Nat /\ RexStake(rexbalance'[owner]) \in Nat
      /\ \A a \in Account : /\ a # owner => rexbalance'[a] = rexbalance[a]
                            /\ rexbalance'[a] = Nil <=> rexbalance[a] = Nil
  <2>1. voters[owner] = Nil => rexbalance[owner] = Nil
    BY DEF WeighInv, Weighs
  <2>2. QED
    BY <1>1, <2>1, RevaluedIs
<1> HIDE DEF shift
<1>3. shift \in Int /\ shift = RexStake(rexbalance'[owner]) - RexStake(rexbalance[owner])
  BY <1>2 DEF shift
<1>4. /\ VotesInv'
      /\ \A a \in Account : a # owner => voters'[a] = voters[a]
      /\ voters'[owner] \in voter_info
      /\ voters'[owner].staked = old.staked + shift + (net + cpu)
      /\ voters'[owner].flags1 = old.flags1 /\ voters'[owner].producers = old.producers
      /\ voters'[owner].producers # {} => voters'[owner].last_stake = voters'[owner].staked
  <2>1. net + cpu \in Int
    OBVIOUS
  <2>2. QED
    BY <1>2, <1>3, <2>1, PowerKeeps
<1>5. /\ StakeOf(del_bandwidth', owner) = stake + net + cpu /\ stake \in Nat
      /\ \A a \in Account : a # owner => StakeOf(del_bandwidth', a) = StakeOf(del_bandwidth, a)
      /\ del_bandwidth' \in DelTable
  <2> DEFINE x == Plus(w, net, cpu)
  <2>1. x \in Weights /\ Sum(x) = Sum(w) + net + cpu /\ Sum(w) \in Nat
    BY <1>1, PlusIs, WeightsNat
  <2>2. del_bandwidth' = PutWeights(del_bandwidth, owner, receiver, x)
    OBVIOUS
  <2>3. stake \in Nat
    BY <1>1, StakeNat
  <2> HIDE DEF x
  <2>4. /\ StakeOf(del_bandwidth', owner) = stake + Sum(x) - Sum(w)
        /\ \A a \in Account : a # owner => StakeOf(del_bandwidth', a) = StakeOf(del_bandwidth, a)
        /\ del_bandwidth' \in DelTable
    BY <1>1, <2>1, <2>2, StakePut, WeightsPut
  <2>5. StakeOf(del_bandwidth', owner) = stake + net + cpu
    <3> HIDE DEF stake, w
    <3>1. QED
      BY <2>1, <2>3, <2>4
  <2>6. QED
    BY <2>3, <2>4, <2>5
<1>6. old.staked = stake + RexStake(rexbalance[owner])
  BY <1>5 DEF WeighInv, Weighs, Base, NewVoter, RexStake
<1>7. Weighs(voters'[owner], StakeOf(del_bandwidth', owner), rexbalance'[owner])
  <2>1. voters'[owner] # Nil
    BY <1>4, VotingFinite
  <2>2. voters'[owner].staked = StakeOf(del_bandwidth', owner) + RexStake(rexbalance'[owner])
    <3> HIDE DEF stake, old
    <3>1. QED
      BY <1>2, <1>3, <1>4, <1>5, <1>6
  <2>3. QED
    BY <1>4, <2>1, <2>2 DEF Weighs
<1>8. ASSUME NEW a \in Account, a # owner
      PROVE  Weighs(voters'[a], StakeOf(del_bandwidth', a), rexbalance'[a])
  BY <1>2, <1>4, <1>5, <1>8 DEF WeighInv
<1>9. WeighInv'
  BY <1>5, <1>7, <1>8 DEF WeighInv
<1>10. \A a \in Account : Flags(voters'[a]) = Flags(voters[a])
  <2>1. Flags(voters'[owner]) = Flags(voters[owner])
    BY <1>4, VotingFinite DEF Flags, Base, NewVoter
  <2>2. QED
    BY <1>4, <2>1
<1>11. QED
  BY <1>2, <1>4, <1>9, <1>10

\* Of new stake and what is owed, one pays for the other.
LEMMA OwedOrPaid ==
  ASSUME NEW owed \in Nat, NEW delta \in Int
  PROVE  /\ AtLeastZero(owed - delta) \in Nat /\ AtLeastZero(delta - owed) \in Nat
         /\ AtLeastZero(owed - delta) - owed + delta = AtLeastZero(delta - owed)
BY DEF AtLeastZero

\* What is delegated and owed changes by what is paid.
LEMMA ChangeHeld ==
  ASSUME NEW m \in Int, HeldBut(m), del_bandwidth \in DelTable, now \in Time,
         NEW from \in Account, NEW owner \in Account, NEW receiver \in Account,
         NEW net \in Int, NEW cpu \in Int, NEW touched \in BOOLEAN,
         0 <= Plus(del_bandwidth[owner][receiver], net, cpu).net,
         0 <= Plus(del_bandwidth[owner][receiver], net, cpu).cpu,
         del_bandwidth' = PutWeights(del_bandwidth, owner, receiver,
                                     Plus(del_bandwidth[owner][receiver], net, cpu)),
         ~ touched => 0 <= net /\ 0 <= cpu,
         UpdateRefund(owner, touched, net, cpu),
         LET req == IF touched /\ refunds[owner] # Nil THEN refunds[owner] ELSE Zero
             payment == Payable(req, net, cpu)
         IN \/ payment > 0 /\ TLOS!Transfer(from, STAKE_ACCOUNT, payment)
            \/ payment = 0 /\ UNCHANGED tlosVars
  PROVE  HeldBut(m)'
<1> DEFINE w == del_bandwidth[owner][receiver]
           x == Plus(w, net, cpu)
           req == IF touched /\ refunds[owner] # Nil THEN refunds[owner] ELSE Zero
           payment == Payable(req, net, cpu)
<1>1. /\ StakeOfAll(del_bandwidth') = StakeOfAll(del_bandwidth) + net + cpu
      /\ StakeOfAll(del_bandwidth) \in Int
  <2>1. w \in Weights
    BY DEF DelTable
  <2>2. x \in Weights /\ Sum(x) = Sum(w) + net + cpu /\ Sum(w) \in Nat
    BY <2>1, PlusIs, WeightsNat
  <2>3. del_bandwidth' = PutWeights(del_bandwidth, owner, receiver, x)
    OBVIOUS
  <2> HIDE DEF x
  <2>4. /\ StakeOfAll(del_bandwidth') = StakeOfAll(del_bandwidth) + Sum(x) - Sum(w)
        /\ StakeOfAll(del_bandwidth) \in Int
    BY <2>2, <2>3, StakeOfAllPut
  <2> HIDE DEF w
  <2>5. QED
    BY <2>2, <2>4
<1>2. /\ refunds \in RefundTable /\ refunds[owner] \in refund_request \cup {Nil}
      /\ Nil \notin refund_request
  BY BandwidthAssumption DEF HeldBut, RefundTable
<1>3. req.net \in Nat /\ req.cpu \in Nat
  BY <1>2 DEF Zero, refund_request
<1> DEFINE owed == [net |-> AtLeastZero(req.net - net), cpu |-> AtLeastZero(req.cpu - cpu)]
<1>4. /\ owed.net \in Nat /\ owed.cpu \in Nat /\ payment \in Nat
      /\ Sum(owed) - Sum(req) + net + cpu = payment
  <2> DEFINE a == AtLeastZero(req.net - net)
             b == AtLeastZero(req.cpu - cpu)
             c == AtLeastZero(net - req.net)
             d == AtLeastZero(cpu - req.cpu)
             rn == req.net
             rc == req.cpu
  <2>1. /\ a \in Nat /\ c \in Nat /\ a - rn + net = c
        /\ b \in Nat /\ d \in Nat /\ b - rc + cpu = d
    BY <1>3, OwedOrPaid
  <2>2. payment = c + d /\ Sum(owed) = a + b /\ Sum(req) = rn + rc
    BY DEF Payable, Sum
  <2>3. owed.net = a /\ owed.cpu = b
    OBVIOUS
  <2> HIDE DEF a, b, c, d, rn, rc, owed, payment, req
  <2>4. rn \in Nat /\ rc \in Nat
    BY <1>3 DEF rn, rc
  <2>5. QED
    BY <2>1, <2>2, <2>3, <2>4
<1>5. /\ refunds' \in RefundTable
      /\ OwedIn(refunds') = OwedIn(refunds) + Sum(owed) - Sum(req) /\ OwedIn(refunds) \in Int
  <2>1. CASE ~ touched
    <3>1. refunds' = refunds
      BY <2>1 DEF UpdateRefund
    <3>2. req = Zero /\ owed = Zero
      BY <2>1 DEF Zero, AtLeastZero
    <3>3. OwedIn(refunds) \in Int
      <4>1. Nil \in refund_request \cup {Nil}
        OBVIOUS
      <4>2. QED
        BY <1>2, <4>1, OwedPut
    <3>4. Sum(Zero) = 0
      BY DEF Sum, Zero
    <3> HIDE DEF owed, req
    <3>5. QED
      BY <1>2, <3>1, <3>2, <3>3, <3>4
  <2>2. CASE touched
    <3> DEFINE time == IF refunds[owner] = Nil \/ net < 0 \/ cpu < 0 THEN now
                       ELSE refunds[owner].request_time
               row == IF owed = Zero THEN Nil
                      ELSE [net |-> owed.net, cpu |-> owed.cpu, request_time |-> time]
    <3>1. refunds' = [refunds EXCEPT ![owner] = row]
      <4>1. req = IF refunds[owner] = Nil THEN Zero ELSE refunds[owner]
        BY <2>2
      <4>2. StillOwed(req, net, cpu) = owed
        BY DEF StillOwed
      <4> HIDE DEF req
      <4>3. QED
        BY <2>2, <4>1, <4>2 DEF UpdateRefund
    <3>2. time \in Time
      BY <1>2 DEF refund_request
    <3>3. row \in refund_request \cup {Nil}
      <4> HIDE DEF owed, time
      <4>1. QED
        BY <1>4, <3>2 DEF refund_request
    <3>4. ToRefund(row) = Sum(owed)
      <4>1. CASE owed = Zero
        BY <4>1 DEF ToRefund, Sum, Zero
      <4>2. CASE owed # Zero
        <5> HIDE DEF owed, time
        <5>1. row = [net |-> owed.net, cpu |-> owed.cpu, request_time |-> time]
          BY <4>2
        <5>2. row # Nil
          BY <1>2, <1>4, <3>2, <5>1 DEF refund_request
        <5>3. QED
          BY <5>1, <5>2 DEF ToRefund, Sum
      <4>3. QED
        BY <4>1, <4>2
    <3>5. ToRefund(refunds[owner]) = Sum(req)
      BY <2>2 DEF ToRefund, Sum, Zero
    <3> HIDE DEF row, owed, req
    <3>6. QED
      BY <1>2, <3>1, <3>3, <3>4, <3>5, OwedPut
  <2>3. QED
    BY <2>1, <2>2
<1> HIDE DEF owed, req, payment
<1>6. Sum(owed) \in Int /\ Sum(req) \in Int
  BY <1>3, <1>4 DEF Sum
<1>7. TLOS!TypeOK' /\ TLOS!Balance(STAKE_ACCOUNT)' = TLOS!Balance(STAKE_ACCOUNT) + payment
  <2>1. TLOS!TypeOK /\ TLOS!Balance(STAKE_ACCOUNT) \in Nat
    BY BalanceNat DEF HeldBut
  <2>2. CASE payment > 0 /\ TLOS!Transfer(from, STAKE_ACCOUNT, payment)
    <3>1. from \in TokenHolder /\ STAKE_ACCOUNT \in TokenHolder /\ payment \in Int
      BY <1>4, StakeApart DEF TokenHolder
    <3>2. QED
      BY <2>1, <2>2, <3>1, TransferMoves
  <2>3. CASE payment = 0 /\ UNCHANGED tlosVars
    BY <2>1, <2>3 DEF tlosVars, TLOS!TypeOK, TLOS!Owners, TLOS!Balance
  <2>4. QED
    BY <2>2, <2>3 DEF payment, req
<1>8. TLOS!Balance(STAKE_ACCOUNT)' + m = StakeOfAll(del_bandwidth') + OwedIn(refunds')
  <2>1. TLOS!Balance(STAKE_ACCOUNT) \in Nat /\ TLOS!Balance(STAKE_ACCOUNT) + m = StakeOfAll(del_bandwidth) + OwedIn(refunds)
    BY BalanceNat DEF HeldBut
  <2>2. QED
    BY <1>1, <1>4, <1>5, <1>6, <1>7, <2>1
<1>9. QED
  BY <1>5, <1>7, <1>8 DEF HeldBut

\* Totals that are dropped when empty count for as much.
LEMMA KeptIs ==
  ASSUME NEW totals \in user_resources
  PROVE  /\ KeptUnlessEmpty(totals) \in user_resources \cup {Nil}
         /\ Totals(KeptUnlessEmpty(totals)) = totals
         /\ KeptUnlessEmpty(totals) # Nil => KeptUnlessEmpty(totals) = totals
BY BandwidthAssumption DEF KeptUnlessEmpty, Totals

\* A row of totals or limits with other NET and CPU.
NetCpu(row, net, cpu) == [row EXCEPT !.net = net, !.cpu = cpu]

\* It is what it was but for those.
LEMMA NetCpuPut ==
  ASSUME NEW net, NEW cpu
  PROVE  /\ \A row \in user_resources : net \in Nat /\ cpu \in Nat =>
              /\ NetCpu(row, net, cpu) \in user_resources
              /\ NetCpu(row, net, cpu).net = net /\ NetCpu(row, net, cpu).cpu = cpu
              /\ NetCpu(row, net, cpu).ram_bytes = row.ram_bytes
         /\ \A row \in LimitSet : net \in Int /\ cpu \in Int =>
              /\ NetCpu(row, net, cpu) \in LimitSet
              /\ NetCpu(row, net, cpu).net = net /\ NetCpu(row, net, cpu).cpu = cpu
<1>1. ASSUME NEW row \in user_resources, net \in Nat, cpu \in Nat
      PROVE  /\ NetCpu(row, net, cpu) \in user_resources
             /\ NetCpu(row, net, cpu).net = net /\ NetCpu(row, net, cpu).cpu = cpu
             /\ NetCpu(row, net, cpu).ram_bytes = row.ram_bytes
  BY <1>1 DEF NetCpu, user_resources
<1>2. ASSUME NEW row \in LimitSet, net \in Int, cpu \in Int
      PROVE  /\ NetCpu(row, net, cpu) \in LimitSet
             /\ NetCpu(row, net, cpu).net = net /\ NetCpu(row, net, cpu).cpu = cpu
  BY <1>2 DEF NetCpu, LimitSet
<1>3. QED
  BY <1>1, <1>2

\* The totals of the receiver and its limits follow.
LEMMA ChangeFollows ==
  ASSUME LimitsInv, del_bandwidth \in DelTable, NEW owner \in Account, NEW receiver \in Account,
         NEW net \in Int, NEW cpu \in Int,
         0 <= Plus(del_bandwidth[owner][receiver], net, cpu).net,
         0 <= Plus(del_bandwidth[owner][receiver], net, cpu).cpu,
         del_bandwidth' = PutWeights(del_bandwidth, owner, receiver,
                                     Plus(del_bandwidth[owner][receiver], net, cpu)),
         UpdateTotals(receiver, net, cpu),
         \A a \in Account : Flags(voters'[a]) = Flags(voters[a])
  PROVE  LimitsInv'
<1> DEFINE w == del_bandwidth[owner][receiver]
           x == Plus(w, net, cpu)
           old == Resources(receiver)
           totals == [old EXCEPT !.net = @ + net, !.cpu = @ + cpu]
           base == LimitsFor(receiver, totals)
           limit == [base EXCEPT !.ram = RamLimitFor(receiver, totals)]
<1>1. /\ 0 <= totals.net /\ 0 <= totals.cpu
      /\ userres' = [userres EXCEPT ![receiver] = KeptUnlessEmpty(totals)]
      /\ limits' = [limits EXCEPT ![receiver] = limit]
  BY DEF UpdateTotals
<1>2. old \in user_resources /\ old = Totals(userres[receiver])
  BY DEF LimitsInv, Resources, Totals, user_resources, NoResources
<1> HIDE DEF old
<1>3. /\ totals \in user_resources
      /\ totals.net = old.net + net /\ totals.cpu = old.cpu + cpu
  <2> DEFINE n == old.net + net
             c == old.cpu + cpu
  <2>1. totals = NetCpu(old, n, c)
    BY DEF NetCpu
  <2>2. old.net \in Nat /\ old.cpu \in Nat
    BY <1>2 DEF user_resources
  <2>3. totals.net = n /\ totals.cpu = c
    BY <1>2 DEF user_resources
  <2>4. n \in Nat /\ c \in Nat
    BY <1>1, <2>2, <2>3
  <2> HIDE DEF n, c, totals
  <2>5. NetCpu(old, n, c) \in user_resources
    BY <1>2, <2>4, NetCpuPut
  <2>6. QED
    BY <2>1, <2>3, <2>5 DEF n, c
<1> HIDE DEF totals
<1>4. limits[receiver] \in LimitSet
  BY DEF LimitsInv
<1>5. /\ base \in LimitSet
      /\ base.net = IF "net_managed" \in Managed(receiver) THEN limits[receiver].net ELSE totals.net
      /\ base.cpu = IF "cpu_managed" \in Managed(receiver) THEN limits[receiver].cpu ELSE totals.cpu
  <2> DEFINE n == IF "net_managed" \in Managed(receiver) THEN limits[receiver].net ELSE totals.net
             c == IF "cpu_managed" \in Managed(receiver) THEN limits[receiver].cpu ELSE totals.cpu
  <2>1. base = NetCpu(limits[receiver], n, c)
    BY DEF LimitsFor, NetCpu
  <2>2. n \in Int /\ c \in Int
    BY <1>3, <1>4 DEF LimitSet, user_resources
  <2> HIDE DEF n, c, base
  <2>3. base \in LimitSet /\ base.net = n /\ base.cpu = c
    BY <1>4, <2>1, <2>2, NetCpuPut
  <2>4. QED
    BY <2>3 DEF n, c
<1>6. RamLimitFor(receiver, totals) \in Int
  BY <1>3, <1>4, BandwidthAssumption DEF RamLimitFor, LimitSet, user_resources
<1> HIDE DEF base
<1>7. limit \in LimitSet /\ limit.net = base.net /\ limit.cpu = base.cpu
  BY <1>5, <1>6 DEF LimitSet
<1> HIDE DEF limit
<1>8. /\ NetTo(del_bandwidth', receiver) = NetTo(del_bandwidth, receiver) + net
      /\ CpuTo(del_bandwidth', receiver) = CpuTo(del_bandwidth, receiver) + cpu
      /\ \A a \in Account : a # receiver => /\ NetTo(del_bandwidth', a) = NetTo(del_bandwidth, a)
                                            /\ CpuTo(del_bandwidth', a) = CpuTo(del_bandwidth, a)
  <2>1. w \in Weights
    BY DEF DelTable
  <2>2. /\ x \in Weights /\ x.net = w.net + net /\ x.cpu = w.cpu + cpu
        /\ w.net \in Nat /\ w.cpu \in Nat
    BY <2>1, PlusIs, WeightsNat
  <2>3. NetTo(del_bandwidth, receiver) \in Nat /\ CpuTo(del_bandwidth, receiver) \in Nat
    BY StakeNat
  <2>4. del_bandwidth' = PutWeights(del_bandwidth, owner, receiver, x)
    OBVIOUS
  <2> HIDE DEF x
  <2>5. /\ NetTo(del_bandwidth', receiver) = NetTo(del_bandwidth, receiver) + x.net - w.net
        /\ CpuTo(del_bandwidth', receiver) = CpuTo(del_bandwidth, receiver) + x.cpu - w.cpu
        /\ \A a \in Account : a # receiver => /\ NetTo(del_bandwidth', a) = NetTo(del_bandwidth, a)
                                              /\ CpuTo(del_bandwidth', a) = CpuTo(del_bandwidth, a)
    BY <2>2, <2>4, TotalsPut
  <2> HIDE DEF w
  <2>6. QED
    BY <2>2, <2>3, <2>5
<1>9. /\ KeptUnlessEmpty(totals) \in user_resources \cup {Nil}
      /\ Totals(KeptUnlessEmpty(totals)) = totals
      /\ KeptUnlessEmpty(totals) # Nil => KeptUnlessEmpty(totals) = totals
  BY <1>3, KeptIs
<1> DEFINE row == KeptUnlessEmpty(totals)
<1> HIDE DEF row
<1>10. Follows(voters'[receiver], row, limit,
               NetTo(del_bandwidth', receiver), CpuTo(del_bandwidth', receiver))
  <2>1. Totals(userres[receiver]).net = NetTo(del_bandwidth, receiver)
        /\ Totals(userres[receiver]).cpu = CpuTo(del_bandwidth, receiver)
    BY DEF LimitsInv, Follows
  <2>2. Totals(row).net = NetTo(del_bandwidth', receiver)
        /\ Totals(row).cpu = CpuTo(del_bandwidth', receiver)
    BY <1>2, <1>3, <1>8, <1>9, <2>1 DEF row
  <2>3. Managed(receiver) = Flags(voters'[receiver])
    BY DEF Managed, Flags
  <2>4. row # Nil => row = totals
    BY <1>9 DEF row
  <2>5. QED
    BY <1>5, <1>7, <2>2, <2>3, <2>4 DEF Follows
<1>11. /\ userres' \in [Account -> user_resources \cup {Nil}]
       /\ limits' \in [Account -> LimitSet]
       /\ userres'[receiver] = row /\ limits'[receiver] = limit
       /\ \A a \in Account : a # receiver => userres'[a] = userres[a] /\ limits'[a] = limits[a]
  BY <1>1, <1>7, <1>9 DEF LimitsInv, row
<1>12. ASSUME NEW a \in Account, a # receiver
       PROVE  Follows(voters'[a], userres'[a], limits'[a],
                      NetTo(del_bandwidth', a), CpuTo(del_bandwidth', a))
  BY <1>8, <1>11, <1>12 DEF LimitsInv, Follows
<1>13. QED
  BY <1>10, <1>11, <1>12 DEF LimitsInv

\* The requests and the clock keep their types.
LEMMA RefundClocks ==
  ASSUME ClockInv, NEW owner \in Account, NEW touched \in BOOLEAN, NEW net \in Int, NEW cpu \in Int,
         UpdateRefund(owner, touched, net, cpu), UNCHANGED <<now, activated>>
  PROVE  ClockInv'
<1>1. now + refund_delay_sec \in Nat
  BY BandwidthAssumption, VotingAssumption DEF ClockInv, Time
<1>2. deferred' \in [Account -> Nat \cup {Nil}]
  BY <1>1 DEF UpdateRefund, ClockInv
<1>3. cancelled' \subseteq Account
  BY DEF UpdateRefund, ClockInv
<1>4. QED
  BY <1>2, <1>3 DEF ClockInv

\* changebw keeps the invariant.
LEMMA ChangeBwKeeps ==
  ASSUME StakeInv, NEW from \in Account, NEW receiver \in Account, NEW net \in Int, NEW cpu \in Int,
         NEW transfer \in BOOLEAN, (0 <= net /\ 0 <= cpu) \/ net + cpu < 0,
         ChangeBw(from, receiver, net, cpu, transfer)
  PROVE  StakeInv'
<1> DEFINE owner == IF transfer THEN receiver ELSE from
           touched == (~transfer /\ from = receiver) \/ net + cpu < 0
<1>1. owner \in Account /\ touched \in BOOLEAN
  OBVIOUS
<1>2. /\ 0 <= Plus(del_bandwidth[owner][receiver], net, cpu).net
      /\ 0 <= Plus(del_bandwidth[owner][receiver], net, cpu).cpu
      /\ del_bandwidth' = PutWeights(del_bandwidth, owner, receiver,
                                     Plus(del_bandwidth[owner][receiver], net, cpu))
      /\ UpdateTotals(receiver, net, cpu)
      /\ UpdateRefund(owner, touched, net, cpu)
      /\ LET req == IF touched /\ refunds[owner] # Nil THEN refunds[owner] ELSE Zero
             payment == Payable(req, net, cpu)
         IN \/ payment > 0 /\ TLOS!Transfer(from, STAKE_ACCOUNT, payment)
            \/ payment = 0 /\ UNCHANGED tlosVars
      /\ rexbalance' = Revalued(owner)
      /\ UpdateVotingPower(Restaked(owner), owner, net + cpu)
      /\ UNCHANGED <<now, rexpool, activated>>
  BY DEF ChangeBw, PutWeights
<1>3. ~ touched => 0 <= net /\ 0 <= cpu
  OBVIOUS
<1> HIDE DEF owner, touched
<1>4. /\ VotesInv /\ RexInv /\ WeighInv /\ HeldInv /\ LimitsInv /\ ClockInv
      /\ del_bandwidth \in DelTable /\ now \in Time
  BY DEF StakeInv, WeighInv, ClockInv
<1>5. /\ VotesInv' /\ RexInv' /\ WeighInv'
      /\ \A a \in Account : Flags(voters'[a]) = Flags(voters[a])
  BY <1>1, <1>2, <1>4, ChangeWeighs
<1>6. HeldInv'
  <2>1. 0 \in Int
    OBVIOUS
  <2>2. QED
    BY <1>1, <1>2, <1>3, <1>4, <2>1, ChangeHeld DEF HeldInv
<1>7. LimitsInv'
  BY <1>1, <1>2, <1>4, <1>5, ChangeFollows
<1>8. ClockInv'
  BY <1>1, <1>2, <1>4, RefundClocks
<1>9. QED
  BY <1>5, <1>6, <1>7, <1>8 DEF StakeInv

-----------------------------------------------------------------------------
(* What leaves the parts of the invariant alone *)

\* Votes.
LEMMA VotesFrame ==
  ASSUME VotesInv, UNCHANGED <<voters, producers, tallies>>
  PROVE  VotesInv'
BY DEF VotesInv, tallies

\* The value of REX.
LEMMA RexFrame ==
  ASSUME RexInv, UNCHANGED rexVars
  PROVE  RexInv'
BY DEF RexInv, rexVars

\* The stake that votes weigh.
LEMMA WeighFrame ==
  ASSUME WeighInv, UNCHANGED <<voters, del_bandwidth, rexVars>>
  PROVE  WeighInv'
BY DEF WeighInv, rexVars

\* What eosio.stake holds.
LEMMA HeldFrame ==
  ASSUME NEW m \in Int, HeldBut(m), UNCHANGED <<del_bandwidth, refunds, tlosVars>>
  PROVE  HeldBut(m)'
BY DEF HeldBut, tlosVars, TLOS!TypeOK, TLOS!Owners, TLOS!Balance

\* All of it.
LEMMA AllHeldFrame ==
  ASSUME HeldInv, UNCHANGED <<del_bandwidth, refunds, tlosVars>>
  PROVE  HeldInv'
<1>1. 0 \in Int
  OBVIOUS
<1>2. QED
  BY <1>1, HeldFrame DEF HeldInv

\* Limits, while flags stay.
LEMMA LimitsFrame ==
  ASSUME LimitsInv, UNCHANGED <<del_bandwidth, resourceVars>>,
         \A a \in Account : Flags(voters'[a]) = Flags(voters[a])
  PROVE  LimitsInv'
<1>1. /\ userres \in [Account -> user_resources \cup {Nil}] /\ limits \in [Account -> LimitSet]
      /\ userres' = userres /\ limits' = limits /\ del_bandwidth' = del_bandwidth
  BY DEF LimitsInv, resourceVars
<1>2. ASSUME NEW a \in Account
      PROVE  Follows(voters'[a], userres[a], limits[a],
                     NetTo(del_bandwidth, a), CpuTo(del_bandwidth, a))
  BY DEF LimitsInv, Follows
<1>3. QED
  BY <1>1, <1>2 DEF LimitsInv

-----------------------------------------------------------------------------
(* Voting *)

\* The parts but for the votes and the stake they weigh.
LEMMA VotingStepFrame ==
  ASSUME StakeInv, UNCHANGED <<now, bandwidthVars>>, VotesInv', RexInv', WeighInv',
         \A a \in Account : Flags(voters'[a]) = Flags(voters[a])
  PROVE  StakeInv'
<1>1. UNCHANGED <<del_bandwidth, refunds, tlosVars, resourceVars, deferred, cancelled, activated, now>>
  BY DEF bandwidthVars, refundVars
<1>2. HeldInv'
  BY <1>1, AllHeldFrame DEF StakeInv
<1>3. LimitsInv'
  BY <1>1, LimitsFrame DEF StakeInv
<1>4. ClockInv'
  BY <1>1 DEF StakeInv, ClockInv
<1>5. QED
  BY <1>2, <1>3, <1>4 DEF StakeInv

\* A change of producers alone.
LEMMA ProducersOnly ==
  ASSUME StakeInv, NEW p \in Producer, NEW row \in producer_info, VotesOf(row) = VotesOf(producers[p]),
         producers' = [producers EXCEPT ![p] = row],
         UNCHANGED <<now, voters, tallies, rexVars, bandwidthVars>>
  PROVE  StakeInv'
<1>1. VotesInv'
  BY ProducerPutKeeps DEF StakeInv
<1>2. RexInv' /\ WeighInv'
  BY RexFrame, WeighFrame DEF StakeInv, bandwidthVars
<1>3. QED
  BY <1>1, <1>2, VotingStepFrame

\* Registrations and kicks.
LEMMA ProducerSteps ==
  ASSUME StakeInv, NEW p \in Producer, UNCHANGED bandwidthVars,
         RegProducer(p) \/ UnregProd(p) \/ \E h \in Penalties : VoteBpOut(p, h)
  PROVE  StakeInv'
<1> DEFINE old == producers[p]
<1>1. /\ producers \in ProducerTable /\ old \in producer_info \cup {Nil} /\ now \in Time
      /\ Nil \notin producer_info
  BY VotingAssumption DEF StakeInv, VotesInv, ProducerTable, ClockInv
<1>2. /\ NewProducer \in producer_info
      /\ NewProducer.total_votes = 0
  BY VotingAssumption DEF NewProducer, producer_info, Time
<1>3. CASE RegProducer(p)
  <2> DEFINE row == IF old = Nil THEN NewProducer ELSE [old EXCEPT !.is_active = TRUE]
  <2>1. producers' = [producers EXCEPT ![p] = row] /\ UNCHANGED <<now, voters, tallies, rexVars>>
    BY <1>3 DEF RegProducer
  <2>2. row \in producer_info /\ VotesOf(row) = VotesOf(old)
    <3>1. CASE old = Nil
      BY <1>1, <1>2, <3>1 DEF VotesOf
    <3>2. CASE old # Nil
      <4>1. row \in producer_info /\ row.total_votes = old.total_votes
        BY <1>1, <3>2 DEF producer_info
      <4>2. QED
        BY <1>1, <3>2, <4>1 DEF VotesOf
    <3>3. QED
      BY <3>1, <3>2
  <2> HIDE DEF row
  <2>3. QED
    BY <2>1, <2>2, ProducersOnly
<1>4. CASE UnregProd(p)
  <2> DEFINE row == [old EXCEPT !.is_active = FALSE]
  <2>1. /\ old # Nil /\ producers' = [producers EXCEPT ![p] = row]
        /\ UNCHANGED <<now, voters, tallies, rexVars>>
    BY <1>4 DEF UnregProd
  <2>2. row \in producer_info /\ row.total_votes = old.total_votes
    BY <1>1, <2>1 DEF producer_info
  <2> HIDE DEF row
  <2>3. VotesOf(row) = VotesOf(old)
    BY <1>1, <2>1, <2>2 DEF VotesOf
  <2>4. QED
    BY <2>1, <2>2, <2>3, ProducersOnly
<1>5. ASSUME NEW h \in Penalties, VoteBpOut(p, h)
      PROVE  StakeInv'
  <2> DEFINE row == Kicked(old, h)
             hours == IF h = 0 THEN 2 ^ (old.times_kicked + 1) ELSE h
  <2>1. /\ old # Nil /\ producers' = [producers EXCEPT ![p] = row]
        /\ UNCHANGED <<now, voters, tallies, rexVars>>
    BY <1>5 DEF VoteBpOut
  <2>2. old \in producer_info
    BY <1>1, <2>1
  <2>3. hours \in Nat
    BY <1>5, VotingAssumption DEF VoteBpOut
  <2> DEFINE kicks == old.times_kicked + 1
  <2>4. /\ row = [old EXCEPT !.times_kicked = kicks, !.last_time_kicked = now,
                             !.kick_penalty_hours = hours, !.missed_blocks_per_rotation = 0,
                             !.is_active = FALSE]
        /\ kicks \in Nat
    BY <2>2 DEF Kicked, producer_info
  <2> HIDE DEF row, hours, kicks
  <2>5. row \in producer_info /\ row.total_votes = old.total_votes
    <3> DEFINE H == Nat
               T == Time
    <3>1. hours \in H /\ now \in T
      BY <1>1, <2>3
    <3>2. producer_info = [total_votes : Nat, is_active : BOOLEAN, unpaid_blocks : Nat,
                           missed_blocks_per_rotation : Int, times_kicked : Nat,
                           kick_penalty_hours : H, last_time_kicked : T]
      BY DEF producer_info
    <3> HIDE DEF H, T
    <3> DEFINE later == [old EXCEPT !.times_kicked = kicks, !.last_time_kicked = now,
                                    !.kick_penalty_hours = hours]
    <3>3. later \in producer_info /\ later.total_votes = old.total_votes
      BY <2>2, <2>4, <3>1, <3>2
    <3>4. row = [later EXCEPT !.missed_blocks_per_rotation = 0, !.is_active = FALSE]
      BY <2>4
    <3> HIDE DEF later
    <3> DEFINE cleared == [later EXCEPT !.missed_blocks_per_rotation = 0]
    <3>5. cleared \in producer_info /\ cleared.total_votes = later.total_votes
      BY <3>2, <3>3
    <3>6. row = [cleared EXCEPT !.is_active = FALSE]
      BY <3>4
    <3> HIDE DEF cleared
    <3>7. row \in producer_info /\ row.total_votes = cleared.total_votes
      BY <3>2, <3>5, <3>6
    <3>8. QED
      BY <3>3, <3>5, <3>7
  <2>6. VotesOf(row) = VotesOf(old)
    BY <1>1, <2>1, <2>5 DEF VotesOf
  <2>7. QED
    BY <2>1, <2>5, <2>6, ProducersOnly
<1>6. QED
  BY <1>3, <1>4, <1>5

\* The stake of a sound voter is none below zero, whatever REX is worth.
LEMMA RestakedNat ==
  ASSUME WeighInv, RexInv, NEW a \in Account, voters[a] # Nil, voters[a] \in voter_info
  PROVE  RexStake(rexbalance[a]) \in Nat
         /\ voters[a].staked - RexStake(rexbalance[a]) \in Nat
<1>1. RexStake(rexbalance[a]) \in Nat
  <2>1. rexbalance[a] \in rex_balance \cup {Nil}
    BY DEF RexInv
  <2>2. QED
    BY <2>1 DEF RexInv, RexStake, rex_balance
<1>2. StakeOf(del_bandwidth, a) \in Nat
  BY StakeNat DEF WeighInv
<1>3. voters[a].staked = StakeOf(del_bandwidth, a) + RexStake(rexbalance[a])
  BY DEF WeighInv, Weighs
<1>4. QED
  BY <1>1, <1>2, <1>3

\* A vote.
LEMMA VoteProducerKeeps ==
  ASSUME StakeInv, NEW voter \in Account, NEW prods \in SUBSET Producer,
         VoteProducer(voter, prods), UNCHANGED bandwidthVars
  PROVE  StakeInv'
<1> DEFINE old == voters[voter]
           shift == RexStake(rexbalance'[voter]) - RexStake(rexbalance[voter])
           total == old.staked + shift
           row == With(old, total, old.flags1)
           new == Cast(row, prods, TRUE)
<1>1. /\ VotesInv /\ RexInv /\ WeighInv /\ voters \in VoterTable
      /\ old # Nil /\ old \in voter_info
      /\ rexbalance' = Revalued(voter) /\ UNCHANGED <<now, rexpool>>
      /\ UpdateVotes(Restaked(voter), voter, prods, TRUE)
      /\ del_bandwidth' = del_bandwidth
  BY DEF StakeInv, VotesInv, VoterTable, VoteProducer, bandwidthVars
<1>2. /\ RexInv' /\ ShiftedTable(Restaked(voter), voter, shift)
      /\ RexStake(rexbalance[voter]) \in Nat /\ RexStake(rexbalance'[voter]) \in Nat
      /\ \A a \in Account : /\ a # voter => rexbalance'[a] = rexbalance[a]
                            /\ rexbalance'[a] = Nil <=> rexbalance[a] = Nil
  BY <1>1, RevaluedIs
<1>3. total \in Nat /\ shift \in Int
  <2>1. old.staked - RexStake(rexbalance[voter]) \in Nat /\ old.staked \in Int
    BY <1>1, RestakedNat DEF voter_info
  <2>2. QED
    BY <1>2, <2>1
<1>4. Sound(old, producers) /\ CountsAs(old, old) /\ old.flags1 \in SUBSET flags1_fields
  BY <1>1 DEF VotesInv, AllSound, CountsAs, voter_info
<1> HIDE DEF shift
<1>5. /\ row \in voter_info /\ Sound(row, producers) /\ CountsAs(row, old)
      /\ row.staked = total /\ row.flags1 = old.flags1
  <2>1. total \in Int
    BY <1>3
  <2> HIDE DEF total, old
  <2>2. old \in voter_info
    BY <1>1 DEF old
  <2>3. QED
    BY <1>4, <2>1, <2>2, RowLike
<1>6. Restaked(voter) = [voters EXCEPT ![voter] = row]
  <2>1. row = [old EXCEPT !.staked = total]
    BY <1>1 DEF With, voter_info
  <2>2. CASE Restaked(voter) = voters /\ shift = 0
    <3>1. total = old.staked
      BY <1>1, <2>2 DEF voter_info
    <3>2. row = old
      BY <1>1, <2>1, <3>1 DEF voter_info
    <3>3. QED
      BY <1>1, <2>2, <3>2 DEF VoterTable
  <2>3. CASE Restaked(voter) = [voters EXCEPT ![voter].staked = @ + shift]
    BY <1>1, <2>1, <2>3 DEF VoterTable
  <2>4. QED
    BY <1>2, <2>2, <2>3 DEF ShiftedTable
<1> HIDE DEF total, row
<1>7. VotesInv' /\ voters' = [voters EXCEPT ![voter] = new]
  <2>1. UpdateVotes([voters EXCEPT ![voter] = row], voter, prods, TRUE)
    BY <1>1, <1>6
  <2>2. 0 <= row.staked /\ TRUE \in BOOLEAN
    BY <1>3, <1>5
  <2>3. QED
    BY <1>1, <1>5, <2>1, <2>2, UpdateVotesKeeps
<1>8. /\ new \in voter_info /\ new.producers = prods /\ new.staked = total /\ new.flags1 = old.flags1
      /\ prods # {} => new.last_stake = total
  <2>1. 0 <= row.staked /\ TRUE \in BOOLEAN
    BY <1>3, <1>5
  <2>2. /\ new \in voter_info /\ new.producers = prods /\ new.staked = row.staked
        /\ new.flags1 = row.flags1 /\ new.last_stake = StakeCounted(row, prods, TRUE)
    BY <1>5, <2>1, CastRow
  <2> HIDE DEF new
  <2>3. QED
    BY <1>5, <2>2 DEF StakeCounted
<1> HIDE DEF new
<1>9. voters'[voter] = new /\ \A a \in Account : a # voter => voters'[a] = voters[a]
  BY <1>1, <1>7, <1>8 DEF VoterTable
<1>10. Weighs(new, StakeOf(del_bandwidth, voter), rexbalance'[voter])
  <2>1. old.staked = StakeOf(del_bandwidth, voter) + RexStake(rexbalance[voter])
    BY <1>1 DEF WeighInv, Weighs
  <2>2. StakeOf(del_bandwidth, voter) \in Nat
    BY <1>1, StakeNat DEF WeighInv
  <2>3. new.staked = StakeOf(del_bandwidth, voter) + RexStake(rexbalance'[voter])
    BY <1>2, <1>8, <2>1, <2>2 DEF total, shift
  <2>4. new # Nil
    BY <1>8, VotingFinite
  <2>5. QED
    BY <1>8, <2>3, <2>4 DEF Weighs
<1>11. WeighInv'
  BY <1>1, <1>2, <1>9, <1>10 DEF WeighInv
<1>12. \A a \in Account : Flags(voters'[a]) = Flags(voters[a])
  <2>1. Flags(new) = Flags(old)
    BY <1>1, <1>8, VotingFinite DEF Flags
  <2>2. QED
    BY <1>9, <2>1
<1>13. QED
  BY <1>1, <1>2, <1>7, <1>11, <1>12, VotingStepFrame

\* regproxy makes a voter of an unknown account.
LEMMA RegProxyKeeps ==
  ASSUME StakeInv, NEW a \in Account, RegProxy(a), UNCHANGED bandwidthVars
  PROVE  StakeInv'
<1>1. /\ VotesInv /\ WeighInv /\ RexInv /\ voters \in VoterTable
      /\ voters[a] = Nil /\ voters' = [voters EXCEPT ![a] = NewVoter]
      /\ UNCHANGED <<now, producers, tallies, rexVars>>
      /\ del_bandwidth' = del_bandwidth
  BY DEF StakeInv, VotesInv, RegProxy, bandwidthVars
<1>2. NewVoter \in voter_info /\ Sound(NewVoter, producers) /\ CountsAs(NewVoter, voters[a])
  <2>1. Base(voters[a]) = NewVoter
    BY <1>1 DEF Base
  <2>2. QED
    BY <1>1, <2>1, BaseSound
<1>3. VotesInv'
  BY <1>1, <1>2, VoterPutKeeps
<1>4. voters'[a] = NewVoter /\ \A b \in Account : b # a => voters'[b] = voters[b]
  BY <1>1 DEF VoterTable
<1>5. WeighInv'
  <2>1. StakeOf(del_bandwidth, a) = 0 /\ rexbalance[a] = Nil
    BY <1>1 DEF WeighInv, Weighs
  <2>2. Weighs(NewVoter, 0, Nil)
    BY DEF Weighs, NewVoter, RexStake
  <2>3. rexbalance' = rexbalance
    BY <1>1 DEF rexVars
  <2>4. QED
    BY <1>1, <1>4, <2>1, <2>2, <2>3 DEF WeighInv
<1>6. RexInv'
  BY <1>1, RexFrame
<1>7. \A b \in Account : Flags(voters'[b]) = Flags(voters[b])
  <2>1. Flags(voters'[a]) = Flags(voters[a])
    BY <1>1, <1>2, <1>4, VotingFinite DEF Flags, NewVoter
  <2>2. QED
    BY <1>4, <2>1
<1>8. QED
  BY <1>1, <1>3, <1>5, <1>6, <1>7, VotingStepFrame

-----------------------------------------------------------------------------
(* Refunds *)

\* A refund is paid out of what eosio.stake holds for it.
LEMMA PayRefundHeld ==
  ASSUME NEW m \in Int, HeldBut(m), del_bandwidth \in DelTable, NEW owner \in Account, PayRefund(owner),
         UNCHANGED del_bandwidth
  PROVE  HeldBut(m)'
<1> DEFINE q == Sum(refunds[owner])
<1>1. /\ refunds \in RefundTable /\ refunds[owner] # Nil /\ TLOS!TypeOK
      /\ TLOS!Transfer(STAKE_ACCOUNT, owner, q)
      /\ refunds' = [refunds EXCEPT ![owner] = Nil]
  BY DEF HeldBut, PayRefund, CanRefund
<1>2. q \in Nat /\ ToRefund(refunds[owner]) = q
  <2>1. refunds[owner] \in refund_request
    BY <1>1 DEF RefundTable
  <2>2. ToRefund(refunds[owner]) = q
    BY <1>1 DEF ToRefund
  <2>3. QED
    BY <2>1, <2>2, RefundNat
<1> HIDE DEF q
<1>3. TLOS!TypeOK' /\ TLOS!Balance(STAKE_ACCOUNT)' = TLOS!Balance(STAKE_ACCOUNT) - q
  <2>1. STAKE_ACCOUNT \in TokenHolder /\ owner \in TokenHolder /\ q \in Int
    BY <1>2, StakeApart DEF TokenHolder
  <2>2. QED
    BY <1>1, <2>1, TransferMoves
<1>4. /\ refunds' \in RefundTable
      /\ OwedIn(refunds') = OwedIn(refunds) - q /\ OwedIn(refunds) \in Int
  <2>1. Nil \in refund_request \cup {Nil} /\ ToRefund(Nil) = 0
    BY DEF ToRefund
  <2>2. /\ refunds' \in RefundTable
        /\ OwedIn(refunds') = OwedIn(refunds) + ToRefund(Nil) - ToRefund(refunds[owner])
        /\ OwedIn(refunds) \in Int
    BY <1>1, <2>1, OwedPut
  <2>3. QED
    BY <1>2, <2>1, <2>2
<1>5. StakeOfAll(del_bandwidth) \in Int
  <2>1. Zero \in Weights
    BY DEF Zero, Weights
  <2>2. QED
    BY <2>1, StakeOfAllPut
<1>6. TLOS!Balance(STAKE_ACCOUNT)' + m = StakeOfAll(del_bandwidth') + OwedIn(refunds')
  <2>1. TLOS!Balance(STAKE_ACCOUNT) \in Nat /\ TLOS!Balance(STAKE_ACCOUNT) + m = StakeOfAll(del_bandwidth) + OwedIn(refunds)
    BY BalanceNat DEF HeldBut
  <2>2. QED
    BY <1>2, <1>3, <1>4, <1>5, <2>1
<1>7. QED
  BY <1>3, <1>4, <1>6 DEF HeldBut

\* By hand or by the deferred transaction.
LEMMA RefundKeeps ==
  ASSUME StakeInv, NEW owner \in Account, Refund(owner) \/ DeferredRefund(owner)
  PROVE  StakeInv'
<1>1. /\ VotesInv /\ RexInv /\ WeighInv /\ HeldInv /\ LimitsInv /\ ClockInv
      /\ UNCHANGED <<votingVars, activated, del_bandwidth, resourceVars>>
  BY DEF StakeInv, Refund, DeferredRefund
<1>2. UNCHANGED <<voters, producers, tallies, rexVars, del_bandwidth, resourceVars, now, activated>>
  BY <1>1 DEF votingVars
<1>3. VotesInv' /\ RexInv' /\ WeighInv'
  BY <1>1, <1>2, VotesFrame, RexFrame, WeighFrame
<1>4. LimitsInv'
  BY <1>1, <1>2, LimitsFrame
<1>5. HeldInv'
  <2>1. CASE PayRefund(owner)
    <3>1. 0 \in Int
      OBVIOUS
    <3>2. QED
      BY <1>1, <1>2, <2>1, <3>1, PayRefundHeld DEF WeighInv, HeldInv
  <2>2. CASE ~ PayRefund(owner)
    <3>1. UNCHANGED <<refunds, tlosVars>>
      BY <2>2 DEF Refund, DeferredRefund
    <3>2. QED
      BY <1>1, <1>2, <3>1, AllHeldFrame
  <2>3. QED
    BY <2>1, <2>2
<1>6. ClockInv'
  <2>1. deferred' \in [Account -> Nat \cup {Nil}]
    BY <1>1 DEF Refund, DeferredRefund, ClockInv
  <2>2. cancelled' \subseteq Account
    BY <1>1 DEF Refund, DeferredRefund, PayRefund, ClockInv
  <2>3. QED
    BY <1>1, <1>2, <2>1, <2>2 DEF ClockInv
<1>7. QED
  BY <1>3, <1>4, <1>5, <1>6 DEF StakeInv

-----------------------------------------------------------------------------
(* Limits *)

\* The flags of an account change, and nothing its votes weigh.
LEMMA FlagsKeep ==
  ASSUME StakeInv, NEW a \in Account, NEW flags \in SUBSET flags1_fields,
         voters' = Flagged(a, flags), UNCHANGED <<producers, tallies, rexVars, del_bandwidth>>
  PROVE  /\ VotesInv' /\ WeighInv'
         /\ Flags(voters'[a]) = flags
         /\ \A b \in Account : b # a => voters'[b] = voters[b]
<1> DEFINE old == Base(voters[a])
           row == With(old, old.staked, flags)
<1>1. /\ VotesInv /\ WeighInv /\ voters \in VoterTable
      /\ old \in voter_info /\ Sound(old, producers) /\ CountsAs(old, voters[a])
  BY BaseSound DEF StakeInv, VotesInv
<1>2. old.staked \in Int
  BY <1>1 DEF voter_info
<1> HIDE DEF old
<1>3. /\ row \in voter_info /\ Sound(row, producers) /\ CountsAs(row, voters[a])
      /\ row.staked = old.staked /\ row.flags1 = flags /\ row.producers = old.producers
      /\ row.last_stake = old.last_stake
  BY <1>1, <1>2, RowLike
<1>4. voters' = [voters EXCEPT ![a] = row]
  <2>1. row = [old EXCEPT !.flags1 = flags]
    BY <1>1 DEF With, voter_info
  <2>2. voters' = [voters EXCEPT ![a] = [old EXCEPT !.flags1 = flags]]
    BY DEF Flagged, old, Base
  <2>3. QED
    BY <2>1, <2>2
<1> HIDE DEF row
<1>5. VotesInv'
  BY <1>1, <1>3, <1>4, VoterPutKeeps
<1>6. voters'[a] = row /\ \A b \in Account : b # a => voters'[b] = voters[b]
  BY <1>1, <1>4 DEF VoterTable
<1>7. row # Nil
  BY <1>3, VotingFinite
<1>8. Weighs(row, StakeOf(del_bandwidth, a), rexbalance[a])
  <2>1. Weighs(voters[a], StakeOf(del_bandwidth, a), rexbalance[a])
    BY <1>1 DEF WeighInv
  <2>2. CASE voters[a] = Nil
    <3>1. old.staked = 0 /\ old.producers = {}
      BY <2>2 DEF old, Base, NewVoter
    <3>2. QED
      BY <1>3, <1>7, <2>1, <2>2, <3>1 DEF Weighs, RexStake
  <2>3. CASE voters[a] # Nil
    BY <1>3, <1>7, <2>1, <2>3 DEF Weighs, old, Base
  <2>4. QED
    BY <2>2, <2>3
<1>9. WeighInv'
  BY <1>1, <1>6, <1>8 DEF WeighInv, rexVars
<1>10. QED
  BY <1>3, <1>5, <1>6, <1>7, <1>9 DEF Flags

\* The limits of an account change, and its flags.
LEMMA LimitsPut ==
  ASSUME LimitsInv, NEW a \in Account, NEW limit \in LimitSet,
         limits' = [limits EXCEPT ![a] = limit], UNCHANGED <<userres, del_bandwidth>>,
         \A b \in Account : b # a => voters'[b] = voters[b],
         userres[a] # Nil => /\ "net_managed" \notin Flags(voters'[a]) => limit.net = userres[a].net
                             /\ "cpu_managed" \notin Flags(voters'[a]) => limit.cpu = userres[a].cpu
  PROVE  LimitsInv'
<1>1. /\ limits' \in [Account -> LimitSet] /\ limits'[a] = limit
      /\ \A b \in Account : b # a => limits'[b] = limits[b]
  BY DEF LimitsInv
<1>2. Follows(voters'[a], userres[a], limit, NetTo(del_bandwidth, a), CpuTo(del_bandwidth, a))
  BY DEF LimitsInv, Follows
<1>3. \A b \in Account : Follows(voters'[b], userres[b], limits'[b],
                                 NetTo(del_bandwidth, b), CpuTo(del_bandwidth, b))
  BY <1>1, <1>2 DEF LimitsInv
<1>4. QED
  BY <1>1, <1>3 DEF LimitsInv

\* The parts that limits have nothing to do with.
LEMMA LimitsStep ==
  ASSUME StakeInv, NEW a \in Account, NEW new, SetLimits(a, new), VotesInv', WeighInv', LimitsInv'
  PROVE  StakeInv'
<1>1. UNCHANGED <<now, rexVars, activated, del_bandwidth, refundVars, tlosVars>>
  BY DEF SetLimits
<1>2. RexInv' /\ HeldInv'
  BY <1>1, RexFrame, AllHeldFrame DEF StakeInv, refundVars
<1>3. ClockInv'
  BY <1>1 DEF StakeInv, ClockInv, refundVars
<1>4. QED
  BY <1>2, <1>3 DEF StakeInv

\* What an account's row and its limits are.
LEMMA LimitsRows ==
  ASSUME StakeInv, NEW a \in Account
  PROVE  /\ limits[a] \in LimitSet /\ Managed(a) = Flags(voters[a]) /\ Managed(a) \subseteq flags1_fields
         /\ Resources(a).net \in Int /\ Resources(a).cpu \in Int
         /\ userres[a] # Nil => Resources(a) = userres[a]
         /\ userres[a] # Nil => /\ "net_managed" \notin Managed(a) => limits[a].net = userres[a].net
                                /\ "cpu_managed" \notin Managed(a) => limits[a].cpu = userres[a].cpu
<1>1. limits[a] \in LimitSet /\ userres[a] \in user_resources \cup {Nil}
      /\ voters[a] \in voter_info \cup {Nil}
  BY DEF StakeInv, LimitsInv, VotesInv, VoterTable
<1>2. Managed(a) = Flags(voters[a])
  BY DEF Managed, Flags
<1>3. Managed(a) \subseteq flags1_fields
  BY <1>1 DEF Managed, voter_info
<1>4. Resources(a) \in user_resources
  BY <1>1 DEF Resources, NoResources, user_resources
<1>5. Follows(voters[a], userres[a], limits[a], NetTo(del_bandwidth, a), CpuTo(del_bandwidth, a))
  BY DEF StakeInv, LimitsInv
<1>6. QED
  BY <1>1, <1>2, <1>3, <1>4, <1>5 DEF Resources, user_resources, Follows

\* setalimits, of accounts without resources.
LEMMA SetALimitsKeeps ==
  ASSUME StakeInv, NEW a \in Account, NEW bytes \in Int, NEW net \in Int, NEW cpu \in Int,
         SetALimits(a, bytes, net, cpu)
  PROVE  StakeInv'
<1> DEFINE limit == [ram |-> bytes, net |-> net, cpu |-> cpu]
<1>1. /\ SetLimits(a, limit) /\ userres[a] = Nil /\ UNCHANGED voters
      /\ limits' = [limits EXCEPT ![a] = limit]
      /\ UNCHANGED <<producers, tallies, rexVars, userres, del_bandwidth>>
  BY DEF SetALimits, SetLimits
<1>2. limit \in LimitSet
  BY DEF LimitSet
<1> HIDE DEF limit
<1>3. VotesInv' /\ WeighInv'
  BY <1>1, VotesFrame, WeighFrame DEF StakeInv
<1>4. LimitsInv'
  BY <1>1, <1>2, LimitsPut DEF StakeInv
<1>5. QED
  BY <1>1, <1>3, <1>4, LimitsStep

\* setacctnet and setacctcpu, and what takes them back: they set one limit.
LEMMA SetAcctKeeps ==
  ASSUME StakeInv, NEW a \in Account, NEW n \in Int,
         \/ SetAcctNet(a, n) \/ SetAcctCpu(a, n) \/ UnsetAcctNet(a) \/ UnsetAcctCpu(a)
  PROVE  StakeInv'
<1> DEFINE flags == Flags(voters[a])
           net == limits[a].net
           cpu == limits[a].cpu
<1>1. /\ limits[a] \in LimitSet /\ net \in Int /\ cpu \in Int
      /\ Managed(a) = flags /\ flags \subseteq flags1_fields
      /\ Resources(a).net \in Int /\ Resources(a).cpu \in Int
      /\ userres[a] # Nil => Resources(a) = userres[a]
      /\ userres[a] # Nil => /\ "net_managed" \notin flags => net = userres[a].net
                             /\ "cpu_managed" \notin flags => cpu = userres[a].cpu
  BY LimitsRows DEF LimitSet
<1>2. ASSUME NEW x \in Int
      PROVE  /\ [limits[a] EXCEPT !.net = x] \in LimitSet
             /\ [limits[a] EXCEPT !.net = x].net = x /\ [limits[a] EXCEPT !.net = x].cpu = cpu
             /\ [limits[a] EXCEPT !.cpu = x] \in LimitSet
             /\ [limits[a] EXCEPT !.cpu = x].cpu = x /\ [limits[a] EXCEPT !.cpu = x].net = net
  BY <1>1 DEF LimitSet
<1> HIDE DEF flags, net, cpu
<1>3. CASE SetAcctNet(a, n)
  <2> DEFINE limit == [limits[a] EXCEPT !.net = n]
             new == flags \cup {"net_managed"}
  <2>1. /\ SetLimits(a, limit) /\ voters' = Flagged(a, new)
        /\ limits' = [limits EXCEPT ![a] = limit]
        /\ UNCHANGED <<producers, tallies, rexVars, userres, del_bandwidth>>
    BY <1>1, <1>3 DEF SetAcctNet, SetLimits
  <2>2. limit \in LimitSet /\ limit.cpu = cpu /\ new \in SUBSET flags1_fields
    BY <1>1, <1>2 DEF flags1_fields
  <2>3. "net_managed" \in new /\ ("cpu_managed" \notin new => "cpu_managed" \notin flags)
    OBVIOUS
  <2> HIDE DEF limit, new
  <2>4. /\ VotesInv' /\ WeighInv' /\ Flags(voters'[a]) = new
        /\ \A b \in Account : b # a => voters'[b] = voters[b]
    BY <2>1, <2>2, FlagsKeep
  <2>5. LimitsInv'
    BY <1>1, <2>1, <2>2, <2>3, <2>4, LimitsPut DEF StakeInv
  <2>6. QED
    BY <2>1, <2>4, <2>5, LimitsStep
<1>4. CASE SetAcctCpu(a, n)
  <2> DEFINE limit == [limits[a] EXCEPT !.cpu = n]
             new == flags \cup {"cpu_managed"}
  <2>1. /\ SetLimits(a, limit) /\ voters' = Flagged(a, new)
        /\ limits' = [limits EXCEPT ![a] = limit]
        /\ UNCHANGED <<producers, tallies, rexVars, userres, del_bandwidth>>
    BY <1>1, <1>4 DEF SetAcctCpu, SetLimits
  <2>2. limit \in LimitSet /\ limit.net = net /\ new \in SUBSET flags1_fields
    BY <1>1, <1>2 DEF flags1_fields
  <2>3. "cpu_managed" \in new /\ ("net_managed" \notin new => "net_managed" \notin flags)
    OBVIOUS
  <2> HIDE DEF limit, new
  <2>4. /\ VotesInv' /\ WeighInv' /\ Flags(voters'[a]) = new
        /\ \A b \in Account : b # a => voters'[b] = voters[b]
    BY <2>1, <2>2, FlagsKeep
  <2>5. LimitsInv'
    BY <1>1, <2>1, <2>2, <2>3, <2>4, LimitsPut DEF StakeInv
  <2>6. QED
    BY <2>1, <2>4, <2>5, LimitsStep
<1>5. CASE UnsetAcctNet(a)
  <2> DEFINE x == Resources(a).net
             limit == [limits[a] EXCEPT !.net = x]
  <2>1. /\ SetLimits(a, limit) /\ UNCHANGED voters
        /\ limits' = [limits EXCEPT ![a] = limit]
        /\ UNCHANGED <<producers, tallies, rexVars, userres, del_bandwidth>>
    BY <1>1, <1>5 DEF UnsetAcctNet, SetLimits
  <2>2. limit \in LimitSet /\ limit.cpu = cpu /\ limit.net = x
    BY <1>1, <1>2
  <2>3. Flags(voters'[a]) = flags
    BY <2>1 DEF flags
  <2>4. userres[a] # Nil => x = userres[a].net
    BY <1>1
  <2> HIDE DEF limit, x
  <2>5. VotesInv' /\ WeighInv'
    BY <2>1, VotesFrame, WeighFrame DEF StakeInv
  <2>6. LimitsInv'
    BY <1>1, <2>1, <2>2, <2>3, <2>4, LimitsPut DEF StakeInv
  <2>7. QED
    BY <2>1, <2>5, <2>6, LimitsStep
<1>6. CASE UnsetAcctCpu(a)
  <2> DEFINE x == Resources(a).cpu
             limit == [limits[a] EXCEPT !.cpu = x]
             new == flags \ {"cpu_managed"}
  <2>1. /\ SetLimits(a, limit) /\ voters' = Flagged(a, new)
        /\ limits' = [limits EXCEPT ![a] = limit]
        /\ UNCHANGED <<producers, tallies, rexVars, userres, del_bandwidth>>
    BY <1>1, <1>6 DEF UnsetAcctCpu, SetLimits, ReleasedCpu
  <2>2. limit \in LimitSet /\ limit.net = net /\ limit.cpu = x /\ new \in SUBSET flags1_fields
    BY <1>1, <1>2
  <2>3. "net_managed" \notin new => "net_managed" \notin flags
    OBVIOUS
  <2>4. userres[a] # Nil => x = userres[a].cpu
    BY <1>1
  <2> HIDE DEF limit, new, x
  <2>5. /\ VotesInv' /\ WeighInv' /\ Flags(voters'[a]) = new
        /\ \A b \in Account : b # a => voters'[b] = voters[b]
    BY <2>1, <2>2, FlagsKeep
  <2>6. LimitsInv'
    BY <1>1, <2>1, <2>2, <2>3, <2>4, <2>5, LimitsPut DEF StakeInv
  <2>7. QED
    BY <2>1, <2>5, <2>6, LimitsStep
<1>7. QED
  BY <1>3, <1>4, <1>5, <1>6

-----------------------------------------------------------------------------
(* The theorems *)

\* Every step keeps the invariant.
LEMMA StakeStep == StakeInv /\ [Next]_vars => StakeInv'
<1> SUFFICES ASSUME StakeInv, [Next]_vars
             PROVE  StakeInv'
  OBVIOUS
<1>1. CASE UNCHANGED vars
  <2>1. UNCHANGED <<now, bandwidthVars, voters, producers, tallies, rexVars, del_bandwidth>>
    BY <1>1 DEF vars, votingVars, bandwidthVars
  <2>2. VotesInv' /\ RexInv' /\ WeighInv'
    BY <2>1, VotesFrame, RexFrame, WeighFrame DEF StakeInv
  <2>3. QED
    BY <2>1, <2>2, VotingStepFrame
<1>2. CASE Tick
  <2>1. /\ UNCHANGED <<voters, producers, tallies, rexVars, bandwidthVars>>
        /\ now < MaxTime /\ now' = now + 1
    BY <1>2 DEF Tick
  <2>2. UNCHANGED <<del_bandwidth, refunds, tlosVars, resourceVars, deferred, cancelled, activated>>
    BY <2>1 DEF bandwidthVars, refundVars
  <2>3. VotesInv' /\ RexInv' /\ WeighInv' /\ HeldInv' /\ LimitsInv'
    BY <2>1, <2>2, VotesFrame, RexFrame, WeighFrame, AllHeldFrame, LimitsFrame DEF StakeInv
  <2>4. ClockInv'
    BY <2>1, <2>2, VotingAssumption DEF StakeInv, ClockInv, Time
  <2>5. QED
    BY <2>3, <2>4 DEF StakeInv
<1>3. CASE Activate
  <2>1. /\ UNCHANGED <<votingVars, del_bandwidth, resourceVars, refundVars, tlosVars>>
        /\ activated' = TRUE
    BY <1>3 DEF Activate
  <2>2. UNCHANGED <<now, voters, producers, tallies, rexVars, refunds, deferred, cancelled>>
    BY <2>1 DEF votingVars, refundVars
  <2>3. VotesInv' /\ RexInv' /\ WeighInv' /\ HeldInv' /\ LimitsInv'
    BY <2>1, <2>2, VotesFrame, RexFrame, WeighFrame, AllHeldFrame, LimitsFrame DEF StakeInv
  <2>4. ClockInv'
    BY <2>1, <2>2 DEF StakeInv, ClockInv
  <2>5. QED
    BY <2>3, <2>4 DEF StakeInv
<1>4. CASE VotingStep
  <2>1. UNCHANGED bandwidthVars
    BY <1>4 DEF VotingStep
  <2>2. CASE \E p \in Producer : RegProducer(p) \/ UnregProd(p) \/ \E h \in Penalties : VoteBpOut(p, h)
    BY <2>1, <2>2, ProducerSteps
  <2>3. CASE \E a \in Account : RegProxy(a)
    BY <2>1, <2>3, RegProxyKeeps
  <2>4. CASE \E a \in Account : \E prods \in SUBSET Producer : VoteProducer(a, prods)
    BY <2>1, <2>4, VoteProducerKeeps
  <2>5. QED
    BY <1>4, <2>2, <2>3, <2>4 DEF VotingStep, VotingNext
<1>5. CASE StakeNext
  <2>1. PICK from, receiver \in Account, net, cpu \in Delta :
          \/ \E transfer \in BOOLEAN : DelegateBw(from, receiver, net, cpu, transfer)
          \/ UndelegateBw(from, receiver, net, cpu)
    BY <1>5 DEF StakeNext
  <2>2. net \in Nat /\ cpu \in Nat
    BY BandwidthAssumption
  <2>3. ASSUME NEW transfer \in BOOLEAN, DelegateBw(from, receiver, net, cpu, transfer)
        PROVE  StakeInv'
    BY <2>2, <2>3, ChangeBwKeeps DEF DelegateBw
  <2>4. ASSUME UndelegateBw(from, receiver, net, cpu)
        PROVE  StakeInv'
    <3> DEFINE m == -net
               n == -cpu
    <3>1. net + cpu > 0
      BY <2>4 DEF UndelegateBw
    <3>2. m \in Int /\ n \in Int /\ m + n < 0
      BY <2>2, <3>1
    <3>3. ChangeBw(from, receiver, m, n, FALSE)
      BY <2>4 DEF UndelegateBw
    <3> HIDE DEF m, n
    <3>4. QED
      BY <3>2, <3>3, ChangeBwKeeps
  <2>5. QED
    BY <2>1, <2>3, <2>4
<1>6. CASE LimitsNext
  <2>1. Limits \subseteq Int
    BY BandwidthAssumption
  <2>2. PICK a \in Account :
          \/ \E bytes, net, cpu \in Limits : SetALimits(a, bytes, net, cpu)
          \/ \E limit \in Limits : SetAcctNet(a, limit) \/ SetAcctCpu(a, limit)
          \/ UnsetAcctNet(a) \/ UnsetAcctCpu(a)
    BY <1>6 DEF LimitsNext
  <2>3. ASSUME NEW bytes \in Limits, NEW net \in Limits, NEW cpu \in Limits,
               SetALimits(a, bytes, net, cpu)
        PROVE  StakeInv'
    BY <2>1, <2>3, SetALimitsKeeps
  <2>4. ASSUME NEW limit \in Limits, SetAcctNet(a, limit) \/ SetAcctCpu(a, limit)
        PROVE  StakeInv'
    BY <2>1, <2>4, SetAcctKeeps
  <2>5. ASSUME UnsetAcctNet(a) \/ UnsetAcctCpu(a)
        PROVE  StakeInv'
    <3>1. 0 \in Int
      OBVIOUS
    <3>2. QED
      BY <2>5, <3>1, SetAcctKeeps
  <2>6. QED
    BY <2>2, <2>3, <2>4, <2>5
<1>7. CASE \E a \in Account : Refund(a) \/ DeferredRefund(a)
  BY <1>7, RefundKeeps
<1>8. QED
  BY <1>1, <1>2, <1>3, <1>4, <1>5, <1>6, <1>7 DEF Next

\* Nobody has a row: all sums are zero.
LEMMA StartSums ==
  ASSUME Init
  PROVE  /\ \A p \in Producer : VotesIn(voters, p) = 0
         /\ ActivatedIn(voters) = 0 /\ WeightIn(producers) = 0 /\ OwedIn(refunds) = 0
         /\ StakeOfAll(del_bandwidth) = 0
         /\ \A a \in Account : /\ StakeOf(del_bandwidth, a) = 0
                               /\ NetTo(del_bandwidth, a) = 0 /\ CpuTo(del_bandwidth, a) = 0
<1>1. /\ \A a \in Account : voters[a] = Nil /\ refunds[a] = Nil
      /\ \A p \in Producer : producers[p] = Nil
      /\ \A a, b \in Account : del_bandwidth[a][b] = Zero
  BY DEF Init, BandwidthInit, VotingInit
<1>2. IsFiniteSet(Account) /\ IsFiniteSet(Producer)
  BY VotingFinite
<1>3. ASSUME NEW p \in Producer
      PROVE  VotesIn(voters, p) = 0
  <2> DEFINE f == [a \in Account |-> VotesFor(voters[a], p)]
  <2>1. \A a \in Account : f[a] = 0
    BY <1>1 DEF VotesFor
  <2> HIDE DEF f
  <2>2. SumFunctionOnSet(f, Account) = 0
    BY <1>2, <2>1, SumZero
  <2>3. QED
    BY <2>2 DEF f, VotesIn
<1>4. ActivatedIn(voters) = 0
  <2> DEFINE f == [a \in Account |-> ActivatedBy(voters[a])]
  <2>1. \A a \in Account : f[a] = 0
    BY <1>1 DEF ActivatedBy
  <2> HIDE DEF f
  <2>2. SumFunctionOnSet(f, Account) = 0
    BY <1>2, <2>1, SumZero
  <2>3. QED
    BY <2>2 DEF f, ActivatedIn
<1>5. WeightIn(producers) = 0
  <2> DEFINE f == [p \in Producer |-> VotesOf(producers[p])]
  <2>1. \A p \in Producer : f[p] = 0
    BY <1>1 DEF VotesOf
  <2> HIDE DEF f
  <2>2. SumFunctionOnSet(f, Producer) = 0
    BY <1>2, <2>1, SumZero
  <2>3. QED
    BY <2>2 DEF f, WeightIn
<1>6. OwedIn(refunds) = 0
  <2> DEFINE f == [a \in Account |-> ToRefund(refunds[a])]
  <2>1. \A a \in Account : f[a] = 0
    BY <1>1 DEF ToRefund
  <2> HIDE DEF f
  <2>2. SumFunctionOnSet(f, Account) = 0
    BY <1>2, <2>1, SumZero
  <2>3. QED
    BY <2>2 DEF f, OwedIn
<1>7. Sum(Zero) = 0 /\ Zero.net = 0 /\ Zero.cpu = 0
  BY DEF Sum, Zero
<1>8. ASSUME NEW a \in Account
      PROVE  /\ StakeOf(del_bandwidth, a) = 0
             /\ NetTo(del_bandwidth, a) = 0 /\ CpuTo(del_bandwidth, a) = 0
  <2> DEFINE f == [b \in Account |-> Sum(del_bandwidth[a][b])]
             g == [b \in Account |-> del_bandwidth[b][a].net]
             h == [b \in Account |-> del_bandwidth[b][a].cpu]
  <2>1. \A b \in Account : f[b] = 0 /\ g[b] = 0 /\ h[b] = 0
    BY <1>1, <1>7
  <2> HIDE DEF f, g, h
  <2>2. /\ SumFunctionOnSet(f, Account) = 0
        /\ SumFunctionOnSet(g, Account) = 0 /\ SumFunctionOnSet(h, Account) = 0
    BY <1>2, <2>1, SumZero
  <2>3. QED
    BY <2>2 DEF f, g, h, StakeOf, NetTo, CpuTo
<1>9. StakeOfAll(del_bandwidth) = 0
  <2> DEFINE f == [a \in Account |-> StakeOf(del_bandwidth, a)]
  <2>1. \A a \in Account : f[a] = 0
    BY <1>8
  <2> HIDE DEF f
  <2>2. SumFunctionOnSet(f, Account) = 0
    BY <1>2, <2>1, SumZero
  <2>3. QED
    BY <2>2 DEF f, StakeOfAll
<1>10. QED
  BY <1>3, <1>4, <1>5, <1>6, <1>8, <1>9

\* The invariant holds before anything is staked.
LEMMA StakeStart == Init => StakeInv
<1> SUFFICES ASSUME Init
             PROVE  StakeInv
  OBVIOUS
<1>1. BandwidthInit /\ VotingInit /\ TLOS!TypeOK /\ accounts[STAKE_ACCOUNT] = Nil
  BY DEF Init, BandwidthInit
<1>2. VotesInv
  BY <1>1, StartSums
     DEF VotingInit, VotesInv, VoterTable, ProducerTable, AllSound, CountedIn
<1>3. RexInv
  BY <1>1 DEF VotingInit, RexInv
<1>4. WeighInv
  <2>1. del_bandwidth \in DelTable
    BY <1>1 DEF BandwidthInit, DelTable, Weights, Zero
  <2>2. \A a \in Account : voters[a] = Nil /\ rexbalance[a] = Nil
    BY <1>1 DEF VotingInit
  <2>3. QED
    BY <2>1, <2>2, StartSums DEF WeighInv, Weighs
<1>5. HeldInv
  <2>1. refunds \in RefundTable
    BY <1>1 DEF BandwidthInit, RefundTable
  <2>2. TLOS!Balance(STAKE_ACCOUNT) = 0
    BY <1>1 DEF TLOS!Balance
  <2>3. QED
    BY <1>1, <2>1, <2>2, StartSums DEF HeldInv, HeldBut
<1>6. LimitsInv
  <2>1. /\ NoResources \in user_resources /\ NoResources.net = 0 /\ NoResources.cpu = 0
        /\ [ram |-> 0, net |-> 0, cpu |-> 0] \in LimitSet
    BY DEF NoResources, user_resources, LimitSet
  <2>2. /\ userres \in [Account -> user_resources \cup {Nil}] /\ limits \in [Account -> LimitSet]
        /\ \A a \in Account : /\ userres[a] = NoResources
                              /\ limits[a].net = 0 /\ limits[a].cpu = 0
    BY <1>1, <2>1 DEF BandwidthInit
  <2>3. QED
    BY <2>1, <2>2, StartSums DEF LimitsInv, Follows, Totals
<1>7. ClockInv
  <2>1. now \in Time
    BY <1>1, VotingAssumption DEF VotingInit, Time
  <2>2. activated \in BOOLEAN /\ cancelled \subseteq Account /\ deferred \in [Account -> Nat \cup {Nil}]
    BY <1>1 DEF BandwidthInit
  <2>3. QED
    BY <2>1, <2>2 DEF ClockInv
<1>8. QED
  BY <1>2, <1>3, <1>4, <1>5, <1>6, <1>7 DEF StakeInv

\* So it always holds.
LEMMA StakeAlways == Spec => []StakeInv
BY StakeStart, StakeStep, PTL DEF Spec

\* Rows of voters, producers, delegations, totals, limits and refunds keep
\* their types: no stake, total or balance goes below zero.
THEOREM StakeTypes == Spec => []TypeOK
<1>1. StakeInv => TypeOK
  BY StakeInvSays
<1>2. QED
  BY <1>1, StakeAlways, PTL

\* Through votes, changes of stake, registrations and kicks every registered
\* producer has the votes that its voters last gave it, and the totals are the
\* sums (update_votes, propagate_weight_change, update_voting_power).
THEOREM VotesAreCounted == Spec => []VotesCounted
<1>1. StakeInv => VotesCounted
  BY StakeInvSays
<1>2. QED
  BY <1>1, StakeAlways, PTL

\* eosio.stake holds what is delegated and what is owed, whichever way stake
\* becomes a refund, a refund stake again, and refunds are paid (changebw).
THEOREM StakeIsHeld == Spec => []StakeHeld
<1>1. StakeInv => StakeHeld
  BY StakeInvSays
<1>2. QED
  BY <1>1, StakeAlways, PTL

\* What counts in votes is what the voter has delegated
\* (update_voting_power after changebw).
THEOREM VotesWeigh == Spec => []VotesWeighStake
<1>1. StakeInv => VotesWeighStake
  BY StakeInvSays
<1>2. QED
  BY <1>1, StakeAlways, PTL

\* Totals are sums of delegations, and limits nobody manages follow them
\* (changebw, setacctnet, setacctcpu, setalimits).
THEOREM LimitsFollowTotals == Spec => []LimitsFollow
<1>1. StakeInv => LimitsFollow
  BY StakeInvSays
<1>2. QED
  BY <1>1, StakeAlways, PTL

-----------------------------------------------------------------------------
(* The tables of one action *)

\* A record of tables, whatever is in them.
Shape(t) == DOMAIN t = {"pool", "balances", "funds", "orders", "loans", "totals", "limits",
                        "tlos", "retained", "ok"}

\* No check has failed.
Alive(t) == t.ok /\ t.tlos # Nil

\* One field of the tables put.
LEMMA SentIs ==
  ASSUME NEW t, Shape(t), NEW from, NEW to, NEW amount
  PROVE  LET u == Sent(t, from, to, amount)
         IN /\ Shape(u) /\ u.tlos = Transferred(t.tlos, from, to, amount)
            /\ u.pool = t.pool /\ u.balances = t.balances /\ u.funds = t.funds
            /\ u.orders = t.orders /\ u.loans = t.loans /\ u.totals = t.totals
            /\ u.limits = t.limits /\ u.retained = t.retained /\ u.ok = t.ok
            /\ Alive(u) => Alive(t)
BY DEF Sent, Shape, Alive, Transferred

\* Totals with more in them.
MoreOf(row, net_delta, cpu_delta) == [row EXCEPT !.net = @ + net_delta, !.cpu = @ + cpu_delta]

\* Stake is put into totals that it fits, or the action fails.
LEMMA LentIs ==
  ASSUME NEW t, Shape(t), NEW receiver, NEW net_delta, NEW cpu_delta
  PROVE  LET totals == MoreOf(Totals(t.totals[receiver]), net_delta, cpu_delta)
             u == Lent(t, receiver, net_delta, cpu_delta)
         IN /\ u.totals = [t.totals EXCEPT ![receiver] = KeptUnlessEmpty(totals)]
            /\ u.limits = [t.limits EXCEPT ![receiver] = LimitsFor(receiver, totals)]
            /\ u.ok = (t.ok /\ totals.net >= 0 /\ totals.cpu >= 0)
BY DEF Lent, Require, Shape, MoreOf, Totals

\* Nothing else is.
LEMMA LentFrame ==
  ASSUME NEW t, Shape(t), NEW receiver, NEW net_delta, NEW cpu_delta
  PROVE  LET u == Lent(t, receiver, net_delta, cpu_delta)
         IN /\ Shape(u) /\ u.tlos = t.tlos
            /\ u.pool = t.pool /\ u.balances = t.balances /\ u.funds = t.funds
            /\ u.orders = t.orders /\ u.loans = t.loans /\ u.retained = t.retained
            /\ Alive(u) => Alive(t)
BY DEF Lent, Require, Shape, Alive

-----------------------------------------------------------------------------
(* Division, prices and worths *)

\* Whole division.
LEMMA DivIs ==
  ASSUME NEW n \in Nat, NEW d \in Nat, 0 < d
  PROVE  /\ n \div d \in Nat /\ d * (n \div d) <= n /\ n < d * (n \div d) + d
OBVIOUS

\* What the quotient is at most.
LEMMA DivAtMost ==
  ASSUME NEW n \in Nat, NEW d \in Nat, 0 < d, NEW m \in Nat, n < d * m + d
  PROVE  n \div d <= m
<1> DEFINE q == n \div d
<1>1. q \in Nat /\ d * q <= n
  BY DivIs
<1> HIDE DEF q
<1>2. SUFFICES ASSUME m + 1 <= q
               PROVE  FALSE
  BY <1>1 DEF q
<1>3. d * (m + 1) <= d * q
  BY <1>1, <1>2
<1>4. d * (m + 1) = d * m + d /\ d * m \in Nat /\ d * q \in Nat
  BY <1>1
<1>5. QED
  BY <1>1, <1>3, <1>4

\* And at least.
LEMMA DivAtLeast ==
  ASSUME NEW n \in Nat, NEW d \in Nat, 0 < d, NEW m \in Nat, d * m <= n
  PROVE  m <= n \div d
<1> DEFINE q == n \div d
<1>1. q \in Nat /\ n < d * q + d
  BY DivIs
<1> HIDE DEF q
<1>2. SUFFICES ASSUME q + 1 <= m
               PROVE  FALSE
  BY <1>1 DEF q
<1>3. d * (q + 1) <= d * m
  BY <1>1, <1>2
<1>4. d * (q + 1) = d * q + d /\ d * m \in Nat /\ d * q \in Nat
  BY <1>1
<1>5. QED
  BY <1>1, <1>3, <1>4

\* The market gives no more than it has, and after the exchange the product of
\* its reserves is no less.
LEMMA BancorIs ==
  ASSUME NEW a \in Nat, NEW b \in Nat, NEW c \in Nat, 0 < a + c
  PROVE  LET out == get_bancor_output(a, b, c)
         IN /\ out \in Nat /\ out <= b
            /\ (a + c) * out <= c * b
<1> DEFINE n == c * b
           d == a + c
           q == n \div d
<1>1. n \in Nat /\ d \in Nat /\ 0 < d
  OBVIOUS
<1>2. get_bancor_output(a, b, c) = AtLeastZero(q)
  BY DEF get_bancor_output
<1>3. d * b = a * b + c * b /\ a * b \in Nat /\ d * b \in Nat
  OBVIOUS
<1>4. n < d * b + d
  BY <1>1, <1>3
<1>5. q \in Nat /\ d * q <= n
  BY <1>1, DivIs
<1>6. q <= b
  BY <1>1, <1>4, DivAtMost
<1> HIDE DEF n, d, q
<1>7. AtLeastZero(q) = q
  BY <1>5 DEF AtLeastZero
<1>8. QED
  BY <1>2, <1>5, <1>6, <1>7 DEF n, d

\* What REX is worth is within the pool, the more the more of it, all of it the
\* whole pool.
LEMMA WorthIs ==
  ASSUME NEW pool, pool.total_lendable \in Nat, pool.total_rex \in Nat, 0 < pool.total_rex,
         NEW rex \in Nat
  PROVE  /\ Worth(pool, rex) \in Nat
         /\ rex <= pool.total_rex => Worth(pool, rex) <= pool.total_lendable
         /\ rex = pool.total_rex => Worth(pool, rex) = pool.total_lendable
         /\ \A less \in Nat : less <= rex => Worth(pool, less) <= Worth(pool, rex)
<1> DEFINE s == pool.total_lendable
           r == pool.total_rex
<1>1. Worth(pool, rex) = (rex * s) \div r
  BY DEF Worth
<1>2. s \in Nat /\ r \in Nat /\ 0 < r /\ rex * s \in Nat /\ r * s \in Nat
  OBVIOUS
<1>3. (rex * s) \div r \in Nat
  BY <1>2
<1>4. ASSUME rex <= r
      PROVE  (rex * s) \div r <= s
  <2>1. rex * s <= r * s
    BY <1>2, <1>4
  <2>2. rex * s < r * s + r
    BY <1>2, <2>1
  <2>3. QED
    BY <1>2, <2>2, DivAtMost
<1>5. ASSUME rex = r
      PROVE  (rex * s) \div r = s
  <2>1. s <= (rex * s) \div r
    BY <1>2, <1>5, DivAtLeast
  <2>2. QED
    BY <1>2, <1>3, <1>4, <1>5, <2>1
<1>6. ASSUME NEW less \in Nat, less <= rex
      PROVE  Worth(pool, less) <= (rex * s) \div r
  <2>1. less * s <= rex * s /\ less * s \in Nat
    BY <1>2, <1>6
  <2>2. Worth(pool, less) = (less * s) \div r
    BY DEF Worth
  <2>3. (less * s) \div r \in Nat /\ r * ((less * s) \div r) <= less * s
    BY <1>2, <2>1, DivIs
  <2>4. r * ((less * s) \div r) \in Nat
    BY <1>2, <2>3
  <2>5. r * ((less * s) \div r) <= rex * s
    BY <1>2, <2>1, <2>3, <2>4
  <2>6. QED
    BY <1>2, <2>2, <2>3, <2>5, DivAtLeast
<1>7. QED
  BY <1>1, <1>3, <1>4, <1>5, <1>6

-----------------------------------------------------------------------------
(* What the tables add up to *)

FundIn(row) == IF row = Nil THEN 0 ELSE row
EarnedIn(row) == IF row = Nil THEN 0 ELSE row.proceeds
HeldIn(row) == IF row = Nil THEN 0 ELSE row.rex_balance

SumFunds(funds) == SumFunctionOnSet([a \in Account |-> FundIn(funds[a])], Account)
SumEarned(orders) == SumFunctionOnSet([a \in Account |-> EarnedIn(orders[a])], Account)
SumHeld(balances) == SumFunctionOnSet([a \in Account |-> HeldIn(balances[a])], Account)

FundTable == [Account -> Nat \cup {Nil}]
OrderTable == [Account -> rex_order \cup {Nil}]
RexTable == [Account -> rex_balance \cup {Nil}]
TotalTable == [Account -> user_resources \cup {Nil}]
LimitTable == [Account -> LimitSet]
TokenTable == [TokenHolder -> Nat \cup {Nil}]
LoanTable == [RESOURCES -> SUBSET rex_loan]

\* Nil is no row.
LEMMA NoRow ==
  /\ Nil \notin Int /\ Nil \notin rex_order /\ Nil \notin rex_balance /\ Nil \notin rex_pool
  /\ Nil \notin user_resources /\ Nil \notin voter_info
BY BandwidthAssumption, RexAssumption, VotingAssumption

\* A fund is put.
LEMMA FundPut ==
  ASSUME NEW funds \in FundTable, NEW a \in Account, NEW row \in Nat \cup {Nil}
  PROVE  /\ [funds EXCEPT ![a] = row] \in FundTable
         /\ SumFunds([funds EXCEPT ![a] = row]) = SumFunds(funds) + FundIn(row) - FundIn(funds[a])
         /\ SumFunds(funds) \in Int /\ FundIn(funds[a]) \in Nat
<1> DEFINE new == [funds EXCEPT ![a] = row]
           f == [b \in Account |-> FundIn(funds[b])]
           g == [b \in Account |-> FundIn(new[b])]
<1>1. new \in FundTable /\ new[a] = row /\ \A b \in Account : b # a => new[b] = funds[b]
  BY DEF FundTable
<1>2. \A b \in Account : FundIn(funds[b]) \in Nat /\ FundIn(new[b]) \in Nat
  BY <1>1, NoRow DEF FundTable, FundIn
<1>3. \A b \in Account : f[b] \in Int /\ g[b] \in Int
  BY <1>2
<1>4. \A b \in Account \ {a} : g[b] = f[b]
  BY <1>1
<1>5. f[a] = FundIn(funds[a]) /\ g[a] = FundIn(row)
  BY <1>1
<1> HIDE DEF f, g
<1>7. SumFunctionOnSet(g, Account) = SumFunctionOnSet(f, Account) + g[a] - f[a]
  <2>1. IsFiniteSet(Account)
    BY VotingFinite
  <2>2. QED
    BY <1>3, <1>4, <2>1, SumChange
<1>8. SumFunctionOnSet(f, Account) \in Int
  BY <1>3, VotingFinite, SumInt
<1>9. QED
  BY <1>1, <1>2, <1>5, <1>7, <1>8 DEF SumFunds, f, g

\* An order.
LEMMA OrderPut ==
  ASSUME NEW orders \in OrderTable, NEW a \in Account, NEW row \in rex_order \cup {Nil}
  PROVE  /\ [orders EXCEPT ![a] = row] \in OrderTable
         /\ SumEarned([orders EXCEPT ![a] = row]) = SumEarned(orders) + EarnedIn(row) - EarnedIn(orders[a])
         /\ SumEarned(orders) \in Int /\ EarnedIn(orders[a]) \in Nat /\ EarnedIn(row) \in Nat
<1> DEFINE new == [orders EXCEPT ![a] = row]
           f == [b \in Account |-> EarnedIn(orders[b])]
           g == [b \in Account |-> EarnedIn(new[b])]
<1>1. new \in OrderTable /\ new[a] = row /\ \A b \in Account : b # a => new[b] = orders[b]
  BY DEF OrderTable
<1>2. \A b \in Account : EarnedIn(orders[b]) \in Nat /\ EarnedIn(new[b]) \in Nat
  BY <1>1, NoRow DEF OrderTable, EarnedIn, rex_order
<1>3. \A b \in Account : f[b] \in Int /\ g[b] \in Int
  BY <1>2
<1>4. \A b \in Account \ {a} : g[b] = f[b]
  BY <1>1
<1>5. f[a] = EarnedIn(orders[a]) /\ g[a] = EarnedIn(row)
  BY <1>1
<1> HIDE DEF f, g
<1>7. SumFunctionOnSet(g, Account) = SumFunctionOnSet(f, Account) + g[a] - f[a]
  <2>1. IsFiniteSet(Account)
    BY VotingFinite
  <2>2. QED
    BY <1>3, <1>4, <2>1, SumChange
<1>8. SumFunctionOnSet(f, Account) \in Int
  BY <1>3, VotingFinite, SumInt
<1>9. QED
  BY <1>1, <1>2, <1>5, <1>7, <1>8 DEF SumEarned, f, g

\* A balance of REX, of which the sum is no less than each.
LEMMA HeldPut ==
  ASSUME NEW balances \in RexTable, NEW a \in Account, NEW row \in rex_balance \cup {Nil}
  PROVE  /\ [balances EXCEPT ![a] = row] \in RexTable
         /\ SumHeld([balances EXCEPT ![a] = row]) = SumHeld(balances) + HeldIn(row) - HeldIn(balances[a])
         /\ SumHeld(balances) \in Int /\ HeldIn(balances[a]) \in Int /\ HeldIn(row) \in Int
         /\ (\A b \in Account : 0 <= HeldIn(balances[b])) => HeldIn(balances[a]) <= SumHeld(balances)
<1> DEFINE new == [balances EXCEPT ![a] = row]
           f == [b \in Account |-> HeldIn(balances[b])]
           g == [b \in Account |-> HeldIn(new[b])]
<1>1. new \in RexTable /\ new[a] = row /\ \A b \in Account : b # a => new[b] = balances[b]
  BY DEF RexTable
<1>2. \A b \in Account : HeldIn(balances[b]) \in Int /\ HeldIn(new[b]) \in Int
  BY <1>1, NoRow DEF RexTable, HeldIn, rex_balance
<1>3. \A b \in Account : f[b] \in Int /\ g[b] \in Int
  BY <1>2
<1>4. \A b \in Account \ {a} : g[b] = f[b]
  BY <1>1
<1>5. f[a] = HeldIn(balances[a]) /\ g[a] = HeldIn(row)
  BY <1>1
<1>6. \A b \in Account : f[b] = HeldIn(balances[b])
  OBVIOUS
<1> HIDE DEF f, g
<1>7. SumFunctionOnSet(g, Account) = SumFunctionOnSet(f, Account) + g[a] - f[a]
  <2>1. IsFiniteSet(Account)
    BY VotingFinite
  <2>2. QED
    BY <1>3, <1>4, <2>1, SumChange
<1>8. SumFunctionOnSet(f, Account) \in Int
  BY <1>3, VotingFinite, SumInt
<1>9. ASSUME \A b \in Account : 0 <= HeldIn(balances[b])
      PROVE  HeldIn(balances[a]) <= SumFunctionOnSet(f, Account)
  <2>1. \A b \in Account : f[b] \in Nat
    BY <1>2, <1>6, <1>9
  <2>2. f[a] <= SumFunctionOnSet(f, Account)
    BY <2>1, VotingFinite, SumNat
  <2>3. QED
    BY <1>5, <2>2
<1>10. QED
  BY <1>1, <1>2, <1>5, <1>7, <1>8, <1>9 DEF SumHeld, f, g

-----------------------------------------------------------------------------
(* Loans *)

\* What the sums over loans are of.
StakedBy == [l \in rex_loan |-> l.total_staked]
BalanceBy == [l \in rex_loan |-> l.balance]
StakedFor(a) == [l \in rex_loan |-> IF l.receiver = a THEN l.total_staked ELSE 0]

OnLoans(f, ls) == SumFunctionOnSet(f, ls["net"]) + SumFunctionOnSet(f, ls["cpu"])

OfLoans(f) == \A l \in rex_loan : f[l] \in Int

FiniteLoans(ls) == ls \in LoanTable /\ \A r \in RESOURCES : IsFiniteSet(ls[r])

\* They are of numbers.
LEMMA LoanNumbers ==
  /\ OfLoans(StakedBy) /\ OfLoans(BalanceBy) /\ \A a \in Account : OfLoans(StakedFor(a))
  /\ \A l \in rex_loan : /\ StakedBy[l] = l.total_staked /\ BalanceBy[l] = l.balance
                         /\ l.total_staked \in Nat /\ l.balance \in Nat /\ l.payment \in Nat
                         /\ l.loan_num \in Nat /\ l.expiration \in Nat
                         /\ l.from \in Account /\ l.receiver \in Account
  /\ \A l \in rex_loan, a \in Account :
       StakedFor(a)[l] = IF l.receiver = a THEN l.total_staked ELSE 0
<1>1. \A l \in rex_loan : /\ l.total_staked \in Nat /\ l.balance \in Nat /\ l.payment \in Nat
                          /\ l.loan_num \in Nat /\ l.expiration \in Nat
                          /\ l.from \in Account /\ l.receiver \in Account
  BY DEF rex_loan
<1>2. \A l \in rex_loan : StakedBy[l] = l.total_staked /\ BalanceBy[l] = l.balance
  BY DEF StakedBy, BalanceBy
<1>3. \A l \in rex_loan, a \in Account :
        StakedFor(a)[l] = IF l.receiver = a THEN l.total_staked ELSE 0
  BY DEF StakedFor
<1>4. QED
  BY <1>1, <1>2, <1>3 DEF OfLoans

\* The sums are numbers.
LEMMA LoanSums ==
  ASSUME NEW ls, FiniteLoans(ls), NEW f, OfLoans(f)
  PROVE  /\ \A s \in RESOURCES : SumFunctionOnSet(f, ls[s]) \in Int
         /\ OnLoans(f, ls) \in Int
<1>1. ASSUME NEW s \in RESOURCES
      PROVE  SumFunctionOnSet(f, ls[s]) \in Int
  <2>1. IsFiniteSet(ls[s]) /\ \A l \in ls[s] : f[l] \in Int
    BY DEF FiniteLoans, LoanTable, OfLoans
  <2>2. QED
    BY <2>1, SumInt
<1>2. OnLoans(f, ls) \in Int
  BY <1>1 DEF OnLoans, RESOURCES
<1>3. QED
  BY <1>1, <1>2

\* The tables of loans without one, and with one more.
Without(ls, r, l) == [ls EXCEPT ![r] = @ \ {l}]
Including(ls, r, l) == [ls EXCEPT ![r] = @ \cup {l}]

\* A loan is taken out.
LEMMA LoanOut ==
  ASSUME NEW ls, FiniteLoans(ls), NEW r \in RESOURCES, NEW l \in ls[r], NEW f, OfLoans(f)
  PROVE  LET new == Without(ls, r, l)
         IN /\ FiniteLoans(new) /\ new[r] = ls[r] \ {l} /\ l \in rex_loan
            /\ \A s \in RESOURCES : s # r => new[s] = ls[s]
            /\ \A s \in RESOURCES : SumFunctionOnSet(f, new[s])
                                      = SumFunctionOnSet(f, ls[s]) - (IF s = r THEN f[l] ELSE 0)
            /\ OnLoans(f, new) = OnLoans(f, ls) - f[l]
<1> DEFINE new == Without(ls, r, l)
<1>1. /\ new \in LoanTable /\ new[r] = ls[r] \ {l} /\ l \in rex_loan
      /\ \A s \in RESOURCES : s # r => new[s] = ls[s]
  BY DEF FiniteLoans, LoanTable, Without
<1> HIDE DEF new
<1>2. IsFiniteSet(ls[r] \ {l})
  BY FS_RemoveElement DEF FiniteLoans
<1>3. FiniteLoans(new)
  <2>1. \A s \in RESOURCES : IsFiniteSet(new[s])
    BY <1>1, <1>2 DEF FiniteLoans
  <2>2. QED
    BY <1>1, <2>1 DEF FiniteLoans
<1>4. SumFunctionOnSet(f, ls[r]) = f[l] + SumFunctionOnSet(f, ls[r] \ {l})
  <2>1. IsFiniteSet(ls[r]) /\ \A m \in ls[r] : f[m] \in Int
    BY DEF FiniteLoans, LoanTable, OfLoans
  <2>2. QED
    BY <2>1, SumRemove
<1>5. /\ \A s \in RESOURCES : SumFunctionOnSet(f, new[s]) \in Int /\ SumFunctionOnSet(f, ls[s]) \in Int
      /\ f[l] \in Int
  BY <1>1, <1>3, LoanSums DEF OfLoans
<1>6. ASSUME NEW s \in RESOURCES
      PROVE  SumFunctionOnSet(f, new[s]) = SumFunctionOnSet(f, ls[s]) - (IF s = r THEN f[l] ELSE 0)
  <2>1. CASE s = r
    <3>1. SumFunctionOnSet(f, ls[r]) = f[l] + SumFunctionOnSet(f, new[r])
      BY <1>1, <1>4
    <3>2. SumFunctionOnSet(f, ls[r]) \in Int /\ SumFunctionOnSet(f, new[r]) \in Int /\ f[l] \in Int
      BY <1>5
    <3>3. QED
      BY <2>1, <3>1, <3>2
  <2>2. CASE s # r
    BY <1>1, <1>5, <2>2
  <2>3. QED
    BY <2>1, <2>2
<1>7. OnLoans(f, new) = OnLoans(f, ls) - f[l]
  BY <1>5, <1>6 DEF OnLoans, RESOURCES
<1>8. QED
  BY <1>1, <1>3, <1>6, <1>7 DEF new

\* A loan is put in.
LEMMA LoanIn ==
  ASSUME NEW ls, FiniteLoans(ls), NEW r \in RESOURCES, NEW l \in rex_loan, l \notin ls[r],
         NEW f, OfLoans(f)
  PROVE  LET new == Including(ls, r, l)
         IN /\ FiniteLoans(new) /\ new[r] = ls[r] \cup {l}
            /\ \A s \in RESOURCES : s # r => new[s] = ls[s]
            /\ \A s \in RESOURCES : SumFunctionOnSet(f, new[s])
                                      = SumFunctionOnSet(f, ls[s]) + (IF s = r THEN f[l] ELSE 0)
            /\ OnLoans(f, new) = OnLoans(f, ls) + f[l]
<1> DEFINE new == Including(ls, r, l)
<1>1. /\ new \in LoanTable /\ new[r] = ls[r] \cup {l}
      /\ \A s \in RESOURCES : s # r => new[s] = ls[s]
  BY DEF FiniteLoans, LoanTable, Including
<1> HIDE DEF new
<1>2. IsFiniteSet(ls[r] \cup {l})
  BY FS_AddElement DEF FiniteLoans
<1>3. FiniteLoans(new)
  <2>1. \A s \in RESOURCES : IsFiniteSet(new[s])
    BY <1>1, <1>2 DEF FiniteLoans
  <2>2. QED
    BY <1>1, <2>1 DEF FiniteLoans
<1>4. SumFunctionOnSet(f, ls[r] \cup {l}) = SumFunctionOnSet(f, ls[r]) + f[l]
  <2>1. IsFiniteSet(ls[r]) /\ (\A m \in ls[r] : f[m] \in Int) /\ f[l] \in Int
    BY DEF FiniteLoans, LoanTable, OfLoans
  <2>2. QED
    BY <2>1, SumInsert
<1>5. /\ \A s \in RESOURCES : SumFunctionOnSet(f, new[s]) \in Int /\ SumFunctionOnSet(f, ls[s]) \in Int
      /\ f[l] \in Int
  BY <1>1, <1>3, LoanSums DEF OfLoans
<1>6. ASSUME NEW s \in RESOURCES
      PROVE  SumFunctionOnSet(f, new[s]) = SumFunctionOnSet(f, ls[s]) + (IF s = r THEN f[l] ELSE 0)
  <2>1. CASE s = r
    BY <1>1, <1>4, <1>5, <2>1
  <2>2. CASE s # r
    BY <1>1, <1>5, <2>2
  <2>3. QED
    BY <2>1, <2>2
<1>7. OnLoans(f, new) = OnLoans(f, ls) + f[l]
  BY <1>5, <1>6 DEF OnLoans, RESOURCES
<1>8. QED
  BY <1>1, <1>3, <1>6, <1>7 DEF new

\* No two loans of a table have the same number.
GoodLoans(ls, n) ==
  /\ FiniteLoans(ls)
  /\ \A r \in RESOURCES : \A l \in ls[r] :
       /\ 0 < l.payment /\ 0 < l.total_staked /\ l.loan_num <= n
       /\ \A m \in ls[r] : m.loan_num = l.loan_num => m = l

\* One takes the place of another.
LEMMA LoanSwap ==
  ASSUME NEW ls, NEW n, GoodLoans(ls, n), NEW r \in RESOURCES, NEW l \in ls[r],
         NEW m \in rex_loan, m.loan_num = l.loan_num, 0 < m.payment, 0 < m.total_staked,
         NEW f, OfLoans(f)
  PROVE  LET new == Including(Without(ls, r, l), r, m)
         IN /\ GoodLoans(new, n) /\ new[r] = (ls[r] \ {l}) \cup {m}
            /\ \A s \in RESOURCES : SumFunctionOnSet(f, new[s])
                 = SumFunctionOnSet(f, ls[s]) + (IF s = r THEN f[m] - f[l] ELSE 0)
            /\ OnLoans(f, new) = OnLoans(f, ls) + f[m] - f[l]
<1> DEFINE less == Without(ls, r, l)
           new == Including(less, r, m)
<1>1. FiniteLoans(ls) /\ ls \in LoanTable
  BY DEF GoodLoans, FiniteLoans
<1>2. /\ FiniteLoans(less) /\ less[r] = ls[r] \ {l} /\ l \in rex_loan
      /\ \A s \in RESOURCES : s # r => less[s] = ls[s]
      /\ \A s \in RESOURCES : SumFunctionOnSet(f, less[s])
                                = SumFunctionOnSet(f, ls[s]) - (IF s = r THEN f[l] ELSE 0)
      /\ OnLoans(f, less) = OnLoans(f, ls) - f[l]
  BY <1>1, LoanOut
<1> HIDE DEF less
<1>4. m \notin less[r]
  BY <1>2 DEF GoodLoans
<1>5. /\ FiniteLoans(new) /\ new[r] = less[r] \cup {m}
      /\ \A s \in RESOURCES : s # r => new[s] = less[s]
      /\ \A s \in RESOURCES : SumFunctionOnSet(f, new[s])
                                = SumFunctionOnSet(f, less[s]) + (IF s = r THEN f[m] ELSE 0)
      /\ OnLoans(f, new) = OnLoans(f, less) + f[m]
  BY <1>2, <1>4, LoanIn
<1> HIDE DEF new
<1>6. f[l] \in Int /\ f[m] \in Int /\ OnLoans(f, ls) \in Int
      /\ \A s \in RESOURCES : SumFunctionOnSet(f, ls[s]) \in Int
  BY <1>1, <1>2, LoanSums DEF OfLoans
<1>7. new[r] = (ls[r] \ {l}) \cup {m}
  BY <1>2, <1>5
<1>8. ASSUME NEW s \in RESOURCES, NEW k \in new[s]
      PROVE  /\ 0 < k.payment /\ 0 < k.total_staked /\ k.loan_num <= n
             /\ \A j \in new[s] : j.loan_num = k.loan_num => j = k
  <2>1. CASE s # r
    BY <1>2, <1>5, <1>8, <2>1 DEF GoodLoans
  <2>2. CASE s = r
    <3>1. \A j \in new[r] : j = m \/ (j \in ls[r] /\ j # l)
      BY <1>7
    <3>2. \A j \in ls[r] : /\ 0 < j.payment /\ 0 < j.total_staked /\ j.loan_num <= n
                           /\ \A i \in ls[r] : i.loan_num = j.loan_num => i = j
      BY DEF GoodLoans
    <3>3. QED
      BY <1>8, <2>2, <3>1, <3>2
  <2>3. QED
    BY <2>1, <2>2
<1>9. GoodLoans(new, n)
  BY <1>5, <1>8 DEF GoodLoans
<1>10. \A s \in RESOURCES : SumFunctionOnSet(f, new[s])
         = SumFunctionOnSet(f, ls[s]) + (IF s = r THEN f[m] - f[l] ELSE 0)
  BY <1>2, <1>5, <1>6
<1>11. OnLoans(f, new) = OnLoans(f, ls) + f[m] - f[l]
  BY <1>2, <1>5, <1>6
<1>12. QED
  BY <1>7, <1>9, <1>10, <1>11 DEF new, less

\* One is closed.
LEMMA LoanClosed ==
  ASSUME NEW ls, NEW n, GoodLoans(ls, n), NEW r \in RESOURCES, NEW l \in ls[r]
  PROVE  GoodLoans(Without(ls, r, l), n)
<1> DEFINE new == Without(ls, r, l)
<1>1. /\ FiniteLoans(new) /\ new[r] = ls[r] \ {l}
      /\ \A s \in RESOURCES : s # r => new[s] = ls[s]
  <2>1. FiniteLoans(ls) /\ OfLoans(StakedBy)
    BY LoanNumbers DEF GoodLoans
  <2>2. QED
    BY <2>1, LoanOut
<1> HIDE DEF new
<1>2. \A s \in RESOURCES : new[s] \subseteq ls[s]
  BY <1>1
<1>3. QED
  BY <1>1, <1>2 DEF GoodLoans, new

-----------------------------------------------------------------------------
(* What is right about the tables, in the course of an action too *)

Bal(table, holder) == IF table[holder] = Nil THEN 0 ELSE table[holder]

\* A chain of transfers is made of tokens that are there.
LEMMA TransferredIs ==
  ASSUME NEW table \in TokenTable, NEW from \in TokenHolder, NEW to \in TokenHolder, from # to,
         NEW amount \in Int, Transferred(table, from, to, amount) # Nil
  PROVE  LET new == Transferred(table, from, to, amount)
         IN /\ new \in TokenTable /\ 0 < amount /\ table[from] # Nil
            /\ Bal(new, from) = Bal(table, from) - amount
            /\ Bal(new, to) = Bal(table, to) + amount
            /\ \A h \in TokenHolder : h # from /\ h # to => Bal(new, h) = Bal(table, h)
<1> DEFINE lowered == [table EXCEPT ![from] = table[from] - amount]
           new == [lowered EXCEPT ![to] = IF lowered[to] = Nil THEN amount ELSE lowered[to] + amount]
<1>1. /\ 0 < amount /\ table[from] # Nil /\ ~ (table[from] < amount)
      /\ Transferred(table, from, to, amount) = new
  BY DEF Transferred, TLOS!add_balance, TLOS!sub_balance
<1>2. table[from] \in Nat /\ Nil \notin Int
  BY <1>1, NoRow DEF TokenTable
<1>3. /\ lowered \in TokenTable /\ lowered[from] = table[from] - amount
      /\ \A h \in TokenHolder : h # from => lowered[h] = table[h]
  BY <1>1, <1>2 DEF TokenTable
<1> HIDE DEF lowered
<1>4. /\ new \in TokenTable
      /\ new[to] = IF lowered[to] = Nil THEN amount ELSE lowered[to] + amount
      /\ \A h \in TokenHolder : h # to => new[h] = lowered[h]
  BY <1>1, <1>3 DEF TokenTable
<1> HIDE DEF new
<1>5. Bal(new, from) = Bal(table, from) - amount
  BY <1>1, <1>2, <1>3, <1>4 DEF Bal
<1>6. Bal(new, to) = Bal(table, to) + amount
  <2>1. lowered[to] \in Nat \cup {Nil} /\ lowered[to] = table[to]
    BY <1>3 DEF TokenTable
  <2>2. new[to] \in Int
    BY <1>4, <2>1
  <2>3. QED
    BY <1>2, <1>4, <2>1, <2>2 DEF Bal
<1>7. \A h \in TokenHolder : h # from /\ h # to => Bal(new, h) = Bal(table, h)
  BY <1>3, <1>4 DEF Bal
<1>8. QED
  BY <1>1, <1>4, <1>5, <1>6, <1>7

\* The accounts of the contract are apart from each other and from the users.
LEMMA HoldersApart ==
  /\ SystemAccounts \subseteq TokenHolder /\ Account \subseteq TokenHolder
  /\ \A s \in SystemAccounts : s \notin Account
  /\ REX_ACCOUNT # NAMES_ACCOUNT /\ REX_ACCOUNT # RAM_ACCOUNT /\ REX_ACCOUNT # RAMFEE_ACCOUNT
  /\ REX_ACCOUNT # STAKE_ACCOUNT /\ NAMES_ACCOUNT # RAM_ACCOUNT /\ NAMES_ACCOUNT # RAMFEE_ACCOUNT
  /\ NAMES_ACCOUNT # STAKE_ACCOUNT /\ RAM_ACCOUNT # RAMFEE_ACCOUNT /\ RAM_ACCOUNT # STAKE_ACCOUNT
  /\ RAMFEE_ACCOUNT # STAKE_ACCOUNT
<1>1. SystemAccounts \subseteq TokenHolder /\ Account \subseteq TokenHolder
  BY DEF TokenHolder
<1>2. \A s \in SystemAccounts : s \notin Account
  BY BandwidthAssumption
<1>3. ASSUME NEW a, NEW b, NEW c, NEW d
      PROVE  Cardinality({a, b, c, d}) <= 4
  <2>1. ASSUME NEW S, IsFiniteSet(S), NEW x
        PROVE  /\ IsFiniteSet(S \cup {x})
               /\ Cardinality(S \cup {x}) \in Int /\ Cardinality(S) \in Int
               /\ Cardinality(S \cup {x}) <= Cardinality(S) + 1
    <3>1. Cardinality(S) \in Nat
      BY <2>1, FS_CardinalityType
    <3>2. IsFiniteSet(S \cup {x})
      BY <2>1, FS_AddElement
    <3>3. Cardinality(S \cup {x}) = Cardinality(S) \/ Cardinality(S \cup {x}) = Cardinality(S) + 1
      BY <2>1, FS_AddElement
    <3>4. QED
      BY <2>1, <3>1, <3>2, <3>3
  <2> DEFINE S1 == {a}
             S2 == S1 \cup {b}
             S3 == S2 \cup {c}
             S4 == S3 \cup {d}
  <2>2. IsFiniteSet(S1) /\ Cardinality(S1) = 1
    BY FS_Singleton
  <2>3. /\ IsFiniteSet(S2) /\ Cardinality(S2) \in Int
        /\ Cardinality(S2) <= Cardinality(S1) + 1
    BY <2>1, <2>2
  <2>4. /\ IsFiniteSet(S3) /\ Cardinality(S3) \in Int
        /\ Cardinality(S3) <= Cardinality(S2) + 1
    BY <2>1, <2>3
  <2>5. Cardinality(S4) <= 4
    <3>1. Cardinality(S4) \in Int /\ Cardinality(S4) <= Cardinality(S3) + 1
      BY <2>1, <2>4
    <3> HIDE DEF S1, S2, S3, S4
    <3>2. QED
      BY <2>2, <2>3, <2>4, <3>1
  <2>6. S4 = {a, b, c, d}
    BY DEF S1, S2, S3
  <2>7. QED
    BY <2>5, <2>6
<1>4. \A a, b, c, d : SystemAccounts # {a, b, c, d}
  <2>1. ASSUME NEW a, NEW b, NEW c, NEW d, SystemAccounts = {a, b, c, d}
        PROVE  FALSE
    <3>1. Cardinality(SystemAccounts) <= 4
      BY <1>3, <2>1
    <3>2. Cardinality(SystemAccounts) = 5
      BY BandwidthAssumption
    <3>3. QED
      BY <3>1, <3>2
  <2>2. QED
    BY <2>1
<1> DEFINE s == STAKE_ACCOUNT
           r == REX_ACCOUNT
           n == NAMES_ACCOUNT
           m == RAM_ACCOUNT
           f == RAMFEE_ACCOUNT
<1>5. SystemAccounts = {s, r, n, m, f}
  BY DEF SystemAccounts
<1> HIDE DEF s, r, n, m, f
<1>6. /\ SystemAccounts # {s, r, n, m} /\ SystemAccounts # {s, r, n, f}
      /\ SystemAccounts # {s, r, m, f} /\ SystemAccounts # {s, n, m, f}
      /\ SystemAccounts # {r, n, m, f}
  BY <1>4
<1>7. s # r /\ s # n /\ s # m /\ s # f /\ r # n /\ r # m /\ r # f /\ n # m /\ n # f /\ m # f
  BY <1>5, <1>6, Zenon
<1>8. QED
  BY <1>1, <1>2, <1>7 DEF s, r, n, m, f

\* A pool that is not there yet has nothing.
NoPool == [total_lent |-> 0, total_unlent |-> 0, total_rent |-> 0, total_lendable |-> 0,
           total_rex |-> 0, namebid_proceeds |-> 0]

PoolOf(pool) == IF pool = Nil THEN NoPool ELSE pool

GoodPool(pool, balances, ls) ==
  /\ pool \in rex_pool \cup {Nil}
  /\ 0 <= PoolOf(pool).total_unlent /\ 0 <= PoolOf(pool).total_rent
  /\ 0 <= PoolOf(pool).namebid_proceeds
  /\ PoolOf(pool).total_lent = OnLoans(StakedBy, ls)
  /\ PoolOf(pool).total_lendable = PoolOf(pool).total_lent + PoolOf(pool).total_unlent
  /\ PoolOf(pool).total_rex = SumHeld(balances)
  /\ PoolOf(pool).total_rex = 0 => PoolOf(pool).total_lendable = 0

GoodRow(rb) ==
  /\ 0 <= rb.vote_stake /\ 0 <= rb.rex_balance /\ 0 <= rb.matured_rex
  /\ \A m \in Maturity : 0 <= rb.rex_maturities[m]
  /\ rb.rex_balance = rb.matured_rex + SumRex(rb.rex_maturities)

\* Orders are of owners of REX, for some that has matured.
GoodOrder(order, rb) ==
  order # Nil =>
    /\ rb # Nil
    /\ order.is_open => /\ 0 < order.rex_requested /\ order.rex_requested <= rb.matured_rex
                        /\ order.proceeds = 0

GoodRows(balances, orders) ==
  /\ balances \in RexTable /\ orders \in OrderTable
  /\ \A a \in Account : balances[a] # Nil => GoodRow(balances[a])

GoodOrders(balances, orders) == \A a \in Account : GoodOrder(orders[a], balances[a])

GoodTotals(totals, limit) ==
  totals \in TotalTable /\ limit \in LimitTable /\ limits \in LimitTable

\* Without a token nobody has any.
GoodTokens(table) == table \in TokenTable /\ (stat = Nil => \A h \in TokenHolder : table[h] = Nil)

Good(t) ==
  /\ GoodPool(t.pool, t.balances, t.loans)
  /\ GoodLoans(t.loans, loan_num)
  /\ GoodRows(t.balances, t.orders) /\ GoodOrders(t.balances, t.orders)
  /\ t.funds \in FundTable
  /\ GoodTotals(t.totals, t.limits)
  /\ GoodTokens(t.tlos)
  /\ t.retained \in Nat

-----------------------------------------------------------------------------
(* What runrex leaves as it is *)

\* What eosio.rex has beyond what is owed from it, and eosio.names beyond what
\* the pool counts on.
Debt(t) == Bal(t.tlos, REX_ACCOUNT) - PoolOf(t.pool).total_lendable - SumFunds(t.funds)
             - SumEarned(t.orders) - OnLoans(BalanceBy, t.loans)
Spare(t) == Bal(t.tlos, NAMES_ACCOUNT) - PoolOf(t.pool).namebid_proceeds - t.retained

\* What REX counts for in votes, but for what filled orders will change.
ChangeOf(order) == IF order = Nil THEN 0 ELSE IF order.is_open THEN 0 ELSE order.stake_change
Weight(t, a) == RexStake(t.balances[a]) - ChangeOf(t.orders[a])

\* Totals without what is lent.
Own(t, a, r) == Totals(t.totals[a])[r] - SumFunctionOnSet(StakedFor(a), t.loans[r])

\* The other accounts of the contract have what they had.
Elsewhere(t, u) ==
  /\ Spare(u) = Spare(t)
  /\ Bal(u.tlos, RAM_ACCOUNT) = Bal(t.tlos, RAM_ACCOUNT)
  /\ Bal(u.tlos, STAKE_ACCOUNT) = Bal(t.tlos, STAKE_ACCOUNT)

WeighsAs(t, u, a) ==
  /\ Weight(u, a) = Weight(t, a)
  /\ u.balances[a] = Nil <=> t.balances[a] = Nil
  /\ t.orders[a] = Nil => u.orders[a] = Nil

OwnsAs(t, u, a) ==
  /\ Own(u, a, "net") = Own(t, a, "net") /\ Own(u, a, "cpu") = Own(t, a, "cpu")
  /\ Totals(u.totals[a]).ram_bytes = Totals(t.totals[a]).ram_bytes
  /\ t.limits[a].ram = limits[a].ram => u.limits[a].ram = limits[a].ram

Same(t, u) ==
  /\ Debt(u) = Debt(t) /\ Elsewhere(t, u)
  /\ \A a \in Account : WeighsAs(t, u, a) /\ OwnsAs(t, u, a)

\* It does so in one step after another.
LEMMA SameTwice ==
  ASSUME NEW t, NEW u, NEW w, Same(t, u), Same(u, w)
  PROVE  Same(t, w)
BY DEF Same, Elsewhere, WeighsAs, OwnsAs

\* And with none.
LEMMA SameAtAll ==
  ASSUME NEW t
  PROVE  Same(t, t)
BY DEF Same, Elsewhere, WeighsAs, OwnsAs

\* What is about the stake, and the totals, is only about some tables.
LEMMA WeighsFrame ==
  ASSUME NEW t, NEW u, NEW a \in Account, u.balances[a] = t.balances[a], u.orders[a] = t.orders[a]
  PROVE  WeighsAs(t, u, a)
BY DEF WeighsAs, Weight

LEMMA OwnsFrame ==
  ASSUME NEW t, NEW u, NEW a \in Account, u.totals = t.totals, u.limits = t.limits,
         u.loans = t.loans
  PROVE  OwnsAs(t, u, a)
BY DEF OwnsAs, Own

LEMMA ElsewhereFrame ==
  ASSUME NEW t, NEW u, u.tlos = t.tlos, u.retained = t.retained,
         PoolOf(u.pool).namebid_proceeds = PoolOf(t.pool).namebid_proceeds
  PROVE  Elsewhere(t, u)
BY DEF Elsewhere, Spare

\* The numbers of a pool are ones.
LEMMA PoolNumbers ==
  ASSUME NEW pool \in rex_pool \cup {Nil}
  PROVE  /\ PoolOf(pool).total_lent \in Int /\ PoolOf(pool).total_unlent \in Int
         /\ PoolOf(pool).total_rent \in Int /\ PoolOf(pool).total_lendable \in Int
         /\ PoolOf(pool).total_rex \in Int /\ PoolOf(pool).namebid_proceeds \in Int
<1>1. ASSUME NEW p \in rex_pool
      PROVE  /\ p.total_lent \in Int /\ p.total_unlent \in Int /\ p.total_rent \in Int
             /\ p.total_lendable \in Int /\ p.total_rex \in Int /\ p.namebid_proceeds \in Int
  BY DEF rex_pool
<1>2. CASE pool = Nil
  BY <1>2 DEF PoolOf, NoPool
<1>3. CASE pool # Nil
  BY <1>1, <1>3 DEF PoolOf
<1>4. QED
  BY <1>2, <1>3

\* Sums are numbers.
LEMMA TableNumbers ==
  ASSUME NEW t, Good(t)
  PROVE  /\ SumFunds(t.funds) \in Int /\ SumEarned(t.orders) \in Int /\ SumHeld(t.balances) \in Int
         /\ \A f : OfLoans(f) => OnLoans(f, t.loans) \in Int
         /\ \A f : OfLoans(f) => \A r \in RESOURCES : SumFunctionOnSet(f, t.loans[r]) \in Int
         /\ \A h \in TokenHolder : Bal(t.tlos, h) \in Int
         /\ \A a \in Account : RexStake(t.balances[a]) \in Int /\ ChangeOf(t.orders[a]) \in Int
<1>1. SumFunds(t.funds) \in Int
  <2> DEFINE f == [a \in Account |-> FundIn(t.funds[a])]
  <2>1. \A a \in Account : f[a] \in Int
    BY NoRow DEF Good, FundTable, FundIn
  <2> HIDE DEF f
  <2>2. SumFunctionOnSet(f, Account) \in Int
    BY <2>1, VotingFinite, SumInt
  <2>3. QED
    BY <2>2 DEF SumFunds, f
<1>2. SumEarned(t.orders) \in Int
  <2> DEFINE f == [a \in Account |-> EarnedIn(t.orders[a])]
  <2>1. \A a \in Account : f[a] \in Int
    BY NoRow DEF Good, GoodRows, OrderTable, EarnedIn, rex_order
  <2> HIDE DEF f
  <2>2. SumFunctionOnSet(f, Account) \in Int
    BY <2>1, VotingFinite, SumInt
  <2>3. QED
    BY <2>2 DEF SumEarned, f
<1>3. SumHeld(t.balances) \in Int
  <2> DEFINE f == [a \in Account |-> HeldIn(t.balances[a])]
  <2>1. \A a \in Account : f[a] \in Int
    BY NoRow DEF Good, GoodRows, RexTable, HeldIn, rex_balance
  <2> HIDE DEF f
  <2>2. SumFunctionOnSet(f, Account) \in Int
    BY <2>1, VotingFinite, SumInt
  <2>3. QED
    BY <2>2 DEF SumHeld, f
<1>4. FiniteLoans(t.loans)
  BY DEF Good, GoodLoans
<1>5. \A f : OfLoans(f) => OnLoans(f, t.loans) \in Int
  BY <1>4, LoanSums
<1>6. \A f : OfLoans(f) => \A r \in RESOURCES : SumFunctionOnSet(f, t.loans[r]) \in Int
  BY <1>4, LoanSums
<1>7. \A h \in TokenHolder : Bal(t.tlos, h) \in Int
  BY DEF Good, GoodTokens, TokenTable, Bal
<1>8. \A a \in Account : RexStake(t.balances[a]) \in Int
  BY DEF Good, GoodRows, RexTable, rex_balance, RexStake
<1>9. \A a \in Account : ChangeOf(t.orders[a]) \in Int
  BY DEF Good, GoodRows, OrderTable, rex_order, ChangeOf
<1>10. QED
  BY <1>1, <1>2, <1>3, <1>5, <1>6, <1>7, <1>8, <1>9

-----------------------------------------------------------------------------
(* channel_to_rex *)

\* A pool that gets more stays right.
LEMMA EnrichedIs ==
  ASSUME NEW balances, NEW ls, NEW pool, GoodPool(pool, balances, ls), rex_available(pool),
         NEW amount \in Int, 0 < amount
  PROVE  LET new == Enriched(pool, amount)
         IN /\ GoodPool(new, balances, ls) /\ new # Nil
            /\ PoolOf(new).total_lendable = PoolOf(pool).total_lendable + amount
            /\ PoolOf(new).namebid_proceeds = PoolOf(pool).namebid_proceeds
<1> DEFINE new == Enriched(pool, amount)
<1>1. pool # Nil /\ pool \in rex_pool /\ 0 < pool.total_rex /\ PoolOf(pool) = pool
  BY DEF GoodPool, rex_available, PoolOf
<1>2. pool.total_unlent \in Int /\ pool.total_lendable \in Int /\ pool.total_lent \in Int
  BY <1>1 DEF rex_pool
<1>3. new \in rex_pool
  <2> DEFINE x == pool.total_unlent + amount
             y == pool.total_lendable + amount
  <2>1. x \in Int /\ y \in Int
    BY <1>2
  <2>2. new = [pool EXCEPT !.total_unlent = x, !.total_lendable = y]
    BY DEF Enriched
  <2> HIDE DEF x, y, new
  <2>3. QED
    BY <1>1, <2>1, <2>2 DEF rex_pool
<1>4. /\ new.total_unlent = pool.total_unlent + amount
      /\ new.total_lendable = pool.total_lendable + amount
      /\ new.total_lent = pool.total_lent /\ new.total_rent = pool.total_rent
      /\ new.total_rex = pool.total_rex /\ new.namebid_proceeds = pool.namebid_proceeds
  BY <1>1 DEF rex_pool, Enriched
<1> HIDE DEF new
<1>5. new # Nil /\ PoolOf(new) = new
  BY <1>3, NoRow DEF PoolOf
<1>6. GoodPool(new, balances, ls)
  BY <1>1, <1>2, <1>3, <1>4, <1>5 DEF GoodPool
<1>7. QED
  BY <1>1, <1>4, <1>5, <1>6 DEF new

\* The amount is moved, or nothing is.
LEMMA ChannelIs ==
  ASSUME NEW t, Shape(t), NEW from, NEW amount
  PROVE  LET u == channel_to_rex(t, from, amount)
         IN /\ Shape(u) /\ (Alive(u) => Alive(t))
            /\ u.balances = t.balances /\ u.funds = t.funds
            /\ u.orders = t.orders /\ u.loans = t.loans /\ u.totals = t.totals
            /\ u.limits = t.limits /\ u.retained = t.retained
            /\ rex_available(t.pool) => /\ u.tlos = Transferred(t.tlos, from, REX_ACCOUNT, amount)
                                        /\ u.pool = Enriched(t.pool, amount)
            /\ ~ rex_available(t.pool) => u = t
<1> DEFINE r == [t EXCEPT !.pool = Enriched(@, amount)]
<1>1. CASE ~ rex_available(t.pool)
  BY <1>1 DEF channel_to_rex
<1>2. CASE rex_available(t.pool)
  <2>1. channel_to_rex(t, from, amount) = Sent(r, from, REX_ACCOUNT, amount)
    BY <1>2 DEF channel_to_rex
  <2>2. /\ Shape(r) /\ r.balances = t.balances /\ r.funds = t.funds
        /\ r.orders = t.orders /\ r.loans = t.loans /\ r.totals = t.totals
        /\ r.limits = t.limits /\ r.retained = t.retained /\ r.tlos = t.tlos /\ r.ok = t.ok
        /\ r.pool = Enriched(t.pool, amount)
    BY DEF Shape
  <2> HIDE DEF r
  <2>3. LET u == Sent(r, from, REX_ACCOUNT, amount)
        IN /\ Shape(u) /\ u.tlos = Transferred(r.tlos, from, REX_ACCOUNT, amount)
           /\ u.pool = r.pool /\ u.balances = r.balances /\ u.funds = r.funds
           /\ u.orders = r.orders /\ u.loans = r.loans /\ u.totals = r.totals
           /\ u.limits = r.limits /\ u.retained = r.retained /\ u.ok = r.ok
           /\ Alive(u) => Alive(r)
    BY <2>2, SentIs
  <2>4. Alive(r) => Alive(t)
    BY <2>2 DEF Alive
  <2>5. QED
    BY <1>2, <2>1, <2>2, <2>3, <2>4
<1>3. QED
  BY <1>1, <1>2

\* It leaves no debt.
LEMMA ChannelKeeps ==
  ASSUME NEW t, Shape(t), Good(t), NEW from \in TokenHolder, from # REX_ACCOUNT, NEW amount \in Int,
         Alive(channel_to_rex(t, from, amount))
  PROVE  LET u == channel_to_rex(t, from, amount)
         IN /\ Good(u) /\ Debt(u) = Debt(t)
            /\ PoolOf(u.pool).namebid_proceeds = PoolOf(t.pool).namebid_proceeds
            /\ u.pool = Nil <=> t.pool = Nil
            /\ \A h \in TokenHolder : h # REX_ACCOUNT =>
                 Bal(u.tlos, h) = Bal(t.tlos, h)
                   - (IF h = from /\ rex_available(t.pool) THEN amount ELSE 0)
<1> DEFINE u == channel_to_rex(t, from, amount)
<1>1. /\ Alive(t) /\ u.balances = t.balances /\ u.funds = t.funds
      /\ u.orders = t.orders /\ u.loans = t.loans /\ u.totals = t.totals
      /\ u.limits = t.limits /\ u.retained = t.retained
      /\ rex_available(t.pool) => /\ u.tlos = Transferred(t.tlos, from, REX_ACCOUNT, amount)
                                  /\ u.pool = Enriched(t.pool, amount)
      /\ ~ rex_available(t.pool) => u = t
  BY ChannelIs
<1> HIDE DEF u
<1>2. \A h \in TokenHolder : Bal(t.tlos, h) \in Int
  BY TableNumbers
<1>3. CASE ~ rex_available(t.pool)
  BY <1>1, <1>2, <1>3 DEF u
<1>4. CASE rex_available(t.pool)
  <2>1. u.tlos # Nil /\ u.tlos = Transferred(t.tlos, from, REX_ACCOUNT, amount)
    BY <1>1, <1>4 DEF Alive, u
  <2>2. REX_ACCOUNT \in TokenHolder /\ t.tlos \in TokenTable
    BY HoldersApart DEF Good, GoodTokens, SystemAccounts
  <2>3. /\ u.tlos \in TokenTable /\ 0 < amount /\ t.tlos[from] # Nil
        /\ Bal(u.tlos, from) = Bal(t.tlos, from) - amount
        /\ Bal(u.tlos, REX_ACCOUNT) = Bal(t.tlos, REX_ACCOUNT) + amount
        /\ \A h \in TokenHolder : h # from /\ h # REX_ACCOUNT => Bal(u.tlos, h) = Bal(t.tlos, h)
    BY <2>1, <2>2, TransferredIs
  <2>4. stat # Nil
    BY <2>3 DEF Good, GoodTokens
  <2>5. GoodPool(t.pool, t.balances, t.loans)
    BY DEF Good
  <2>6. /\ GoodPool(u.pool, t.balances, t.loans) /\ u.pool # Nil
        /\ PoolOf(u.pool).total_lendable = PoolOf(t.pool).total_lendable + amount
        /\ PoolOf(u.pool).namebid_proceeds = PoolOf(t.pool).namebid_proceeds
    BY <1>1, <1>4, <2>3, <2>5, EnrichedIs
  <2>7. Good(u)
    BY <1>1, <2>3, <2>4, <2>6 DEF Good, GoodTokens
  <2>8. Debt(u) = Debt(t)
    <3>1. /\ SumFunds(t.funds) \in Int /\ SumEarned(t.orders) \in Int
          /\ OnLoans(BalanceBy, t.loans) \in Int
      BY TableNumbers, LoanNumbers
    <3>2. PoolOf(t.pool).total_lendable \in Int
      BY <2>5, PoolNumbers DEF GoodPool
    <3>3. Bal(t.tlos, REX_ACCOUNT) \in Int
      BY <1>2, <2>2
    <3>4. QED
      BY <1>1, <2>3, <2>6, <3>1, <3>2, <3>3 DEF Debt
  <2>9. t.pool # Nil
    BY <1>4 DEF rex_available
  <2>10. \A h \in TokenHolder : h # REX_ACCOUNT =>
           Bal(u.tlos, h) = Bal(t.tlos, h) - (IF h = from THEN amount ELSE 0)
    BY <1>2, <2>3
  <2>11. QED
    BY <1>4, <2>6, <2>7, <2>8, <2>9, <2>10 DEF u
<1>5. QED
  BY <1>3, <1>4

\* The proceeds of auctions are the pool's, or stay where they are.
LEMMA ChannelledKeeps ==
  ASSUME NEW t, Shape(t), t.pool # Nil
  PROVE  LET u == Channelled(t)
         IN /\ Shape(u) /\ (Alive(u) => Alive(t))
            /\ Good(t) /\ Alive(u) => Good(u) /\ Same(t, u) /\ u.pool # Nil
<1> DEFINE u == Channelled(t)
           p == t.pool.namebid_proceeds
           c == channel_to_rex(t, NAMES_ACCOUNT, p)
<1>1. CASE ~ (p > 0)
  BY <1>1, SameAtAll DEF Channelled
<1>2. CASE p > 0
  <2>1. u = [c EXCEPT !.pool.namebid_proceeds = 0,
                      !.retained = IF rex_available(t.pool) THEN @ ELSE @ + p]
    BY <1>2 DEF Channelled
  <2> HIDE DEF p
  <2>2. /\ Shape(c) /\ (Alive(c) => Alive(t))
        /\ c.balances = t.balances /\ c.funds = t.funds
        /\ c.orders = t.orders /\ c.loans = t.loans /\ c.totals = t.totals
        /\ c.limits = t.limits /\ c.retained = t.retained
    BY ChannelIs
  <2> HIDE DEF c
  <2>3. /\ Shape(u) /\ u.balances = c.balances /\ u.funds = c.funds
        /\ u.orders = c.orders /\ u.loans = c.loans /\ u.totals = c.totals
        /\ u.limits = c.limits /\ u.tlos = c.tlos /\ u.ok = c.ok
        /\ u.retained = IF rex_available(t.pool) THEN c.retained ELSE c.retained + p
        /\ u.pool = [c.pool EXCEPT !.namebid_proceeds = 0]
    BY <2>1, <2>2 DEF Shape
  <2> HIDE DEF u
  <2>4. Alive(u) => Alive(c)
    BY <2>3 DEF Alive
  <2>5. ASSUME Good(t), Alive(u)
        PROVE  Good(u) /\ Same(t, u) /\ u.pool # Nil
    <3>1. p \in Int /\ 0 < p /\ p = PoolOf(t.pool).namebid_proceeds
      BY <1>2, <2>5, PoolNumbers DEF Good, GoodPool, PoolOf, p
    <3>2. NAMES_ACCOUNT \in TokenHolder /\ NAMES_ACCOUNT # REX_ACCOUNT
      BY HoldersApart DEF SystemAccounts
    <3>3. /\ Good(c) /\ Debt(c) = Debt(t) /\ c.pool # Nil
          /\ PoolOf(c.pool).namebid_proceeds = p
          /\ \A h \in TokenHolder : h # REX_ACCOUNT =>
               Bal(c.tlos, h) = Bal(t.tlos, h)
                 - (IF h = NAMES_ACCOUNT /\ rex_available(t.pool) THEN p ELSE 0)
      BY <2>4, <2>5, <3>1, <3>2, ChannelKeeps DEF c
    <3>4. c.pool \in rex_pool /\ PoolOf(c.pool) = c.pool /\ GoodPool(c.pool, c.balances, c.loans)
      BY <3>3 DEF Good, GoodPool, PoolOf
    <3>5. u.pool \in rex_pool
      BY <2>3, <3>4 DEF rex_pool
    <3>6. /\ u.pool.namebid_proceeds = 0 /\ u.pool.total_lent = c.pool.total_lent
          /\ u.pool.total_unlent = c.pool.total_unlent /\ u.pool.total_rent = c.pool.total_rent
          /\ u.pool.total_lendable = c.pool.total_lendable /\ u.pool.total_rex = c.pool.total_rex
      BY <2>3, <3>4 DEF rex_pool
    <3>7. u.pool # Nil /\ PoolOf(u.pool) = u.pool
      BY <3>5, NoRow DEF PoolOf
    <3>8. GoodPool(u.pool, u.balances, u.loans)
      <4>1. /\ c.pool.total_lent \in Int /\ c.pool.total_unlent \in Int
            /\ c.pool.total_lendable \in Int
        BY <3>4 DEF rex_pool
      <4>2. /\ 0 <= u.pool.total_unlent /\ 0 <= u.pool.total_rent /\ 0 <= u.pool.namebid_proceeds
            /\ u.pool.total_lendable = u.pool.total_lent + u.pool.total_unlent
            /\ u.pool.total_rex = 0 => u.pool.total_lendable = 0
        BY <3>4, <3>6 DEF GoodPool
      <4>3. /\ u.pool.total_lent = OnLoans(StakedBy, u.loans)
            /\ u.pool.total_rex = SumHeld(u.balances)
        BY <2>3, <3>4, <3>6 DEF GoodPool
      <4>4. QED
        BY <3>5, <3>7, <4>2, <4>3 DEF GoodPool
    <3>9. u.retained \in Nat /\ c.retained \in Nat
      BY <2>3, <3>1, <3>3 DEF Good
    <3>10. Good(u)
      BY <2>3, <3>3, <3>8, <3>9 DEF Good
    <3>11. Debt(u) = Debt(t)
      BY <2>3, <3>3, <3>4, <3>6, <3>7 DEF Debt
    <3>12. Spare(u) = Spare(t)
      <4>1. Bal(t.tlos, NAMES_ACCOUNT) \in Int
        BY <2>5, <3>2, TableNumbers
      <4>2. Bal(u.tlos, NAMES_ACCOUNT)
              = Bal(t.tlos, NAMES_ACCOUNT) - (IF rex_available(t.pool) THEN p ELSE 0)
        BY <2>3, <3>2, <3>3
      <4>3. t.retained = c.retained
        BY <2>2
      <4>4. Spare(t) = Bal(t.tlos, NAMES_ACCOUNT) - p - t.retained
        BY <3>1 DEF Spare
      <4>5. Spare(u) = Bal(u.tlos, NAMES_ACCOUNT) - 0 - u.retained
        BY <3>6, <3>7 DEF Spare
      <4>6. t.retained \in Int
        BY <3>9, <4>3
      <4>7. u.retained = IF rex_available(t.pool) THEN t.retained ELSE t.retained + p
        BY <2>3, <4>3
      <4>8. QED
        BY <3>1, <4>1, <4>2, <4>4, <4>5, <4>6, <4>7
    <3>13. /\ Bal(u.tlos, RAM_ACCOUNT) = Bal(t.tlos, RAM_ACCOUNT)
           /\ Bal(u.tlos, STAKE_ACCOUNT) = Bal(t.tlos, STAKE_ACCOUNT)
      <4>1. /\ RAM_ACCOUNT \in TokenHolder /\ STAKE_ACCOUNT \in TokenHolder
            /\ RAM_ACCOUNT # NAMES_ACCOUNT /\ STAKE_ACCOUNT # NAMES_ACCOUNT
            /\ RAM_ACCOUNT # REX_ACCOUNT /\ STAKE_ACCOUNT # REX_ACCOUNT
        BY HoldersApart DEF SystemAccounts
      <4>2. Bal(t.tlos, RAM_ACCOUNT) \in Int /\ Bal(t.tlos, STAKE_ACCOUNT) \in Int
        BY <2>5, <4>1, TableNumbers
      <4>3. QED
        BY <2>3, <3>3, <4>1, <4>2
    <3>14. Same(t, u)
      <4>1. \A a \in Account : WeighsAs(t, u, a) /\ OwnsAs(t, u, a)
        BY <2>2, <2>3, WeighsFrame, OwnsFrame
      <4>2. QED
        BY <3>11, <3>12, <3>13, <4>1 DEF Same, Elsewhere
    <3>15. QED
      BY <3>7, <3>10, <3>14
  <2>6. QED
    BY <2>2, <2>3, <2>4, <2>5 DEF u
<1>3. QED
  BY <1>1, <1>2
-----------------------------------------------------------------------------
(* Funds *)

\* What debts are made of.
LEMMA DebtNumbers ==
  ASSUME NEW t, Good(t)
  PROVE  /\ Bal(t.tlos, REX_ACCOUNT) \in Int /\ PoolOf(t.pool).total_lendable \in Int
         /\ SumFunds(t.funds) \in Int /\ SumEarned(t.orders) \in Int
         /\ OnLoans(BalanceBy, t.loans) \in Int /\ Debt(t) \in Int
<1>1. REX_ACCOUNT \in TokenHolder
  BY HoldersApart DEF SystemAccounts
<1>2. PoolOf(t.pool).total_lendable \in Int
  BY PoolNumbers DEF Good, GoodPool
<1>3. QED
  BY <1>1, <1>2, TableNumbers, LoanNumbers DEF Debt

\* An amount is put into a fund.
LEMMA ToFundIs ==
  ASSUME NEW t, Shape(t), NEW owner \in Account, NEW amount \in Nat
  PROVE  LET u == ToFund(t, owner, amount)
         IN /\ Shape(u) /\ (Alive(u) <=> Alive(t))
            /\ u.pool = t.pool /\ u.balances = t.balances /\ u.orders = t.orders
            /\ u.loans = t.loans /\ u.totals = t.totals /\ u.limits = t.limits /\ u.tlos = t.tlos
            /\ u.retained = t.retained
            /\ Good(t) => Good(u) /\ Debt(u) = Debt(t) - amount
<1> DEFINE u == ToFund(t, owner, amount)
           row == IF t.funds[owner] = Nil THEN amount ELSE t.funds[owner] + amount
<1>1. /\ Shape(u) /\ u.pool = t.pool /\ u.balances = t.balances /\ u.orders = t.orders
      /\ u.loans = t.loans /\ u.totals = t.totals /\ u.limits = t.limits /\ u.tlos = t.tlos
      /\ u.retained = t.retained /\ u.ok = t.ok
  BY DEF ToFund, Shape
<1>2. ASSUME Good(t)
      PROVE  Good(u) /\ Debt(u) = Debt(t) - amount
  <2>1. t.funds \in FundTable /\ t.funds[owner] \in Nat \cup {Nil}
    BY <1>2 DEF Good, FundTable
  <2>2. u.funds = [t.funds EXCEPT ![owner] = row]
    BY <2>1 DEF ToFund, Shape, FundTable
  <2>3. row \in Nat /\ FundIn(row) = FundIn(t.funds[owner]) + amount
    BY <2>1, NoRow DEF FundIn
  <2> HIDE DEF u, row
  <2>4. /\ u.funds \in FundTable
        /\ SumFunds(u.funds) = SumFunds(t.funds) + FundIn(row) - FundIn(t.funds[owner])
        /\ SumFunds(t.funds) \in Int /\ FundIn(t.funds[owner]) \in Nat
    BY <2>1, <2>2, <2>3, FundPut
  <2>5. Good(u)
    BY <1>1, <1>2, <2>4 DEF Good
  <2>6. SumFunds(u.funds) = SumFunds(t.funds) + amount
    BY <2>3, <2>4
  <2>7. Debt(u) = Debt(t) - amount
    BY <1>1, <1>2, <2>6, DebtNumbers DEF Debt
  <2>8. QED
    BY <2>5, <2>7
<1>3. QED
  BY <1>1, <1>2 DEF Alive
\* And taken out of one, of what is in it.
LEMMA FromFundIs ==
  ASSUME NEW t, Shape(t), NEW owner \in Account, NEW amount \in Int
  PROVE  LET u == FromFund(t, owner, amount)
         IN /\ Shape(u) /\ (Alive(u) => Alive(t) /\ HasFund(t, owner, amount))
            /\ u.pool = t.pool /\ u.balances = t.balances /\ u.orders = t.orders
            /\ u.loans = t.loans /\ u.totals = t.totals /\ u.limits = t.limits /\ u.tlos = t.tlos
            /\ u.retained = t.retained
            /\ Good(t) /\ Alive(u) => Good(u) /\ Debt(u) = Debt(t) + amount
<1> DEFINE u == FromFund(t, owner, amount)
           row == t.funds[owner] - amount
<1>1. /\ Shape(u) /\ u.pool = t.pool /\ u.balances = t.balances /\ u.orders = t.orders
      /\ u.loans = t.loans /\ u.totals = t.totals /\ u.limits = t.limits /\ u.tlos = t.tlos
      /\ u.retained = t.retained
  BY DEF FromFund, Require, Shape
<1>2. Alive(u) => Alive(t) /\ HasFund(t, owner, amount)
  BY DEF FromFund, Require, Shape, Alive
<1>3. ASSUME Good(t), Alive(u)
      PROVE  Good(u) /\ Debt(u) = Debt(t) + amount
  <2>1. t.funds \in FundTable /\ t.funds[owner] \in Nat
    BY <1>2, <1>3 DEF Good, FundTable, HasFund
  <2>2. u.funds = [t.funds EXCEPT ![owner] = row]
    BY <1>2, <1>3 DEF FromFund, Shape
  <2>3. row \in Nat /\ FundIn(row) = FundIn(t.funds[owner]) - amount
    BY <1>2, <1>3, <2>1, NoRow DEF FundIn, HasFund
  <2> HIDE DEF u, row
  <2>4. /\ u.funds \in FundTable
        /\ SumFunds(u.funds) = SumFunds(t.funds) + FundIn(row) - FundIn(t.funds[owner])
        /\ SumFunds(t.funds) \in Int /\ FundIn(t.funds[owner]) \in Nat
    BY <2>1, <2>2, <2>3, FundPut
  <2>5. Good(u)
    BY <1>1, <1>3, <2>4 DEF Good
  <2>6. SumFunds(u.funds) = SumFunds(t.funds) - amount
    BY <2>3, <2>4
  <2>7. Debt(u) = Debt(t) + amount
    BY <1>1, <1>3, <2>6, DebtNumbers DEF Debt
  <2>8. QED
    BY <2>5, <2>7
<1>4. QED
  BY <1>1, <1>2, <1>3

-----------------------------------------------------------------------------
(* Totals *)

\* Rows are of numbers.
LEMMA TotalsIs ==
  ASSUME NEW row \in user_resources \cup {Nil}
  PROVE  /\ Totals(row) \in user_resources
         /\ Totals(row).net \in Nat /\ Totals(row).cpu \in Nat /\ Totals(row).ram_bytes \in Nat
         /\ KeptUnlessEmpty(row) \in user_resources \cup {Nil}
         /\ row # Nil => Totals(KeptUnlessEmpty(row)) = row
BY NoRow DEF Totals, user_resources, NoResources, KeptUnlessEmpty

\* Of an account's totals NET and CPU change.
LEMMA LentKeeps ==
  ASSUME NEW t, Shape(t), GoodTotals(t.totals, t.limits), NEW receiver \in Account,
         NEW net \in Int, NEW cpu \in Int, Alive(Lent(t, receiver, net, cpu))
  PROVE  LET u == Lent(t, receiver, net, cpu)
         IN /\ GoodTotals(u.totals, u.limits)
            /\ Totals(u.totals[receiver]).net = Totals(t.totals[receiver]).net + net
            /\ Totals(u.totals[receiver]).cpu = Totals(t.totals[receiver]).cpu + cpu
            /\ \A a \in Account : a # receiver => u.totals[a] = t.totals[a]
            /\ \A a \in Account : /\ Totals(u.totals[a]).ram_bytes = Totals(t.totals[a]).ram_bytes
                                  /\ t.limits[a].ram = limits[a].ram => u.limits[a].ram = limits[a].ram
<1> DEFINE u == Lent(t, receiver, net, cpu)
           old == Totals(t.totals[receiver])
           row == MoreOf(old, net, cpu)
           lim == LimitsFor(receiver, row)
<1>1. /\ u.totals = [t.totals EXCEPT ![receiver] = KeptUnlessEmpty(row)]
      /\ u.limits = [t.limits EXCEPT ![receiver] = lim]
      /\ u.ok = (t.ok /\ row.net >= 0 /\ row.cpu >= 0)
  BY LentIs
<1>2. old \in user_resources /\ old.net \in Nat /\ old.cpu \in Nat /\ old.ram_bytes \in Nat
  BY TotalsIs DEF GoodTotals, TotalTable
<1> HIDE DEF old, u
<1>3. row.net = old.net + net /\ row.cpu = old.cpu + cpu /\ row.ram_bytes = old.ram_bytes
  BY <1>2 DEF user_resources, MoreOf
<1>4. row = [net |-> old.net + net, cpu |-> old.cpu + cpu, ram_bytes |-> old.ram_bytes]
  <2> DEFINE x == old.net + net
             y == old.cpu + cpu
  <2>1. row = [old EXCEPT !.net = x, !.cpu = y]
    BY <1>2 DEF user_resources, MoreOf
  <2> HIDE DEF x, y, row
  <2>2. row = [net |-> x, cpu |-> y, ram_bytes |-> old.ram_bytes]
    BY <1>2, <2>1 DEF user_resources
  <2>3. QED
    BY <2>2 DEF x, y
<1>5. row.net >= 0 /\ row.cpu >= 0
  BY <1>1 DEF Alive, u
<1> HIDE DEF row
<1>6. old.net + net \in Nat /\ old.cpu + cpu \in Nat
  BY <1>2, <1>3, <1>5
<1>7. row \in user_resources
  BY <1>2, <1>4, <1>6 DEF user_resources
<1>8. KeptUnlessEmpty(row) \in user_resources \cup {Nil} /\ Totals(KeptUnlessEmpty(row)) = row
  BY <1>7, TotalsIs, NoRow
<1>9. lim \in LimitSet /\ lim.ram = limits[receiver].ram
  <2>1. limits[receiver] \in LimitSet /\ row.net \in Int /\ row.cpu \in Int
    BY <1>3, <1>6 DEF GoodTotals, LimitTable
  <2>2. QED
    BY <2>1 DEF LimitsFor, LimitSet
<1> HIDE DEF lim
<1>10. /\ u.totals \in TotalTable /\ u.totals[receiver] = KeptUnlessEmpty(row)
       /\ \A a \in Account : a # receiver => u.totals[a] = t.totals[a]
  BY <1>1, <1>8 DEF GoodTotals, TotalTable
<1>11. /\ u.limits \in LimitTable /\ u.limits[receiver] = lim
       /\ \A a \in Account : a # receiver => u.limits[a] = t.limits[a]
  BY <1>1, <1>9 DEF GoodTotals, LimitTable
<1>12. GoodTotals(u.totals, u.limits)
  BY <1>10, <1>11 DEF GoodTotals
<1>13. Totals(u.totals[receiver]) = row
  BY <1>8, <1>10
<1>14. \A a \in Account : Totals(u.totals[a]).ram_bytes = Totals(t.totals[a]).ram_bytes
  BY <1>3, <1>10, <1>13 DEF old
<1>15. \A a \in Account : t.limits[a].ram = limits[a].ram => u.limits[a].ram = limits[a].ram
  BY <1>9, <1>11
<1>16. QED
  BY <1>3, <1>10, <1>12, <1>13, <1>14, <1>15 DEF u, old

\* Of one of both.
LEMMA LentOfIs ==
  ASSUME NEW t, Shape(t), NEW r \in RESOURCES, NEW receiver \in Account, NEW delta \in Int
  PROVE  LET u == LentOf(t, r, receiver, delta)
         IN /\ Shape(u) /\ (Alive(u) => Alive(t))
            /\ u.pool = t.pool /\ u.balances = t.balances /\ u.funds = t.funds
            /\ u.orders = t.orders /\ u.loans = t.loans /\ u.tlos = t.tlos
            /\ u.retained = t.retained
            /\ GoodTotals(t.totals, t.limits) /\ Alive(u) =>
                 /\ GoodTotals(u.totals, u.limits)
                 /\ Totals(u.totals[receiver])[r] = Totals(t.totals[receiver])[r] + delta
                 /\ \A s \in RESOURCES : s # r =>
                      Totals(u.totals[receiver])[s] = Totals(t.totals[receiver])[s]
                 /\ \A a \in Account : a # receiver => u.totals[a] = t.totals[a]
                 /\ \A a \in Account :
                      /\ Totals(u.totals[a]).ram_bytes = Totals(t.totals[a]).ram_bytes
                      /\ t.limits[a].ram = limits[a].ram => u.limits[a].ram = limits[a].ram
<1> DEFINE u == LentOf(t, r, receiver, delta)
<1>1. GoodTotals(t.totals, t.limits) =>
        Totals(t.totals[receiver])["net"] \in Int /\ Totals(t.totals[receiver])["cpu"] \in Int
  BY TotalsIs DEF GoodTotals, TotalTable
<1>2. CASE delta = 0
  <2>1. u = t
    BY <1>2 DEF LentOf
  <2>2. QED
    BY <1>1, <1>2, <2>1 DEF RESOURCES
<1>3. CASE delta # 0 /\ r = "net"
  <2>1. u = Lent(t, receiver, delta, 0)
    BY <1>3 DEF LentOf
  <2> HIDE DEF u
  <2>2. /\ Shape(u) /\ u.pool = t.pool /\ u.balances = t.balances /\ u.funds = t.funds
        /\ u.orders = t.orders /\ u.loans = t.loans /\ u.tlos = t.tlos
        /\ u.retained = t.retained
    BY <2>1, LentFrame
  <2>3. Alive(u) => Alive(t)
    BY <2>1, LentFrame
  <2>4. ASSUME GoodTotals(t.totals, t.limits), Alive(u)
        PROVE  /\ GoodTotals(u.totals, u.limits)
               /\ Totals(u.totals[receiver])["net"] = Totals(t.totals[receiver])["net"] + delta
               /\ Totals(u.totals[receiver])["cpu"] = Totals(t.totals[receiver])["cpu"] + 0
               /\ \A a \in Account : a # receiver => u.totals[a] = t.totals[a]
               /\ \A a \in Account :
                    /\ Totals(u.totals[a]).ram_bytes = Totals(t.totals[a]).ram_bytes
                    /\ t.limits[a].ram = limits[a].ram => u.limits[a].ram = limits[a].ram
    BY <2>1, <2>4, LentKeeps
  <2>5. QED
    BY <1>1, <1>3, <2>2, <2>3, <2>4 DEF RESOURCES, u
<1>4. CASE delta # 0 /\ r = "cpu"
  <2>1. u = Lent(t, receiver, 0, delta)
    BY <1>4 DEF LentOf
  <2> HIDE DEF u
  <2>2. /\ Shape(u) /\ u.pool = t.pool /\ u.balances = t.balances /\ u.funds = t.funds
        /\ u.orders = t.orders /\ u.loans = t.loans /\ u.tlos = t.tlos
        /\ u.retained = t.retained
    BY <2>1, LentFrame
  <2>3. Alive(u) => Alive(t)
    BY <2>1, LentFrame
  <2>4. ASSUME GoodTotals(t.totals, t.limits), Alive(u)
        PROVE  /\ GoodTotals(u.totals, u.limits)
               /\ Totals(u.totals[receiver])["cpu"] = Totals(t.totals[receiver])["cpu"] + delta
               /\ Totals(u.totals[receiver])["net"] = Totals(t.totals[receiver])["net"] + 0
               /\ \A a \in Account : a # receiver => u.totals[a] = t.totals[a]
               /\ \A a \in Account :
                    /\ Totals(u.totals[a]).ram_bytes = Totals(t.totals[a]).ram_bytes
                    /\ t.limits[a].ram = limits[a].ram => u.limits[a].ram = limits[a].ram
    BY <2>1, <2>4, LentKeeps
  <2>5. QED
    BY <1>1, <1>4, <2>2, <2>3, <2>4 DEF RESOURCES, u
<1>5. QED
  BY <1>2, <1>3, <1>4 DEF RESOURCES
-----------------------------------------------------------------------------
(* Loans that expire *)

\* A loan is taken from the pool.
LEMMA RemovedIs ==
  ASSUME NEW pool \in rex_pool, NEW loan \in rex_loan, 0 < loan.total_staked,
         0 <= pool.total_unlent, 0 <= pool.total_rent
  PROVE  LET new == RemoveLoanFromPool(pool, loan)
         IN /\ new \in rex_pool /\ 0 <= new.total_rent
            /\ new.total_unlent = pool.total_unlent + loan.total_staked
            /\ new.total_lent = pool.total_lent - loan.total_staked
            /\ new.total_lendable = pool.total_unlent + pool.total_lent
            /\ new.total_rex = pool.total_rex /\ new.namebid_proceeds = pool.namebid_proceeds
<1> DEFINE out == get_bancor_output(pool.total_unlent, pool.total_rent, loan.total_staked)
           rent == pool.total_rent - out
           unlent == pool.total_unlent + loan.total_staked
           lent == pool.total_lent - loan.total_staked
           lendable == unlent + lent
           new == RemoveLoanFromPool(pool, loan)
<1>1. /\ pool.total_unlent \in Nat /\ pool.total_rent \in Nat /\ pool.total_lent \in Int
      /\ loan.total_staked \in Nat
  BY LoanNumbers DEF rex_pool
<1>2. out \in Nat /\ out <= pool.total_rent
  <2>1. 0 < pool.total_unlent + loan.total_staked
    BY <1>1
  <2>2. QED
    BY <1>1, <2>1, BancorIs
<1> HIDE DEF out
<1>3. /\ rent \in Nat /\ rent \in Int /\ unlent \in Int /\ lent \in Int /\ lendable \in Int
      /\ lendable = pool.total_unlent + pool.total_lent
  BY <1>1, <1>2
<1>4. new = [pool EXCEPT !.total_rent = rent, !.total_unlent = unlent, !.total_lent = lent,
                         !.total_lendable = lendable]
  BY DEF RemoveLoanFromPool, out
<1> HIDE DEF rent, unlent, lent, lendable, new
<1>5. new \in rex_pool
  BY <1>3, <1>4 DEF rex_pool
<1>6. /\ new.total_rent = rent /\ new.total_unlent = unlent /\ new.total_lent = lent
      /\ new.total_lendable = lendable
      /\ new.total_rex = pool.total_rex /\ new.namebid_proceeds = pool.namebid_proceeds
  BY <1>4 DEF rex_pool
<1>7. QED
  BY <1>3, <1>5, <1>6 DEF unlent, lent, new

\* A loan is given from it.
LEMMA AddedIs ==
  ASSUME NEW pool \in rex_pool, NEW payment \in Nat, NEW rented \in Nat, 0 <= pool.total_rent
  PROVE  LET new == AddLoanToPool(pool, payment, rented)
         IN /\ new \in rex_pool /\ 0 <= new.total_rent
            /\ new.total_unlent = pool.total_unlent - rented + payment
            /\ new.total_lent = pool.total_lent + rented
            /\ new.total_lendable = pool.total_unlent + pool.total_lent + payment
            /\ new.total_rex = pool.total_rex /\ new.namebid_proceeds = pool.namebid_proceeds
<1> DEFINE rent == pool.total_rent + payment
           unlent == pool.total_unlent - rented + payment
           lent == pool.total_lent + rented
           lendable == unlent + lent
           new == AddLoanToPool(pool, payment, rented)
<1>1. pool.total_unlent \in Int /\ pool.total_rent \in Int /\ pool.total_lent \in Int
  BY DEF rex_pool
<1>2. /\ rent \in Nat /\ rent \in Int /\ unlent \in Int /\ lent \in Int /\ lendable \in Int
      /\ lendable = pool.total_unlent + pool.total_lent + payment
  BY <1>1
<1>3. new = [pool EXCEPT !.total_rent = rent, !.total_unlent = unlent, !.total_lent = lent,
                         !.total_lendable = lendable]
  BY DEF AddLoanToPool
<1> HIDE DEF rent, unlent, lent, lendable, new
<1>4. new \in rex_pool
  BY <1>2, <1>3 DEF rex_pool
<1>5. /\ new.total_rent = rent /\ new.total_unlent = unlent /\ new.total_lent = lent
      /\ new.total_lendable = lendable
      /\ new.total_rex = pool.total_rex /\ new.namebid_proceeds = pool.namebid_proceeds
  BY <1>3 DEF rex_pool
<1>6. QED
  BY <1>2, <1>4, <1>5 DEF unlent, lent, new

\* Tables stay tables.
LEMMA LentOfFrame ==
  ASSUME NEW t, Shape(t), NEW r, NEW receiver, NEW delta
  PROVE  LET u == LentOf(t, r, receiver, delta)
         IN Shape(u) /\ (Alive(u) => Alive(t))
BY LentFrame DEF LentOf

\* Here too.
LEMMA ProcessFrame ==
  ASSUME NEW t, Shape(t), NEW r, NEW loan
  PROVE  LET u == process_expired_loan(t, r, loan)
         IN Shape(u) /\ (Alive(u) => Alive(t))
<1> DEFINE removed == [t EXCEPT !.pool = RemoveLoanFromPool(@, loan)]
           rented == get_bancor_output(removed.pool.total_rent, removed.pool.total_unlent,
                                       loan.payment)
           renewed == Renewed(removed, r, loan, rented)
           repaid == Repaid(removed, r, loan)
           u == process_expired_loan(t, r, loan)
<1>1. Shape(removed) /\ (Alive(removed) => Alive(t))
  BY DEF Shape, Alive
<1>2. u = LentOf(renewed, r, loan.receiver, rented - loan.total_staked)
      \/ u = LentOf(repaid, r, loan.receiver, -loan.total_staked)
  BY DEF process_expired_loan
<1> HIDE DEF removed, rented
<1>3. Shape(renewed) /\ (Alive(renewed) => Alive(t))
  BY <1>1 DEF Renewed, Shape, Alive
<1>4. Shape(repaid) /\ (Alive(repaid) => Alive(t))
  <2> DEFINE closed == [removed EXCEPT !.loans[r] = @ \ {loan}]
  <2>1. Shape(closed) /\ (Alive(closed) => Alive(t))
    BY <1>1 DEF Shape, Alive
  <2>2. repaid = closed \/ repaid = ToFund(closed, loan.from, loan.balance)
    BY DEF Repaid
  <2> HIDE DEF closed
  <2>3. QED
    BY <2>1, <2>2 DEF ToFund, Shape, Alive
<1> HIDE DEF renewed, repaid, u
<1>5. QED
  BY <1>2, <1>3, <1>4, LentOfFrame DEF u

\* Stake that a loan brings or takes makes no difference to what one has of
\* one's own.
LEMMA OwnStakeMoved ==
  ASSUME NEW t, GoodTotals(t.totals, t.limits), FiniteLoans(t.loans),
         NEW w, Shape(w), w.totals = t.totals, w.limits = t.limits,
         NEW r \in RESOURCES, NEW receiver \in Account, NEW delta \in Int,
         Alive(LentOf(w, r, receiver, delta)),
         \A a \in Account, s \in RESOURCES :
           SumFunctionOnSet(StakedFor(a), w.loans[s])
             = SumFunctionOnSet(StakedFor(a), t.loans[s])
               + (IF s = r /\ a = receiver THEN delta ELSE 0)
  PROVE  LET u == LentOf(w, r, receiver, delta)
         IN /\ Shape(u) /\ GoodTotals(u.totals, u.limits) /\ Debt(u) = Debt(w)
            /\ \A a \in Account : OwnsAs(t, u, a)
            /\ u.pool = w.pool /\ u.balances = w.balances /\ u.funds = w.funds
            /\ u.orders = w.orders /\ u.loans = w.loans /\ u.tlos = w.tlos
            /\ u.retained = w.retained
<1> DEFINE u == LentOf(w, r, receiver, delta)
<1>1. GoodTotals(w.totals, w.limits)
  OBVIOUS
<1>2. /\ Shape(u) /\ u.pool = w.pool /\ u.balances = w.balances /\ u.funds = w.funds
      /\ u.orders = w.orders /\ u.loans = w.loans /\ u.tlos = w.tlos
      /\ u.retained = w.retained
  BY LentOfIs
<1>3. /\ GoodTotals(u.totals, u.limits)
      /\ Totals(u.totals[receiver])[r] = Totals(t.totals[receiver])[r] + delta
      /\ \A s \in RESOURCES : s # r => Totals(u.totals[receiver])[s] = Totals(t.totals[receiver])[s]
      /\ \A a \in Account : a # receiver => u.totals[a] = t.totals[a]
      /\ \A a \in Account :
           /\ Totals(u.totals[a]).ram_bytes = Totals(t.totals[a]).ram_bytes
           /\ t.limits[a].ram = limits[a].ram => u.limits[a].ram = limits[a].ram
  BY <1>1, LentOfIs
<1> HIDE DEF u
<1>5. Debt(u) = Debt(w)
  BY <1>2 DEF Debt
<1>6. ASSUME NEW a \in Account
      PROVE  OwnsAs(t, u, a)
  <2>1. OfLoans(StakedFor(a))
    BY LoanNumbers
  <2>2. ASSUME NEW s \in RESOURCES
        PROVE  Own(u, a, s) = Own(t, a, s)
    <3> DEFINE x == SumFunctionOnSet(StakedFor(a), t.loans[s])
               y == SumFunctionOnSet(StakedFor(a), w.loans[s])
               n == Totals(t.totals[a])[s]
    <3>1. x \in Int
      BY <2>1, LoanSums
    <3>2. n \in Int
      BY TotalsIs DEF GoodTotals, TotalTable, RESOURCES
    <3>3. y = x + (IF s = r /\ a = receiver THEN delta ELSE 0)
      OBVIOUS
    <3>4. Own(t, a, s) = n - x /\ Own(u, a, s) = Totals(u.totals[a])[s] - y
      BY <1>2 DEF Own
    <3> HIDE DEF x, y, n
    <3>5. CASE s = r /\ a = receiver
      <4>1. Totals(u.totals[a])[s] = n + delta
        BY <1>3, <3>5 DEF n
      <4>2. QED
        BY <3>1, <3>2, <3>3, <3>4, <3>5, <4>1
    <3>6. CASE ~ (s = r /\ a = receiver)
      <4>1. Totals(u.totals[a])[s] = n
        BY <1>3, <3>6 DEF n
      <4>2. QED
        BY <3>1, <3>2, <3>3, <3>4, <3>6, <4>1
    <3>7. QED
      BY <3>5, <3>6
  <2>3. QED
    BY <1>3, <2>2 DEF OwnsAs, RESOURCES
<1>7. QED
  BY <1>2, <1>3, <1>5, <1>6 DEF u

\* In tables that are right.
LEMMA LoanStakeMoved ==
  ASSUME NEW t, GoodTotals(t.totals, t.limits), FiniteLoans(t.loans),
         NEW w, Shape(w), Good(w), w.totals = t.totals, w.limits = t.limits,
         NEW r \in RESOURCES, NEW receiver \in Account, NEW delta \in Int,
         Alive(LentOf(w, r, receiver, delta)),
         \A a \in Account, s \in RESOURCES :
           SumFunctionOnSet(StakedFor(a), w.loans[s])
             = SumFunctionOnSet(StakedFor(a), t.loans[s])
               + (IF s = r /\ a = receiver THEN delta ELSE 0)
  PROVE  LET u == LentOf(w, r, receiver, delta)
         IN /\ Shape(u) /\ Good(u) /\ Debt(u) = Debt(w) /\ (\A a \in Account : OwnsAs(t, u, a))
            /\ u.pool = w.pool /\ u.balances = w.balances /\ u.funds = w.funds
            /\ u.orders = w.orders /\ u.loans = w.loans /\ u.tlos = w.tlos
            /\ u.retained = w.retained
BY OwnStakeMoved DEF Good

\* A loan that is renewed.
Renewal(loan, rented) ==
  [loan EXCEPT !.total_staked = rented, !.expiration = @ + LOAN_TIME, !.balance = @ - loan.payment]

\* It is one.
LEMMA RenewalIs ==
  ASSUME NEW loan \in rex_loan, NEW rented \in Nat, loan.payment <= loan.balance
  PROVE  LET m == Renewal(loan, rented)
         IN /\ m \in rex_loan /\ m.total_staked = rented
            /\ m.balance = loan.balance - loan.payment /\ m.loan_num = loan.loan_num
            /\ m.payment = loan.payment /\ m.receiver = loan.receiver
<1> DEFINE x == loan.expiration + LOAN_TIME
           y == loan.balance - loan.payment
           m == Renewal(loan, rented)
<1>1. x \in Nat /\ y \in Nat
  BY LoanNumbers, RexAssumption
<1>2. m = [loan EXCEPT !.total_staked = rented, !.expiration = x, !.balance = y]
  BY DEF Renewal
<1> HIDE DEF x, y, m
<1>3. m \in rex_loan
  BY <1>1, <1>2 DEF rex_loan
<1>4. /\ m.total_staked = rented /\ m.balance = y /\ m.loan_num = loan.loan_num
      /\ m.payment = loan.payment /\ m.receiver = loan.receiver
  BY <1>2 DEF rex_loan
<1>5. QED
  BY <1>3, <1>4 DEF y, m

\* A pool is as good as its numbers.
LEMMA GoodPoolIs ==
  ASSUME NEW pool \in rex_pool, NEW balances, NEW ls
  PROVE  GoodPool(pool, balances, ls) <=>
           /\ 0 <= pool.total_unlent /\ 0 <= pool.total_rent /\ 0 <= pool.namebid_proceeds
           /\ pool.total_lent = OnLoans(StakedBy, ls)
           /\ pool.total_lendable = pool.total_lent + pool.total_unlent
           /\ pool.total_rex = SumHeld(balances)
           /\ pool.total_rex = 0 => pool.total_lendable = 0
BY NoRow DEF GoodPool, PoolOf
\* The tables without the loan in the pool.
Removed(t, loan) == [t EXCEPT !.pool = RemoveLoanFromPool(@, loan)]

\* The loan is renewed for its payment.
LEMMA RenewedKeeps ==
  ASSUME NEW t, Shape(t), Good(t), t.pool # Nil, 0 < t.pool.total_rex,
         NEW r \in RESOURCES, NEW loan \in t.loans[r], NEW rented \in Nat,
         rented <= Removed(t, loan).pool.total_unlent,
         loan.payment <= loan.balance, loan.payment < rented
  PROVE  LET w == Renewed(Removed(t, loan), r, loan, rented)
         IN /\ Shape(w) /\ Good(w) /\ Debt(w) = Debt(t) /\ w.pool # Nil
            /\ PoolOf(w.pool).namebid_proceeds = PoolOf(t.pool).namebid_proceeds
            /\ w.balances = t.balances /\ w.orders = t.orders /\ w.totals = t.totals
            /\ w.limits = t.limits /\ w.tlos = t.tlos /\ w.retained = t.retained
            /\ \A a \in Account, s \in RESOURCES :
                 SumFunctionOnSet(StakedFor(a), w.loans[s])
                   = SumFunctionOnSet(StakedFor(a), t.loans[s])
                     + (IF s = r /\ a = loan.receiver THEN rented - loan.total_staked ELSE 0)
<1> DEFINE p == t.pool
           rp == RemoveLoanFromPool(p, loan)
           np == AddLoanToPool(rp, loan.payment, rented)
           m == Renewal(loan, rented)
           ls == Including(Without(t.loans, r, loan), r, m)
           w == Renewed(Removed(t, loan), r, loan, rented)
<1>1. /\ p \in rex_pool /\ GoodPool(p, t.balances, t.loans) /\ GoodLoans(t.loans, loan_num)
      /\ FiniteLoans(t.loans) /\ t.loans \in LoanTable
  BY DEF Good, GoodPool, GoodLoans, FiniteLoans
<1>2. loan \in rex_loan /\ 0 < loan.payment /\ 0 < loan.total_staked
  BY <1>1 DEF GoodLoans, LoanTable
<1>3. /\ loan.payment \in Nat /\ loan.balance \in Nat /\ loan.total_staked \in Nat
      /\ loan.receiver \in Account
  BY <1>2, LoanNumbers
<1>4. /\ 0 <= p.total_unlent /\ 0 <= p.total_rent /\ 0 <= p.namebid_proceeds
      /\ p.total_lent = OnLoans(StakedBy, t.loans)
      /\ p.total_lendable = p.total_lent + p.total_unlent
      /\ p.total_rex = SumHeld(t.balances)
  BY <1>1, GoodPoolIs
<1>5. /\ p.total_unlent \in Int /\ p.total_lent \in Int /\ p.total_lendable \in Int
      /\ p.total_rex \in Int
  BY <1>1 DEF rex_pool
<1>6. /\ Shape(w) /\ w.pool = np /\ w.loans = ls /\ w.balances = t.balances /\ w.funds = t.funds
      /\ w.orders = t.orders /\ w.totals = t.totals /\ w.limits = t.limits /\ w.tlos = t.tlos
      /\ w.retained = t.retained
  <2> DEFINE v == Removed(t, loan)
  <2>1. /\ Shape(v) /\ v.pool = rp /\ v.loans = t.loans /\ v.balances = t.balances
        /\ v.funds = t.funds /\ v.orders = t.orders /\ v.totals = t.totals
        /\ v.limits = t.limits /\ v.tlos = t.tlos /\ v.retained = t.retained
    BY DEF Removed, Shape
  <2> HIDE DEF v, rp
  <2>2. ls = [t.loans EXCEPT ![r] = (@ \ {loan}) \cup {m}]
    <3> HIDE DEF m
    <3>1. QED
      BY <1>1 DEF Including, Without, LoanTable
  <2>3. w = [v EXCEPT !.pool = np, !.loans[r] = (@ \ {loan}) \cup {m}]
    BY <2>1 DEF Renewed, Renewal, v
  <2> HIDE DEF w, np, ls, m
  <2>4. QED
    BY <2>1, <2>2, <2>3 DEF Shape
<1> HIDE DEF w
<1>7. /\ rp \in rex_pool /\ 0 <= rp.total_rent
      /\ rp.total_unlent = p.total_unlent + loan.total_staked
      /\ rp.total_lent = p.total_lent - loan.total_staked
      /\ rp.total_lendable = p.total_unlent + p.total_lent
      /\ rp.total_rex = p.total_rex /\ rp.namebid_proceeds = p.namebid_proceeds
  BY <1>1, <1>2, <1>4, RemovedIs
<1>8. rented <= rp.total_unlent
  BY DEF Removed, Shape
<1> HIDE DEF rp
<1>9. /\ np \in rex_pool /\ 0 <= np.total_rent
      /\ np.total_unlent = rp.total_unlent - rented + loan.payment
      /\ np.total_lent = rp.total_lent + rented
      /\ np.total_lendable = rp.total_unlent + rp.total_lent + loan.payment
      /\ np.total_rex = rp.total_rex /\ np.namebid_proceeds = rp.namebid_proceeds
  BY <1>3, <1>7, AddedIs
<1> HIDE DEF np
<1>10. /\ m \in rex_loan /\ m.total_staked = rented /\ m.balance = loan.balance - loan.payment
       /\ m.loan_num = loan.loan_num /\ m.payment = loan.payment /\ m.receiver = loan.receiver
  BY <1>2, RenewalIs
<1> HIDE DEF m
<1>11. 0 < m.payment /\ 0 < m.total_staked
  BY <1>2, <1>3, <1>10
<1>12. ASSUME NEW f, OfLoans(f)
       PROVE  /\ GoodLoans(ls, loan_num)
              /\ \A s \in RESOURCES : SumFunctionOnSet(f, ls[s])
                   = SumFunctionOnSet(f, t.loans[s]) + (IF s = r THEN f[m] - f[loan] ELSE 0)
              /\ OnLoans(f, ls) = OnLoans(f, t.loans) + f[m] - f[loan]
              /\ OnLoans(f, t.loans) \in Int
  BY <1>1, <1>10, <1>11, <1>12, LoanSwap, LoanSums
<1> HIDE DEF ls
<1>13. /\ OnLoans(StakedBy, ls) = OnLoans(StakedBy, t.loans) + rented - loan.total_staked
       /\ OnLoans(BalanceBy, ls) = OnLoans(BalanceBy, t.loans) - loan.payment
       /\ GoodLoans(ls, loan_num)
  <2>1. /\ StakedBy[m] = rented /\ StakedBy[loan] = loan.total_staked
        /\ BalanceBy[m] = loan.balance - loan.payment /\ BalanceBy[loan] = loan.balance
        /\ OfLoans(StakedBy) /\ OfLoans(BalanceBy)
    BY <1>2, <1>10, LoanNumbers
  <2>2. /\ OnLoans(StakedBy, ls) = OnLoans(StakedBy, t.loans) + StakedBy[m] - StakedBy[loan]
        /\ OnLoans(StakedBy, t.loans) \in Int
    BY <1>12, <2>1
  <2>3. /\ OnLoans(BalanceBy, ls) = OnLoans(BalanceBy, t.loans) + BalanceBy[m] - BalanceBy[loan]
        /\ OnLoans(BalanceBy, t.loans) \in Int /\ GoodLoans(ls, loan_num)
    BY <1>12, <2>1
  <2>4. QED
    BY <1>3, <2>1, <2>2, <2>3
<1>14. GoodPool(np, t.balances, ls)
  <2>1. 0 <= np.total_unlent
    BY <1>3, <1>5, <1>7, <1>8, <1>9
  <2>2. np.total_lent = OnLoans(StakedBy, ls)
    BY <1>3, <1>4, <1>5, <1>7, <1>9, <1>13
  <2>3. np.total_lendable = np.total_lent + np.total_unlent
    BY <1>3, <1>5, <1>7, <1>9
  <2>4. np.total_rex = SumHeld(t.balances) /\ np.total_rex # 0
    BY <1>4, <1>5, <1>7, <1>9
  <2>5. QED
    BY <1>4, <1>7, <1>9, <2>1, <2>2, <2>3, <2>4, GoodPoolIs
<1>15. Good(w)
  BY <1>6, <1>13, <1>14 DEF Good
<1>16. np # Nil /\ PoolOf(np) = np /\ PoolOf(p) = p
  BY <1>9, NoRow DEF PoolOf
<1>17. Debt(w) = Debt(t)
  <2>1. np.total_lendable = p.total_lendable + loan.payment
    BY <1>3, <1>4, <1>5, <1>7, <1>9
  <2>2. Debt(w) = Bal(t.tlos, REX_ACCOUNT) - np.total_lendable - SumFunds(t.funds)
                    - SumEarned(t.orders) - OnLoans(BalanceBy, ls)
    BY <1>6, <1>16 DEF Debt
  <2>3. Debt(t) = Bal(t.tlos, REX_ACCOUNT) - p.total_lendable - SumFunds(t.funds)
                    - SumEarned(t.orders) - OnLoans(BalanceBy, t.loans)
    BY <1>16 DEF Debt
  <2>4. QED
    BY <1>3, <1>5, <1>13, <2>1, <2>2, <2>3, DebtNumbers
<1>18. ASSUME NEW a \in Account, NEW s \in RESOURCES
       PROVE  SumFunctionOnSet(StakedFor(a), ls[s])
                = SumFunctionOnSet(StakedFor(a), t.loans[s])
                  + (IF s = r /\ a = loan.receiver THEN rented - loan.total_staked ELSE 0)
  <2>1. /\ OfLoans(StakedFor(a))
        /\ StakedFor(a)[m] = IF m.receiver = a THEN m.total_staked ELSE 0
        /\ StakedFor(a)[loan] = IF loan.receiver = a THEN loan.total_staked ELSE 0
    BY <1>2, <1>10, LoanNumbers
  <2>2. SumFunctionOnSet(StakedFor(a), ls[s])
          = SumFunctionOnSet(StakedFor(a), t.loans[s])
            + (IF s = r THEN StakedFor(a)[m] - StakedFor(a)[loan] ELSE 0)
    BY <1>12, <2>1
  <2>3. StakedFor(a)[m] - StakedFor(a)[loan]
          = IF a = loan.receiver THEN rented - loan.total_staked ELSE 0
    BY <1>3, <1>10, <2>1
  <2>4. QED
    BY <2>2, <2>3
<1>19. PoolOf(w.pool).namebid_proceeds = PoolOf(t.pool).namebid_proceeds
  BY <1>6, <1>7, <1>9, <1>16
<1>20. QED
  BY <1>6, <1>15, <1>16, <1>17, <1>18, <1>19 DEF w
\* Or it is closed, and its owner gets what it has left.
LEMMA RepaidKeeps ==
  ASSUME NEW t, Shape(t), Good(t), t.pool # Nil,
         NEW r \in RESOURCES, NEW loan \in t.loans[r]
  PROVE  LET w == Repaid(Removed(t, loan), r, loan)
         IN /\ Shape(w) /\ Good(w) /\ Debt(w) = Debt(t) /\ w.pool # Nil
            /\ PoolOf(w.pool).namebid_proceeds = PoolOf(t.pool).namebid_proceeds
            /\ w.balances = t.balances /\ w.orders = t.orders /\ w.totals = t.totals
            /\ w.limits = t.limits /\ w.tlos = t.tlos /\ w.retained = t.retained
            /\ \A a \in Account, s \in RESOURCES :
                 SumFunctionOnSet(StakedFor(a), w.loans[s])
                   = SumFunctionOnSet(StakedFor(a), t.loans[s])
                     + (IF s = r /\ a = loan.receiver THEN -loan.total_staked ELSE 0)
<1> DEFINE p == t.pool
           rp == RemoveLoanFromPool(p, loan)
           ls == Without(t.loans, r, loan)
           c == [Removed(t, loan) EXCEPT !.loans[r] = @ \ {loan}]
           w == Repaid(Removed(t, loan), r, loan)
<1>1. /\ p \in rex_pool /\ GoodPool(p, t.balances, t.loans) /\ GoodLoans(t.loans, loan_num)
      /\ FiniteLoans(t.loans) /\ t.loans \in LoanTable /\ t.funds \in FundTable
  BY DEF Good, GoodPool, GoodLoans, FiniteLoans
<1>2. loan \in rex_loan /\ 0 < loan.payment /\ 0 < loan.total_staked
  BY <1>1 DEF GoodLoans, LoanTable
<1>3. /\ loan.balance \in Nat /\ loan.total_staked \in Nat
      /\ loan.receiver \in Account /\ loan.from \in Account
  BY <1>2, LoanNumbers
<1>4. /\ 0 <= p.total_unlent /\ 0 <= p.total_rent /\ 0 <= p.namebid_proceeds
      /\ p.total_lent = OnLoans(StakedBy, t.loans)
      /\ p.total_lendable = p.total_lent + p.total_unlent
      /\ p.total_rex = SumHeld(t.balances)
      /\ p.total_rex = 0 => p.total_lendable = 0
  BY <1>1, GoodPoolIs
<1>5. /\ p.total_unlent \in Int /\ p.total_lent \in Int /\ p.total_lendable \in Int
      /\ p.total_rex \in Int
  BY <1>1 DEF rex_pool
<1>6. /\ Shape(c) /\ c.pool = rp /\ c.loans = ls /\ c.balances = t.balances /\ c.funds = t.funds
      /\ c.orders = t.orders /\ c.totals = t.totals /\ c.limits = t.limits /\ c.tlos = t.tlos
      /\ c.retained = t.retained
  <2> DEFINE v == Removed(t, loan)
  <2>1. /\ Shape(v) /\ v.pool = rp /\ v.loans = t.loans /\ v.balances = t.balances
        /\ v.funds = t.funds /\ v.orders = t.orders /\ v.totals = t.totals
        /\ v.limits = t.limits /\ v.tlos = t.tlos /\ v.retained = t.retained
    BY DEF Removed, Shape
  <2>2. c = [v EXCEPT !.loans[r] = @ \ {loan}]
    OBVIOUS
  <2> HIDE DEF v, rp, c
  <2>3. QED
    BY <2>1, <2>2 DEF Shape, Without
<1>7. w = IF loan.balance > 0 THEN ToFund(c, loan.from, loan.balance) ELSE c
  BY DEF Repaid
<1> HIDE DEF w, c
<1>8. /\ rp \in rex_pool /\ 0 <= rp.total_rent
      /\ rp.total_unlent = p.total_unlent + loan.total_staked
      /\ rp.total_lent = p.total_lent - loan.total_staked
      /\ rp.total_lendable = p.total_unlent + p.total_lent
      /\ rp.total_rex = p.total_rex /\ rp.namebid_proceeds = p.namebid_proceeds
  BY <1>1, <1>2, <1>4, RemovedIs
<1> HIDE DEF rp
<1>9. ASSUME NEW f, OfLoans(f)
      PROVE  /\ \A s \in RESOURCES : SumFunctionOnSet(f, ls[s])
                  = SumFunctionOnSet(f, t.loans[s]) - (IF s = r THEN f[loan] ELSE 0)
             /\ OnLoans(f, ls) = OnLoans(f, t.loans) - f[loan]
             /\ OnLoans(f, t.loans) \in Int
             /\ \A s \in RESOURCES : SumFunctionOnSet(f, t.loans[s]) \in Int
  BY <1>1, <1>9, LoanOut, LoanSums
<1>10. GoodLoans(ls, loan_num)
  BY <1>1, LoanClosed
<1> HIDE DEF ls
<1>11. /\ OnLoans(StakedBy, ls) = OnLoans(StakedBy, t.loans) - loan.total_staked
       /\ OnLoans(BalanceBy, ls) = OnLoans(BalanceBy, t.loans) - loan.balance
  <2>1. /\ StakedBy[loan] = loan.total_staked /\ BalanceBy[loan] = loan.balance
        /\ OfLoans(StakedBy) /\ OfLoans(BalanceBy)
    BY <1>2, LoanNumbers
  <2>2. QED
    BY <1>9, <2>1
<1>12. GoodPool(rp, t.balances, ls)
  <2>1. 0 <= rp.total_unlent
    BY <1>3, <1>4, <1>5, <1>8
  <2>2. rp.total_lent = OnLoans(StakedBy, ls)
    BY <1>4, <1>8, <1>11
  <2>3. /\ rp.total_lendable = rp.total_lent + rp.total_unlent
        /\ rp.total_lendable = p.total_lendable
    BY <1>3, <1>4, <1>5, <1>8
  <2>4. QED
    BY <1>4, <1>8, <2>1, <2>2, <2>3, GoodPoolIs
<1>13. Good(c)
  BY <1>6, <1>10, <1>12 DEF Good
<1>14. rp # Nil /\ PoolOf(rp) = rp /\ PoolOf(p) = p
  BY <1>8, NoRow DEF PoolOf
<1>15. Debt(c) = Debt(t) + loan.balance
  <2>1. rp.total_lendable = p.total_lendable
    BY <1>4, <1>5, <1>8
  <2>2. Debt(c) = Bal(t.tlos, REX_ACCOUNT) - rp.total_lendable - SumFunds(t.funds)
                    - SumEarned(t.orders) - OnLoans(BalanceBy, ls)
    BY <1>6, <1>14 DEF Debt
  <2>3. Debt(t) = Bal(t.tlos, REX_ACCOUNT) - p.total_lendable - SumFunds(t.funds)
                    - SumEarned(t.orders) - OnLoans(BalanceBy, t.loans)
    BY <1>14 DEF Debt
  <2>4. QED
    BY <1>3, <1>5, <1>11, <2>1, <2>2, <2>3, DebtNumbers
<1>16. /\ Shape(w) /\ w.pool = c.pool /\ w.balances = c.balances /\ w.orders = c.orders
       /\ w.loans = c.loans /\ w.totals = c.totals /\ w.limits = c.limits /\ w.tlos = c.tlos
       /\ w.retained = c.retained /\ Good(w) /\ Debt(w) = Debt(t)
  <2>1. Debt(t) \in Int
    BY DebtNumbers
  <2>2. CASE loan.balance > 0
    <3>1. w = ToFund(c, loan.from, loan.balance)
      BY <1>7, <2>2
    <3>2. Good(w) /\ Debt(w) = Debt(c) - loan.balance
      BY <1>3, <1>6, <1>13, <3>1, ToFundIs
    <3>3. Debt(w) = Debt(t)
      BY <1>3, <1>15, <2>1, <3>2
    <3>4. QED
      BY <1>3, <1>6, <3>1, <3>2, <3>3, ToFundIs
  <2>3. CASE ~ (loan.balance > 0)
    <3>1. w = c /\ loan.balance = 0
      BY <1>3, <1>7, <2>3
    <3>2. QED
      BY <1>6, <1>13, <1>15, <2>1, <3>1
  <2>4. QED
    BY <2>2, <2>3
<1>17. ASSUME NEW a \in Account, NEW s \in RESOURCES
       PROVE  SumFunctionOnSet(StakedFor(a), ls[s])
                = SumFunctionOnSet(StakedFor(a), t.loans[s])
                  + (IF s = r /\ a = loan.receiver THEN -loan.total_staked ELSE 0)
  <2>1. /\ OfLoans(StakedFor(a))
        /\ StakedFor(a)[loan] = IF loan.receiver = a THEN loan.total_staked ELSE 0
    BY <1>2, LoanNumbers
  <2>2. /\ SumFunctionOnSet(StakedFor(a), ls[s])
             = SumFunctionOnSet(StakedFor(a), t.loans[s]) - (IF s = r THEN StakedFor(a)[loan] ELSE 0)
        /\ SumFunctionOnSet(StakedFor(a), t.loans[s]) \in Int
    BY <1>9, <2>1
  <2>3. QED
    BY <1>3, <2>1, <2>2
<1>18. PoolOf(w.pool).namebid_proceeds = PoolOf(t.pool).namebid_proceeds
  BY <1>6, <1>8, <1>14, <1>16
<1>19. QED
  BY <1>6, <1>14, <1>16, <1>17, <1>18 DEF w

\* Whatever becomes of an expired loan, it leaves no debt and nobody's own
\* stake different.
LEMMA ProcessKeeps ==
  ASSUME NEW t, Shape(t), Good(t), t.pool # Nil, NEW r \in RESOURCES, NEW loan \in t.loans[r],
         Alive(process_expired_loan(t, r, loan))
  PROVE  LET u == process_expired_loan(t, r, loan)
         IN Good(u) /\ Same(t, u) /\ u.pool # Nil
<1> DEFINE v == Removed(t, loan)
           rented == get_bancor_output(v.pool.total_rent, v.pool.total_unlent, loan.payment)
           u == process_expired_loan(t, r, loan)
<1>1. /\ t.pool \in rex_pool /\ GoodPool(t.pool, t.balances, t.loans)
      /\ GoodLoans(t.loans, loan_num)
      /\ FiniteLoans(t.loans) /\ t.loans \in LoanTable /\ GoodTotals(t.totals, t.limits)
  BY DEF Good, GoodPool, GoodLoans, FiniteLoans
<1>2. loan \in rex_loan /\ 0 < loan.payment /\ 0 < loan.total_staked
  BY <1>1 DEF GoodLoans, LoanTable
<1>3. /\ loan.payment \in Nat /\ loan.balance \in Nat /\ loan.total_staked \in Nat
      /\ loan.receiver \in Account
  BY <1>2, LoanNumbers
<1>4. /\ v.pool = RemoveLoanFromPool(t.pool, loan) /\ v.balances = t.balances /\ v.orders = t.orders
      /\ Shape(v)
  BY DEF Removed, Shape
<1>5. /\ 0 <= t.pool.total_unlent /\ 0 <= t.pool.total_rent /\ t.pool.total_unlent \in Int
  BY <1>1, GoodPoolIs DEF rex_pool
<1>6. /\ v.pool \in rex_pool /\ 0 <= v.pool.total_rent
      /\ v.pool.total_unlent = t.pool.total_unlent + loan.total_staked
      /\ v.pool.total_rex = t.pool.total_rex
  BY <1>1, <1>2, <1>4, <1>5, RemovedIs
<1>7. rented \in Nat /\ rented <= v.pool.total_unlent
  <2>1. v.pool.total_rent \in Nat /\ v.pool.total_unlent \in Nat
    BY <1>3, <1>5, <1>6 DEF rex_pool
  <2>2. 0 < v.pool.total_rent + loan.payment
    BY <1>2, <1>3, <2>1
  <2>3. QED
    BY <1>3, <2>1, <2>2, BancorIs
<1>8. \/ /\ loan.payment <= loan.balance /\ loan.payment < rented /\ 0 < t.pool.total_rex
         /\ u = LentOf(Renewed(v, r, loan, rented), r, loan.receiver, rented - loan.total_staked)
      \/ u = LentOf(Repaid(v, r, loan), r, loan.receiver, -loan.total_staked)
  <2>1. loans_available(v) => 0 < t.pool.total_rex
    BY <1>6 DEF loans_available, rex_available
  <2>2. QED
    BY <2>1 DEF process_expired_loan, Removed
<1> HIDE DEF rented, u
<1>9. ASSUME NEW w, NEW delta \in Int, u = LentOf(w, r, loan.receiver, delta),
             Shape(w) /\ Good(w) /\ Debt(w) = Debt(t) /\ w.pool # Nil,
             PoolOf(w.pool).namebid_proceeds = PoolOf(t.pool).namebid_proceeds,
             w.balances = t.balances /\ w.orders = t.orders /\ w.totals = t.totals,
             w.limits = t.limits /\ w.tlos = t.tlos /\ w.retained = t.retained,
             \A a \in Account, s \in RESOURCES :
               SumFunctionOnSet(StakedFor(a), w.loans[s])
                 = SumFunctionOnSet(StakedFor(a), t.loans[s])
                   + (IF s = r /\ a = loan.receiver THEN delta ELSE 0)
      PROVE  Good(u) /\ Same(t, u) /\ u.pool # Nil
  <2>1. Alive(LentOf(w, r, loan.receiver, delta))
    BY <1>9 DEF u
  <2>2. /\ Good(u) /\ Debt(u) = Debt(w) /\ (\A a \in Account : OwnsAs(t, u, a))
        /\ u.pool = w.pool /\ u.balances = w.balances
        /\ u.orders = w.orders /\ u.tlos = w.tlos /\ u.retained = w.retained
    BY <1>1, <1>3, <1>9, <2>1, LoanStakeMoved
  <2>3. \A a \in Account : WeighsAs(t, u, a)
    BY <1>9, <2>2, WeighsFrame
  <2>4. Elsewhere(t, u)
    BY <1>9, <2>2, ElsewhereFrame
  <2>5. QED
    BY <1>9, <2>2, <2>3, <2>4 DEF Same
<1>10. ASSUME loan.payment <= loan.balance, loan.payment < rented, 0 < t.pool.total_rex,
              u = LentOf(Renewed(v, r, loan, rented), r, loan.receiver, rented - loan.total_staked)
       PROVE  Good(u) /\ Same(t, u) /\ u.pool # Nil
  <2> DEFINE w == Renewed(v, r, loan, rented)
  <2>1. /\ Shape(w) /\ Good(w) /\ Debt(w) = Debt(t) /\ w.pool # Nil
        /\ PoolOf(w.pool).namebid_proceeds = PoolOf(t.pool).namebid_proceeds
        /\ w.balances = t.balances /\ w.orders = t.orders /\ w.totals = t.totals
        /\ w.limits = t.limits /\ w.tlos = t.tlos /\ w.retained = t.retained
        /\ \A a \in Account, s \in RESOURCES :
             SumFunctionOnSet(StakedFor(a), w.loans[s])
               = SumFunctionOnSet(StakedFor(a), t.loans[s])
                 + (IF s = r /\ a = loan.receiver THEN rented - loan.total_staked ELSE 0)
    BY <1>7, <1>10, RenewedKeeps
  <2>2. rented - loan.total_staked \in Int /\ u = LentOf(w, r, loan.receiver, rented - loan.total_staked)
    BY <1>3, <1>7, <1>10
  <2> HIDE DEF w, v
  <2>3. QED
    BY <1>9, <2>1, <2>2
<1>11. ASSUME u = LentOf(Repaid(v, r, loan), r, loan.receiver, -loan.total_staked)
       PROVE  Good(u) /\ Same(t, u) /\ u.pool # Nil
  <2> DEFINE w == Repaid(v, r, loan)
  <2>1. /\ Shape(w) /\ Good(w) /\ Debt(w) = Debt(t) /\ w.pool # Nil
        /\ PoolOf(w.pool).namebid_proceeds = PoolOf(t.pool).namebid_proceeds
        /\ w.balances = t.balances /\ w.orders = t.orders /\ w.totals = t.totals
        /\ w.limits = t.limits /\ w.tlos = t.tlos /\ w.retained = t.retained
        /\ \A a \in Account, s \in RESOURCES :
             SumFunctionOnSet(StakedFor(a), w.loans[s])
               = SumFunctionOnSet(StakedFor(a), t.loans[s])
                 + (IF s = r /\ a = loan.receiver THEN -loan.total_staked ELSE 0)
    BY RepaidKeeps
  <2>2. -loan.total_staked \in Int /\ u = LentOf(w, r, loan.receiver, -loan.total_staked)
    BY <1>3, <1>11
  <2> HIDE DEF w, v
  <2>3. QED
    BY <1>9, <2>1, <2>2
<1>12. QED
  BY <1>8, <1>10, <1>11 DEF u
-----------------------------------------------------------------------------
(* Orders that are filled *)

\* REX that is somebody's.
LEMMA RowNumbers ==
  ASSUME NEW rb \in rex_balance, GoodRow(rb)
  PROVE  /\ rb.vote_stake \in Nat /\ rb.rex_balance \in Nat /\ rb.matured_rex \in Nat
         /\ rb.matured_rex <= rb.rex_balance
         /\ SumRex(rb.rex_maturities) \in Nat
         /\ \A m \in Maturity : rb.rex_maturities[m] \in Nat
<1>1. /\ rb.vote_stake \in Int /\ rb.rex_balance \in Int /\ rb.matured_rex \in Int
      /\ rb.rex_maturities \in [Maturity -> Int]
  BY DEF rex_balance
<1>2. \A m \in Maturity : rb.rex_maturities[m] \in Nat
  BY <1>1 DEF GoodRow
<1>3. SumRex(rb.rex_maturities) \in Nat
  BY <1>2, VotingAssumption, SumNat DEF SumRex
<1>4. QED
  BY <1>1, <1>2, <1>3 DEF GoodRow

\* A row that some REX of is sold is as good.
LEMMA SoldRowIs ==
  ASSUME NEW pool, pool.total_lendable \in Nat, pool.total_rex \in Nat, 0 < pool.total_rex,
         NEW rb \in rex_balance, GoodRow(rb), NEW rex \in Nat, rex <= rb.matured_rex
  PROVE  LET row == SoldRow(pool, rb, rex)
         IN /\ row \in rex_balance /\ GoodRow(row)
            /\ row.rex_balance = rb.rex_balance - rex /\ row.matured_rex = rb.matured_rex - rex
<1> DEFINE v == Worth(pool, rb.rex_balance) - Worth(pool, rex)
           n == rb.rex_balance - rex
           m == rb.matured_rex - rex
           row == SoldRow(pool, rb, rex)
<1>1. /\ rb.rex_balance \in Nat /\ rb.matured_rex \in Nat /\ rb.matured_rex <= rb.rex_balance
      /\ SumRex(rb.rex_maturities) \in Nat
  BY RowNumbers
<1>2. v \in Nat
  <2>1. Worth(pool, rb.rex_balance) \in Nat /\ Worth(pool, rex) \in Nat
    BY <1>1, WorthIs
  <2>2. rex <= rb.rex_balance
    BY <1>1
  <2>3. Worth(pool, rex) <= Worth(pool, rb.rex_balance)
    BY <1>1, <2>2, WorthIs
  <2>4. QED
    BY <2>1, <2>3
<1>3. n \in Nat /\ m \in Nat /\ n \in Int /\ m \in Int /\ v \in Int
  BY <1>1, <1>2
<1>4. n = m + SumRex(rb.rex_maturities)
  BY <1>1 DEF GoodRow
<1>5. row = [rb EXCEPT !.vote_stake = v, !.rex_balance = n, !.matured_rex = m]
  BY DEF SoldRow, Proceeds
<1> HIDE DEF v, n, m, row
<1>6. row \in rex_balance
  BY <1>3, <1>5 DEF rex_balance
<1>7. /\ row.vote_stake = v /\ row.rex_balance = n /\ row.matured_rex = m
      /\ row.rex_maturities = rb.rex_maturities
  BY <1>5 DEF rex_balance
<1>8. GoodRow(row)
  BY <1>2, <1>3, <1>4, <1>7 DEF GoodRow
<1>9. QED
  BY <1>6, <1>7, <1>8 DEF n, m, row

\* Filled puts a row and the pool.
LEMMA FilledFrame ==
  ASSUME NEW t, Shape(t), NEW owner, NEW rex
  PROVE  LET u == Filled(t, owner, rex)
         IN /\ Shape(u) /\ u.ok = t.ok /\ u.tlos = t.tlos /\ u.funds = t.funds /\ u.orders = t.orders
            /\ u.loans = t.loans /\ u.totals = t.totals /\ u.limits = t.limits
            /\ u.retained = t.retained
BY DEF Filled, Shape

\* These.
LEMMA FilledPuts ==
  ASSUME NEW t, Shape(t), NEW owner, NEW rex
  PROVE  LET u == Filled(t, owner, rex)
         IN /\ u.pool = SoldPool(t.pool, rex)
            /\ u.balances = [t.balances EXCEPT ![owner] = SoldRow(t.pool, t.balances[owner], rex)]
BY DEF Filled, Shape

\* What is lent is no less than nothing.
LEMMA LentNat ==
  ASSUME NEW ls, NEW n, GoodLoans(ls, n)
  PROVE  OnLoans(StakedBy, ls) \in Nat
<1>1. ASSUME NEW s \in RESOURCES
      PROVE  SumFunctionOnSet(StakedBy, ls[s]) \in Nat
  <2>1. IsFiniteSet(ls[s]) /\ \A l \in ls[s] : StakedBy[l] \in Nat
    BY LoanNumbers DEF GoodLoans, FiniteLoans, LoanTable
  <2>2. QED
    BY <2>1, SumNat
<1>2. QED
  BY <1>1 DEF OnLoans, RESOURCES

\* The REX of an account is within that of the pool.
LEMMA HeldWithin ==
  ASSUME NEW balances, NEW orders, GoodRows(balances, orders), NEW a \in Account
  PROVE  /\ HeldIn(balances[a]) \in Nat /\ SumHeld(balances) \in Int
         /\ HeldIn(balances[a]) <= SumHeld(balances)
<1>1. balances \in RexTable
  BY DEF GoodRows
<1>2. \A b \in Account : HeldIn(balances[b]) \in Nat
  <2>1. ASSUME NEW b \in Account
        PROVE  HeldIn(balances[b]) \in Nat
    <3>1. CASE balances[b] = Nil
      BY <3>1 DEF HeldIn
    <3>2. CASE balances[b] # Nil
      <4>1. balances[b] \in rex_balance /\ GoodRow(balances[b])
        BY <1>1, <3>2 DEF GoodRows, RexTable
      <4>2. QED
        BY <3>2, <4>1, RowNumbers DEF HeldIn
    <3>3. QED
      BY <3>1, <3>2
  <2>2. QED
    BY <2>1
<1>3. \A b \in Account : 0 <= HeldIn(balances[b])
  BY <1>2
<1>4. /\ SumHeld(balances) \in Int
      /\ (\A b \in Account : 0 <= HeldIn(balances[b])) => HeldIn(balances[a]) <= SumHeld(balances)
  BY <1>1, HeldPut
<1>5. QED
  BY <1>2, <1>3, <1>4

\* REX of the pool that is sold leaves a pool that can pay what is lent.
LEMMA FilledKeeps ==
  ASSUME NEW t, Shape(t), NEW owner \in Account, NEW rex \in Nat, 0 < rex,
         GoodPool(t.pool, t.balances, t.loans), GoodLoans(t.loans, loan_num),
         GoodRows(t.balances, t.orders), t.pool # Nil, t.balances[owner] # Nil,
         rex <= t.balances[owner].matured_rex, CanFill(t.pool, rex)
  PROVE  LET u == Filled(t, owner, rex)
         IN /\ GoodPool(u.pool, u.balances, u.loans) /\ GoodRows(u.balances, u.orders)
            /\ u.pool # Nil /\ Proceeds(t.pool, rex) \in Nat
            /\ PoolOf(u.pool).total_lendable = PoolOf(t.pool).total_lendable - Proceeds(t.pool, rex)
            /\ PoolOf(u.pool).namebid_proceeds = PoolOf(t.pool).namebid_proceeds
            /\ u.balances[owner] \in rex_balance
            /\ u.balances[owner].matured_rex = t.balances[owner].matured_rex - rex
            /\ \A a \in Account : a # owner => u.balances[a] = t.balances[a]
<1> DEFINE u == Filled(t, owner, rex)
           p == Proceeds(t.pool, rex)
           rb == t.balances[owner]
           row == SoldRow(t.pool, rb, rex)
           np == SoldPool(t.pool, rex)
<1>1. /\ t.pool \in rex_pool /\ 0 <= t.pool.total_unlent /\ 0 <= t.pool.total_rent
      /\ 0 <= t.pool.namebid_proceeds
      /\ t.pool.total_lent = OnLoans(StakedBy, t.loans)
      /\ t.pool.total_lendable = t.pool.total_lent + t.pool.total_unlent
      /\ t.pool.total_rex = SumHeld(t.balances)
      /\ t.pool.total_rex = 0 => t.pool.total_lendable = 0
  <2>1. t.pool \in rex_pool
    BY DEF GoodPool
  <2>2. QED
    BY <2>1, GoodPoolIs
<1>2. /\ t.pool.total_unlent \in Nat /\ t.pool.total_lent \in Nat /\ t.pool.total_lendable \in Nat
      /\ t.pool.total_rex \in Int
  <2>1. OnLoans(StakedBy, t.loans) \in Nat
    BY LentNat
  <2>2. t.pool.total_unlent \in Int /\ t.pool.total_rex \in Int
    BY <1>1 DEF rex_pool
  <2>3. QED
    BY <1>1, <2>1, <2>2
<1>3. rb \in rex_balance /\ GoodRow(rb) /\ t.balances \in RexTable
  BY DEF GoodRows, RexTable
<1>4. rb.rex_balance \in Nat /\ rb.matured_rex \in Nat /\ rb.matured_rex <= rb.rex_balance
  BY <1>3, RowNumbers
<1>5. rb.rex_balance <= t.pool.total_rex
  <2>1. HeldIn(rb) <= SumHeld(t.balances)
    BY HeldWithin
  <2>2. QED
    BY <1>1, <2>1 DEF HeldIn
<1>6. rex <= t.pool.total_rex /\ t.pool.total_rex \in Nat /\ 0 < t.pool.total_rex
  BY <1>2, <1>4, <1>5
<1>7. p \in Nat /\ p <= t.pool.total_lendable /\ (rex = t.pool.total_rex => p = t.pool.total_lendable)
  BY <1>2, <1>6, WorthIs DEF Proceeds
<1>8. p <= t.pool.total_unlent
  <2> DEFINE reserve == (2 * t.pool.total_lent) \div 10
  <2>1. 2 * t.pool.total_lent \in Nat
    BY <1>2
  <2>2. reserve \in Nat
    BY <2>1, DivIs
  <2>3. p <= t.pool.total_unlent - reserve
    BY DEF CanFill
  <2> HIDE DEF reserve, p
  <2>4. QED
    BY <1>2, <1>7, <2>2, <2>3
<1>9. /\ row \in rex_balance /\ GoodRow(row)
      /\ row.rex_balance = rb.rex_balance - rex /\ row.matured_rex = rb.matured_rex - rex
  BY <1>2, <1>3, <1>6, SoldRowIs
<1>10. /\ u.pool = np /\ u.balances = [t.balances EXCEPT ![owner] = row]
       /\ u.orders = t.orders /\ u.loans = t.loans
  <2>1. u.pool = SoldPool(t.pool, rex)
    BY DEF Filled, Shape
  <2>2. u.balances = [t.balances EXCEPT ![owner] = SoldRow(t.pool, t.balances[owner], rex)]
    BY FilledPuts
  <2>3. u.orders = t.orders /\ u.loans = t.loans
    BY FilledFrame
  <2> HIDE DEF u
  <2>4. QED
    BY <2>1, <2>2, <2>3
<1>11. /\ np \in rex_pool /\ np.total_rex = t.pool.total_rex - rex
       /\ np.total_lendable = t.pool.total_lendable - p /\ np.total_unlent = t.pool.total_unlent - p
       /\ np.total_lent = t.pool.total_lent /\ np.total_rent = t.pool.total_rent
       /\ np.namebid_proceeds = t.pool.namebid_proceeds
  <2> DEFINE x == t.pool.total_rex - rex
             y == t.pool.total_lendable - p
             z == y - t.pool.total_lent
  <2>1. x \in Int /\ y \in Int /\ z \in Int /\ z = t.pool.total_unlent - p
    BY <1>1, <1>2, <1>7
  <2>2. np = [t.pool EXCEPT !.total_rex = x, !.total_lendable = y, !.total_unlent = z]
    BY DEF SoldPool
  <2> HIDE DEF x, y, z, np
  <2>3. np \in rex_pool
    BY <1>1, <2>1, <2>2 DEF rex_pool
  <2>4. /\ np.total_rex = x /\ np.total_lendable = y /\ np.total_unlent = z
        /\ np.total_lent = t.pool.total_lent /\ np.total_rent = t.pool.total_rent
        /\ np.namebid_proceeds = t.pool.namebid_proceeds
    BY <1>1, <2>2 DEF rex_pool
  <2>5. QED
    BY <2>1, <2>3, <2>4 DEF x, y
<1> HIDE DEF u, p, row, np, rb
<1>12. /\ u.balances \in RexTable /\ u.balances[owner] = row
       /\ \A a \in Account : a # owner => u.balances[a] = t.balances[a]
  BY <1>3, <1>9, <1>10 DEF RexTable
<1>13. SumHeld(u.balances) = SumHeld(t.balances) - rex
  <2>1. /\ SumHeld(u.balances) = SumHeld(t.balances) + HeldIn(row) - HeldIn(rb)
        /\ SumHeld(t.balances) \in Int
    BY <1>3, <1>9, <1>10, HeldPut DEF rb
  <2>2. HeldIn(row) = rb.rex_balance - rex /\ HeldIn(rb) = rb.rex_balance
    BY <1>3, <1>9, NoRow DEF HeldIn
  <2>3. QED
    BY <1>4, <2>1, <2>2
<1>14. GoodRows(u.balances, u.orders)
  BY <1>9, <1>10, <1>12 DEF GoodRows
<1>15. GoodPool(u.pool, u.balances, u.loans)
  <2>1. 0 <= np.total_unlent
    BY <1>2, <1>7, <1>8, <1>11
  <2>2. np.total_lendable = np.total_lent + np.total_unlent
    BY <1>1, <1>2, <1>7, <1>11
  <2>3. np.total_rex = SumHeld(u.balances)
    BY <1>1, <1>11, <1>13
  <2>4. np.total_rex = 0 => np.total_lendable = 0
    BY <1>6, <1>7, <1>11
  <2>5. QED
    BY <1>1, <1>10, <1>11, <2>1, <2>2, <2>3, <2>4, GoodPoolIs
<1>16. u.pool # Nil /\ PoolOf(u.pool) = np /\ PoolOf(t.pool) = t.pool
  BY <1>10, <1>11, NoRow DEF PoolOf
<1>17. QED
  BY <1>7, <1>9, <1>11, <1>12, <1>14, <1>15, <1>16 DEF u, p, rb

\* The same of a queued one.
LEMMA FillQueuedFrame ==
  ASSUME NEW t, Shape(t), NEW owner
  PROVE  LET u == FillQueued(t, owner)
         IN Shape(u) /\ (Alive(u) => Alive(t))
<1> DEFINE f == Filled(t, owner, t.orders[owner].rex_requested)
<1>1. Shape(f) /\ f.ok = t.ok /\ f.tlos = t.tlos
  BY FilledFrame
<1> HIDE DEF f
<1>2. \A row : LET g == [f EXCEPT !.orders[owner] = row]
               IN Shape(g) /\ g.ok = f.ok /\ g.tlos = f.tlos
  BY <1>1 DEF Shape
<1>3. \/ FillQueued(t, owner) = t
      \/ \E row : FillQueued(t, owner) = [f EXCEPT !.orders[owner] = row]
  <2> DEFINE order == f.orders[owner]
             x == Proceeds(t.pool, t.orders[owner].rex_requested)
             y == StakeChange(t, owner, t.orders[owner].rex_requested)
             row == FilledOrder(order, x, y)
  <2>1. \/ FillQueued(t, owner) = t
        \/ FillQueued(t, owner) = [f EXCEPT !.orders[owner] = row]
    BY <1>1 DEF FillQueued, f, Shape
  <2> HIDE DEF row
  <2>2. QED
    BY <2>1
<1>4. QED
  BY <1>1, <1>2, <1>3 DEF Alive

\* An order that is filled leaves its owner as much stake, and what it earns is
\* what the pool pays.
LEMMA FillQueuedKeeps ==
  ASSUME NEW t, Shape(t), Good(t), t.pool # Nil, NEW owner \in Account
  PROVE  LET u == FillQueued(t, owner)
         IN Good(u) /\ Same(t, u) /\ u.pool # Nil
<1> DEFINE order == t.orders[owner]
           rex == order.rex_requested
           rb == t.balances[owner]
           f == Filled(t, owner, rex)
           p == Proceeds(t.pool, rex)
           change == StakeChange(t, owner, rex)
           row == FilledOrder(order, p, change)
           u == FillQueued(t, owner)
           fills == owner \in OpenOrders(t) /\ rb # Nil /\ CanFill(t.pool, rex)
<1>1. CASE ~ fills
  <2>1. u = t
    BY <1>1 DEF FillQueued
  <2>2. QED
    BY <2>1, SameAtAll
<1>2. CASE fills
  <2>1. order # Nil /\ order.is_open
    BY <1>2 DEF OpenOrders, IsOpen
  <2>2. /\ GoodPool(t.pool, t.balances, t.loans) /\ GoodLoans(t.loans, loan_num)
        /\ GoodRows(t.balances, t.orders) /\ GoodOrders(t.balances, t.orders)
    BY DEF Good
  <2>3. order \in rex_order /\ t.orders \in OrderTable /\ rb \in rex_balance
    BY <1>2, <2>1, <2>2 DEF GoodRows, OrderTable, RexTable
  <2>4. /\ rex \in Nat /\ 0 < rex /\ rex <= rb.matured_rex /\ order.proceeds = 0
    BY <2>1, <2>2, <2>3 DEF GoodOrders, GoodOrder, rex_order
  <2>5. /\ GoodPool(f.pool, f.balances, f.loans) /\ GoodRows(f.balances, f.orders)
        /\ f.pool # Nil /\ p \in Nat
        /\ PoolOf(f.pool).total_lendable = PoolOf(t.pool).total_lendable - p
        /\ PoolOf(f.pool).namebid_proceeds = PoolOf(t.pool).namebid_proceeds
        /\ f.balances[owner] \in rex_balance
        /\ \A a \in Account : a # owner => f.balances[a] = t.balances[a]
    BY <1>2, <2>2, <2>4, FilledKeeps
  <2>6. /\ Shape(f) /\ f.tlos = t.tlos /\ f.funds = t.funds /\ f.orders = t.orders
        /\ f.loans = t.loans /\ f.totals = t.totals /\ f.limits = t.limits
        /\ f.retained = t.retained /\ f.ok = t.ok
    BY FilledFrame
  <2>7. u = [f EXCEPT !.orders[owner] = FilledOrder(@, p, change)]
    BY <1>2 DEF FillQueued
  <2>8. change = RexStake(f.balances[owner]) - RexStake(rb)
    BY <1>2, <2>5, NoRow DEF StakeChange, VoteStake, RexStake
  <2> HIDE DEF f, u, fills, p, change, rb
  <2>9. /\ Shape(u) /\ u.pool = f.pool /\ u.balances = f.balances /\ u.tlos = t.tlos
        /\ u.funds = t.funds /\ u.loans = t.loans /\ u.totals = t.totals /\ u.limits = t.limits
        /\ u.retained = t.retained
    BY <2>6, <2>7 DEF Shape
  <2>10. u.orders = [t.orders EXCEPT ![owner] = row]
    <3>1. u.orders = [f.orders EXCEPT ![owner] = FilledOrder(f.orders[owner], p, change)]
      BY <2>6, <2>7 DEF Shape
    <3>2. QED
      BY <2>6, <3>1
  <2>11. rb \in rex_balance /\ RexStake(rb) \in Int /\ RexStake(f.balances[owner]) \in Int
    BY <2>3, <2>5, NoRow DEF RexStake, rex_balance, rb
  <2>12. change \in Int
    BY <2>8, <2>11
  <2>13. row \in rex_order /\ row # Nil
    BY <2>3, <2>5, <2>12, NoRow DEF rex_order, FilledOrder
  <2>14. row.proceeds = p /\ row.stake_change = change /\ ~ row.is_open
    BY <2>3 DEF rex_order, FilledOrder
  <2> HIDE DEF row
  <2>15. /\ u.orders \in OrderTable /\ u.orders[owner] = row
         /\ \A a \in Account : a # owner => u.orders[a] = t.orders[a]
    BY <2>3, <2>10, <2>13 DEF OrderTable
  <2>16. GoodRows(u.balances, u.orders)
    BY <2>5, <2>9, <2>15 DEF GoodRows
  <2>17. GoodOrders(u.balances, u.orders)
    <3>1. u.balances[owner] # Nil
      BY <2>5, <2>9, NoRow
    <3>2. ASSUME NEW a \in Account
          PROVE  GoodOrder(u.orders[a], u.balances[a])
      <4>1. CASE a = owner
        BY <2>14, <2>15, <3>1, <4>1 DEF GoodOrder
      <4>2. CASE a # owner
        BY <2>2, <2>5, <2>9, <2>15, <4>2 DEF GoodOrders
      <4>3. QED
        BY <4>1, <4>2
    <3>3. QED
      BY <3>2 DEF GoodOrders
  <2>18. Good(u)
    <3>1. GoodPool(u.pool, u.balances, u.loans)
      BY <2>5, <2>6, <2>9
    <3>2. QED
      BY <2>9, <2>16, <2>17, <3>1 DEF Good
  <2>19. Debt(u) = Debt(t)
    <3>1. SumEarned(u.orders) = SumEarned(t.orders) + EarnedIn(row) - EarnedIn(order)
      BY <2>3, <2>10, <2>13, OrderPut
    <3>2. EarnedIn(row) = p /\ EarnedIn(order) = 0
      BY <2>1, <2>4, <2>13, <2>14 DEF EarnedIn
    <3>3. PoolOf(u.pool).total_lendable = PoolOf(t.pool).total_lendable - p
      BY <2>5, <2>9
    <3>4. SumEarned(u.orders) = SumEarned(t.orders) + p
      BY <2>5, <3>1, <3>2, DebtNumbers
    <3>5. QED
      BY <2>5, <2>9, <3>3, <3>4, DebtNumbers DEF Debt
  <2>20. Elsewhere(t, u)
    BY <2>5, <2>9, ElsewhereFrame
  <2>21. ASSUME NEW a \in Account
         PROVE  WeighsAs(t, u, a) /\ OwnsAs(t, u, a)
    <3>1. OwnsAs(t, u, a)
      BY <2>9, OwnsFrame
    <3>2. CASE a # owner
      BY <2>5, <2>9, <2>15, <3>1, <3>2, WeighsFrame
    <3>3. CASE a = owner
      <4>1. ChangeOf(order) = 0 /\ ChangeOf(row) = change
        BY <2>1, <2>13, <2>14 DEF ChangeOf
      <4>2. Weight(t, a) = RexStake(rb) - 0 /\ Weight(u, a) = RexStake(f.balances[owner]) - change
        BY <2>9, <2>15, <3>3, <4>1 DEF Weight, rb
      <4>3. Weight(u, a) = Weight(t, a)
        BY <2>8, <2>11, <4>2
      <4>4. u.balances[a] # Nil /\ t.balances[a] # Nil
        BY <2>3, <2>5, <2>9, <3>3, NoRow DEF rb
      <4>5. QED
        BY <2>1, <3>1, <3>3, <4>3, <4>4 DEF WeighsAs
    <3>4. QED
      BY <3>2, <3>3
  <2>22. QED
    BY <2>5, <2>9, <2>18, <2>19, <2>20, <2>21 DEF Same, u
<1>3. QED
  BY <1>1, <1>2

-----------------------------------------------------------------------------
(* runrex: turn after turn *)

\* What runrex may do to tables: nothing that is owed or owned is different.
Keeps(t, u) ==
  /\ Shape(u) /\ (Alive(u) => Alive(t))
  /\ Good(t) /\ t.pool # Nil /\ Alive(u) => Good(u) /\ Same(t, u) /\ u.pool # Nil

\* One after the other does no more.
LEMMA KeepsTwice ==
  ASSUME NEW t, NEW u, NEW w, Keeps(t, u), Keeps(u, w)
  PROVE  Keeps(t, w)
BY SameTwice DEF Keeps

\* Nothing is of that kind.
LEMMA KeepsItself ==
  ASSUME NEW t, Shape(t)
  PROVE  Keeps(t, t)
BY SameAtAll DEF Keeps

\* The earliest loan is one of those there are.
LEMMA EarliestIn ==
  ASSUME NEW ls \in SUBSET rex_loan, ls # {}
  PROVE  EarliestLoan(ls) \in ls
<1> DEFINE D == {l.expiration : l \in ls}
<1>1. \A l \in ls : l.expiration \in Nat /\ l.loan_num \in Nat
  BY LoanNumbers
<1>2. PICK d \in D : \A e \in D : d <= e
  <2>1. D \subseteq Nat /\ D # {}
    BY <1>1
  <2> HIDE DEF D
  <2>2. QED
    BY <2>1, LeastNat
<1> DEFINE N == {l.loan_num : l \in {m \in ls : m.expiration = d}}
<1>3. PICK n \in N : \A m \in N : n <= m
  <2>1. N \subseteq Nat /\ N # {}
    BY <1>1, <1>2
  <2> HIDE DEF N
  <2>2. QED
    BY <2>1, LeastNat
<1>4. PICK l \in ls : l.expiration = d /\ l.loan_num = n
  BY <1>3
<1>5. ASSUME NEW m \in ls
      PROVE  \/ l.expiration < m.expiration
             \/ l.expiration = m.expiration /\ l.loan_num <= m.loan_num
  <2>1. d <= m.expiration
    BY <1>2
  <2>2. CASE m.expiration = d
    BY <1>3, <1>4, <2>2
  <2>3. CASE m.expiration # d
    BY <1>1, <1>4, <2>1, <2>3
  <2>4. QED
    BY <2>2, <2>3
<1>6. QED
  BY <1>5 DEF EarliestLoan

\* One turn.
LEMMA TurnKeeps ==
  ASSUME NEW t, Shape(t), NEW what \in RESOURCES \cup {"orders"}, NEW queue, NEW i
  PROVE  Keeps(t, Turn(t, what, queue, i))
<1> DEFINE u == Turn(t, what, queue, i)
<1>1. CASE u = t
  BY <1>1, KeepsItself
<1>2. CASE u # t /\ what = "orders"
  <2>1. u = FillQueued(t, queue[i])
    BY <1>2 DEF Turn
  <2>2. queue[i] \in Account
    BY <1>2, <2>1 DEF FillQueued, OpenOrders
  <2> DEFINE a == queue[i]
  <2> HIDE DEF a, u
  <2>3. u = FillQueued(t, a) /\ a \in Account
    BY <2>1, <2>2 DEF a
  <2>4. Shape(u) /\ (Alive(u) => Alive(t))
    BY <2>3, FillQueuedFrame
  <2>5. Good(t) /\ t.pool # Nil => Good(u) /\ Same(t, u) /\ u.pool # Nil
    BY <2>3, FillQueuedKeeps
  <2>6. QED
    BY <2>4, <2>5 DEF Keeps, u
<1>3. CASE u # t /\ what # "orders"
  <2> DEFINE due == Expired(t, what)
             loan == EarliestLoan(due)
  <2>1. due # {} /\ u = process_expired_loan(t, what, loan) /\ what \in RESOURCES
    BY <1>3 DEF Turn
  <2> HIDE DEF u
  <2>2. Shape(u) /\ (Alive(u) => Alive(t))
    BY <2>1, ProcessFrame
  <2>3. ASSUME Good(t), t.pool # Nil, Alive(u)
        PROVE  Good(u) /\ Same(t, u) /\ u.pool # Nil
    <3>1. t.loans[what] \in SUBSET rex_loan
      BY <2>1, <2>3 DEF Good, GoodLoans, FiniteLoans, LoanTable
    <3>2. due \in SUBSET rex_loan /\ due \subseteq t.loans[what]
      BY <3>1 DEF Expired
    <3> HIDE DEF due
    <3>3. loan \in due
      BY <2>1, <3>2, EarliestIn
    <3>4. loan \in t.loans[what]
      BY <3>2, <3>3
    <3> HIDE DEF loan
    <3>5. QED
      BY <2>1, <2>3, <3>4, ProcessKeeps
  <2>4. QED
    BY <2>2, <2>3 DEF Keeps, u
<1>4. QED
  BY <1>1, <1>2, <1>3

\* The functions that solve the recursion of the turns over steps P of line.
Took(iter, t, what, queue, line, P) ==
  iter = [r \in SUBSET P |->
            IF r = {} THEN t ELSE Turn(iter[r \ {Max(r)}], what, queue, line[Max(r)])]

\* The turns are the value of a solution.
LEMMA InTurnsAre ==
  ASSUME NEW t, NEW what, NEW queue, NEW max
  PROVE  InTurns(t, what, queue, max)
           = (CHOOSE iter : Took(iter, t, what, queue, Steps(max), 1..max))[1..max]
<1>1. DOMAIN Steps(max) = 1..max
  BY DEF Steps
<1>2. QED
  BY <1>1 DEF InTurns, FoldLeft, MapThenFoldSet, Took

\* There is one: over all positions but the last, and the last follows.
LEMMA TookExist ==
  ASSUME NEW t, NEW what, NEW queue, NEW line, NEW n \in Nat
  PROVE  \E iter : Took(iter, t, what, queue, line, 1..n)
<1> DEFINE Solved(iter, P) == Took(iter, t, what, queue, line, P)
           C == {P \in SUBSET (1..n) : ~ \E iter : Solved(iter, P)}
           After(value, i) == Turn(value, what, queue, line[i])
<1>1. ASSUME C # {}
      PROVE  FALSE
  <2>1. PICK P \in C : \A Q \in C : Q \subseteq P => Q = P
    <3> DEFINE D == 1..n
    <3>1. C \subseteq SUBSET D /\ IsFiniteSet(D)
      BY FS_Interval
    <3> HIDE DEF C, D
    <3>2. QED
      BY <1>1, <3>1, LeastSet
  <2>2. P # {}
    <3>1. Solved([r \in SUBSET {} |-> t], {})
      BY DEF Took
    <3>2. QED
      BY <2>1, <3>1
  <2> DEFINE m == Max(P)
             Q == P \ {m}
  <2>3. /\ m \in P /\ \A r \in SUBSET P : r # {} => Max(r) \in r
        /\ \A r \in SUBSET P : m \in r => Max(r) = m
    BY <2>1, <2>2, MaxIn
  <2> HIDE DEF m
  <2>4. PICK g : Solved(g, Q)
    <3>1. Q \notin C
      BY <2>1, <2>3
    <3>2. QED
      BY <2>1, <3>1
  <2>5. g = [r \in SUBSET Q |-> IF r = {} THEN t ELSE After(g[r \ {Max(r)}], Max(r))]
    BY <2>4 DEF Took
  <2> DEFINE h == [r \in SUBSET P |-> IF r = {} THEN t ELSE After(g[r \ {Max(r)}], Max(r))]
  <2> HIDE DEF After
  <2>6. ASSUME NEW r \in SUBSET P, r # {}
        PROVE  r \ {Max(r)} \in SUBSET Q
    <3>1. CASE m \in r
      BY <2>3, <3>1
    <3>2. CASE m \notin r
      BY <3>2
    <3>3. QED
      BY <3>1, <3>2
  <2>7. \A r \in SUBSET Q : h[r] = g[r]
    BY <2>5
  <2>8. \A r \in SUBSET P : r # {} => g[r \ {Max(r)}] = h[r \ {Max(r)}]
    BY <2>6, <2>7
  <2>9. h = [r \in SUBSET P |-> IF r = {} THEN t ELSE After(h[r \ {Max(r)}], Max(r))]
    <3> DEFINE k == [r \in SUBSET P |-> IF r = {} THEN t ELSE After(h[r \ {Max(r)}], Max(r))]
    <3>1. \A r \in SUBSET P : h[r] = k[r]
      BY <2>8
    <3>2. QED
      BY <3>1
  <2> HIDE DEF h
  <2>10. Solved(h, P)
    BY <2>9 DEF Took, After
  <2>11. QED
    BY <2>1, <2>10
<1>2. QED
  BY <1>1

\* All turns together do no more than one may.
LEMMA InTurnsKeep ==
  ASSUME NEW t, Shape(t), NEW what \in RESOURCES \cup {"orders"}, NEW queue, NEW max \in Nat
  PROVE  Keeps(t, InTurns(t, what, queue, max))
<1> DEFINE line == Steps(max)
           iter == CHOOSE i : Took(i, t, what, queue, line, 1..max)
           C == {r \in SUBSET (1..max) : ~ Keeps(t, iter[r])}
<1> HIDE DEF line
<1>1. Took(iter, t, what, queue, line, 1..max)
  BY TookExist
<1> HIDE DEF iter
<1>2. ASSUME NEW r \in SUBSET (1..max)
      PROVE  iter[r] = IF r = {} THEN t ELSE Turn(iter[r \ {Max(r)}], what, queue, line[Max(r)])
  BY <1>1 DEF Took
<1>3. ASSUME C # {}
      PROVE  FALSE
  <2>1. PICK r \in C : \A s \in C : s \subseteq r => s = r
    <3> DEFINE D == 1..max
    <3>1. C \subseteq SUBSET D /\ IsFiniteSet(D)
      BY FS_Interval
    <3> HIDE DEF C, D
    <3>2. QED
      BY <1>3, <3>1, LeastSet
  <2>2. CASE r = {}
    BY <1>2, <2>1, <2>2, KeepsItself
  <2>3. CASE r # {}
    <3> DEFINE m == Max(r)
               p == r \ {m}
    <3>1. m \in r
      BY <2>1, <2>3, MaxIn
    <3>2. p \notin C
      BY <2>1, <3>1
    <3>3. Keeps(t, iter[p])
      BY <2>1, <3>2
    <3>4. iter[r] = Turn(iter[p], what, queue, line[m])
      BY <1>2, <2>1, <2>3
    <3> HIDE DEF p, m
    <3>5. Keeps(iter[p], Turn(iter[p], what, queue, line[m]))
      BY <3>3, TurnKeeps DEF Keeps
    <3>6. Keeps(t, iter[r])
      BY <3>3, <3>4, <3>5, KeepsTwice
    <3>7. QED
      BY <2>1, <3>6
  <2>4. QED
    BY <2>2, <2>3
<1>4. Keeps(t, iter[1..max])
  BY <1>3
<1>5. InTurns(t, what, queue, max) = iter[1..max]
  BY InTurnsAre DEF iter, line
<1>6. QED
  BY <1>4, <1>5

\* What is due of everybody's is run, if there is a pool.
LEMMA RunKeeps ==
  ASSUME NEW t, Shape(t), NEW max \in Nat
  PROVE  LET u == runrex(t, max)
         IN /\ Keeps(t, u)
            /\ Alive(u) => t.pool # Nil
<1> DEFINE a == Channelled(t)
           b == InTurns(a, "cpu", <<>>, max)
           c == InTurns(b, "net", <<>>, max)
           d == InTurns(c, "orders", OrderQueue(c), max)
           u == runrex(t, max)
<1>1. u = IF t.pool = Nil THEN Require(t, FALSE) ELSE d
  BY DEF runrex
<1>2. CASE t.pool = Nil
  <2>1. Shape(u) /\ ~ u.ok
    BY <1>1, <1>2 DEF Require, Shape
  <2>2. QED
    BY <2>1 DEF Keeps, Alive
<1>3. CASE t.pool # Nil
  <2> HIDE DEF u
  <2>1. Keeps(t, a)
    BY <1>3, ChannelledKeeps DEF Keeps
  <2> HIDE DEF a
  <2>2. Shape(a)
    BY <2>1 DEF Keeps
  <2>3. Keeps(a, b)
    BY <2>2, InTurnsKeep DEF RESOURCES
  <2> HIDE DEF b
  <2>4. Shape(b)
    BY <2>3 DEF Keeps
  <2>5. Keeps(b, c)
    BY <2>4, InTurnsKeep DEF RESOURCES
  <2> HIDE DEF c
  <2>6. Shape(c)
    BY <2>5 DEF Keeps
  <2>7. Keeps(c, d)
    BY <2>6, InTurnsKeep
  <2> HIDE DEF d
  <2>8. Keeps(t, d)
    BY <2>1, <2>3, <2>5, <2>7, KeepsTwice
  <2>9. QED
    BY <1>1, <1>3, <2>8 DEF u
<1>4. QED
  BY <1>2, <1>3

-----------------------------------------------------------------------------
(* Maturities *)

\* The bucket of today is neither due nor that of the savings.
LEMMA MaturityIs ==
  ASSUME now \in Time
  PROVE  /\ get_rex_maturity \in Maturity /\ get_rex_maturity # end_of_days
         /\ end_of_days \in Maturity /\ end_of_days \notin Due
         /\ Due \subseteq Maturity /\ IsFiniteSet(Maturity) /\ Maturity \subseteq Nat
<1> DEFINE s == seconds_per_day
           n == num_of_maturity_buckets
           q == now \div s
<1>1. now \in Nat /\ now <= MaxTime /\ s \in Nat /\ 0 < s /\ n \in Nat /\ MaxTime \in Nat
  BY RexAssumption, VotingAssumption DEF Time
<1>2. q \in Nat /\ s * q <= now
  BY <1>1, DivIs
<1>3. get_rex_maturity = (q + n) * s /\ get_rex_maturity \in Maturity
  BY RexAssumption DEF get_rex_maturity
<1>4. end_of_days \in Maturity /\ end_of_days > MaxTime + n * s
  BY RexAssumption
<1>5. IsFiniteSet(Maturity) /\ Maturity \subseteq Nat
  BY VotingAssumption
<1> HIDE DEF s, n, q
<1>6. (q + n) * s = s * q + n * s /\ n * s \in Nat /\ s * q \in Nat
  BY <1>1, <1>2
<1>7. get_rex_maturity # end_of_days
  BY <1>1, <1>2, <1>3, <1>4, <1>5, <1>6
<1>8. ~ (end_of_days <= now)
  BY <1>1, <1>4, <1>5, <1>6
<1>9. QED
  BY <1>3, <1>4, <1>5, <1>7, <1>8 DEF Due

\* A bucket is put.
LEMMA BucketPut ==
  ASSUME NEW buckets \in [Maturity -> Int], NEW m \in Maturity, NEW x \in Int
  PROVE  LET new == [buckets EXCEPT ![m] = x]
         IN /\ new \in [Maturity -> Int] /\ new[m] = x
            /\ \A o \in Maturity : o # m => new[o] = buckets[o]
            /\ SumRex(new) = SumRex(buckets) + x - buckets[m]
            /\ SumRex(buckets) \in Int /\ SumRex(new) \in Int
<1> DEFINE new == [buckets EXCEPT ![m] = x]
<1>1. /\ new \in [Maturity -> Int] /\ new[m] = x
      /\ \A o \in Maturity : o # m => new[o] = buckets[o]
  OBVIOUS
<1> HIDE DEF new
<1>2. IsFiniteSet(Maturity)
  BY VotingAssumption
<1>3. \A o \in Maturity : buckets[o] \in Int /\ new[o] \in Int
  BY <1>1
<1>4. \A o \in Maturity \ {m} : new[o] = buckets[o]
  BY <1>1
<1>5. SumRex(new) = SumRex(buckets) + new[m] - buckets[m]
  BY <1>2, <1>3, <1>4, SumChange DEF SumRex
<1>6. SumRex(buckets) \in Int /\ SumRex(new) \in Int
  BY <1>2, <1>3, SumInt DEF SumRex
<1>7. QED
  BY <1>1, <1>5, <1>6 DEF new

\* What is due leaves its buckets.
Undue(buckets) == [time \in Maturity |-> IF time \in Due THEN 0 ELSE buckets[time]]

LEMMA UndueIs ==
  ASSUME NEW buckets \in [Maturity -> Int], \A m \in Maturity : 0 <= buckets[m]
  PROVE  /\ Undue(buckets) \in [Maturity -> Int] /\ (\A m \in Maturity : 0 <= Undue(buckets)[m])
         /\ SumFunctionOnSet(buckets, Due) \in Nat
         /\ SumRex(Undue(buckets)) \in Nat
         /\ SumRex(buckets) = SumRex(Undue(buckets)) + SumFunctionOnSet(buckets, Due)
<1> DEFINE g == Undue(buckets)
<1>1. \A m \in Maturity : g[m] = IF m \in Due THEN 0 ELSE buckets[m]
  BY DEF Undue
<1>2. \A m \in Maturity : buckets[m] \in Nat /\ g[m] \in Nat
  BY <1>1
<1>3. g \in [Maturity -> Int]
  BY <1>1 DEF Undue
<1> HIDE DEF g
<1>4. IsFiniteSet(Maturity) /\ Due \in SUBSET Maturity /\ IsFiniteSet(Due)
  BY VotingAssumption, FS_Subset DEF Due
<1>5. SumFunctionOnSet(buckets, Due) \in Nat /\ SumRex(g) \in Nat
  BY <1>2, <1>4, SumNat DEF SumRex
<1>6. \A m \in Due : buckets[m] \in Int /\ buckets[m] = g[m] + buckets[m]
  BY <1>1, <1>2, <1>4
<1>7. \A m \in Maturity \ Due : buckets[m] = g[m]
  BY <1>1
<1>8. \A m \in Maturity : buckets[m] \in Int /\ g[m] \in Int
  BY <1>2
<1>9. SumRex(buckets) = SumRex(g) + SumFunctionOnSet(buckets, Due)
  BY <1>4, <1>6, <1>7, <1>8, SumShift DEF SumRex
<1>10. QED
  BY <1>2, <1>3, <1>5, <1>9 DEF g

\* It is matured REX then.
LEMMA ProcessedIs ==
  ASSUME now \in Time, NEW rb \in rex_balance, 0 <= rb.matured_rex,
         \A m \in Maturity : 0 <= rb.rex_maturities[m]
  PROVE  LET row == process_rex_maturities(rb)
         IN /\ row \in rex_balance /\ row.vote_stake = rb.vote_stake
            /\ row.rex_balance = rb.rex_balance
            /\ row.matured_rex \in Nat /\ rb.matured_rex <= row.matured_rex
            /\ row.rex_maturities \in [Maturity -> Int]
            /\ \A m \in Maturity : 0 <= row.rex_maturities[m]
            /\ row.rex_maturities[end_of_days] = rb.rex_maturities[end_of_days]
            /\ SumRex(row.rex_maturities) \in Nat /\ SumRex(rb.rex_maturities) \in Int
            /\ row.matured_rex + SumRex(row.rex_maturities) = rb.matured_rex + SumRex(rb.rex_maturities)
<1> DEFINE b == rb.rex_maturities
           g == Undue(b)
           d == SumFunctionOnSet(b, Due)
           m == rb.matured_rex + d
           row == process_rex_maturities(rb)
<1>1. rb.matured_rex \in Nat /\ b \in [Maturity -> Int]
  BY DEF rex_balance
<1>2. /\ g \in [Maturity -> Int] /\ (\A t \in Maturity : 0 <= g[t]) /\ d \in Nat
      /\ SumRex(g) \in Nat /\ SumRex(b) = SumRex(g) + d
  BY <1>1, UndueIs
<1>3. g[end_of_days] = b[end_of_days]
  BY MaturityIs DEF Undue
<1>4. row = [rb EXCEPT !.matured_rex = m, !.rex_maturities = g]
  BY DEF process_rex_maturities, Undue, rex_balance
<1> HIDE DEF b, g, d, row
<1>5. m \in Nat /\ m \in Int
  BY <1>1, <1>2
<1> HIDE DEF m
<1>6. /\ row \in rex_balance /\ row.vote_stake = rb.vote_stake
      /\ row.rex_balance = rb.rex_balance /\ row.matured_rex = m /\ row.rex_maturities = g
  BY <1>2, <1>4, <1>5 DEF rex_balance
<1>7. rb.matured_rex <= m /\ m + SumRex(g) = rb.matured_rex + SumRex(b)
  BY <1>1, <1>2 DEF m
<1>8. SumRex(b) \in Int
  BY <1>2
<1>9. QED
  BY <1>2, <1>3, <1>5, <1>6, <1>7, <1>8 DEF row, b

\* REX is put into the bucket of today and others into savings.
LEMMA BucketsPut ==
  ASSUME now \in Time, NEW buckets \in [Maturity -> Int], NEW rex \in Int, NEW savings \in Int
  PROVE  LET new == WithSavings(Bucketed(buckets, rex), savings)
         IN /\ new \in [Maturity -> Int] /\ new[end_of_days] = savings
            /\ new[get_rex_maturity] = buckets[get_rex_maturity] + rex
            /\ \A m \in Maturity : m # end_of_days /\ m # get_rex_maturity => new[m] = buckets[m]
            /\ SumRex(buckets) \in Int
            /\ SumRex(new) = SumRex(buckets) + rex + savings - buckets[end_of_days]
<1> DEFINE today == get_rex_maturity
           mid == [buckets EXCEPT ![today] = buckets[today] + rex]
           new == [mid EXCEPT ![end_of_days] = savings]
<1>1. today \in Maturity /\ end_of_days \in Maturity /\ today # end_of_days
  BY MaturityIs
<1>2. WithSavings(Bucketed(buckets, rex), savings) = new
  BY <1>1 DEF WithSavings, Bucketed
<1> HIDE DEF today
<1>3. buckets[today] + rex \in Int
  BY <1>1
<1>4. /\ mid \in [Maturity -> Int] /\ mid[today] = buckets[today] + rex
      /\ \A o \in Maturity : o # today => mid[o] = buckets[o]
      /\ SumRex(mid) = SumRex(buckets) + (buckets[today] + rex) - buckets[today]
      /\ SumRex(buckets) \in Int /\ SumRex(mid) \in Int
  BY <1>1, <1>3, BucketPut
<1> HIDE DEF mid
<1>5. /\ new \in [Maturity -> Int] /\ new[end_of_days] = savings
      /\ \A o \in Maturity : o # end_of_days => new[o] = mid[o]
      /\ SumRex(new) = SumRex(mid) + savings - mid[end_of_days]
  <2>1. mid \in [Maturity -> Int] /\ end_of_days \in Maturity /\ savings \in Int
    BY <1>1, <1>4
  <2>2. QED
    BY <2>1, BucketPut
<1> HIDE DEF new
<1>6. new[today] = buckets[today] + rex
  BY <1>1, <1>4, <1>5
<1>7. \A m \in Maturity : m # end_of_days /\ m # today => new[m] = buckets[m]
  BY <1>4, <1>5
<1>8. SumRex(new) = SumRex(buckets) + rex + savings - buckets[end_of_days]
  <2>1. mid[end_of_days] = buckets[end_of_days] /\ mid[end_of_days] \in Int /\ buckets[today] \in Int
    BY <1>1, <1>4
  <2>2. QED
    BY <1>4, <1>5, <2>1
<1>9. QED
  BY <1>2, <1>4, <1>5, <1>6, <1>7, <1>8 DEF today

\* REX that was bought, or taken from savings, matures.
LEMMA MaturingIs ==
  ASSUME now \in Time, NEW rb \in rex_balance, 0 <= rb.matured_rex,
         \A m \in Maturity : 0 <= rb.rex_maturities[m], NEW rex \in Nat, NEW savings \in Nat
  PROVE  LET row == Maturing(rb, rex, savings)
         IN /\ row \in rex_balance /\ row.vote_stake = rb.vote_stake
            /\ row.rex_balance = rb.rex_balance
            /\ row.matured_rex \in Nat /\ rb.matured_rex <= row.matured_rex
            /\ \A m \in Maturity : 0 <= row.rex_maturities[m]
            /\ SumRex(row.rex_maturities) \in Int /\ SumRex(rb.rex_maturities) \in Int
            /\ row.matured_rex + SumRex(row.rex_maturities)
                 = rb.matured_rex + SumRex(rb.rex_maturities) + rex + savings
                   - rb.rex_maturities[end_of_days]
<1> DEFINE p == process_rex_maturities(rb)
           b == p.rex_maturities
           new == WithSavings(Bucketed(b, rex), savings)
           row == Maturing(rb, rex, savings)
<1>1. /\ p \in rex_balance /\ p.vote_stake = rb.vote_stake /\ p.rex_balance = rb.rex_balance
      /\ p.matured_rex \in Nat /\ rb.matured_rex <= p.matured_rex
      /\ b \in [Maturity -> Int] /\ \A m \in Maturity : 0 <= b[m]
      /\ b[end_of_days] = rb.rex_maturities[end_of_days]
      /\ SumRex(b) \in Nat /\ SumRex(rb.rex_maturities) \in Int
      /\ p.matured_rex + SumRex(b) = rb.matured_rex + SumRex(rb.rex_maturities)
  BY ProcessedIs
<1>2. row = [p EXCEPT !.rex_maturities = new]
  BY DEF Maturing
<1> HIDE DEF p, row
<1>3. /\ new \in [Maturity -> Int] /\ new[end_of_days] = savings
      /\ new[get_rex_maturity] = b[get_rex_maturity] + rex
      /\ \A m \in Maturity : m # end_of_days /\ m # get_rex_maturity => new[m] = b[m]
      /\ SumRex(new) = SumRex(b) + rex + savings - b[end_of_days]
  <2>1. b \in [Maturity -> Int] /\ rex \in Int /\ savings \in Int
    BY <1>1
  <2> HIDE DEF b
  <2>2. QED
    BY <2>1, BucketsPut
<1> HIDE DEF new
<1>4. get_rex_maturity \in Maturity /\ end_of_days \in Maturity
  BY MaturityIs
<1>5. b[end_of_days] \in Int /\ b[get_rex_maturity] \in Int /\ rb.matured_rex \in Int
  BY <1>1, <1>4 DEF rex_balance
<1>6. /\ row \in rex_balance /\ row.vote_stake = p.vote_stake
      /\ row.rex_balance = p.rex_balance /\ row.matured_rex = p.matured_rex
      /\ row.rex_maturities = new
  BY <1>1, <1>2, <1>3 DEF rex_balance
<1>7. ASSUME NEW m \in Maturity
      PROVE  0 <= new[m]
  <2>1. CASE m = get_rex_maturity
    <3>1. 0 <= b[get_rex_maturity]
      BY <1>1, <1>4
    <3>2. QED
      BY <1>3, <1>5, <2>1, <3>1
  <2>2. CASE m = end_of_days
    BY <1>3, <2>2
  <2>3. CASE m # get_rex_maturity /\ m # end_of_days
    BY <1>1, <1>3, <2>3
  <2>4. QED
    BY <2>1, <2>2, <2>3
<1>8. /\ SumRex(new) \in Int
      /\ p.matured_rex + SumRex(new)
           = rb.matured_rex + SumRex(rb.rex_maturities) + rex + savings - b[end_of_days]
  BY <1>1, <1>3, <1>5
<1>9. QED
  BY <1>1, <1>6, <1>7, <1>8 DEF row

\* Savings and what matures before.
LEMMA NoSavingsIs ==
  ASSUME NEW rb \in rex_balance, \A m \in Maturity : 0 <= rb.rex_maturities[m]
  PROVE  /\ NoSavings(rb) \in [Maturity -> Int] /\ NoSavings(rb)[end_of_days] = 0
         /\ \A m \in Maturity : 0 <= NoSavings(rb)[m]
         /\ Savings(rb) \in Nat /\ SumRex(NoSavings(rb)) \in Nat
         /\ SumRex(rb.rex_maturities) = SumRex(NoSavings(rb)) + Savings(rb)
<1> DEFINE b == rb.rex_maturities
           new == [b EXCEPT ![end_of_days] = 0]
<1>1. b \in [Maturity -> Int] /\ end_of_days \in Maturity
  BY RexAssumption DEF rex_balance
<1>2. /\ new \in [Maturity -> Int] /\ new[end_of_days] = 0
      /\ \A o \in Maturity : o # end_of_days => new[o] = b[o]
      /\ SumRex(new) = SumRex(b) + 0 - b[end_of_days]
      /\ SumRex(b) \in Int
  BY <1>1, BucketPut
<1>3. NoSavings(rb) = new /\ Savings(rb) = b[end_of_days]
  BY DEF NoSavings, WithSavings, Savings
<1> HIDE DEF new
<1>4. b[end_of_days] \in Nat
  BY <1>1
<1>5. \A m \in Maturity : new[m] \in Nat
  BY <1>1, <1>2
<1>6. SumRex(new) \in Nat
  BY <1>5, VotingAssumption, SumNat DEF SumRex
<1>7. SumRex(b) = SumRex(new) + b[end_of_days]
  BY <1>2, <1>4, <1>6
<1>8. \A m \in Maturity : 0 <= new[m]
  BY <1>5
<1>9. QED
  BY <1>2, <1>3, <1>4, <1>6, <1>7, <1>8

\* Consolidated REX is as much, and what is ordered to be sold stays matured.
LEMMA ConsolidatedIs ==
  ASSUME now \in Time, NEW rb \in rex_balance, GoodRow(rb), NEW ordered \in Nat,
         ordered <= rb.matured_rex
  PROVE  LET row == Consolidated(rb, ordered)
         IN /\ row \in rex_balance /\ GoodRow(row) /\ row.vote_stake = rb.vote_stake
            /\ row.rex_balance = rb.rex_balance /\ row.matured_rex = ordered
<1> DEFINE total == rb.matured_rex - ordered + SumRex(NoSavings(rb))
           new == WithSavings(Bucketed(NoBuckets, AtLeastZero(total)), Savings(rb))
           row == Consolidated(rb, ordered)
<1>1. /\ rb.rex_balance \in Nat /\ rb.matured_rex \in Nat /\ rb.vote_stake \in Nat
      /\ rb.rex_balance = rb.matured_rex + SumRex(rb.rex_maturities)
  BY RowNumbers DEF GoodRow
<1>2. /\ Savings(rb) \in Nat /\ SumRex(NoSavings(rb)) \in Nat
      /\ SumRex(rb.rex_maturities) = SumRex(NoSavings(rb)) + Savings(rb)
  BY NoSavingsIs DEF GoodRow
<1>3. total \in Nat
  BY <1>1, <1>2
<1> HIDE DEF total
<1>4. AtLeastZero(total) = total
  BY <1>3 DEF AtLeastZero
<1>5. /\ NoBuckets \in [Maturity -> Int] /\ (\A m \in Maturity : NoBuckets[m] = 0)
      /\ SumRex(NoBuckets) = 0
  <2>1. NoBuckets \in [Maturity -> Int] /\ \A m \in Maturity : NoBuckets[m] = 0
    BY DEF NoBuckets
  <2>2. QED
    BY <2>1, VotingAssumption, SumZero DEF SumRex
<1>6. get_rex_maturity \in Maturity /\ end_of_days \in Maturity
  BY MaturityIs
<1>7. /\ new \in [Maturity -> Int] /\ new[end_of_days] = Savings(rb)
      /\ new[get_rex_maturity] = NoBuckets[get_rex_maturity] + total
      /\ \A m \in Maturity : m # end_of_days /\ m # get_rex_maturity => new[m] = NoBuckets[m]
      /\ SumRex(new) = SumRex(NoBuckets) + total + Savings(rb) - NoBuckets[end_of_days]
  BY <1>2, <1>3, <1>4, <1>5, BucketsPut
<1>8. row = [rb EXCEPT !.matured_rex = ordered, !.rex_maturities = new]
  BY DEF Consolidated, total
<1> HIDE DEF new, row
<1>9. /\ row \in rex_balance /\ row.vote_stake = rb.vote_stake /\ row.rex_balance = rb.rex_balance
      /\ row.matured_rex = ordered /\ row.rex_maturities = new
  <2>1. ordered \in Int
    OBVIOUS
  <2>2. QED
    BY <1>7, <1>8, <2>1 DEF rex_balance
<1>10. \A m \in Maturity : 0 <= new[m]
  BY <1>2, <1>3, <1>5, <1>6, <1>7
<1>11. rb.rex_balance = ordered + SumRex(new)
  <2>1. SumRex(new) = total + Savings(rb)
    BY <1>2, <1>3, <1>5, <1>6, <1>7
  <2>2. QED
    BY <1>1, <1>2, <2>1 DEF total
<1>12. GoodRow(row)
  BY <1>1, <1>9, <1>10, <1>11 DEF GoodRow
<1>13. QED
  BY <1>9, <1>12 DEF row

\* Of the buckets of some time on, what is left when rex is taken from the
\* latest is what rex does not take: so for the earliest of them, when it is so
\* for those after it.
LEMMA TakenIs ==
  ASSUME NEW buckets \in [Maturity -> Int], \A m \in Maturity : 0 <= buckets[m], NEW rex \in Nat
  PROVE  LET left == TakenFromLatest(buckets, rex)
         IN /\ left \in [Maturity -> Int] /\ (\A m \in Maturity : 0 <= left[m])
            /\ SumRex(left) = AtLeastZero(SumRex(buckets) - rex)
            /\ SumRex(buckets) \in Nat
<1> DEFINE left == TakenFromLatest(buckets, rex)
           Upper(T) == \A m \in T : \A o \in Maturity : m < o => o \in T
           C == {T \in SUBSET Maturity :
                   /\ Upper(T)
                   /\ SumFunctionOnSet(left, T) # AtLeastZero(SumFunctionOnSet(buckets, T) - rex)}
<1>1. IsFiniteSet(Maturity) /\ Maturity \subseteq Nat
  BY VotingAssumption
<1>2. \A m \in Maturity : buckets[m] \in Nat
  OBVIOUS
<1>3. ASSUME NEW T \in SUBSET Maturity
      PROVE  IsFiniteSet(T) /\ SumFunctionOnSet(buckets, T) \in Nat
  <2>1. IsFiniteSet(T)
    BY <1>1, FS_Subset
  <2>2. \A m \in T : buckets[m] \in Nat
    BY <1>2
  <2>3. QED
    BY <2>1, <2>2, SumNat
<1>4. ASSUME NEW m \in Maturity
      PROVE  /\ Later(buckets, m) \in Nat
             /\ left[m] = AtLeastZero(buckets[m] - AtLeastZero(rex - Later(buckets, m)))
             /\ left[m] \in Nat
  <2> DEFINE T == {o \in Maturity : m < o}
  <2>1. T \in SUBSET Maturity
    OBVIOUS
  <2> HIDE DEF T
  <2>2. SumFunctionOnSet(buckets, T) \in Nat
    BY <1>3, <2>1
  <2>3. Later(buckets, m) \in Nat
    BY <2>2 DEF Later, T
  <2> DEFINE later == Later(buckets, m)
  <2>4. left[m] = AtLeastZero(buckets[m] - AtLeastZero(rex - later))
    BY DEF TakenFromLatest
  <2>5. buckets[m] \in Nat /\ later \in Nat
    BY <1>2, <2>3
  <2> HIDE DEF later
  <2>6. AtLeastZero(buckets[m] - AtLeastZero(rex - later)) \in Nat
    BY <2>5 DEF AtLeastZero
  <2>7. QED
    BY <2>3, <2>4, <2>6 DEF later
<1>5. left \in [Maturity -> Int]
  <2>1. left = [m \in Maturity |-> left[m]]
    BY DEF TakenFromLatest
  <2> HIDE DEF left
  <2>2. \A m \in Maturity : left[m] \in Int
    BY <1>4
  <2>3. QED
    BY <2>1, <2>2
<1> HIDE DEF left
<1>6. ASSUME C # {}
      PROVE  FALSE
  <2>1. PICK T \in C : \A U \in C : U \subseteq T => U = T
    <3>1. C \subseteq SUBSET Maturity /\ C # {} /\ IsFiniteSet(Maturity)
      BY <1>1, <1>6
    <3> HIDE DEF C, Upper
    <3>2. QED
      BY <3>1, LeastSet
  <2>2. /\ T \in SUBSET Maturity /\ Upper(T)
        /\ SumFunctionOnSet(left, T) # AtLeastZero(SumFunctionOnSet(buckets, T) - rex)
    BY <2>1
  <2>3. T # {}
    <3>1. SumFunctionOnSet(left, {}) = 0 /\ SumFunctionOnSet(buckets, {}) = 0
      BY SumEmpty
    <3>2. AtLeastZero(0 - rex) = 0
      BY DEF AtLeastZero
    <3>3. QED
      BY <2>2, <3>1, <3>2
  <2>4. PICK e \in T : \A o \in T : e <= o
    BY <1>1, <2>2, <2>3, LeastNat
  <2> DEFINE U == T \ {e}
             b == buckets[e]
             l == SumFunctionOnSet(buckets, U)
             x == SumFunctionOnSet(left, U)
  <2>5. U = {o \in Maturity : e < o}
    <3>1. \A o \in U : o \in Maturity /\ e < o
      BY <1>1, <2>2, <2>4
    <3>2. \A o \in Maturity : e < o => o \in U
      BY <1>1, <2>2
    <3>3. QED
      BY <3>1, <3>2
  <2>6. Upper(U)
    BY <1>1, <2>5
  <2>7. x = AtLeastZero(l - rex)
    <3>1. U \notin C
      BY <2>1
    <3>2. QED
      BY <2>2, <2>6, <3>1
  <2>8. IsFiniteSet(T) /\ l \in Nat /\ b \in Nat
    BY <1>2, <1>3, <2>2
  <2>9. SumFunctionOnSet(buckets, T) = b + l
    BY <1>2, <2>2, <2>8, SumRemove
  <2>10. SumFunctionOnSet(left, T) = left[e] + x
    BY <1>4, <2>2, <2>8, SumRemove
  <2>11. left[e] = AtLeastZero(b - AtLeastZero(rex - l))
    BY <1>4, <2>2, <2>5 DEF Later
  <2> HIDE DEF U, b, l, x
  <2>12. SumFunctionOnSet(left, T) = AtLeastZero((b + l) - rex)
    BY <2>7, <2>8, <2>10, <2>11 DEF AtLeastZero
  <2>13. QED
    BY <2>2, <2>9, <2>12
<1>7. SumFunctionOnSet(left, Maturity) = AtLeastZero(SumFunctionOnSet(buckets, Maturity) - rex)
  BY <1>6
<1>8. QED
  BY <1>3, <1>4, <1>5, <1>7 DEF SumRex, left

\* REX moved into savings is as much, and leaves matured what may not be moved.
LEMMA IntoSavingsIs ==
  ASSUME now \in Time, NEW rb \in rex_balance, GoodRow(rb), NEW rex \in Nat, NEW ordered \in Nat,
         ordered <= rb.matured_rex, rex + ordered + Savings(rb) <= rb.rex_balance
  PROVE  LET row == IntoSavings(rb, rex)
         IN /\ row \in rex_balance /\ GoodRow(row) /\ row.vote_stake = rb.vote_stake
            /\ row.rex_balance = rb.rex_balance /\ ordered <= row.matured_rex
<1> DEFINE kept == NoSavings(rb)
           held == [rb EXCEPT !.rex_maturities = kept]
           p == process_rex_maturities(held)
           maturing == SumRex(p.rex_maturities)
           b == TakenFromLatest(p.rex_maturities, rex)
           saved == Savings(rb) + rex
           new == [b EXCEPT ![end_of_days] = saved]
           m == p.matured_rex - AtLeastZero(rex - maturing)
           row == IntoSavings(rb, rex)
<1>1. /\ rb.rex_balance \in Nat /\ rb.matured_rex \in Nat /\ rb.vote_stake \in Nat
      /\ rb.rex_balance = rb.matured_rex + SumRex(rb.rex_maturities)
  BY RowNumbers DEF GoodRow
<1>2. /\ kept \in [Maturity -> Int] /\ kept[end_of_days] = 0 /\ (\A t \in Maturity : 0 <= kept[t])
      /\ Savings(rb) \in Nat /\ SumRex(kept) \in Nat
      /\ SumRex(rb.rex_maturities) = SumRex(kept) + Savings(rb)
  BY NoSavingsIs DEF GoodRow
<1> HIDE DEF kept
<1>3. /\ held \in rex_balance /\ held.vote_stake = rb.vote_stake /\ held.rex_balance = rb.rex_balance
      /\ held.matured_rex = rb.matured_rex /\ held.rex_maturities = kept
  BY <1>2 DEF rex_balance
<1>4. row = [p EXCEPT !.matured_rex = m, !.rex_maturities = new]
  <2>1. row = [p EXCEPT !.matured_rex = @ - AtLeastZero(rex - maturing), !.rex_maturities = new]
    BY DEF IntoSavings, WithSavings, kept
  <2> HIDE DEF p, maturing, new, row
  <2>2. QED
    BY <2>1
<1> HIDE DEF held, row
<1>5. /\ p \in rex_balance /\ p.vote_stake = rb.vote_stake /\ p.rex_balance = rb.rex_balance
      /\ p.matured_rex \in Nat /\ rb.matured_rex <= p.matured_rex
      /\ p.rex_maturities \in [Maturity -> Int] /\ (\A t \in Maturity : 0 <= p.rex_maturities[t])
      /\ p.rex_maturities[end_of_days] = 0 /\ maturing \in Nat
      /\ p.matured_rex + maturing = rb.matured_rex + SumRex(kept)
  <2>1. 0 <= held.matured_rex /\ \A t \in Maturity : 0 <= held.rex_maturities[t]
    BY <1>1, <1>2, <1>3
  <2>2. /\ p \in rex_balance /\ p.vote_stake = held.vote_stake
        /\ p.rex_balance = held.rex_balance
        /\ p.matured_rex \in Nat /\ held.matured_rex <= p.matured_rex
        /\ p.rex_maturities \in [Maturity -> Int]
        /\ \A t \in Maturity : 0 <= p.rex_maturities[t]
        /\ p.rex_maturities[end_of_days] = held.rex_maturities[end_of_days]
        /\ SumRex(p.rex_maturities) \in Nat
        /\ p.matured_rex + SumRex(p.rex_maturities)
             = held.matured_rex + SumRex(held.rex_maturities)
    BY <1>3, <2>1, ProcessedIs
  <2>3. QED
    BY <1>2, <1>3, <2>2
<1> HIDE DEF p
<1>6. /\ b \in [Maturity -> Int] /\ (\A t \in Maturity : 0 <= b[t])
      /\ SumRex(b) = AtLeastZero(maturing - rex)
  BY <1>5, TakenIs
<1>7. end_of_days \in Maturity
  BY RexAssumption
<1>8. b[end_of_days] = 0
  <2> DEFINE x == AtLeastZero(rex - Later(p.rex_maturities, end_of_days))
  <2>1. b[end_of_days] = AtLeastZero(0 - x)
    BY <1>5, <1>7 DEF TakenFromLatest
  <2>2. Later(p.rex_maturities, end_of_days) \in Int
    <3> DEFINE T == {o \in Maturity : end_of_days < o}
    <3>1. T \subseteq Maturity
      OBVIOUS
    <3> HIDE DEF T
    <3>2. IsFiniteSet(T)
      BY <3>1, VotingAssumption, FS_Subset
    <3>3. \A t \in T : p.rex_maturities[t] \in Int
      BY <1>5, <3>1
    <3>4. SumFunctionOnSet(p.rex_maturities, T) \in Int
      BY <3>2, <3>3, SumInt
    <3>5. QED
      BY <3>4 DEF Later, T
  <2>3. x \in Nat
    BY <2>2 DEF AtLeastZero
  <2> HIDE DEF x
  <2>4. QED
    BY <2>1, <2>3 DEF AtLeastZero
<1> HIDE DEF b
<1>9. saved \in Nat /\ saved \in Int
  BY <1>2
<1>10. /\ new \in [Maturity -> Int] /\ new[end_of_days] = saved
       /\ \A o \in Maturity : o # end_of_days => new[o] = b[o]
       /\ SumRex(new) = SumRex(b) + saved - b[end_of_days]
  <2> HIDE DEF saved
  <2>1. QED
    BY <1>6, <1>7, <1>9, BucketPut
<1> HIDE DEF new, maturing
<1>11. \A t \in Maturity : 0 <= new[t]
  BY <1>6, <1>9, <1>10
<1>12. m \in Int /\ ordered <= m
  BY <1>1, <1>2, <1>5 DEF AtLeastZero
<1>13. rb.rex_balance = m + SumRex(new)
  BY <1>1, <1>2, <1>5, <1>6, <1>8, <1>10 DEF AtLeastZero
<1> HIDE DEF m
<1>14. /\ row \in rex_balance /\ row.vote_stake = rb.vote_stake /\ row.rex_balance = rb.rex_balance
       /\ row.matured_rex = m /\ row.rex_maturities = new
  BY <1>4, <1>5, <1>10, <1>12 DEF rex_balance
<1>15. GoodRow(row)
  BY <1>1, <1>11, <1>12, <1>13, <1>14 DEF GoodRow
<1>16. QED
  BY <1>12, <1>14, <1>15 DEF row

-----------------------------------------------------------------------------
(* The votes of an owner of REX *)

StakedIn(v) == IF v = Nil THEN 0 ELSE v.staked

\* A vote keeps the stake and the flags of the voter's row, whatever they are.
LEMMA VotesRow ==
  ASSUME NEW voter \in Account, NEW table \in VoterTable, table[voter] \in voter_info,
         NEW prods \in SUBSET Producer, NEW voting \in BOOLEAN,
         UpdateVotes(table, voter, prods, voting)
  PROVE  /\ voters' \in VoterTable /\ (\A a \in Account : a # voter => voters'[a] = table[a])
         /\ voters'[voter] \in voter_info /\ voters'[voter].staked = table[voter].staked
         /\ voters'[voter].flags1 = table[voter].flags1
<1> DEFINE t == IF voting /\ prods = {} THEN 0 ELSE table[voter].staked
           w == VoteWeight[Cardinality(prods)] * t
           row == [table[voter] EXCEPT !.last_vote_weight = w, !.last_stake = t, !.producers = prods]
<1>1. voters' = [table EXCEPT ![voter] = row]
  BY DEF UpdateVotes
<1>2. t \in Int
  BY DEF voter_info
<1>3. VoteWeight[Cardinality(prods)] \in Nat
  <2>1. IsFiniteSet(prods) /\ Cardinality(prods) <= Cardinality(Producer)
    BY VotingFinite, FS_Subset
  <2>2. Cardinality(prods) \in 0..Cardinality(Producer)
    BY <2>1, VotingFinite, FS_CardinalityType
  <2>3. QED
    BY <2>2, VotingAssumption
<1>4. w \in Int
  <2> HIDE DEF t
  <2>1. QED
    BY <1>2, <1>3
<1> HIDE DEF w, t
<1>5. /\ row \in voter_info /\ row.staked = table[voter].staked
      /\ row.flags1 = table[voter].flags1
  BY <1>2, <1>4 DEF voter_info
<1> HIDE DEF row
<1>6. QED
  BY <1>1, <1>5 DEF VoterTable

\* What a row is worth: the stake and the flags of one that is not there yet are
\* those it would begin with.
LEMMA BaseIs ==
  ASSUME NEW v \in voter_info \cup {Nil}
  PROVE  /\ Base(v) \in voter_info /\ Base(v).staked = StakedIn(v) /\ Base(v).flags1 = Flags(v)
         /\ StakedIn(v) \in Int /\ Flags(v) \in SUBSET flags1_fields
<1>1. /\ NewVoter \in voter_info /\ NewVoter.staked = 0 /\ NewVoter.flags1 = {}
  BY DEF NewVoter, voter_info
<1>2. CASE v = Nil
  BY <1>1, <1>2 DEF Base, StakedIn, Flags
<1>3. CASE v # Nil
  BY <1>3 DEF Base, StakedIn, Flags, voter_info
<1>4. QED
  BY <1>2, <1>3

\* The table with the stake of a voter changed, and the row in it.
LEMMA ShiftedIs ==
  ASSUME voters \in VoterTable, NEW voter \in Account, NEW table, NEW shift \in Int,
         ShiftedTable(table, voter, shift)
  PROVE  /\ table \in VoterTable /\ (\A a \in Account : a # voter => table[a] = voters[a])
         /\ (table[voter] = Nil <=> voters[voter] = Nil)
         /\ StakedIn(table[voter]) = StakedIn(voters[voter]) + shift
         /\ Flags(table[voter]) = Flags(voters[voter])
<1>1. voters[voter] \in voter_info \cup {Nil} /\ Nil \notin voter_info
  BY VotingFinite DEF VoterTable
<1>2. CASE table = voters /\ shift = 0
  BY <1>1, <1>2, BaseIs
<1>3. CASE voters[voter] # Nil /\ table = [voters EXCEPT ![voter].staked = @ + shift]
  <2> DEFINE n == voters[voter].staked + shift
             row == [voters[voter] EXCEPT !.staked = n]
  <2>1. voters[voter] \in voter_info /\ n \in Int
    BY <1>1, <1>3 DEF voter_info
  <2>2. table = [voters EXCEPT ![voter] = row]
    BY <1>3 DEF VoterTable
  <2>3. row \in voter_info /\ row.staked = n /\ row.flags1 = voters[voter].flags1
    <3> HIDE DEF n
    <3>1. QED
      BY <2>1 DEF voter_info
  <2> HIDE DEF row
  <2>4. table \in VoterTable /\ table[voter] = row /\ \A a \in Account : a # voter => table[a] = voters[a]
    BY <2>2, <2>3 DEF VoterTable
  <2>5. QED
    BY <1>1, <1>3, <2>1, <2>3, <2>4 DEF StakedIn, Flags
<1>4. QED
  BY <1>2, <1>3 DEF ShiftedTable

\* update_voting_power changes the stake by what it is given.
LEMMA PowerRows ==
  ASSUME voters \in VoterTable, NEW voter \in Account, NEW table, NEW shift \in Int, NEW delta \in Int,
         ShiftedTable(table, voter, shift), UpdateVotingPower(table, voter, delta)
  PROVE  /\ voters' \in VoterTable /\ (\A a \in Account : a # voter => voters'[a] = voters[a])
         /\ voters'[voter] # Nil
         /\ StakedIn(voters'[voter]) = StakedIn(voters[voter]) + shift + delta
         /\ Flags(voters'[voter]) = Flags(voters[voter])
<1>1. /\ table \in VoterTable /\ (\A a \in Account : a # voter => table[a] = voters[a])
      /\ StakedIn(table[voter]) = StakedIn(voters[voter]) + shift
      /\ Flags(table[voter]) = Flags(voters[voter])
  BY ShiftedIs
<1>2. table[voter] \in voter_info \cup {Nil}
  BY <1>1 DEF VoterTable
<1> DEFINE base == Base(table[voter])
           n == base.staked + delta
           row == [base EXCEPT !.staked = n]
           after == [table EXCEPT ![voter] = row]
<1>3. /\ base \in voter_info /\ base.staked = StakedIn(table[voter])
      /\ base.flags1 = Flags(table[voter]) /\ base.staked \in Int
  BY <1>2, BaseIs
<1>4. \/ UpdateVotes(after, voter, base.producers, FALSE)
      \/ voters' = after
  BY DEF UpdateVotingPower, Base
<1> HIDE DEF base
<1>5. n \in Int
  BY <1>3
<1>6. row \in voter_info /\ row.staked = n /\ row.flags1 = base.flags1
  <2> HIDE DEF n
  <2>1. QED
    BY <1>3, <1>5 DEF voter_info
<1> HIDE DEF row
<1>7. /\ after \in VoterTable /\ after[voter] = row
      /\ \A a \in Account : a # voter => after[a] = table[a]
  BY <1>1, <1>6 DEF VoterTable
<1> HIDE DEF after
<1>8. /\ voters' \in VoterTable /\ (\A a \in Account : a # voter => voters'[a] = after[a])
      /\ voters'[voter] \in voter_info /\ voters'[voter].staked = n
      /\ voters'[voter].flags1 = base.flags1
  <2>1. CASE UpdateVotes(after, voter, base.producers, FALSE)
    <3>1. base.producers \in SUBSET Producer /\ FALSE \in BOOLEAN
      BY <1>3 DEF voter_info
    <3>2. QED
      BY <1>6, <1>7, <2>1, <3>1, VotesRow
  <2>2. CASE voters' = after
    BY <1>6, <1>7, <2>2
  <2>3. QED
    BY <1>4, <2>1, <2>2
<1>9. voters'[voter] # Nil
  BY <1>8, VotingFinite
<1>10. QED
  BY <1>1, <1>3, <1>7, <1>8, <1>9 DEF StakedIn, Flags

\* What update_rex_account does to the votes: the stake changes by delta_stake
\* and by what a filled order has left.
LEMMA ReweighIs ==
  ASSUME voters \in VoterTable, NEW t, NEW owner \in Account, ChangeOf(t.orders[owner]) \in Int,
         NEW delta \in Int, NEW force, Reweigh(t, owner, delta, force)
  PROVE  /\ voters' \in VoterTable /\ (\A a \in Account : a # owner => voters'[a] = voters[a])
         /\ StakedIn(voters'[owner]) = StakedIn(voters[owner]) + delta + ChangeOf(t.orders[owner])
         /\ Flags(voters'[owner]) = Flags(voters[owner])
         /\ voters[owner] # Nil => voters'[owner] # Nil
         /\ force \/ delta + ChangeOf(t.orders[owner]) # 0 => voters'[owner] # Nil
<1> DEFINE change == ChangeOf(t.orders[owner])
           to_stake == delta + (IF IsFilled(t, owner) THEN t.orders[owner].stake_change ELSE 0)
<1>1. to_stake = delta + change
  BY DEF IsFilled, ChangeOf
<1>2. \/ (force \/ to_stake # 0) /\ UpdateVotingPower(voters, owner, to_stake)
      \/ ~force /\ to_stake = 0 /\ UNCHANGED voters
  BY DEF Reweigh
<1> HIDE DEF to_stake
<1>3. CASE UpdateVotingPower(voters, owner, to_stake)
  <2>1. to_stake \in Int /\ ShiftedTable(voters, owner, 0) /\ 0 \in Int
    BY <1>1 DEF ShiftedTable
  <2>2. /\ voters' \in VoterTable /\ (\A a \in Account : a # owner => voters'[a] = voters[a])
        /\ voters'[owner] # Nil
        /\ StakedIn(voters'[owner]) = StakedIn(voters[owner]) + 0 + to_stake
        /\ Flags(voters'[owner]) = Flags(voters[owner])
    BY <1>3, <2>1, PowerRows
  <2>3. StakedIn(voters[owner]) \in Int
    BY BaseIs DEF VoterTable
  <2> HIDE DEF change
  <2>4. QED
    BY <1>1, <2>2, <2>3 DEF change
<1>4. CASE ~force /\ to_stake = 0 /\ UNCHANGED voters
  <2>1. StakedIn(voters[owner]) \in Int
    BY BaseIs DEF VoterTable
  <2>2. QED
    BY <1>1, <1>4, <2>1
<1>5. QED
  BY <1>2, <1>3, <1>4

-----------------------------------------------------------------------------
(* What an action does for one owner *)

\* Everybody else has, owns and weighs the same.
Only(t, u, owner) ==
  /\ Elsewhere(t, u)
  /\ \A a \in Account : OwnsAs(t, u, a)
  /\ \A a \in Account : a # owner => WeighsAs(t, u, a)

\* One after the other.
LEMMA OnlyTwice ==
  ASSUME NEW t, NEW u, NEW w, NEW owner, Only(t, u, owner), Only(u, w, owner)
  PROVE  Only(t, w, owner)
BY DEF Only, Elsewhere, WeighsAs, OwnsAs

\* What runrex does is of that kind.
LEMMA SameOnly ==
  ASSUME NEW t, NEW u, NEW owner, Same(t, u)
  PROVE  Only(t, u, owner)
BY DEF Only, Same

\* And what leaves most tables alone.
LEMMA OnlyFrame ==
  ASSUME NEW t, NEW u, NEW owner, u.tlos = t.tlos, u.retained = t.retained,
         PoolOf(u.pool).namebid_proceeds = PoolOf(t.pool).namebid_proceeds,
         u.totals = t.totals, u.limits = t.limits, u.loans = t.loans,
         \A a \in Account : a # owner => u.balances[a] = t.balances[a] /\ u.orders[a] = t.orders[a]
  PROVE  Only(t, u, owner)
<1>1. Elsewhere(t, u)
  BY ElsewhereFrame
<1>2. \A a \in Account : OwnsAs(t, u, a)
  BY OwnsFrame
<1>3. \A a \in Account : a # owner => WeighsAs(t, u, a)
  BY WeighsFrame
<1>4. QED
  BY <1>1, <1>2, <1>3 DEF Only

\* An order put in the tables.
LEMMA OrderPutKeeps ==
  ASSUME NEW t, Shape(t), NEW owner \in Account, NEW row \in rex_order \cup {Nil}
  PROVE  LET u == [t EXCEPT !.orders[owner] = row]
         IN /\ Shape(u) /\ (Alive(u) <=> Alive(t))
            /\ u.pool = t.pool /\ u.balances = t.balances /\ u.funds = t.funds
            /\ u.loans = t.loans /\ u.totals = t.totals /\ u.limits = t.limits /\ u.tlos = t.tlos
            /\ u.retained = t.retained
            /\ Good(t) /\ GoodOrder(row, t.balances[owner]) =>
                 /\ Good(u) /\ Debt(u) = Debt(t) + EarnedIn(t.orders[owner]) - EarnedIn(row)
                 /\ u.orders[owner] = row /\ Only(t, u, owner)
                 /\ EarnedIn(t.orders[owner]) \in Nat
<1> DEFINE u == [t EXCEPT !.orders[owner] = row]
<1>1. /\ Shape(u) /\ u.pool = t.pool /\ u.balances = t.balances /\ u.funds = t.funds
      /\ u.loans = t.loans /\ u.totals = t.totals /\ u.limits = t.limits /\ u.tlos = t.tlos
      /\ u.retained = t.retained /\ u.ok = t.ok /\ u.orders = [t.orders EXCEPT ![owner] = row]
  BY DEF Shape
<1>2. Alive(u) <=> Alive(t)
  BY <1>1 DEF Alive
<1> HIDE DEF u
<1>3. ASSUME Good(t), GoodOrder(row, t.balances[owner])
      PROVE  /\ Good(u) /\ Debt(u) = Debt(t) + EarnedIn(t.orders[owner]) - EarnedIn(row)
             /\ u.orders[owner] = row /\ Only(t, u, owner)
             /\ EarnedIn(t.orders[owner]) \in Nat
  <2>1. t.orders \in OrderTable
    BY <1>3 DEF Good, GoodRows
  <2>2. /\ u.orders \in OrderTable
        /\ SumEarned(u.orders) = SumEarned(t.orders) + EarnedIn(row) - EarnedIn(t.orders[owner])
        /\ SumEarned(t.orders) \in Int /\ EarnedIn(t.orders[owner]) \in Nat /\ EarnedIn(row) \in Nat
    BY <1>1, <2>1, OrderPut
  <2>3. u.orders[owner] = row /\ \A a \in Account : a # owner => u.orders[a] = t.orders[a]
    BY <1>1, <2>1 DEF OrderTable
  <2>4. GoodRows(u.balances, u.orders) /\ GoodOrders(u.balances, u.orders)
    BY <1>1, <1>3, <2>2, <2>3 DEF Good, GoodRows, GoodOrders
  <2>5. Good(u)
    BY <1>1, <1>3, <2>4 DEF Good
  <2>6. Debt(u) = Debt(t) + EarnedIn(t.orders[owner]) - EarnedIn(row)
    <3>1. /\ Bal(t.tlos, REX_ACCOUNT) \in Int /\ PoolOf(t.pool).total_lendable \in Int
          /\ SumFunds(t.funds) \in Int /\ SumEarned(t.orders) \in Int
          /\ OnLoans(BalanceBy, t.loans) \in Int
      BY <1>3, DebtNumbers
    <3>2. QED
      BY <1>1, <2>2, <3>1 DEF Debt
  <2>7. Only(t, u, owner)
    BY <1>1, <2>3, OnlyFrame
  <2>8. QED
    BY <2>2, <2>3, <2>5, <2>6, <2>7
<1>4. QED
  BY <1>1, <1>2, <1>3 DEF u

\* What a filled order has earned, and the proceeds of a sale, go to the fund.
LEMMA SettledKeeps ==
  ASSUME NEW t, Shape(t), NEW owner \in Account, NEW proceeds \in Nat, t.orders \in OrderTable
  PROVE  LET u == Settled(t, owner, proceeds)
         IN /\ Shape(u) /\ (Alive(u) <=> Alive(t))
            /\ u.pool = t.pool /\ u.balances = t.balances
            /\ u.loans = t.loans /\ u.totals = t.totals /\ u.limits = t.limits /\ u.tlos = t.tlos
            /\ u.retained = t.retained
            /\ u.orders[owner] = IF IsFilled(t, owner) THEN Nil ELSE t.orders[owner]
            /\ Good(t) => /\ Good(u) /\ Debt(u) = Debt(t) - proceeds /\ Only(t, u, owner)
                          /\ ChangeOf(u.orders[owner]) = 0
<1> DEFINE u == Settled(t, owner, proceeds)
           row == IF IsFilled(t, owner) THEN Nil ELSE t.orders[owner]
           earned == IF IsFilled(t, owner) THEN t.orders[owner].proceeds ELSE 0
           cleared == [t EXCEPT !.orders[owner] = row]
           to_fund == proceeds + earned
<1>1. u = IF to_fund > 0 THEN ToFund(cleared, owner, to_fund) ELSE cleared
  BY DEF Settled, Shape
<1>2. row \in rex_order \cup {Nil} /\ earned \in Nat /\ ChangeOf(row) = 0
  BY DEF OrderTable, IsFilled, ChangeOf, rex_order
<1>3. earned = EarnedIn(t.orders[owner]) - EarnedIn(row)
  <2>1. t.orders[owner] \in rex_order \cup {Nil}
    BY DEF OrderTable
  <2>2. EarnedIn(t.orders[owner]) \in Nat
    BY <2>1 DEF EarnedIn, rex_order
  <2>3. QED
    BY <2>2 DEF IsFilled, EarnedIn
<1>4. cleared.orders[owner] = row
  BY DEF Shape, OrderTable
<1> HIDE DEF row, earned, u
<1>5. /\ Shape(cleared) /\ (Alive(cleared) <=> Alive(t))
      /\ cleared.pool = t.pool /\ cleared.balances = t.balances /\ cleared.funds = t.funds
      /\ cleared.loans = t.loans /\ cleared.totals = t.totals /\ cleared.limits = t.limits
      /\ cleared.tlos = t.tlos /\ cleared.retained = t.retained
      /\ Good(t) /\ GoodOrder(row, t.balances[owner]) =>
           /\ Good(cleared) /\ Debt(cleared) = Debt(t) + EarnedIn(t.orders[owner]) - EarnedIn(row)
           /\ cleared.orders[owner] = row /\ Only(t, cleared, owner)
           /\ EarnedIn(t.orders[owner]) \in Nat
  BY <1>2, OrderPutKeeps
<1> HIDE DEF cleared
<1>6. to_fund \in Nat
  BY <1>2
<1>7. /\ Shape(u) /\ (Alive(u) <=> Alive(cleared))
      /\ u.pool = cleared.pool /\ u.balances = cleared.balances /\ u.orders = cleared.orders
      /\ u.loans = cleared.loans /\ u.totals = cleared.totals /\ u.limits = cleared.limits
      /\ u.tlos = cleared.tlos /\ u.retained = cleared.retained
      /\ Good(cleared) => Good(u) /\ Debt(u) = Debt(cleared) - to_fund
  <2>1. CASE to_fund > 0
    <3>1. u = ToFund(cleared, owner, to_fund)
      BY <1>1, <2>1
    <3> HIDE DEF to_fund
    <3>2. QED
      BY <1>5, <1>6, <3>1, ToFundIs
  <2>2. CASE ~ (to_fund > 0)
    <3>1. u = cleared /\ to_fund = 0
      BY <1>1, <1>6, <2>2
    <3>2. Good(cleared) => Debt(cleared) \in Int
      BY DebtNumbers
    <3>3. QED
      BY <1>5, <3>1, <3>2
  <2>3. QED
    BY <2>1, <2>2
<1>8. ASSUME Good(t)
      PROVE  Good(u) /\ Debt(u) = Debt(t) - proceeds /\ Only(t, u, owner)
  <2>1. GoodOrder(row, t.balances[owner])
    BY <1>8 DEF Good, GoodOrders, GoodOrder, row
  <2>2. Good(u) /\ Debt(u) = Debt(cleared) - to_fund /\ Debt(cleared) = Debt(t) + earned
    <3>1. /\ Debt(t) \in Int /\ EarnedIn(t.orders[owner]) \in Int /\ EarnedIn(row) \in Int
      BY <1>2, <1>5, <1>8, <2>1, DebtNumbers, NoRow DEF EarnedIn, rex_order
    <3>2. QED
      BY <1>3, <1>5, <1>7, <1>8, <2>1, <3>1
  <2>3. Debt(t) \in Int
    BY <1>8, DebtNumbers
  <2>4. Only(cleared, u, owner)
    BY <1>7, OnlyFrame
  <2>5. Only(t, u, owner)
    BY <1>5, <1>8, <2>1, <2>4, OnlyTwice
  <2>6. QED
    BY <1>2, <2>2, <2>3, <2>5
<1>9. u.orders[owner] = row
  BY <1>4, <1>7
<1>10. QED
  BY <1>2, <1>5, <1>7, <1>8, <1>9 DEF u, row

\* REX of an owner that is as much, otherwise matured or of other worth.
LEMMA RowPutKeeps ==
  ASSUME NEW t, Shape(t), Good(t), NEW owner \in Account, t.balances[owner] # Nil,
         NEW row \in rex_balance, GoodRow(row), row.rex_balance = t.balances[owner].rex_balance,
         GoodOrder(t.orders[owner], row)
  PROVE  LET u == [t EXCEPT !.balances[owner] = row]
         IN /\ Shape(u) /\ (Alive(u) <=> Alive(t)) /\ Good(u) /\ Debt(u) = Debt(t)
            /\ Only(t, u, owner) /\ u.balances[owner] = row
            /\ u.pool = t.pool /\ u.orders = t.orders /\ u.funds = t.funds
<1> DEFINE u == [t EXCEPT !.balances[owner] = row]
<1>1. /\ Shape(u) /\ u.pool = t.pool /\ u.orders = t.orders /\ u.funds = t.funds
      /\ u.loans = t.loans /\ u.totals = t.totals /\ u.limits = t.limits /\ u.tlos = t.tlos
      /\ u.retained = t.retained /\ u.ok = t.ok /\ u.balances = [t.balances EXCEPT ![owner] = row]
  BY DEF Shape
<1>2. Alive(u) <=> Alive(t)
  BY <1>1 DEF Alive
<1> HIDE DEF u
<1>3. t.balances \in RexTable
  BY DEF Good, GoodRows
<1>4. /\ u.balances \in RexTable
      /\ SumHeld(u.balances) = SumHeld(t.balances) + HeldIn(row) - HeldIn(t.balances[owner])
      /\ SumHeld(t.balances) \in Int /\ HeldIn(t.balances[owner]) \in Int
  BY <1>1, <1>3, HeldPut
<1>5. row # Nil /\ HeldIn(row) = HeldIn(t.balances[owner])
  BY NoRow DEF HeldIn
<1>6. SumHeld(u.balances) = SumHeld(t.balances)
  BY <1>4, <1>5
<1>7. u.balances[owner] = row /\ \A a \in Account : a # owner => u.balances[a] = t.balances[a]
  BY <1>1, <1>3 DEF RexTable
<1>8. GoodRows(u.balances, u.orders) /\ GoodOrders(u.balances, u.orders)
  BY <1>1, <1>4, <1>7 DEF Good, GoodRows, GoodOrders
<1>9. GoodPool(u.pool, u.balances, u.loans)
  BY <1>1, <1>6 DEF Good, GoodPool
<1>10. Good(u)
  BY <1>1, <1>8, <1>9 DEF Good
<1>11. Debt(u) = Debt(t)
  BY <1>1 DEF Debt
<1>12. Only(t, u, owner)
  BY <1>1, <1>7, OnlyFrame
<1>13. QED
  BY <1>1, <1>2, <1>7, <1>10, <1>11, <1>12 DEF u

\* Tokens are sent.
LEMMA SentKeeps ==
  ASSUME NEW t, Shape(t), Good(t), NEW from \in TokenHolder, NEW to \in TokenHolder, from # to,
         NEW amount \in Int, Alive(Sent(t, from, to, amount))
  PROVE  LET u == Sent(t, from, to, amount)
         IN /\ Good(u) /\ 0 < amount /\ stat # Nil
            /\ u.pool = t.pool /\ u.balances = t.balances /\ u.funds = t.funds
            /\ u.orders = t.orders /\ u.loans = t.loans /\ u.totals = t.totals
            /\ u.limits = t.limits /\ u.retained = t.retained
            /\ \A h \in TokenHolder :
                 Bal(u.tlos, h) = Bal(t.tlos, h) - (IF h = from THEN amount ELSE 0)
                                                 + (IF h = to THEN amount ELSE 0)
            /\ Debt(u) = Debt(t) - (IF REX_ACCOUNT = from THEN amount ELSE 0)
                                 + (IF REX_ACCOUNT = to THEN amount ELSE 0)
<1> DEFINE u == Sent(t, from, to, amount)
<1>1. /\ Shape(u) /\ u.tlos = Transferred(t.tlos, from, to, amount)
      /\ u.pool = t.pool /\ u.balances = t.balances /\ u.funds = t.funds
      /\ u.orders = t.orders /\ u.loans = t.loans /\ u.totals = t.totals
      /\ u.limits = t.limits /\ u.retained = t.retained /\ u.ok = t.ok
  BY SentIs
<1>2. u.tlos # Nil
  BY DEF Alive
<1> HIDE DEF u
<1>3. t.tlos \in TokenTable
  BY DEF Good, GoodTokens
<1>4. /\ u.tlos \in TokenTable /\ 0 < amount /\ t.tlos[from] # Nil
      /\ Bal(u.tlos, from) = Bal(t.tlos, from) - amount
      /\ Bal(u.tlos, to) = Bal(t.tlos, to) + amount
      /\ \A h \in TokenHolder : h # from /\ h # to => Bal(u.tlos, h) = Bal(t.tlos, h)
  BY <1>1, <1>2, <1>3, TransferredIs
<1>5. stat # Nil
  BY <1>4 DEF Good, GoodTokens
<1>6. Good(u)
  BY <1>1, <1>4, <1>5 DEF Good, GoodTokens
<1>7. \A h \in TokenHolder : Bal(t.tlos, h) \in Int
  BY TableNumbers
<1>8. \A h \in TokenHolder :
        Bal(u.tlos, h) = Bal(t.tlos, h) - (IF h = from THEN amount ELSE 0)
                                        + (IF h = to THEN amount ELSE 0)
  BY <1>4, <1>7
<1>9. Debt(u) = Debt(t) - (IF REX_ACCOUNT = from THEN amount ELSE 0)
                        + (IF REX_ACCOUNT = to THEN amount ELSE 0)
  <2>1. REX_ACCOUNT \in TokenHolder
    BY HoldersApart DEF SystemAccounts
  <2>2. /\ Bal(t.tlos, REX_ACCOUNT) \in Int /\ PoolOf(t.pool).total_lendable \in Int
        /\ SumFunds(t.funds) \in Int /\ SumEarned(t.orders) \in Int
        /\ OnLoans(BalanceBy, t.loans) \in Int
    BY DebtNumbers
  <2>3. QED
    BY <1>1, <1>8, <2>1, <2>2 DEF Debt
<1>10. QED
  BY <1>1, <1>4, <1>5, <1>6, <1>8, <1>9 DEF u

-----------------------------------------------------------------------------
(* REX that is bought *)

\* The pool gives some REX for the payment, and is new, or has its price.
LEMMA AddToPoolIs ==
  ASSUME NEW pool \in rex_pool \cup {Nil}, NEW payment \in Nat, 0 < payment,
         0 <= PoolOf(pool).total_lent, 0 <= PoolOf(pool).total_unlent,
         0 <= PoolOf(pool).total_rent, 0 <= PoolOf(pool).total_rex,
         PoolOf(pool).total_lendable = PoolOf(pool).total_lent + PoolOf(pool).total_unlent,
         PoolOf(pool).total_rex = 0 => PoolOf(pool).total_lendable = 0,
         rex_available(pool) => 0 < pool.total_lendable
  PROVE  LET new == AddToPool(pool, payment)
         IN /\ new \in rex_pool /\ RexReceived(pool, payment) \in Nat /\ 0 < new.total_rex
            /\ 0 <= new.total_unlent /\ 0 <= new.total_rent
            /\ new.namebid_proceeds = PoolOf(pool).namebid_proceeds
            /\ new.total_lent = PoolOf(pool).total_lent
            /\ new.total_lendable = new.total_lent + new.total_unlent
            /\ new.total_lendable = PoolOf(pool).total_lendable + payment
            /\ new.total_rex = PoolOf(pool).total_rex + RexReceived(pool, payment)
<1> DEFINE new == AddToPool(pool, payment)
           old == PoolOf(pool)
<1>1. /\ old.total_lent \in Int /\ old.total_unlent \in Int /\ old.total_rent \in Int
      /\ old.total_lendable \in Int /\ old.total_rex \in Int /\ old.namebid_proceeds \in Int
  BY PoolNumbers
<1>2. RexReceived(pool, payment) = new.total_rex - (IF rex_available(pool) THEN pool.total_rex ELSE 0)
  BY DEF RexReceived
<1>3. CASE rex_available(pool)
  <2>1. pool # Nil /\ pool \in rex_pool /\ old = pool /\ 0 < pool.total_rex
    BY <1>3 DEF rex_available, PoolOf
  <2> DEFINE s == pool.total_lendable + payment
             n == s - pool.total_lent
             x == (s * pool.total_rex) \div pool.total_lendable
  <2>2. new = [pool EXCEPT !.total_lendable = s, !.total_unlent = n, !.total_rex = x]
    BY <1>3, <2>1 DEF AddToPool, rex_pool
  <2>3. x \in Nat /\ pool.total_rex <= x
    <3> DEFINE d == pool.total_lendable
               r == pool.total_rex
    <3>1. d \in Nat /\ 0 < d /\ r \in Nat /\ s = d + payment /\ s \in Nat
      BY <1>1, <1>3, <2>1
    <3> HIDE DEF d, r, s
    <3>2. s * r \in Nat /\ d * r <= s * r
      BY <3>1
    <3>3. (s * r) \div d \in Nat /\ r <= (s * r) \div d
      BY <3>1, <3>2, DivIs, DivAtLeast
    <3>4. QED
      BY <3>3 DEF d, r
  <2>4. s \in Int /\ n \in Int /\ n = old.total_unlent + payment
    BY <1>1, <2>1
  <2> HIDE DEF n, x, new
  <2>5. /\ new \in rex_pool /\ new.total_lendable = s /\ new.total_unlent = n
        /\ new.total_rex = x /\ new.total_lent = pool.total_lent
        /\ new.total_rent = pool.total_rent /\ new.namebid_proceeds = pool.namebid_proceeds
    <3> HIDE DEF s, old
    <3>1. pool \in rex_pool /\ s \in Int /\ n \in Int /\ x \in Int
      BY <2>1, <2>3, <2>4
    <3>2. /\ new.total_lendable = s /\ new.total_unlent = n
          /\ new.total_rex = x /\ new.total_lent = pool.total_lent
          /\ new.total_rent = pool.total_rent /\ new.namebid_proceeds = pool.namebid_proceeds
      BY <2>2, <3>1 DEF rex_pool
    <3>3. new \in rex_pool
      BY <2>2, <3>1 DEF rex_pool
    <3>4. QED
      BY <3>2, <3>3
  <2>6. QED
    BY <1>1, <1>2, <1>3, <2>1, <2>3, <2>4, <2>5 DEF new, n
<1>4. CASE ~ rex_available(pool)
  <2>1. old.total_rex = 0 /\ old.total_lendable = 0 /\ old.total_lent = 0
    BY <1>1, <1>4 DEF rex_available, PoolOf, NoPool
  <2> DEFINE x == payment * rex_ratio
  <2>2. x \in Nat /\ 0 < x /\ init_total_rent \in Nat
    BY RexAssumption
  <2>3. new = [total_lent |-> 0, total_unlent |-> payment, total_rent |-> init_total_rent,
               total_lendable |-> payment, total_rex |-> x,
               namebid_proceeds |-> old.namebid_proceeds]
    BY <1>4 DEF AddToPool, PoolOf, NoPool
  <2> HIDE DEF x, old, new
  <2>4. new \in rex_pool
    BY <1>1, <2>2, <2>3 DEF rex_pool
  <2>5. QED
    BY <1>1, <1>2, <1>4, <2>1, <2>2, <2>3, <2>4 DEF new, old
<1>5. QED
  BY <1>3, <1>4

\* The row of the buyer has that REX more.
LEMMA BoughtRowIs ==
  ASSUME now \in Time, NEW pool, pool.total_lendable \in Nat, pool.total_rex \in Nat,
         0 < pool.total_rex, NEW rb \in rex_balance \cup {Nil}, rb # Nil => GoodRow(rb),
         NEW payment \in Nat, NEW rex \in Nat
  PROVE  LET row == BoughtRow(pool, rb, payment, rex)
         IN /\ row \in rex_balance /\ GoodRow(row) /\ row.rex_balance = HeldIn(rb) + rex
            /\ rb # Nil => rb.matured_rex <= row.matured_rex
<1> DEFINE held == IF rb = Nil
                   THEN [vote_stake |-> payment, rex_balance |-> rex, matured_rex |-> 0,
                         rex_maturities |-> NoBuckets]
                   ELSE [rb EXCEPT !.rex_balance = @ + rex,
                                   !.vote_stake = Worth(pool, rb.rex_balance + rex)]
           row == BoughtRow(pool, rb, payment, rex)
           matured == IF rb = Nil THEN 0 ELSE rb.matured_rex
           buckets == IF rb = Nil THEN NoBuckets ELSE rb.rex_maturities
<1>1. row = Maturing(held, rex, Savings(held))
  BY DEF BoughtRow
<1> HIDE DEF row
<1>2. /\ held \in rex_balance /\ 0 <= held.vote_stake /\ held.rex_balance = HeldIn(rb) + rex
      /\ held.matured_rex = matured /\ held.rex_maturities = buckets
      /\ HeldIn(rb) \in Nat
  <2>1. CASE rb = Nil
    <3>1. NoBuckets \in [Maturity -> Int]
      BY DEF NoBuckets
    <3>2. QED
      BY <2>1, <3>1 DEF rex_balance, HeldIn
  <2>2. CASE rb # Nil
    <3> DEFINE n == rb.rex_balance + rex
               w == Worth(pool, n)
    <3>1. rb \in rex_balance /\ GoodRow(rb)
      BY <2>2
    <3>2. rb.rex_balance \in Nat
      BY <3>1, RowNumbers
    <3>3. n \in Nat
      BY <3>2
    <3> HIDE DEF n
    <3>4. w \in Nat
      BY <3>3, WorthIs
    <3>5. held = [rb EXCEPT !.rex_balance = n, !.vote_stake = w]
      BY <2>2, <3>1 DEF n, rex_balance
    <3> HIDE DEF w, held
    <3>6. /\ held \in rex_balance /\ held.vote_stake = w /\ held.rex_balance = n
          /\ held.matured_rex = rb.matured_rex /\ held.rex_maturities = rb.rex_maturities
      <4>1. rb \in rex_balance /\ n \in Int /\ w \in Int
        BY <3>1, <3>3, <3>4
      <4>2. held \in rex_balance
        BY <3>5, <4>1 DEF rex_balance
      <4>3. QED
        BY <3>5, <4>1, <4>2 DEF rex_balance
    <3>7. QED
      BY <2>2, <3>2, <3>4, <3>6 DEF HeldIn, n
  <2>3. QED
    BY <2>1, <2>2
<1> HIDE DEF held
<1>3. /\ matured \in Nat /\ (\A m \in Maturity : 0 <= buckets[m] /\ buckets[m] \in Nat)
      /\ HeldIn(rb) = matured + SumRex(buckets) /\ SumRex(buckets) \in Int
  <2>1. CASE rb = Nil
    <3>1. \A m \in Maturity : NoBuckets[m] = 0
      BY DEF NoBuckets
    <3>2. SumRex(NoBuckets) = 0
      BY <3>1, SumZero, VotingAssumption DEF SumRex
    <3>3. QED
      BY <2>1, <3>1, <3>2 DEF HeldIn
  <2>2. CASE rb # Nil
    <3>1. rb \in rex_balance /\ GoodRow(rb)
      BY <2>2
    <3>2. QED
      BY <2>2, <3>1, RowNumbers DEF HeldIn, GoodRow
  <2>3. QED
    BY <2>1, <2>2
<1>4. Savings(held) \in Nat /\ Savings(held) = held.rex_maturities[end_of_days]
  BY <1>2, <1>3, MaturityIs DEF Savings
<1>5. /\ row \in rex_balance /\ row.vote_stake = held.vote_stake
      /\ row.rex_balance = held.rex_balance
      /\ row.matured_rex \in Nat /\ held.matured_rex <= row.matured_rex
      /\ \A m \in Maturity : 0 <= row.rex_maturities[m]
      /\ SumRex(row.rex_maturities) \in Int /\ SumRex(held.rex_maturities) \in Int
      /\ row.matured_rex + SumRex(row.rex_maturities)
           = held.matured_rex + SumRex(held.rex_maturities) + rex + Savings(held)
             - held.rex_maturities[end_of_days]
  <2>1. 0 <= held.matured_rex /\ \A m \in Maturity : 0 <= held.rex_maturities[m]
    BY <1>2, <1>3
  <2> DEFINE savings == Savings(held)
  <2>2. row = Maturing(held, rex, savings) /\ savings \in Nat
    BY <1>1, <1>4
  <2> HIDE DEF savings
  <2>3. /\ row \in rex_balance /\ row.vote_stake = held.vote_stake
        /\ row.rex_balance = held.rex_balance
        /\ row.matured_rex \in Nat /\ held.matured_rex <= row.matured_rex
        /\ \A m \in Maturity : 0 <= row.rex_maturities[m]
        /\ SumRex(row.rex_maturities) \in Int /\ SumRex(held.rex_maturities) \in Int
        /\ row.matured_rex + SumRex(row.rex_maturities)
             = held.matured_rex + SumRex(held.rex_maturities) + rex + savings
               - held.rex_maturities[end_of_days]
    BY <1>2, <2>1, <2>2, MaturingIs
  <2>4. QED
    BY <2>3 DEF savings
<1> HIDE DEF matured, buckets
<1>6. row.matured_rex + SumRex(row.rex_maturities) = matured + SumRex(buckets) + rex
  BY <1>2, <1>3, <1>4, <1>5
<1>7. row.rex_balance = row.matured_rex + SumRex(row.rex_maturities)
  BY <1>2, <1>3, <1>5, <1>6
<1>8. GoodRow(row)
  BY <1>2, <1>5, <1>7 DEF GoodRow
<1>9. rb # Nil => rb.matured_rex <= row.matured_rex
  BY <1>2, <1>5 DEF matured
<1>10. QED
  BY <1>2, <1>5, <1>8, <1>9 DEF row

\* What is put when REX is bought.
LEMMA BoughtPuts ==
  ASSUME NEW t, Shape(t), NEW owner, NEW payment
  PROVE  LET u == Bought(t, owner, payment)
             pool == AddToPool(t.pool, payment)
         IN /\ Shape(u) /\ (Alive(u) => Alive(t) /\ (rex_available(t.pool) => t.pool.total_lendable > 0))
            /\ u.pool = pool
            /\ u.balances = [t.balances EXCEPT ![owner] =
                               BoughtRow(pool, t.balances[owner], payment, RexReceived(t.pool, payment))]
            /\ u.funds = t.funds /\ u.orders = t.orders /\ u.loans = t.loans /\ u.totals = t.totals
            /\ u.limits = t.limits /\ u.tlos = t.tlos /\ u.retained = t.retained
<1> DEFINE pool == AddToPool(t.pool, payment)
           rex == RexReceived(t.pool, payment)
           with == [t EXCEPT !.pool = pool]
           row == BoughtRow(with.pool, with.balances[owner], payment, rex)
           given == [with EXCEPT !.balances[owner] = row]
           fine == (rex_available(t.pool) => t.pool.total_lendable > 0) /\ pool.total_unlent >= 0
           u == Bought(t, owner, payment)
<1>1. u = Require(given, fine)
  BY DEF Bought, AddToBalance
<1> HIDE DEF pool, rex, u
<1>2. /\ Shape(with) /\ with.pool = pool /\ with.balances = t.balances
      /\ with.funds = t.funds /\ with.orders = t.orders /\ with.loans = t.loans
      /\ with.totals = t.totals /\ with.limits = t.limits /\ with.tlos = t.tlos
      /\ with.retained = t.retained /\ with.ok = t.ok
  BY DEF Shape
<1> HIDE DEF with
<1>3. /\ Shape(given) /\ given.pool = pool
      /\ given.balances = [t.balances EXCEPT ![owner] = row]
      /\ given.funds = t.funds /\ given.orders = t.orders /\ given.loans = t.loans
      /\ given.totals = t.totals /\ given.limits = t.limits /\ given.tlos = t.tlos
      /\ given.retained = t.retained /\ given.ok = t.ok
  <2> HIDE DEF row
  <2>1. QED
    BY <1>2 DEF Shape
<1>4. row = BoughtRow(pool, t.balances[owner], payment, rex)
  BY <1>2
<1> HIDE DEF given, row
<1>5. /\ Shape(u) /\ u.pool = pool /\ u.balances = given.balances
      /\ u.funds = t.funds /\ u.orders = t.orders /\ u.loans = t.loans
      /\ u.totals = t.totals /\ u.limits = t.limits /\ u.tlos = t.tlos
      /\ u.retained = t.retained /\ (u.ok => t.ok /\ fine)
  <2> HIDE DEF fine
  <2>1. QED
    BY <1>1, <1>3 DEF Shape, Require
<1>6. QED
  BY <1>3, <1>4, <1>5 DEF Alive, u, pool, rex

\* The payment is in the pool, and only the buyer has more REX.
LEMMA BoughtKeeps ==
  ASSUME NEW t, Shape(t), Good(t), now \in Time, NEW owner \in Account, NEW payment \in Nat,
         0 < payment, Alive(Bought(t, owner, payment))
  PROVE  LET u == Bought(t, owner, payment)
         IN /\ Good(u) /\ Debt(u) = Debt(t) - payment /\ Only(t, u, owner) /\ u.pool # Nil
            /\ u.balances[owner] \in rex_balance
            /\ u.funds = t.funds /\ u.orders = t.orders /\ u.tlos = t.tlos
<1> DEFINE u == Bought(t, owner, payment)
           pool == AddToPool(t.pool, payment)
           rex == RexReceived(t.pool, payment)
           old == t.balances[owner]
           row == BoughtRow(pool, old, payment, rex)
<1>1. /\ rex_available(t.pool) => t.pool.total_lendable > 0
      /\ u.pool = pool /\ u.balances = [t.balances EXCEPT ![owner] = row]
      /\ u.funds = t.funds /\ u.orders = t.orders /\ u.loans = t.loans /\ u.totals = t.totals
      /\ u.limits = t.limits /\ u.tlos = t.tlos /\ u.retained = t.retained
  BY BoughtPuts
<1> HIDE DEF u
<1>2. /\ GoodPool(t.pool, t.balances, t.loans) /\ GoodLoans(t.loans, loan_num)
      /\ GoodRows(t.balances, t.orders) /\ GoodOrders(t.balances, t.orders)
      /\ t.balances \in RexTable
  BY DEF Good, GoodRows
<1>3. /\ t.pool \in rex_pool \cup {Nil} /\ 0 <= PoolOf(t.pool).total_lent
      /\ 0 <= PoolOf(t.pool).total_unlent
      /\ 0 <= PoolOf(t.pool).total_rent /\ 0 <= PoolOf(t.pool).total_rex
      /\ PoolOf(t.pool).total_lendable = PoolOf(t.pool).total_lent + PoolOf(t.pool).total_unlent
      /\ PoolOf(t.pool).total_rex = 0 => PoolOf(t.pool).total_lendable = 0
      /\ rex_available(t.pool) => 0 < t.pool.total_lendable
      /\ PoolOf(t.pool).total_rex \in Int /\ PoolOf(t.pool).total_lendable \in Int
      /\ PoolOf(t.pool).total_lent = OnLoans(StakedBy, t.loans)
      /\ PoolOf(t.pool).total_rex = SumHeld(t.balances)
  <2>1. OnLoans(StakedBy, t.loans) \in Nat
    BY <1>2, LentNat
  <2>2. SumHeld(t.balances) \in Int /\ 0 <= SumHeld(t.balances)
    <3>1. HeldIn(t.balances[owner]) \in Nat /\ SumHeld(t.balances) \in Int
          /\ HeldIn(t.balances[owner]) <= SumHeld(t.balances)
      BY <1>2, HeldWithin
    <3>2. QED
      BY <3>1
  <2>3. t.pool \in rex_pool => t.pool.total_lendable \in Int
    BY DEF rex_pool
  <2>4. t.pool \in rex_pool \cup {Nil}
    BY <1>2 DEF GoodPool
  <2>5. PoolOf(t.pool).total_lendable \in Int
    BY <2>4, PoolNumbers
  <2>6. rex_available(t.pool) => 0 < t.pool.total_lendable
    BY <1>1, <2>3, <2>4 DEF rex_available
  <2>7. QED
    BY <1>2, <2>1, <2>2, <2>4, <2>5, <2>6 DEF GoodPool
<1>4. /\ pool \in rex_pool /\ rex \in Nat /\ 0 < pool.total_rex
      /\ 0 <= pool.total_unlent /\ 0 <= pool.total_rent
      /\ pool.namebid_proceeds = PoolOf(t.pool).namebid_proceeds
      /\ pool.total_lent = PoolOf(t.pool).total_lent
      /\ pool.total_lendable = pool.total_lent + pool.total_unlent
      /\ pool.total_lendable = PoolOf(t.pool).total_lendable + payment
      /\ pool.total_rex = PoolOf(t.pool).total_rex + rex
  BY <1>3, AddToPoolIs
<1> HIDE DEF pool, rex
<1>5. pool.total_lendable \in Nat /\ pool.total_rex \in Nat /\ pool.total_lent \in Nat
  <2>1. pool.total_lendable \in Int /\ pool.total_rex \in Int /\ pool.total_lent \in Int
        /\ pool.total_unlent \in Int
    BY <1>4 DEF rex_pool
  <2>2. QED
    BY <1>3, <1>4, <2>1
<1>6. old \in rex_balance \cup {Nil} /\ (old # Nil => GoodRow(old))
  BY <1>2 DEF RexTable, GoodRows
<1> HIDE DEF old
<1>7. /\ row \in rex_balance /\ GoodRow(row) /\ row.rex_balance = HeldIn(old) + rex
      /\ old # Nil => old.matured_rex <= row.matured_rex
  BY <1>4, <1>5, <1>6, BoughtRowIs
<1> HIDE DEF row
<1>8. row # Nil /\ pool # Nil /\ HeldIn(row) = HeldIn(old) + rex /\ PoolOf(pool) = pool
  BY <1>4, <1>7, NoRow DEF HeldIn, PoolOf
<1>9. /\ u.balances \in RexTable /\ SumHeld(u.balances) = SumHeld(t.balances) + rex
      /\ u.balances[owner] = row /\ \A a \in Account : a # owner => u.balances[a] = t.balances[a]
  <2>1. /\ u.balances \in RexTable
        /\ SumHeld(u.balances) = SumHeld(t.balances) + HeldIn(row) - HeldIn(old)
        /\ SumHeld(t.balances) \in Int /\ HeldIn(old) \in Int
    BY <1>1, <1>2, <1>7, HeldPut DEF old
  <2>2. SumHeld(u.balances) = SumHeld(t.balances) + rex
    BY <1>4, <1>8, <2>1
  <2>3. QED
    BY <1>1, <1>2, <2>1, <2>2 DEF RexTable
<1>10. GoodPool(u.pool, u.balances, u.loans)
  <2>1. 0 <= pool.namebid_proceeds
    BY <1>2, <1>4 DEF GoodPool
  <2>2. pool.total_rex = SumHeld(u.balances) /\ pool.total_lent = OnLoans(StakedBy, u.loans)
    BY <1>1, <1>3, <1>4, <1>9
  <2>3. QED
    BY <1>1, <1>4, <2>1, <2>2, GoodPoolIs
<1>11. GoodRows(u.balances, u.orders) /\ GoodOrders(u.balances, u.orders)
  <2>1. GoodRows(u.balances, u.orders)
    BY <1>1, <1>2, <1>7, <1>9 DEF GoodRows
  <2>2. GoodOrder(t.orders[owner], row)
    <3>1. GoodOrder(t.orders[owner], old)
      BY <1>2 DEF GoodOrders, old
    <3>2. row.matured_rex \in Int /\ (old # Nil => old.matured_rex \in Int)
      BY <1>6, <1>7 DEF rex_balance
    <3>3. t.orders[owner] # Nil => t.orders[owner].rex_requested \in Int
      BY <1>2 DEF GoodRows, OrderTable, rex_order
    <3>4. QED
      BY <1>7, <1>8, <3>1, <3>2, <3>3 DEF GoodOrder
  <2>3. QED
    BY <1>1, <1>2, <1>9, <2>1, <2>2 DEF GoodOrders
<1>12. Good(u)
  BY <1>1, <1>10, <1>11 DEF Good
<1>13. Debt(u) = Debt(t) - payment
  <2>1. /\ Bal(t.tlos, REX_ACCOUNT) \in Int /\ PoolOf(t.pool).total_lendable \in Int
        /\ SumFunds(t.funds) \in Int /\ SumEarned(t.orders) \in Int
        /\ OnLoans(BalanceBy, t.loans) \in Int
    BY DebtNumbers
  <2>2. PoolOf(u.pool).total_lendable = PoolOf(t.pool).total_lendable + payment
    BY <1>1, <1>4, <1>8
  <2>3. QED
    BY <1>1, <2>1, <2>2 DEF Debt
<1>14. Only(t, u, owner)
  BY <1>1, <1>4, <1>8, <1>9, OnlyFrame
<1>15. QED
  BY <1>1, <1>7, <1>8, <1>9, <1>12, <1>13, <1>14 DEF u

-----------------------------------------------------------------------------
(* The invariant *)

RefundIn(row) == IF row = Nil THEN 0 ELSE row
BidIn(row) == IF row = Nil THEN 0 ELSE IF row.high_bid > 0 THEN row.high_bid ELSE 0

RefundsOf(rows) == SumFunctionOnSet([a \in Account |-> RefundIn(rows[a])], Account)
SumRefunds(refs) == SumFunctionOnSet([n \in NewName |-> RefundsOf(refs[n])], NewName)
SumBids(bs) == SumFunctionOnSet([n \in NewName |-> BidIn(bs[n])], NewName)

BidsInv ==
  /\ bids \in [NewName -> name_bid \cup {Nil}]
  /\ bid_refunds \in [NewName -> [Account -> Nat \cup {Nil}]]
  /\ Spare(Tables) + taken[NAMES_ACCOUNT] = SumRefunds(bid_refunds) + SumBids(bids)

\* What votes weigh and what the totals count.
WeightInv ==
  /\ voters \in VoterTable /\ del_bandwidth \in DelTable /\ unweighed \in [Account -> Int]
  /\ \A a \in Account :
       /\ StakedIn(voters[a]) = StakeOf(del_bandwidth, a) + Weight(Tables, a) - unweighed[a]
       /\ voters[a] = Nil => rexbalance[a] = Nil
       /\ Own(Tables, a, "net") = NetTo(del_bandwidth, a)
       /\ Own(Tables, a, "cpu") = CpuTo(del_bandwidth, a)

SumBytes(totals) == SumFunctionOnSet([a \in Account |-> Totals(totals[a]).ram_bytes], Account)

\* The market sells for no less than it bought.
GoodMarket(r) ==
  /\ r \in ram_market
  /\ r.base + r.total_ram_bytes_reserved = r.max_ram_size
  /\ r.quote = InitialQuote + r.total_ram_stake
  /\ InitialQuote * r.max_ram_size <= r.base * r.quote
  /\ 0 < r.max_ram_size

RamInv ==
  /\ GoodMarket(ram)
  /\ ram.total_ram_bytes_reserved = SumBytes(userres)
  /\ Bal(accounts, RAM_ACCOUNT) + taken[RAM_ACCOUNT] = ram.total_ram_stake
  /\ \A a \in Account : 0 < Totals(userres[a]).ram_bytes /\ "ram_managed" \notin Flags(voters[a]) =>
       limits[a].ram = Totals(userres[a]).ram_bytes + ram_gift_bytes

\* What eosio.stake holds, and what distviarex has taken of it.
HoldsInv == taken \in [SystemAccounts -> Nat] /\ HeldBut(taken[STAKE_ACCOUNT])

\* All but the market for RAM.
BooksInv ==
  /\ Good(Tables) /\ Debt(Tables) = 0
  /\ loan_num \in Nat
  /\ BidsInv /\ WeightInv /\ HoldsInv /\ ClockInv

ContractInv == BooksInv /\ RamInv

\* In numbers.
LEMMA TakenNat ==
  ASSUME taken \in [SystemAccounts -> Nat]
  PROVE  taken[STAKE_ACCOUNT] \in Nat /\ taken[NAMES_ACCOUNT] \in Nat /\ taken[RAM_ACCOUNT] \in Nat
BY HoldersApart DEF SystemAccounts

LEMMA HoldsIs ==
  ASSUME HoldsInv
  PROVE  /\ refunds \in RefundTable /\ TLOS!TypeOK /\ taken \in [SystemAccounts -> Nat]
         /\ Bal(accounts, STAKE_ACCOUNT) \in Nat /\ taken[STAKE_ACCOUNT] \in Nat
         /\ Bal(accounts, STAKE_ACCOUNT) + taken[STAKE_ACCOUNT]
              = StakeOfAll(del_bandwidth) + OwedIn(refunds)
<1>1. TLOS!Balance(STAKE_ACCOUNT) \in Nat
  BY BalanceNat DEF HoldsInv, HeldBut
<1>2. Bal(accounts, STAKE_ACCOUNT) = TLOS!Balance(STAKE_ACCOUNT)
  BY DEF Bal, TLOS!Balance
<1>3. QED
  BY <1>1, <1>2, TakenNat DEF HoldsInv, HeldBut

-----------------------------------------------------------------------------
(* The end of an action *)

\* What the tables hold now.
LEMMA TablesAre ==
  ASSUME ContractInv
  PROVE  /\ Shape(Tables) /\ Good(Tables) /\ Debt(Tables) = 0
         /\ Tables.pool = rexpool /\ Tables.balances = rexbalance /\ Tables.funds = rexfunds
         /\ Tables.orders = rexorders /\ Tables.loans = loans /\ Tables.totals = userres
         /\ Tables.limits = limits /\ Tables.tlos = accounts /\ Tables.retained = retained
         /\ voters \in VoterTable /\ rexorders \in OrderTable /\ rexbalance \in RexTable
         /\ now \in Time
<1>1. /\ Shape(Tables) /\ Tables.pool = rexpool /\ Tables.balances = rexbalance
      /\ Tables.funds = rexfunds
      /\ Tables.orders = rexorders /\ Tables.loans = loans /\ Tables.totals = userres
      /\ Tables.limits = limits /\ Tables.tlos = accounts /\ Tables.retained = retained
  BY DEF Tables, Shape
<1>2. Good(Tables) /\ Debt(Tables) = 0 /\ voters \in VoterTable /\ now \in Time
  BY DEF ContractInv, BooksInv, WeightInv, ClockInv
<1>3. GoodRows(rexbalance, rexorders)
  BY <1>1, <1>2 DEF Good
<1>4. QED
  BY <1>1, <1>2, <1>3 DEF GoodRows

\* What is committed is what the tables hold then.
LEMMA CommitIs ==
  ASSUME NEW u, Commit(u)
  PROVE  /\ Alive(u) /\ rexpool' = u.pool /\ rexbalance' = u.balances /\ rexfunds' = u.funds
         /\ rexorders' = u.orders /\ loans' = u.loans /\ userres' = u.totals /\ limits' = u.limits
         /\ accounts' = u.tlos /\ retained' = u.retained
         /\ UNCHANGED <<now, stat, activated, refunds, deferred, cancelled>>
BY DEF Commit, Alive, refundVars

\* So it is good, and owes nothing.
LEMMA CommitGood ==
  ASSUME NEW u, Commit(u), limits \in LimitTable,
         GoodPool(u.pool, u.balances, u.loans), GoodLoans(u.loans, loan_num'),
         GoodRows(u.balances, u.orders), GoodOrders(u.balances, u.orders), u.funds \in FundTable,
         GoodTotals(u.totals, u.limits), GoodTokens(u.tlos), u.retained \in Nat
  PROVE  /\ Good(Tables)' /\ Debt(Tables)' = Debt(u) /\ Spare(Tables)' = Spare(u)
         /\ \A a \in Account : /\ Weight(Tables, a)' = Weight(u, a)
                               /\ Own(Tables, a, "net")' = Own(u, a, "net")
                               /\ Own(Tables, a, "cpu")' = Own(u, a, "cpu")
<1>1. /\ rexpool' = u.pool /\ rexbalance' = u.balances /\ rexfunds' = u.funds
      /\ rexorders' = u.orders /\ loans' = u.loans /\ userres' = u.totals /\ limits' = u.limits
      /\ accounts' = u.tlos /\ retained' = u.retained /\ stat' = stat
  BY CommitIs
<1>2. /\ Tables'.pool = u.pool /\ Tables'.balances = u.balances /\ Tables'.funds = u.funds
      /\ Tables'.orders = u.orders /\ Tables'.loans = u.loans /\ Tables'.totals = u.totals
      /\ Tables'.limits = u.limits /\ Tables'.tlos = u.tlos /\ Tables'.retained = u.retained
  BY <1>1 DEF Tables
<1>3. GoodTotals(u.totals, u.limits)' /\ GoodTokens(u.tlos)'
  BY <1>1 DEF GoodTotals, GoodTokens
<1>4. Good(Tables)'
  BY <1>1, <1>2, <1>3 DEF Good, GoodTotals, GoodTokens
<1>5. Debt(Tables)' = Debt(u) /\ Spare(Tables)' = Spare(u)
  BY <1>2 DEF Debt, Spare
<1>6. ASSUME NEW a \in Account
      PROVE  /\ Weight(Tables, a)' = Weight(u, a)
             /\ Own(Tables, a, "net")' = Own(u, a, "net")
             /\ Own(Tables, a, "cpu")' = Own(u, a, "cpu")
  BY <1>2 DEF Weight, Own
<1>7. QED
  BY <1>4, <1>5, <1>6

\* All the books are right then when the stake, in tokens and in votes, is.
LEMMA CommitTakes ==
  ASSUME ContractInv, NEW u, Commit(u), loan_num' \in Nat,
         GoodPool(u.pool, u.balances, u.loans), GoodLoans(u.loans, loan_num'),
         GoodRows(u.balances, u.orders), GoodOrders(u.balances, u.orders), u.funds \in FundTable,
         GoodTotals(u.totals, u.limits), GoodTokens(u.tlos), u.retained \in Nat,
         Debt(u) = 0, taken' \in [SystemAccounts -> Nat], UNCHANGED bidVars,
         Spare(u) + taken'[NAMES_ACCOUNT] = Spare(Tables) + taken[NAMES_ACCOUNT],
         voters' \in VoterTable, del_bandwidth' \in DelTable, unweighed' \in [Account -> Int],
         \A a \in Account :
           /\ StakedIn(voters'[a]) = StakeOf(del_bandwidth', a) + Weight(u, a) - unweighed'[a]
           /\ voters'[a] = Nil => u.balances[a] = Nil
           /\ Own(u, a, "net") = NetTo(del_bandwidth', a)
           /\ Own(u, a, "cpu") = CpuTo(del_bandwidth', a),
         Bal(u.tlos, STAKE_ACCOUNT) + taken'[STAKE_ACCOUNT] = StakeOfAll(del_bandwidth') + OwedIn(refunds)
  PROVE  BooksInv'
<1>1. /\ rexbalance' = u.balances /\ accounts' = u.tlos
      /\ UNCHANGED <<now, stat, activated, refunds, deferred, cancelled>>
  BY CommitIs
<1>2. BooksInv
  BY DEF ContractInv
<1>3. limits \in LimitTable
  BY <1>2 DEF BooksInv, Good, GoodTotals
<1>4. /\ Good(Tables)' /\ Debt(Tables)' = Debt(u) /\ Spare(Tables)' = Spare(u)
      /\ \A a \in Account : /\ Weight(Tables, a)' = Weight(u, a)
                            /\ Own(Tables, a, "net")' = Own(u, a, "net")
                            /\ Own(Tables, a, "cpu")' = Own(u, a, "cpu")
  BY <1>3, CommitGood
<1>5. BidsInv'
  BY <1>2, <1>4 DEF BooksInv, BidsInv, bidVars
<1>6. WeightInv'
  BY <1>1, <1>4 DEF WeightInv
<1>7. HoldsInv'
  <2>1. refunds' \in RefundTable
    BY <1>1, <1>2 DEF BooksInv, HoldsInv, HeldBut
  <2>2. TLOS!TypeOK'
    <3>1. accounts' \in [TokenHolder -> Nat \cup {Nil}]
      BY <1>1 DEF GoodTokens, TokenTable
    <3>2. stat' = Nil => \A h \in TokenHolder : accounts'[h] = Nil
      BY <1>1 DEF GoodTokens
    <3>3. stat' \in TLOS!currency_stats \cup {Nil}
      BY <1>1, <1>2 DEF BooksInv, HoldsInv, HeldBut, TLOS!TypeOK
    <3>4. QED
      BY <3>1, <3>2, <3>3 DEF TLOS!TypeOK, TLOS!Owners, TokenHolder
  <2>3. TLOS!Balance(STAKE_ACCOUNT)' = Bal(u.tlos, STAKE_ACCOUNT)
    BY <1>1 DEF TLOS!Balance, Bal
  <2>4. QED
    BY <1>1, <2>1, <2>2, <2>3 DEF HoldsInv, HeldBut
<1>8. ClockInv'
  BY <1>1, <1>2 DEF BooksInv, ClockInv
<1>9. QED
  BY <1>4, <1>5, <1>6, <1>7, <1>8 DEF BooksInv

\* So it is when distviarex takes nothing.
LEMMA CommitKeeps ==
  ASSUME ContractInv, NEW u, Commit(u), loan_num' \in Nat,
         GoodPool(u.pool, u.balances, u.loans), GoodLoans(u.loans, loan_num'),
         GoodRows(u.balances, u.orders), GoodOrders(u.balances, u.orders), u.funds \in FundTable,
         GoodTotals(u.totals, u.limits), GoodTokens(u.tlos), u.retained \in Nat,
         Debt(u) = 0, Spare(u) = Spare(Tables), UNCHANGED <<taken, bidVars>>,
         voters' \in VoterTable, del_bandwidth' \in DelTable, unweighed' \in [Account -> Int],
         \A a \in Account :
           /\ StakedIn(voters'[a]) = StakeOf(del_bandwidth', a) + Weight(u, a) - unweighed'[a]
           /\ voters'[a] = Nil => u.balances[a] = Nil
           /\ Own(u, a, "net") = NetTo(del_bandwidth', a)
           /\ Own(u, a, "cpu") = CpuTo(del_bandwidth', a),
         Bal(u.tlos, STAKE_ACCOUNT) + taken[STAKE_ACCOUNT] = StakeOfAll(del_bandwidth') + OwedIn(refunds)
  PROVE  BooksInv'
<1>1. /\ taken' \in [SystemAccounts -> Nat] /\ UNCHANGED bidVars
      /\ Spare(u) + taken'[NAMES_ACCOUNT] = Spare(Tables) + taken[NAMES_ACCOUNT]
      /\ Bal(u.tlos, STAKE_ACCOUNT) + taken'[STAKE_ACCOUNT] = StakeOfAll(del_bandwidth') + OwedIn(refunds)
  BY DEF ContractInv, BooksInv, HoldsInv
<1>2. QED
  BY <1>1, CommitTakes

\* The market for RAM is right when nobody's RAM changes.
LEMMA RamTaken ==
  ASSUME RamInv, UNCHANGED ram,
         Bal(accounts', RAM_ACCOUNT) + taken'[RAM_ACCOUNT] = Bal(accounts, RAM_ACCOUNT) + taken[RAM_ACCOUNT],
         \A a \in Account : /\ Totals(userres'[a]).ram_bytes = Totals(userres[a]).ram_bytes
                            /\ 0 < Totals(userres[a]).ram_bytes /\ "ram_managed" \notin Flags(voters[a])
                                 => limits'[a].ram = limits[a].ram
                            /\ "ram_managed" \in Flags(voters[a]) => "ram_managed" \in Flags(voters'[a])
  PROVE  RamInv'
<1>1. SumBytes(userres') = SumBytes(userres)
  <2> DEFINE f == [a \in Account |-> Totals(userres[a]).ram_bytes]
             g == [a \in Account |-> Totals(userres'[a]).ram_bytes]
  <2>1. \A a \in Account : f[a] = g[a]
    OBVIOUS
  <2>2. SumFunctionOnSet(f, Account) = SumFunctionOnSet(g, Account)
    <3> HIDE DEF f, g
    <3>1. QED
      BY <2>1, VotingFinite, SumEqual
  <2>3. QED
    BY <2>2 DEF SumBytes
<1>2. GoodMarket(ram')
  BY DEF RamInv
<1>3. ASSUME NEW a \in Account, 0 < Totals(userres'[a]).ram_bytes, "ram_managed" \notin Flags(voters'[a])
      PROVE  limits'[a].ram = Totals(userres'[a]).ram_bytes + ram_gift_bytes
  <2>1. 0 < Totals(userres[a]).ram_bytes /\ "ram_managed" \notin Flags(voters[a])
    BY <1>3
  <2>2. limits[a].ram = Totals(userres[a]).ram_bytes + ram_gift_bytes
    BY <2>1 DEF RamInv
  <2>3. QED
    BY <2>1, <2>2
<1>4. QED
  BY <1>1, <1>2, <1>3 DEF RamInv, GoodMarket

\* Neither does what eosio.ram holds.
LEMMA RamKept ==
  ASSUME RamInv, UNCHANGED <<ram, taken>>, Bal(accounts', RAM_ACCOUNT) = Bal(accounts, RAM_ACCOUNT),
         \A a \in Account : /\ Totals(userres'[a]).ram_bytes = Totals(userres[a]).ram_bytes
                            /\ 0 < Totals(userres[a]).ram_bytes /\ "ram_managed" \notin Flags(voters[a])
                                 => limits'[a].ram = limits[a].ram
                            /\ "ram_managed" \in Flags(voters[a]) => "ram_managed" \in Flags(voters'[a])
  PROVE  RamInv'
BY RamTaken

\* So it is with an action for one owner, whose stake in votes follows.
LEMMA OwnerKeeps ==
  ASSUME ContractInv, NEW u, Commit(u), Good(u), Debt(u) = 0, NEW owner \in Account,
         Only(Tables, u, owner), UNCHANGED <<loan_num, taken, del_bandwidth, bidVars, ram>>,
         voters' \in VoterTable, \A a \in Account : a # owner => voters'[a] = voters[a],
         Flags(voters'[owner]) = Flags(voters[owner]),
         unweighed' \in [Account -> Int], \A a \in Account : a # owner => unweighed'[a] = unweighed[a],
         StakedIn(voters'[owner]) - StakedIn(voters[owner])
           = Weight(u, owner) - Weight(Tables, owner) - (unweighed'[owner] - unweighed[owner]),
         voters'[owner] = Nil => u.balances[owner] = Nil
  PROVE  ContractInv'
<1>1. /\ Shape(Tables) /\ Good(Tables) /\ Tables.balances = rexbalance /\ Tables.totals = userres
      /\ Tables.limits = limits /\ Tables.tlos = accounts /\ voters \in VoterTable
  BY TablesAre
<1>2. BooksInv /\ RamInv /\ WeightInv /\ HoldsInv
  BY DEF ContractInv, BooksInv
<1>3. /\ Elsewhere(Tables, u)
      /\ \A a \in Account : OwnsAs(Tables, u, a) /\ (a # owner => WeighsAs(Tables, u, a))
  BY DEF Only
<1>4. /\ RexStake(u.balances[owner]) \in Int /\ ChangeOf(u.orders[owner]) \in Int
      /\ RexStake(Tables.balances[owner]) \in Int /\ ChangeOf(Tables.orders[owner]) \in Int
  BY <1>1, TableNumbers
<1>5. Weight(u, owner) \in Int /\ Weight(Tables, owner) \in Int
  BY <1>4 DEF Weight
<1>6. /\ StakedIn(voters'[owner]) \in Int /\ StakedIn(voters[owner]) \in Int
      /\ unweighed'[owner] \in Int /\ unweighed[owner] \in Int /\ StakeOf(del_bandwidth, owner) \in Int
  <2>1. voters'[owner] \in voter_info \cup {Nil} /\ voters[owner] \in voter_info \cup {Nil}
    BY <1>1 DEF VoterTable
  <2>2. StakeOf(del_bandwidth, owner) \in Nat /\ unweighed \in [Account -> Int]
    BY <1>2, StakeNat DEF WeightInv
  <2>3. QED
    BY <2>1, <2>2, BaseIs
<1>7. ASSUME NEW a \in Account
      PROVE  /\ StakedIn(voters'[a]) = StakeOf(del_bandwidth', a) + Weight(u, a) - unweighed'[a]
             /\ voters'[a] = Nil => u.balances[a] = Nil
             /\ Own(u, a, "net") = NetTo(del_bandwidth', a)
             /\ Own(u, a, "cpu") = CpuTo(del_bandwidth', a)
  <2>1. /\ StakedIn(voters[a]) = StakeOf(del_bandwidth, a) + Weight(Tables, a) - unweighed[a]
        /\ voters[a] = Nil => rexbalance[a] = Nil
        /\ Own(Tables, a, "net") = NetTo(del_bandwidth, a)
        /\ Own(Tables, a, "cpu") = CpuTo(del_bandwidth, a)
    BY <1>2 DEF WeightInv
  <2>2. OwnsAs(Tables, u, a)
    BY <1>3
  <2>3. Own(u, a, "net") = NetTo(del_bandwidth', a) /\ Own(u, a, "cpu") = CpuTo(del_bandwidth', a)
    BY <2>1, <2>2 DEF OwnsAs
  <2>4. CASE a = owner
    <3>1. StakedIn(voters[owner])
            = StakeOf(del_bandwidth, owner) + Weight(Tables, owner) - unweighed[owner]
      BY <2>1, <2>4
    <3> DEFINE old == StakedIn(voters[owner])
               new == StakedIn(voters'[owner])
               before == Weight(Tables, owner)
               after == Weight(u, owner)
               stake == StakeOf(del_bandwidth, owner)
               x == unweighed[owner]
               y == unweighed'[owner]
    <3>2. /\ old = stake + before - x
          /\ new - old = after - before - (y - x)
          /\ old \in Int /\ new \in Int /\ before \in Int /\ after \in Int /\ stake \in Int
          /\ x \in Int /\ y \in Int
      BY <1>5, <1>6, <3>1
    <3> HIDE DEF old, new, before, after, stake, x, y
    <3>3. new = stake + after - y
      BY <3>2
    <3>4. StakedIn(voters'[a]) = StakeOf(del_bandwidth', a) + Weight(u, a) - unweighed'[a]
      BY <2>4, <3>3 DEF new, stake, after, y
    <3>5. QED
      BY <2>3, <2>4, <3>4
  <2>5. CASE a # owner
    <3>1. voters'[a] = voters[a] /\ unweighed'[a] = unweighed[a] /\ WeighsAs(Tables, u, a)
      BY <1>3, <2>5
    <3>2. QED
      BY <1>1, <2>1, <2>3, <3>1 DEF WeighsAs
  <2>6. QED
    BY <2>4, <2>5
<1>8. Bal(u.tlos, STAKE_ACCOUNT) + taken[STAKE_ACCOUNT] = StakeOfAll(del_bandwidth') + OwedIn(refunds)
  BY <1>1, <1>2, <1>3, HoldsIs DEF Elsewhere
<1>9. Spare(u) = Spare(Tables)
  BY <1>3 DEF Elsewhere
<1>10. BooksInv'
  <2>1. /\ GoodPool(u.pool, u.balances, u.loans) /\ GoodLoans(u.loans, loan_num')
        /\ GoodRows(u.balances, u.orders) /\ GoodOrders(u.balances, u.orders)
        /\ u.funds \in FundTable
        /\ GoodTotals(u.totals, u.limits) /\ GoodTokens(u.tlos) /\ u.retained \in Nat
    BY DEF Good
  <2>2. /\ loan_num' \in Nat /\ del_bandwidth' \in DelTable /\ UNCHANGED <<taken, bidVars>>
    BY <1>2 DEF BooksInv, WeightInv
  <2>3. QED
    BY <1>7, <1>8, <1>9, <2>1, <2>2, CommitKeeps
<1>11. RamInv'
  <2>1. accounts' = u.tlos /\ userres' = u.totals /\ limits' = u.limits
    BY CommitIs
  <2>2. ASSUME NEW a \in Account
        PROVE  /\ Totals(userres'[a]).ram_bytes = Totals(userres[a]).ram_bytes
               /\ limits'[a].ram = limits[a].ram
               /\ "ram_managed" \in Flags(voters[a]) => "ram_managed" \in Flags(voters'[a])
    BY <1>1, <1>3, <2>1 DEF OwnsAs
  <2>3. Bal(accounts', RAM_ACCOUNT) = Bal(accounts, RAM_ACCOUNT)
    BY <1>1, <1>3, <2>1 DEF Elsewhere
  <2>4. UNCHANGED <<ram, taken>>
    OBVIOUS
  <2>5. QED
    BY <1>2, <2>2, <2>3, <2>4, RamKept
<1>12. QED
  BY <1>10, <1>11 DEF ContractInv

\* And with one for nobody's stake in votes.
LEMMA SameKeeps ==
  ASSUME ContractInv, NEW u, Commit(u), Good(u), Debt(u) = 0, Same(Tables, u),
         VotesKept, LoansCounted, UNCHANGED <<bidVars, ram>>
  PROVE  ContractInv'
<1>1. /\ Shape(Tables) /\ Tables.balances = rexbalance /\ voters \in VoterTable
  BY TablesAre
<1>2. WeightInv
  BY DEF ContractInv, BooksInv
<1>3. CASE Account = {}
  <2>1. BooksInv'
    <3>1. /\ GoodPool(u.pool, u.balances, u.loans) /\ GoodLoans(u.loans, loan_num')
          /\ GoodRows(u.balances, u.orders) /\ GoodOrders(u.balances, u.orders)
          /\ u.funds \in FundTable
          /\ GoodTotals(u.totals, u.limits) /\ GoodTokens(u.tlos) /\ u.retained \in Nat
      BY DEF Good, LoansCounted
    <3>2. /\ loan_num' \in Nat /\ del_bandwidth' \in DelTable /\ UNCHANGED <<taken, bidVars>>
          /\ voters' \in VoterTable /\ unweighed' \in [Account -> Int]
      BY <1>1, <1>2 DEF ContractInv, BooksInv, WeightInv, LoansCounted, VotesKept
    <3>3. Spare(u) = Spare(Tables) /\ Bal(u.tlos, STAKE_ACCOUNT) = Bal(accounts, STAKE_ACCOUNT)
      BY TablesAre DEF Same, Elsewhere
    <3>4. Bal(u.tlos, STAKE_ACCOUNT) + taken[STAKE_ACCOUNT] = StakeOfAll(del_bandwidth') + OwedIn(refunds)
      BY <3>3, HoldsIs DEF ContractInv, BooksInv, LoansCounted
    <3>5. QED
      BY <1>3, <3>1, <3>2, <3>3, <3>4, CommitKeeps
  <2>2. RamInv'
    <3>1. accounts' = u.tlos /\ Tables.tlos = accounts
      BY CommitIs, TablesAre
    <3>2. Bal(accounts', RAM_ACCOUNT) = Bal(accounts, RAM_ACCOUNT)
      BY <3>1 DEF Same, Elsewhere
    <3>3. UNCHANGED <<ram, taken>>
      BY DEF LoansCounted
    <3>4. QED
      BY <1>3, <3>2, <3>3, RamKept DEF ContractInv
  <2>3. QED
    BY <2>1, <2>2 DEF ContractInv
<1>4. CASE Account # {}
  <2>1. PICK owner \in Account : TRUE
    BY <1>4
  <2>2. Only(Tables, u, owner) /\ WeighsAs(Tables, u, owner)
    BY SameOnly DEF Same
  <2>3. /\ voters' = voters /\ unweighed' = unweighed /\ UNCHANGED <<loan_num, taken, del_bandwidth>>
    BY DEF VotesKept, LoansCounted
  <2>4. /\ Weight(u, owner) \in Int /\ Weight(Tables, owner) \in Int
        /\ StakedIn(voters[owner]) \in Int /\ unweighed[owner] \in Int
    <3>1. /\ RexStake(u.balances[owner]) \in Int /\ ChangeOf(u.orders[owner]) \in Int
          /\ RexStake(Tables.balances[owner]) \in Int /\ ChangeOf(Tables.orders[owner]) \in Int
      BY TablesAre, TableNumbers
    <3>2. voters[owner] \in voter_info \cup {Nil}
      BY <1>1 DEF VoterTable
    <3>3. QED
      BY <1>2, <3>1, <3>2, BaseIs DEF Weight, WeightInv
  <2>5. /\ StakedIn(voters'[owner]) - StakedIn(voters[owner])
             = Weight(u, owner) - Weight(Tables, owner) - (unweighed'[owner] - unweighed[owner])
        /\ voters'[owner] = Nil => u.balances[owner] = Nil
    BY <1>1, <1>2, <2>2, <2>3, <2>4 DEF WeighsAs, WeightInv
  <2>6. unweighed' \in [Account -> Int] /\ voters' \in VoterTable
    BY <1>1, <1>2, <2>3 DEF WeightInv
  <2>7. QED
    BY <2>2, <2>3, <2>5, <2>6, OwnerKeeps
<1>5. QED
  BY <1>3, <1>4

\* Votes that are brought up to date with the REX of their owner weigh it.
LEMMA ReweighedKeeps ==
  ASSUME ContractInv, NEW u, Commit(u), Good(u), Debt(u) = 0, NEW owner \in Account,
         Only(Tables, u, owner), UNCHANGED <<loan_num, taken, del_bandwidth, bidVars, ram>>,
         NEW t, Good(t), NEW delta \in Int, NEW force, Reweigh(t, owner, delta, force),
         NEW more \in Int, unweighed' \in [Account -> Int], unweighed'[owner] = unweighed[owner] + more,
         \A a \in Account : a # owner => unweighed'[a] = unweighed[a],
         delta + ChangeOf(t.orders[owner]) = Weight(u, owner) - Weight(Tables, owner) - more,
         voters[owner] = Nil /\ ~force /\ delta + ChangeOf(t.orders[owner]) = 0 =>
           u.balances[owner] = Nil
  PROVE  ContractInv'
<1>1. voters \in VoterTable
  BY TablesAre
<1>2. ChangeOf(t.orders[owner]) \in Int
  BY TableNumbers
<1>3. /\ voters' \in VoterTable /\ (\A a \in Account : a # owner => voters'[a] = voters[a])
      /\ StakedIn(voters'[owner]) = StakedIn(voters[owner]) + delta + ChangeOf(t.orders[owner])
      /\ Flags(voters'[owner]) = Flags(voters[owner])
      /\ voters[owner] # Nil => voters'[owner] # Nil
      /\ force \/ delta + ChangeOf(t.orders[owner]) # 0 => voters'[owner] # Nil
  BY <1>1, <1>2, ReweighIs
<1>4. StakedIn(voters[owner]) \in Int /\ unweighed[owner] \in Int
  <2>1. voters[owner] \in voter_info \cup {Nil}
    BY <1>1 DEF VoterTable
  <2>2. QED
    BY <2>1, BaseIs DEF ContractInv, BooksInv, WeightInv
<1> DEFINE change == delta + ChangeOf(t.orders[owner])
<1>5. StakedIn(voters'[owner]) - StakedIn(voters[owner]) = change
  BY <1>2, <1>3, <1>4
<1>6. unweighed'[owner] - unweighed[owner] = more
  BY <1>4
<1>7. StakedIn(voters'[owner]) - StakedIn(voters[owner])
        = Weight(u, owner) - Weight(Tables, owner) - (unweighed'[owner] - unweighed[owner])
  BY <1>5, <1>6
<1>8. voters'[owner] = Nil => u.balances[owner] = Nil
  BY <1>3
<1>9. QED
  BY <1>3, <1>7, <1>8, OwnerKeeps

\* Without history.
LEMMA PlainlyReweighed ==
  ASSUME ContractInv, NEW u, Commit(u), Good(u), Debt(u) = 0, NEW owner \in Account,
         Only(Tables, u, owner), LoansCounted, UNCHANGED <<bidVars, ram>>,
         NEW t, Good(t), NEW delta \in Int, NEW force, Reweigh(t, owner, delta, force),
         delta + ChangeOf(t.orders[owner]) = Weight(u, owner) - Weight(Tables, owner),
         force \/ (voters[owner] = Nil => u.balances[owner] = Nil)
  PROVE  ContractInv'
<1> DEFINE more == 0
<1>1. more \in Int /\ unweighed' \in [Account -> Int] /\ unweighed'[owner] = unweighed[owner] + more
  BY DEF LoansCounted, ContractInv, BooksInv, WeightInv
<1>2. (\A a \in Account : a # owner => unweighed'[a] = unweighed[a])
      /\ UNCHANGED <<loan_num, taken, del_bandwidth, bidVars, ram>>
  BY DEF LoansCounted
<1>3. delta + ChangeOf(t.orders[owner]) = Weight(u, owner) - Weight(Tables, owner) - more
  <2>1. ChangeOf(t.orders[owner]) \in Int
    BY TableNumbers
  <2>2. QED
    BY <2>1
<1> HIDE DEF more
<1>4. QED
  BY <1>1, <1>2, <1>3, ReweighedKeeps

-----------------------------------------------------------------------------
(* Funds of REX *)

\* Tokens that go between a user and eosio.rex.
LEMMA SentKeepsRest ==
  ASSUME NEW t, Shape(t), Good(t), NEW from \in TokenHolder, NEW to \in TokenHolder, from # to,
         from \in Account \cup {REX_ACCOUNT}, to \in Account \cup {REX_ACCOUNT},
         NEW amount \in Int, Alive(Sent(t, from, to, amount))
  PROVE  LET u == Sent(t, from, to, amount)
         IN Elsewhere(t, u) /\ \A a \in Account : WeighsAs(t, u, a) /\ OwnsAs(t, u, a)
<1> DEFINE u == Sent(t, from, to, amount)
<1>1. /\ u.pool = t.pool /\ u.balances = t.balances /\ u.orders = t.orders /\ u.loans = t.loans
      /\ u.totals = t.totals /\ u.limits = t.limits /\ u.retained = t.retained
      /\ \A h \in TokenHolder :
           Bal(u.tlos, h) = Bal(t.tlos, h) - (IF h = from THEN amount ELSE 0)
                                           + (IF h = to THEN amount ELSE 0)
  BY SentKeeps
<1> HIDE DEF u
<1>2. \A h \in SystemAccounts \ {REX_ACCOUNT} : h # from /\ h # to /\ h \in TokenHolder
  BY HoldersApart
<1>3. \A h \in TokenHolder : Bal(t.tlos, h) \in Int
  BY TableNumbers
<1>4. \A h \in SystemAccounts \ {REX_ACCOUNT} : Bal(u.tlos, h) = Bal(t.tlos, h)
  BY <1>1, <1>2, <1>3
<1>5. /\ Bal(u.tlos, NAMES_ACCOUNT) = Bal(t.tlos, NAMES_ACCOUNT)
      /\ Bal(u.tlos, RAM_ACCOUNT) = Bal(t.tlos, RAM_ACCOUNT)
      /\ Bal(u.tlos, STAKE_ACCOUNT) = Bal(t.tlos, STAKE_ACCOUNT)
  BY <1>4, HoldersApart DEF SystemAccounts
<1>6. Elsewhere(t, u)
  BY <1>1, <1>5 DEF Elsewhere, Spare
<1>7. \A a \in Account : WeighsAs(t, u, a) /\ OwnsAs(t, u, a)
  BY <1>1, WeighsFrame, OwnsFrame
<1>8. QED
  BY <1>6, <1>7 DEF u

\* deposit
LEMMA DepositKeeps ==
  ASSUME ContractInv, NEW owner \in Account, NEW amount \in Nat, Deposit(owner, amount),
         UNCHANGED <<bidVars, ram>>
  PROVE  ContractInv'
<1> DEFINE s == Sent(Tables, owner, REX_ACCOUNT, amount)
           u == ToFund(s, owner, amount)
<1>1. Shape(Tables) /\ Good(Tables) /\ Debt(Tables) = 0
  BY TablesAre
<1>2. Commit(u) /\ VotesKept /\ LoansCounted
  BY DEF Deposit
<1>3. Shape(s)
  BY <1>1, SentIs
<1>4. /\ Alive(u) <=> Alive(s)
      /\ u.pool = s.pool /\ u.balances = s.balances /\ u.orders = s.orders
      /\ u.loans = s.loans /\ u.totals = s.totals /\ u.limits = s.limits /\ u.tlos = s.tlos
      /\ u.retained = s.retained
      /\ Good(s) => Good(u) /\ Debt(u) = Debt(s) - amount
  <2> HIDE DEF s
  <2>1. QED
    BY <1>3, ToFundIs
<1>5. Alive(s)
  <2> HIDE DEF s, u
  <2>1. QED
    BY <1>2, <1>4, CommitIs
<1>6. /\ owner \in TokenHolder /\ REX_ACCOUNT \in TokenHolder /\ owner # REX_ACCOUNT
      /\ owner \in Account \cup {REX_ACCOUNT} /\ REX_ACCOUNT \in Account \cup {REX_ACCOUNT}
  BY HoldersApart DEF SystemAccounts
<1>7. Good(s) /\ Debt(s) = amount
  BY <1>1, <1>5, <1>6, SentKeeps
<1>8. Elsewhere(Tables, s) /\ \A a \in Account : WeighsAs(Tables, s, a) /\ OwnsAs(Tables, s, a)
  BY <1>1, <1>5, <1>6, SentKeepsRest
<1> HIDE DEF s, u
<1>9. Good(u) /\ Debt(u) = 0
  BY <1>4, <1>7
<1>10. Same(Tables, u)
  <2>1. Elsewhere(s, u) /\ \A a \in Account : WeighsAs(s, u, a) /\ OwnsAs(s, u, a)
    BY <1>4, ElsewhereFrame, WeighsFrame, OwnsFrame
  <2>2. QED
    BY <1>1, <1>8, <1>9, <2>1 DEF Same, Elsewhere, WeighsAs, OwnsAs
<1>11. QED
  BY <1>2, <1>9, <1>10, SameKeeps

\* What distviarex takes of the contract's own accounts is in the history.
LEMMA HistoryIs ==
  ASSUME taken \in [SystemAccounts -> Nat], NEW from \in Payer, NEW amount \in Nat
  PROVE  /\ Taken(from, amount) \in [SystemAccounts -> Nat]
         /\ \A h \in SystemAccounts : Taken(from, amount)[h] =
              taken[h] + (IF h = from /\ rex_available(rexpool) THEN amount ELSE 0)
<1>1. CASE from \in SystemAccounts /\ rex_available(rexpool)
  <2>1. Taken(from, amount) = [taken EXCEPT ![from] = @ + amount]
    BY <1>1 DEF Taken
  <2>2. QED
    BY <1>1, <2>1
<1>2. CASE ~ (from \in SystemAccounts /\ rex_available(rexpool))
  <2>1. Taken(from, amount) = taken
    BY <1>2 DEF Taken
  <2>2. QED
    BY <1>2, <2>1
<1>3. QED
  BY <1>1, <1>2

\* distviarex, of whomever
LEMMA DistViaRexKeeps ==
  ASSUME ContractInv, NEW from \in Payer, NEW amount \in Nat, DistViaRex(from, amount),
         UNCHANGED <<bidVars, ram>>
  PROVE  ContractInv'
<1> DEFINE u == channel_to_rex(Tables, from, amount)
<1>1. /\ Shape(Tables) /\ Good(Tables) /\ Debt(Tables) = 0 /\ Tables.balances = rexbalance
      /\ Tables.totals = userres /\ Tables.limits = limits /\ Tables.tlos = accounts
      /\ Tables.pool = rexpool /\ voters \in VoterTable
  BY TablesAre
<1>2. /\ Commit(u) /\ taken' = Taken(from, amount) /\ VotesKept
      /\ UNCHANGED <<loan_num, unweighed, del_bandwidth>>
  BY DEF DistViaRex
<1>3. Alive(u)
  <2> HIDE DEF u
  <2>1. QED
    BY <1>2, CommitIs
<1>4. /\ u.balances = Tables.balances
      /\ u.orders = Tables.orders /\ u.loans = Tables.loans /\ u.totals = Tables.totals
      /\ u.limits = Tables.limits /\ u.retained = Tables.retained
  BY <1>1, ChannelIs
<1>5. from \in TokenHolder /\ from # REX_ACCOUNT
  BY HoldersApart DEF Payer, SystemAccounts, TokenHolder
<1>6. /\ Good(u) /\ Debt(u) = Debt(Tables)
      /\ PoolOf(u.pool).namebid_proceeds = PoolOf(Tables.pool).namebid_proceeds
      /\ \A h \in TokenHolder : h # REX_ACCOUNT =>
           Bal(u.tlos, h) = Bal(Tables.tlos, h)
             - (IF h = from /\ rex_available(Tables.pool) THEN amount ELSE 0)
  BY <1>1, <1>3, <1>5, ChannelKeeps
<1> HIDE DEF u
<1>7. BooksInv /\ RamInv /\ WeightInv /\ HoldsInv /\ taken \in [SystemAccounts -> Nat]
  BY DEF ContractInv, BooksInv, HoldsInv
<1>8. taken' \in [SystemAccounts -> Nat]
  BY <1>2, <1>7, HistoryIs
<1>9. ASSUME NEW h \in SystemAccounts, h # REX_ACCOUNT
      PROVE  Bal(u.tlos, h) + taken'[h] = Bal(accounts, h) + taken[h]
  <2>1. h \in TokenHolder
    BY HoldersApart
  <2>2. Bal(Tables.tlos, h) \in Int
    BY <1>1, <2>1, TableNumbers
  <2>3. taken'[h] = taken[h] + (IF h = from /\ rex_available(rexpool) THEN amount ELSE 0)
    BY <1>2, <1>7, HistoryIs
  <2>4. taken[h] \in Nat
    BY <1>7
  <2>5. QED
    BY <1>1, <1>6, <1>9, <2>1, <2>2, <2>3, <2>4
<1>10. \A h \in {STAKE_ACCOUNT, NAMES_ACCOUNT, RAM_ACCOUNT} : h \in SystemAccounts /\ h # REX_ACCOUNT
  BY HoldersApart DEF SystemAccounts
<1>11. /\ Bal(u.tlos, STAKE_ACCOUNT) + taken'[STAKE_ACCOUNT] = StakeOfAll(del_bandwidth') + OwedIn(refunds)
       /\ Bal(u.tlos, RAM_ACCOUNT) + taken'[RAM_ACCOUNT] = Bal(accounts, RAM_ACCOUNT) + taken[RAM_ACCOUNT]
  BY <1>2, <1>7, <1>9, <1>10, HoldsIs
<1>12. Spare(u) + taken'[NAMES_ACCOUNT] = Spare(Tables) + taken[NAMES_ACCOUNT]
  <2>1. Bal(u.tlos, NAMES_ACCOUNT) + taken'[NAMES_ACCOUNT] = Bal(Tables.tlos, NAMES_ACCOUNT) + taken[NAMES_ACCOUNT]
    BY <1>1, <1>9, <1>10
  <2>2. /\ Bal(u.tlos, NAMES_ACCOUNT) \in Int /\ Bal(Tables.tlos, NAMES_ACCOUNT) \in Int
        /\ taken[NAMES_ACCOUNT] \in Nat /\ taken'[NAMES_ACCOUNT] \in Nat
        /\ PoolOf(Tables.pool).namebid_proceeds \in Int /\ Tables.retained \in Int
    <3>1. NAMES_ACCOUNT \in TokenHolder /\ NAMES_ACCOUNT \in SystemAccounts
      BY HoldersApart DEF SystemAccounts
    <3>2. Bal(u.tlos, NAMES_ACCOUNT) \in Int /\ Bal(Tables.tlos, NAMES_ACCOUNT) \in Int
      BY <1>1, <1>6, <3>1, TableNumbers
    <3>3. PoolOf(Tables.pool).namebid_proceeds \in Int /\ Tables.retained \in Int
      <4>1. Tables.pool \in rex_pool \cup {Nil} /\ Tables.retained \in Int
        BY <1>1 DEF Good, GoodPool
      <4>2. QED
        BY <4>1 DEF PoolOf, NoPool, rex_pool
    <3>4. QED
      BY <1>7, <1>8, <3>1, <3>2, <3>3
  <2>3. QED
    BY <1>4, <1>6, <2>1, <2>2 DEF Spare
<1>13. ASSUME NEW a \in Account
       PROVE  OwnsAs(Tables, u, a) /\ WeighsAs(Tables, u, a)
  BY <1>4, WeighsFrame, OwnsFrame
<1>14. ASSUME NEW a \in Account
       PROVE  /\ StakedIn(voters'[a]) = StakeOf(del_bandwidth', a) + Weight(u, a) - unweighed'[a]
              /\ voters'[a] = Nil => u.balances[a] = Nil
              /\ Own(u, a, "net") = NetTo(del_bandwidth', a)
              /\ Own(u, a, "cpu") = CpuTo(del_bandwidth', a)
  <2>1. /\ StakedIn(voters[a]) = StakeOf(del_bandwidth, a) + Weight(Tables, a) - unweighed[a]
        /\ voters[a] = Nil => rexbalance[a] = Nil
        /\ Own(Tables, a, "net") = NetTo(del_bandwidth, a)
        /\ Own(Tables, a, "cpu") = CpuTo(del_bandwidth, a)
    BY <1>7 DEF WeightInv
  <2>2. voters' = voters
    BY <1>2 DEF VotesKept
  <2>3. QED
    BY <1>1, <1>2, <1>4, <1>13, <2>1, <2>2 DEF OwnsAs, WeighsAs
<1>15. BooksInv'
  <2>1. /\ GoodPool(u.pool, u.balances, u.loans) /\ GoodLoans(u.loans, loan_num')
        /\ GoodRows(u.balances, u.orders) /\ GoodOrders(u.balances, u.orders)
        /\ u.funds \in FundTable
        /\ GoodTotals(u.totals, u.limits) /\ GoodTokens(u.tlos) /\ u.retained \in Nat
    BY <1>2, <1>6 DEF Good
  <2>2. /\ loan_num' \in Nat /\ voters' \in VoterTable /\ del_bandwidth' \in DelTable
        /\ unweighed' \in [Account -> Int] /\ UNCHANGED bidVars
    BY <1>1, <1>2, <1>7 DEF BooksInv, WeightInv, VotesKept
  <2>3. Debt(u) = 0
    BY <1>1, <1>6
  <2>4. QED
    BY <1>2, <1>8, <1>11, <1>12, <1>14, <2>1, <2>2, <2>3, CommitTakes
<1>16. RamInv'
  <2>1. accounts' = u.tlos /\ userres' = u.totals /\ limits' = u.limits
    BY <1>2, CommitIs
  <2>2. ASSUME NEW a \in Account
        PROVE  /\ Totals(userres'[a]).ram_bytes = Totals(userres[a]).ram_bytes
               /\ limits'[a].ram = limits[a].ram
               /\ "ram_managed" \in Flags(voters[a]) => "ram_managed" \in Flags(voters'[a])
    BY <1>1, <1>2, <1>4, <2>1 DEF VotesKept
  <2>3. Bal(accounts', RAM_ACCOUNT) + taken'[RAM_ACCOUNT] = Bal(accounts, RAM_ACCOUNT) + taken[RAM_ACCOUNT]
    BY <1>11, <2>1
  <2>4. QED
    BY <1>7, <2>2, <2>3, RamTaken
<1>17. QED
  BY <1>15, <1>16 DEF ContractInv

\* withdraw
LEMMA WithdrawKeeps ==
  ASSUME ContractInv, NEW owner \in Account, NEW amount \in Nat, Withdraw(owner, amount),
         UNCHANGED <<bidVars, ram>>
  PROVE  ContractInv'
<1> DEFINE s == Settled(Tables, owner, 0)
           f == FromFund(s, owner, amount)
           u == Sent(f, REX_ACCOUNT, owner, amount)
<1>1. /\ Shape(Tables) /\ Good(Tables) /\ Debt(Tables) = 0 /\ Tables.orders \in OrderTable
      /\ Tables.balances = rexbalance
  BY TablesAre
<1>2. Commit(u) /\ Reweigh(Tables, owner, 0, FALSE) /\ LoansCounted
  BY DEF Withdraw
<1>3. /\ Shape(s) /\ s.balances = Tables.balances
      /\ Good(s) /\ Debt(s) = 0 - 0 /\ Only(Tables, s, owner) /\ ChangeOf(s.orders[owner]) = 0
  <2>1. 0 \in Nat
    OBVIOUS
  <2>2. QED
    BY <1>1, <2>1, SettledKeeps
<1> HIDE DEF s
<1>4. /\ Shape(f) /\ (Alive(f) => Alive(s) /\ HasFund(s, owner, amount))
      /\ f.pool = s.pool /\ f.balances = s.balances /\ f.orders = s.orders
      /\ f.loans = s.loans /\ f.totals = s.totals /\ f.limits = s.limits /\ f.tlos = s.tlos
      /\ f.retained = s.retained
      /\ Good(s) /\ Alive(f) => Good(f) /\ Debt(f) = Debt(s) + amount
  BY <1>3, FromFundIs
<1> HIDE DEF f
<1>5. Alive(u) /\ (Alive(u) => Alive(f))
  <2>1. Alive(u) => Alive(f)
    BY <1>4, SentIs
  <2> HIDE DEF u
  <2>2. QED
    BY <1>2, <2>1, CommitIs
<1>6. /\ owner \in TokenHolder /\ REX_ACCOUNT \in TokenHolder /\ owner # REX_ACCOUNT
      /\ owner \in Account \cup {REX_ACCOUNT} /\ REX_ACCOUNT \in Account \cup {REX_ACCOUNT}
  BY HoldersApart DEF SystemAccounts
<1>7. Good(f) /\ Debt(f) = amount
  BY <1>3, <1>4, <1>5
<1>8. Good(u) /\ Debt(u) = 0 /\ u.balances = f.balances /\ u.orders = f.orders
  BY <1>4, <1>5, <1>6, <1>7, SentKeeps
<1>9. Elsewhere(f, u) /\ \A a \in Account : WeighsAs(f, u, a) /\ OwnsAs(f, u, a)
  BY <1>4, <1>5, <1>6, <1>7, SentKeepsRest
<1> HIDE DEF u
<1>10. Only(Tables, u, owner)
  <2>1. Only(s, f, owner)
    BY <1>4, OnlyFrame
  <2>2. Only(f, u, owner)
    BY <1>9 DEF Only
  <2>3. QED
    BY <1>3, <2>1, <2>2, OnlyTwice
<1>11. u.balances[owner] = rexbalance[owner] /\ ChangeOf(u.orders[owner]) = 0
  BY <1>1, <1>3, <1>4, <1>8
<1> DEFINE delta == 0
<1>12. delta \in Int /\ delta + ChangeOf(Tables.orders[owner]) = Weight(u, owner) - Weight(Tables, owner)
  <2>1. RexStake(Tables.balances[owner]) \in Int /\ ChangeOf(Tables.orders[owner]) \in Int
    BY <1>1, TableNumbers
  <2>2. QED
    BY <1>1, <1>11, <2>1 DEF Weight
<1>13. voters[owner] = Nil => u.balances[owner] = Nil
  BY <1>11 DEF ContractInv, BooksInv, WeightInv
<1>14. Reweigh(Tables, owner, delta, FALSE) /\ LoansCounted
  BY <1>2
<1> HIDE DEF delta
<1>15. QED
  BY <1>1, <1>2, <1>8, <1>10, <1>12, <1>13, <1>14, PlainlyReweighed

-----------------------------------------------------------------------------
(* Buying REX *)

\* Settling an order fails nothing.
LEMMA SettledFrame ==
  ASSUME NEW t, Shape(t), NEW owner, NEW proceeds
  PROVE  LET u == Settled(t, owner, proceeds)
         IN Shape(u) /\ (Alive(u) <=> Alive(t)) /\ u.balances = t.balances
<1> DEFINE row == IF IsFilled(t, owner) THEN Nil ELSE t.orders[owner]
           cleared == [t EXCEPT !.orders[owner] = row]
           to_fund == proceeds + (IF IsFilled(t, owner) THEN t.orders[owner].proceeds ELSE 0)
           u == Settled(t, owner, proceeds)
<1>1. u = IF to_fund > 0 THEN ToFund(cleared, owner, to_fund) ELSE cleared
  BY DEF Settled, Shape
<1> HIDE DEF row, u, to_fund
<1>2. /\ Shape(cleared) /\ cleared.ok = t.ok /\ cleared.tlos = t.tlos
      /\ cleared.balances = t.balances
  BY DEF Shape
<1> HIDE DEF cleared
<1> DEFINE w == ToFund(cleared, owner, to_fund)
<1>3. /\ Shape(w) /\ w.ok = t.ok /\ w.tlos = t.tlos /\ w.balances = t.balances
  BY <1>2 DEF ToFund, Shape
<1> HIDE DEF w
<1>4. /\ Shape(u) /\ u.ok = t.ok /\ u.tlos = t.tlos /\ u.balances = t.balances
  BY <1>1, <1>2, <1>3 DEF w
<1>5. QED
  BY <1>4 DEF Alive, u

\* What is due is run, and then the owner's order is settled.
LEMMA RunSettled ==
  ASSUME NEW t, Shape(t), Good(t), NEW owner \in Account, Alive(runrex(t, 2))
  PROVE  LET run == runrex(t, 2)
             s == Settled(run, owner, 0)
         IN /\ Shape(run) /\ Good(run) /\ run.pool # Nil /\ t.pool # Nil
            /\ Same(t, run)
            /\ Shape(s) /\ Alive(s) /\ Good(s) /\ Debt(s) = Debt(t) /\ Only(t, s, owner)
            /\ s.pool = run.pool /\ s.balances = run.balances
            /\ s.loans = run.loans
            /\ s.orders[owner] = IF IsFilled(run, owner) THEN Nil ELSE run.orders[owner]
            /\ ChangeOf(s.orders[owner]) = 0
            /\ s.balances[owner] = Nil <=> t.balances[owner] = Nil
            /\ t.orders[owner] = Nil => ChangeOf(run.orders[owner]) = 0
            /\ RexStake(s.balances[owner])
                 = RexStake(t.balances[owner]) - ChangeOf(t.orders[owner]) + ChangeOf(run.orders[owner])
<1> DEFINE run == runrex(t, 2)
           s == Settled(run, owner, 0)
<1>1. Keeps(t, run) /\ t.pool # Nil
  <2>1. 2 \in Nat
    OBVIOUS
  <2>2. QED
    BY <2>1, RunKeeps
<1> HIDE DEF run
<1>2. Shape(run) /\ Good(run) /\ Same(t, run) /\ run.pool # Nil /\ Alive(run)
  BY <1>1 DEF Keeps, run
<1>3. /\ Shape(s) /\ (Alive(s) <=> Alive(run))
      /\ s.pool = run.pool /\ s.balances = run.balances /\ s.loans = run.loans
      /\ s.orders[owner] = IF IsFilled(run, owner) THEN Nil ELSE run.orders[owner]
      /\ Good(s) /\ Debt(s) = Debt(run) - 0 /\ Only(run, s, owner)
      /\ ChangeOf(s.orders[owner]) = 0
  <2>1. run.orders \in OrderTable /\ 0 \in Nat
    BY <1>2 DEF Good, GoodRows
  <2>2. QED
    BY <1>2, <2>1, SettledKeeps
<1> HIDE DEF s
<1>4. Debt(s) = Debt(t)
  <2>1. Debt(run) \in Int
    BY <1>2, DebtNumbers
  <2>2. QED
    BY <1>2, <1>3, <2>1 DEF Same
<1>5. Only(t, s, owner)
  BY <1>2, <1>3, SameOnly, OnlyTwice
<1>6. WeighsAs(t, run, owner)
  BY <1>2 DEF Same
<1>7. s.balances[owner] = Nil <=> t.balances[owner] = Nil
  BY <1>3, <1>6 DEF WeighsAs
<1>8. t.orders[owner] = Nil => ChangeOf(run.orders[owner]) = 0
  BY <1>6 DEF WeighsAs, ChangeOf
<1>9. RexStake(s.balances[owner])
        = RexStake(t.balances[owner]) - ChangeOf(t.orders[owner]) + ChangeOf(run.orders[owner])
  <2>1. /\ RexStake(t.balances[owner]) \in Int /\ ChangeOf(t.orders[owner]) \in Int
        /\ RexStake(run.balances[owner]) \in Int /\ ChangeOf(run.orders[owner]) \in Int
    BY <1>2, TableNumbers
  <2>2. QED
    BY <1>3, <1>6, <2>1 DEF WeighsAs, Weight
<1>10. QED
  BY <1>1, <1>2, <1>3, <1>4, <1>5, <1>7, <1>8, <1>9 DEF s, run

\* The first REX of an owner counts for what was paid.
LEMMA FirstRow ==
  ASSUME now \in Time, NEW pool, NEW payment \in Nat, NEW rex \in Nat
  PROVE  BoughtRow(pool, Nil, payment, rex).vote_stake = payment
<1> DEFINE held == [vote_stake |-> payment, rex_balance |-> rex, matured_rex |-> 0,
                    rex_maturities |-> NoBuckets]
           savings == Savings(held)
<1>1. BoughtRow(pool, Nil, payment, rex) = Maturing(held, rex, savings)
  BY DEF BoughtRow
<1>2. NoBuckets \in [Maturity -> Int] /\ \A m \in Maturity : NoBuckets[m] = 0
  BY DEF NoBuckets
<1>3. held \in rex_balance /\ held.vote_stake = payment /\ held.rex_maturities = NoBuckets
      /\ held.matured_rex = 0
  BY <1>2 DEF rex_balance
<1>4. savings \in Nat
  BY <1>2, <1>3, MaturityIs DEF Savings
<1>5. 0 <= held.matured_rex /\ \A m \in Maturity : 0 <= held.rex_maturities[m]
  BY <1>2, <1>3
<1> HIDE DEF held, savings
<1>6. Maturing(held, rex, savings).vote_stake = held.vote_stake
  BY <1>3, <1>4, <1>5, MaturingIs
<1>7. QED
  BY <1>1, <1>3, <1>6

\* REX is bought for a payment, what is due is run, and the buyer's order settled.
LEMMA BoughtSettled ==
  ASSUME NEW t, Shape(t), Good(t), now \in Time, NEW owner \in Account, NEW payment \in Nat,
         0 < payment, Alive(Settled(runrex(Bought(t, owner, payment), 2), owner, 0))
  PROVE  LET bought == Bought(t, owner, payment)
             run == runrex(bought, 2)
             u == Settled(run, owner, 0)
         IN /\ Good(run) /\ Good(u) /\ Debt(u) = Debt(t) - payment /\ Only(t, u, owner)
            /\ RexStake(bought.balances[owner]) \in Int
            /\ ChangeOf(u.orders[owner]) = 0 /\ u.balances[owner] # Nil
            /\ RexStake(u.balances[owner]) = RexStake(bought.balances[owner])
                 - ChangeOf(t.orders[owner]) + ChangeOf(run.orders[owner])
            /\ t.balances[owner] = Nil => /\ RexStake(bought.balances[owner]) = payment
                                          /\ ChangeOf(run.orders[owner]) = 0
<1> DEFINE bought == Bought(t, owner, payment)
           run == runrex(bought, 2)
           u == Settled(run, owner, 0)
           pool == AddToPool(t.pool, payment)
           rex == RexReceived(t.pool, payment)
<1>1. /\ Shape(bought) /\ (Alive(bought) => Alive(t))
      /\ bought.balances = [t.balances EXCEPT ![owner] =
                              BoughtRow(pool, t.balances[owner], payment, rex)]
      /\ bought.tlos = t.tlos
  BY BoughtPuts
<1> HIDE DEF bought, pool, rex
<1>2. Keeps(bought, run)
  <2>1. 2 \in Nat
    OBVIOUS
  <2>2. QED
    BY <1>1, <2>1, RunKeeps
<1>3. Shape(run) /\ (Alive(run) => Alive(bought))
  BY <1>2 DEF Keeps
<1>4. Alive(run) /\ Alive(bought)
  <2>1. Alive(u) <=> Alive(run)
    <3> HIDE DEF run
    <3>1. QED
      BY <1>3, SettledFrame
  <2>2. QED
    BY <1>3, <2>1 DEF bought
<1>5. /\ Good(bought) /\ Debt(bought) = Debt(t) - payment /\ Only(t, bought, owner)
      /\ bought.balances[owner] \in rex_balance /\ bought.orders = t.orders
  BY <1>4, BoughtKeeps DEF bought
<1>6. /\ Good(run) /\ Good(u) /\ Debt(u) = Debt(bought) /\ Only(bought, u, owner)
      /\ ChangeOf(u.orders[owner]) = 0
      /\ u.balances[owner] = Nil <=> bought.balances[owner] = Nil
      /\ bought.orders[owner] = Nil => ChangeOf(run.orders[owner]) = 0
      /\ RexStake(u.balances[owner]) = RexStake(bought.balances[owner])
           - ChangeOf(bought.orders[owner]) + ChangeOf(run.orders[owner])
  BY <1>1, <1>4, <1>5, RunSettled
<1> HIDE DEF u, run
<1>7. Only(t, u, owner) /\ u.balances[owner] # Nil
  BY <1>5, <1>6, OnlyTwice, NoRow
<1>8. RexStake(bought.balances[owner]) \in Int
  BY <1>5, TableNumbers
<1>9. ASSUME t.balances[owner] = Nil
      PROVE  RexStake(bought.balances[owner]) = payment /\ ChangeOf(run.orders[owner]) = 0
  <2>1. t.orders[owner] = Nil
    BY <1>9 DEF Good, GoodOrders, GoodOrder
  <2>2. rex \in Nat
    <3>1. /\ GoodPool(t.pool, t.balances, t.loans) /\ GoodLoans(t.loans, loan_num)
          /\ GoodRows(t.balances, t.orders)
      BY DEF Good
    <3>2. OnLoans(StakedBy, t.loans) \in Nat
      BY <3>1, LentNat
    <3>3. SumHeld(t.balances) \in Int /\ 0 <= SumHeld(t.balances)
      <4>1. HeldIn(t.balances[owner]) \in Nat /\ SumHeld(t.balances) \in Int
            /\ HeldIn(t.balances[owner]) <= SumHeld(t.balances)
        BY <3>1, HeldWithin
      <4>2. QED
        BY <4>1
    <3>4. rex_available(t.pool) => 0 < t.pool.total_lendable
      <4>1. rex_available(t.pool) => t.pool.total_lendable > 0
        BY <1>4, BoughtPuts DEF bought
      <4>2. t.pool \in rex_pool => t.pool.total_lendable \in Int
        BY DEF rex_pool
      <4>3. QED
        BY <3>1, <4>1, <4>2 DEF GoodPool, rex_available
    <3>5. QED
      BY <3>1, <3>2, <3>3, <3>4, AddToPoolIs DEF GoodPool, rex
  <2>3. t.balances \in RexTable
    BY DEF Good, GoodRows
  <2>4. bought.balances[owner] = BoughtRow(pool, Nil, payment, rex)
    BY <1>1, <1>9, <2>3 DEF RexTable
  <2>5. RexStake(bought.balances[owner]) = payment
    BY <1>5, <2>2, <2>4, NoRow, FirstRow DEF RexStake
  <2>6. QED
    BY <1>5, <1>6, <2>1, <2>5
<1>10. QED
  BY <1>5, <1>6, <1>7, <1>8, <1>9 DEF u, run, bought

\* buyrex
LEMMA BuyRexKeeps ==
  ASSUME ContractInv, NEW from \in Account, NEW amount \in Nat, BuyRex(from, amount),
         UNCHANGED <<bidVars, ram>>
  PROVE  ContractInv'
<1> DEFINE f == FromFund(Tables, from, amount)
           bought == Bought(f, from, amount)
           run == runrex(bought, 2)
           u == Settled(run, from, 0)
           delta == VoteStake(bought, from) - VoteStake(Tables, from)
<1>1. /\ Shape(Tables) /\ Good(Tables) /\ Debt(Tables) = 0 /\ now \in Time
      /\ Tables.balances = rexbalance
  BY TablesAre
<1>2. /\ HasFund(Tables, from, amount) /\ Commit(u) /\ Reweigh(run, from, delta, FALSE)
      /\ LoansCounted
  BY DEF BuyRex
<1>3. /\ Shape(f) /\ f.pool = Tables.pool /\ f.balances = Tables.balances /\ f.orders = Tables.orders
      /\ f.loans = Tables.loans /\ f.totals = Tables.totals /\ f.limits = Tables.limits
      /\ f.tlos = Tables.tlos /\ f.retained = Tables.retained
      /\ Good(Tables) /\ Alive(f) => Good(f) /\ Debt(f) = Debt(Tables) + amount
  BY <1>1, FromFundIs
<1> HIDE DEF f
<1>4. Alive(u) /\ 0 < amount
  <2> HIDE DEF u
  <2>1. QED
    BY <1>2, CommitIs DEF HasFund
<1>5. Alive(f)
  <2>1. Shape(bought) /\ (Alive(bought) => Alive(f))
    BY <1>3, BoughtPuts
  <2> HIDE DEF bought
  <2>2. Shape(run) /\ (Alive(run) => Alive(bought))
    <3>1. 2 \in Nat
      OBVIOUS
    <3>2. QED
      BY <2>1, <3>1, RunKeeps DEF Keeps
  <2> HIDE DEF run
  <2>3. Alive(u) <=> Alive(run)
    BY <2>2, SettledFrame
  <2>4. QED
    BY <1>4, <2>1, <2>2, <2>3
<1>6. Good(f) /\ Debt(f) = amount
  BY <1>1, <1>3, <1>5
<1>7. /\ Good(run) /\ Good(u) /\ Debt(u) = Debt(f) - amount /\ Only(f, u, from)
      /\ RexStake(bought.balances[from]) \in Int
      /\ ChangeOf(u.orders[from]) = 0 /\ u.balances[from] # Nil
      /\ RexStake(u.balances[from]) = RexStake(bought.balances[from])
           - ChangeOf(f.orders[from]) + ChangeOf(run.orders[from])
      /\ f.balances[from] = Nil => /\ RexStake(bought.balances[from]) = amount
                                   /\ ChangeOf(run.orders[from]) = 0
  BY <1>1, <1>3, <1>4, <1>6, BoughtSettled
<1>8. delta = RexStake(bought.balances[from]) - RexStake(Tables.balances[from])
  BY DEF VoteStake, RexStake
<1> HIDE DEF u, run, bought, delta
<1>9. Debt(u) = 0
  BY <1>6, <1>7
<1>10. Only(Tables, u, from)
  <2>1. Only(Tables, f, from)
    BY <1>3, OnlyFrame
  <2>2. QED
    BY <1>7, <2>1, OnlyTwice
<1>11. /\ RexStake(u.balances[from]) \in Int /\ ChangeOf(run.orders[from]) \in Int
       /\ RexStake(Tables.balances[from]) \in Int /\ ChangeOf(Tables.orders[from]) \in Int
  BY <1>1, <1>7, TableNumbers
<1> DEFINE more == 0
<1>12. delta \in Int /\ delta + ChangeOf(run.orders[from]) = Weight(u, from) - Weight(Tables, from) - more
  BY <1>3, <1>7, <1>8, <1>11 DEF Weight
<1>13. voters[from] = Nil => delta + ChangeOf(run.orders[from]) # 0
  <2>1. ASSUME voters[from] = Nil
        PROVE  delta + ChangeOf(run.orders[from]) # 0
    <3>1. Tables.balances[from] = Nil /\ f.balances[from] = Nil
      BY <1>1, <1>3, <2>1 DEF ContractInv, BooksInv, WeightInv
    <3>2. RexStake(Tables.balances[from]) = 0
      BY <3>1 DEF RexStake
    <3>3. QED
      BY <1>4, <1>7, <1>8, <3>1, <3>2
  <2>2. QED
    BY <2>1
<1>14. /\ more \in Int /\ unweighed' \in [Account -> Int] /\ unweighed'[from] = unweighed[from] + more
       /\ \A a \in Account : a # from => unweighed'[a] = unweighed[a]
       /\ UNCHANGED <<loan_num, taken, del_bandwidth, bidVars, ram>>
  BY <1>2 DEF LoansCounted, ContractInv, BooksInv, WeightInv
<1> HIDE DEF more
<1>15. QED
  BY <1>2, <1>7, <1>9, <1>10, <1>12, <1>13, <1>14, ReweighedKeeps

\* Stake leaves the totals of the receiver and eosio.stake for eosio.rex.
LEMMA UnstakeSent ==
  ASSUME NEW t, Shape(t), Good(t), NEW receiver \in Account, NEW net \in Int, NEW cpu \in Int,
         NEW payment \in Int,
         NEW u, u = Sent(Lent(t, receiver, net, cpu), STAKE_ACCOUNT, REX_ACCOUNT, payment), Alive(u)
  PROVE  /\ Shape(u) /\ Good(u) /\ Debt(u) = Debt(t) + payment
         /\ u.balances = t.balances /\ u.orders = t.orders /\ Spare(u) = Spare(t)
         /\ Bal(u.tlos, STAKE_ACCOUNT) = Bal(t.tlos, STAKE_ACCOUNT) - payment
         /\ Bal(u.tlos, RAM_ACCOUNT) = Bal(t.tlos, RAM_ACCOUNT)
         /\ Own(u, receiver, "net") = Own(t, receiver, "net") + net
         /\ Own(u, receiver, "cpu") = Own(t, receiver, "cpu") + cpu
         /\ \A a \in Account : a # receiver => /\ Own(u, a, "net") = Own(t, a, "net")
                                               /\ Own(u, a, "cpu") = Own(t, a, "cpu")
         /\ \A a \in Account : /\ Totals(u.totals[a]).ram_bytes = Totals(t.totals[a]).ram_bytes
                               /\ t.limits[a].ram = limits[a].ram => u.limits[a].ram = limits[a].ram
<1> DEFINE l == Lent(t, receiver, net, cpu)
<1>1. u = Sent(l, STAKE_ACCOUNT, REX_ACCOUNT, payment) /\ Alive(u)
  OBVIOUS
<1>2. /\ Shape(l) /\ l.tlos = t.tlos /\ l.pool = t.pool /\ l.balances = t.balances
      /\ l.funds = t.funds /\ l.orders = t.orders /\ l.loans = t.loans /\ l.retained = t.retained
      /\ Alive(l) => Alive(t)
  BY LentFrame
<1>3. Shape(u) /\ Alive(u) /\ Alive(l)
  <2>1. Alive(u)
    BY <1>1
  <2>2. STAKE_ACCOUNT \in TokenHolder /\ REX_ACCOUNT \in TokenHolder
    BY HoldersApart DEF SystemAccounts
  <2>3. Shape(l)
    BY <1>2
  <2> HIDE DEF l
  <2>4. Shape(u) /\ (Alive(u) => Alive(l))
    BY <1>1, <2>2, <2>3, SentIs
  <2>5. QED
    BY <2>1, <2>4
<1>4. GoodTotals(t.totals, t.limits)
  BY DEF Good
<1>5. /\ GoodTotals(l.totals, l.limits)
      /\ Totals(l.totals[receiver]).net = Totals(t.totals[receiver]).net + net
      /\ Totals(l.totals[receiver]).cpu = Totals(t.totals[receiver]).cpu + cpu
      /\ \A a \in Account : a # receiver => l.totals[a] = t.totals[a]
      /\ \A a \in Account : /\ Totals(l.totals[a]).ram_bytes = Totals(t.totals[a]).ram_bytes
                            /\ t.limits[a].ram = limits[a].ram => l.limits[a].ram = limits[a].ram
  BY <1>3, <1>4, LentKeeps
<1> HIDE DEF l
<1>6. Good(l) /\ Debt(l) = Debt(t) /\ Spare(l) = Spare(t)
  BY <1>2, <1>5 DEF Good, Debt, Spare
<1>7. /\ STAKE_ACCOUNT \in TokenHolder /\ REX_ACCOUNT \in TokenHolder /\ STAKE_ACCOUNT # REX_ACCOUNT
      /\ NAMES_ACCOUNT \in TokenHolder /\ RAM_ACCOUNT \in TokenHolder
      /\ NAMES_ACCOUNT # STAKE_ACCOUNT /\ NAMES_ACCOUNT # REX_ACCOUNT
      /\ RAM_ACCOUNT # STAKE_ACCOUNT /\ RAM_ACCOUNT # REX_ACCOUNT
  BY HoldersApart DEF SystemAccounts
<1>8. /\ Good(u) /\ u.pool = l.pool /\ u.balances = l.balances
      /\ u.orders = l.orders /\ u.loans = l.loans /\ u.totals = l.totals
      /\ u.limits = l.limits /\ u.retained = l.retained
      /\ \A h \in TokenHolder :
           Bal(u.tlos, h) = Bal(l.tlos, h) - (IF h = STAKE_ACCOUNT THEN payment ELSE 0)
                                           + (IF h = REX_ACCOUNT THEN payment ELSE 0)
      /\ Debt(u) = Debt(l) - (IF REX_ACCOUNT = STAKE_ACCOUNT THEN payment ELSE 0)
                           + (IF REX_ACCOUNT = REX_ACCOUNT THEN payment ELSE 0)
  BY <1>1, <1>2, <1>3, <1>6, <1>7, SentKeeps
<1>9. \A h \in TokenHolder : Bal(l.tlos, h) \in Int
  BY <1>6, TableNumbers
<1>10. Debt(u) = Debt(t) + payment
  <2>1. Debt(t) \in Int
    BY DebtNumbers
  <2>2. QED
    BY <1>6, <1>7, <1>8, <2>1
<1>11. /\ Bal(u.tlos, STAKE_ACCOUNT) = Bal(t.tlos, STAKE_ACCOUNT) - payment
       /\ Bal(u.tlos, RAM_ACCOUNT) = Bal(t.tlos, RAM_ACCOUNT)
       /\ Bal(u.tlos, NAMES_ACCOUNT) = Bal(t.tlos, NAMES_ACCOUNT)
  BY <1>2, <1>7, <1>8, <1>9
<1>12. Spare(u) = Spare(t)
  BY <1>2, <1>8, <1>11 DEF Spare
<1>13. ASSUME NEW a \in Account
       PROVE  /\ SumFunctionOnSet(StakedFor(a), t.loans["net"]) \in Int
              /\ SumFunctionOnSet(StakedFor(a), t.loans["cpu"]) \in Int
  <2>1. OfLoans(StakedFor(a))
    BY LoanNumbers
  <2>2. QED
    BY <2>1, TableNumbers DEF RESOURCES
<1>14. /\ Own(u, receiver, "net") = Own(t, receiver, "net") + net
       /\ Own(u, receiver, "cpu") = Own(t, receiver, "cpu") + cpu
  <2>1. t.totals[receiver] \in user_resources \cup {Nil}
    BY <1>4 DEF GoodTotals, TotalTable
  <2>2. Totals(t.totals[receiver]).net \in Nat /\ Totals(t.totals[receiver]).cpu \in Nat
    BY <2>1, TotalsIs
  <2>3. QED
    BY <1>2, <1>5, <1>8, <1>13, <2>2 DEF Own
<1>15. \A a \in Account : a # receiver => /\ Own(u, a, "net") = Own(t, a, "net")
                                          /\ Own(u, a, "cpu") = Own(t, a, "cpu")
  BY <1>2, <1>5, <1>8 DEF Own
<1>16. QED
  BY <1>2, <1>3, <1>5, <1>8, <1>10, <1>11, <1>12, <1>14, <1>15

\* unstaketorex
LEMMA UnstakeToRexKeeps ==
  ASSUME ContractInv, NEW owner \in Account, NEW receiver \in Account,
         NEW from_net \in Nat, NEW from_cpu \in Nat,
         UnstakeToRex(owner, receiver, from_net, from_cpu), UNCHANGED <<bidVars, ram>>
  PROVE  ContractInv'
<1> DEFINE payment == from_net + from_cpu
           lent == Lent(Tables, receiver, -from_net, -from_cpu)
           sent == Sent(lent, STAKE_ACCOUNT, REX_ACCOUNT, payment)
           bought == Bought(sent, owner, payment)
           run == runrex(bought, 2)
           u == Settled(run, owner, 0)
           old == del_bandwidth[owner][receiver]
           w == Plus(old, -from_net, -from_cpu)
<1>1. /\ Shape(Tables) /\ Good(Tables) /\ Debt(Tables) = 0 /\ now \in Time
      /\ Tables.balances = rexbalance /\ Tables.totals = userres /\ Tables.limits = limits
      /\ Tables.tlos = accounts /\ voters \in VoterTable
  BY TablesAre
<1>2. /\ BooksInv /\ RamInv /\ WeightInv /\ HoldsInv /\ del_bandwidth \in DelTable
      /\ unweighed \in [Account -> Int] /\ loan_num \in Nat
  BY DEF ContractInv, BooksInv, WeightInv
<1>3. /\ 0 < payment /\ payment \in Nat /\ from_net <= old.net /\ from_cpu <= old.cpu
      /\ Commit(u) /\ Reweigh(run, owner, 0, TRUE) /\ loan_num' = loan_num /\ taken' = taken
      /\ del_bandwidth' = [del_bandwidth EXCEPT ![owner][receiver] = Plus(@, -from_net, -from_cpu)]
      /\ unweighed' = [unweighed EXCEPT ![owner] =
                         @ + VoteStake(bought, owner) - VoteStake(Tables, owner) - payment]
  <2>1. payment > 0 /\ from_net <= old.net /\ from_cpu <= old.cpu
    BY Zenon DEF UnstakeToRex
  <2>2. Commit(u)
    BY Zenon DEF UnstakeToRex
  <2>3. Reweigh(run, owner, 0, TRUE)
    BY Zenon DEF UnstakeToRex
  <2>4. loan_num' = loan_num /\ taken' = taken
    BY Zenon DEF UnstakeToRex
  <2>5. del_bandwidth' = [del_bandwidth EXCEPT ![owner][receiver] = Plus(@, -from_net, -from_cpu)]
    BY Zenon DEF UnstakeToRex
  <2>6. unweighed' = [unweighed EXCEPT ![owner] =
                        @ + VoteStake(bought, owner) - VoteStake(Tables, owner) - payment]
    BY Zenon DEF UnstakeToRex
  <2>7. payment \in Nat
    OBVIOUS
  <2> HIDE DEF u, run, bought, old
  <2>8. QED
    BY <2>1, <2>2, <2>3, <2>4, <2>5, <2>6, <2>7
<1>4. Shape(sent)
  <2>1. Shape(lent)
    BY <1>1, LentFrame
  <2> HIDE DEF lent
  <2>2. QED
    BY <2>1, SentIs
<1>5. Alive(u) /\ Alive(sent)
  <2> HIDE DEF payment, sent
  <2>1. Shape(bought) /\ (Alive(bought) => Alive(sent))
    BY <1>4, BoughtPuts
  <2> HIDE DEF bought
  <2>2. Shape(run) /\ (Alive(run) => Alive(bought))
    <3>1. 2 \in Nat
      OBVIOUS
    <3>2. QED
      BY <2>1, <3>1, RunKeeps DEF Keeps
  <2> HIDE DEF run
  <2>3. Alive(u) <=> Alive(run)
    BY <2>2, SettledFrame
  <2> HIDE DEF u
  <2>4. QED
    BY <1>3, <2>1, <2>2, <2>3, CommitIs
<1>6. -from_net \in Int /\ -from_cpu \in Int
  OBVIOUS
<1> HIDE DEF payment
<1>7. /\ Good(sent) /\ Debt(sent) = Debt(Tables) + payment
      /\ sent.balances = Tables.balances /\ sent.orders = Tables.orders /\ Spare(sent) = Spare(Tables)
      /\ Bal(sent.tlos, STAKE_ACCOUNT) = Bal(Tables.tlos, STAKE_ACCOUNT) - payment
      /\ Bal(sent.tlos, RAM_ACCOUNT) = Bal(Tables.tlos, RAM_ACCOUNT)
      /\ Own(sent, receiver, "net") = Own(Tables, receiver, "net") + (-from_net)
      /\ Own(sent, receiver, "cpu") = Own(Tables, receiver, "cpu") + (-from_cpu)
      /\ \A a \in Account : a # receiver => /\ Own(sent, a, "net") = Own(Tables, a, "net")
                                            /\ Own(sent, a, "cpu") = Own(Tables, a, "cpu")
      /\ \A a \in Account :
           /\ Totals(sent.totals[a]).ram_bytes = Totals(Tables.totals[a]).ram_bytes
           /\ Tables.limits[a].ram = limits[a].ram => sent.limits[a].ram = limits[a].ram
  <2> DEFINE n == -from_net
             c == -from_cpu
  <2>1. sent = Sent(Lent(Tables, receiver, n, c), STAKE_ACCOUNT, REX_ACCOUNT, payment)
    OBVIOUS
  <2>2. n \in Int /\ c \in Int /\ payment \in Int
    BY <1>3
  <2>3. Alive(sent)
    BY <1>5
  <2> HIDE DEF n, c, sent
  <2>4. /\ Shape(sent) /\ Good(sent) /\ Debt(sent) = Debt(Tables) + payment
        /\ sent.balances = Tables.balances /\ sent.orders = Tables.orders /\ Spare(sent) = Spare(Tables)
        /\ Bal(sent.tlos, STAKE_ACCOUNT) = Bal(Tables.tlos, STAKE_ACCOUNT) - payment
        /\ Bal(sent.tlos, RAM_ACCOUNT) = Bal(Tables.tlos, RAM_ACCOUNT)
        /\ Own(sent, receiver, "net") = Own(Tables, receiver, "net") + n
        /\ Own(sent, receiver, "cpu") = Own(Tables, receiver, "cpu") + c
        /\ \A a \in Account : a # receiver => /\ Own(sent, a, "net") = Own(Tables, a, "net")
                                              /\ Own(sent, a, "cpu") = Own(Tables, a, "cpu")
        /\ \A a \in Account :
             /\ Totals(sent.totals[a]).ram_bytes = Totals(Tables.totals[a]).ram_bytes
             /\ Tables.limits[a].ram = limits[a].ram => sent.limits[a].ram = limits[a].ram
    <3>1. Shape(Tables) /\ Good(Tables)
      BY <1>1
    <3>2. QED
      BY <3>1, <2>1, <2>2, <2>3, UnstakeSent
  <2>5. QED
    BY <2>4 DEF n, c
<1> HIDE DEF sent
<1>8. /\ Good(run) /\ Good(u) /\ Debt(u) = Debt(sent) - payment /\ Only(sent, u, owner)
      /\ RexStake(bought.balances[owner]) \in Int
      /\ ChangeOf(u.orders[owner]) = 0 /\ u.balances[owner] # Nil
      /\ RexStake(u.balances[owner]) = RexStake(bought.balances[owner])
           - ChangeOf(sent.orders[owner]) + ChangeOf(run.orders[owner])
  BY <1>1, <1>3, <1>4, <1>5, <1>7, BoughtSettled
<1>9. /\ VoteStake(bought, owner) = RexStake(bought.balances[owner])
      /\ VoteStake(Tables, owner) = RexStake(Tables.balances[owner])
  BY DEF VoteStake, RexStake
<1> HIDE DEF u, run, bought
<1>10. /\ RexStake(u.balances[owner]) \in Int /\ ChangeOf(run.orders[owner]) \in Int
       /\ RexStake(Tables.balances[owner]) \in Int /\ ChangeOf(Tables.orders[owner]) \in Int
       /\ unweighed[owner] \in Int /\ payment \in Int
  BY <1>1, <1>2, <1>3, <1>8, TableNumbers
<1>11. /\ w \in Weights /\ w.net = old.net + (-from_net) /\ w.cpu = old.cpu + (-from_cpu)
       /\ old \in Weights /\ Sum(w) = Sum(old) + (-from_net) + (-from_cpu)
       /\ old.net \in Nat /\ old.cpu \in Nat /\ Sum(old) \in Nat
  <2>1. old \in Weights
    BY <1>2 DEF DelTable
  <2>2. old.net \in Nat /\ old.cpu \in Nat /\ Sum(old) \in Nat
    BY <2>1, WeightsNat
  <2> HIDE DEF old
  <2>3. 0 <= w.net /\ 0 <= w.cpu
    BY <1>3, <2>2 DEF Plus
  <2>4. QED
    BY <1>6, <2>1, <2>2, <2>3, PlusIs
<1>12. del_bandwidth' = PutWeights(del_bandwidth, owner, receiver, w)
  BY <1>2, <1>3 DEF PutWeights, DelTable
<1> HIDE DEF w
<1>13. /\ del_bandwidth' \in DelTable
       /\ StakeOf(del_bandwidth', owner) = StakeOf(del_bandwidth, owner) - payment
       /\ \A a \in Account : a # owner => StakeOf(del_bandwidth', a) = StakeOf(del_bandwidth, a)
       /\ StakeOfAll(del_bandwidth') = StakeOfAll(del_bandwidth) - payment
       /\ NetTo(del_bandwidth', receiver) = NetTo(del_bandwidth, receiver) + (-from_net)
       /\ CpuTo(del_bandwidth', receiver) = CpuTo(del_bandwidth, receiver) + (-from_cpu)
       /\ \A a \in Account : a # receiver => /\ NetTo(del_bandwidth', a) = NetTo(del_bandwidth, a)
                                             /\ CpuTo(del_bandwidth', a) = CpuTo(del_bandwidth, a)
       /\ StakeOf(del_bandwidth, owner) \in Nat /\ StakeOfAll(del_bandwidth) \in Int
  <2>1. PutWeights(del_bandwidth, owner, receiver, w) \in DelTable
    BY <1>2, <1>11, WeightsPut
  <2>2. /\ StakeOf(del_bandwidth', owner) = StakeOf(del_bandwidth, owner) + Sum(w) - Sum(old)
        /\ \A a \in Account : a # owner => StakeOf(del_bandwidth', a) = StakeOf(del_bandwidth, a)
    BY <1>2, <1>11, <1>12, StakePut DEF old
  <2>3. /\ StakeOfAll(del_bandwidth') = StakeOfAll(del_bandwidth) + Sum(w) - Sum(old)
        /\ StakeOfAll(del_bandwidth) \in Int
    BY <1>2, <1>11, <1>12, StakeOfAllPut DEF old
  <2>4. /\ NetTo(del_bandwidth', receiver) = NetTo(del_bandwidth, receiver) + w.net - old.net
        /\ CpuTo(del_bandwidth', receiver) = CpuTo(del_bandwidth, receiver) + w.cpu - old.cpu
        /\ \A a \in Account : a # receiver => /\ NetTo(del_bandwidth', a) = NetTo(del_bandwidth, a)
                                              /\ CpuTo(del_bandwidth', a) = CpuTo(del_bandwidth, a)
    BY <1>2, <1>11, <1>12, TotalsPut DEF old
  <2>5. /\ StakeOf(del_bandwidth, owner) \in Nat /\ NetTo(del_bandwidth, receiver) \in Nat
        /\ CpuTo(del_bandwidth, receiver) \in Nat
    BY <1>2, StakeNat
  <2> HIDE DEF old
  <2>6. QED
    BY <1>11, <1>12, <2>1, <2>2, <2>3, <2>4, <2>5 DEF payment
<1> HIDE DEF old
<1>14. /\ voters' \in VoterTable /\ (\A a \in Account : a # owner => voters'[a] = voters[a])
       /\ StakedIn(voters'[owner]) = StakedIn(voters[owner]) + 0 + ChangeOf(run.orders[owner])
       /\ Flags(voters'[owner]) = Flags(voters[owner])
       /\ voters'[owner] # Nil
  <2>1. 0 \in Int
    OBVIOUS
  <2>2. QED
    BY <1>1, <1>3, <1>10, <2>1, ReweighIs
<1>15. /\ unweighed' \in [Account -> Int]
       /\ unweighed'[owner] = unweighed[owner] + RexStake(bought.balances[owner])
                                - RexStake(Tables.balances[owner]) - payment
       /\ \A a \in Account : a # owner => unweighed'[a] = unweighed[a]
  BY <1>2, <1>3, <1>8, <1>9, <1>10
<1>16. /\ Elsewhere(sent, u) /\ (\A a \in Account : OwnsAs(sent, u, a))
       /\ \A a \in Account : a # owner => WeighsAs(sent, u, a)
  BY <1>8 DEF Only
<1>17. ASSUME NEW a \in Account
       PROVE  /\ StakedIn(voters'[a]) = StakeOf(del_bandwidth', a) + Weight(u, a) - unweighed'[a]
              /\ voters'[a] = Nil => u.balances[a] = Nil
              /\ Own(u, a, "net") = NetTo(del_bandwidth', a)
              /\ Own(u, a, "cpu") = CpuTo(del_bandwidth', a)
  <2>1. /\ StakedIn(voters[a]) = StakeOf(del_bandwidth, a) + Weight(Tables, a) - unweighed[a]
        /\ voters[a] = Nil => rexbalance[a] = Nil
        /\ Own(Tables, a, "net") = NetTo(del_bandwidth, a)
        /\ Own(Tables, a, "cpu") = CpuTo(del_bandwidth, a)
    BY <1>2 DEF WeightInv
  <2>2. Own(u, a, "net") = NetTo(del_bandwidth', a) /\ Own(u, a, "cpu") = CpuTo(del_bandwidth', a)
    <3>1. Own(u, a, "net") = Own(sent, a, "net") /\ Own(u, a, "cpu") = Own(sent, a, "cpu")
      BY <1>16 DEF OwnsAs
    <3>2. CASE a = receiver
      BY <1>7, <1>13, <2>1, <3>1, <3>2
    <3>3. CASE a # receiver
      BY <1>7, <1>13, <2>1, <3>1, <3>3
    <3>4. QED
      BY <3>2, <3>3
  <2>3. CASE a = owner
    <3>1. StakedIn(voters[owner]) = StakeOf(del_bandwidth, owner)
            + (RexStake(Tables.balances[owner]) - ChangeOf(Tables.orders[owner])) - unweighed[owner]
      BY <2>1, <2>3 DEF Weight
    <3>2. Weight(u, owner) = RexStake(bought.balances[owner])
            - ChangeOf(Tables.orders[owner]) + ChangeOf(run.orders[owner])
      BY <1>7, <1>8, <1>10 DEF Weight
    <3>3. StakedIn(voters'[owner]) = StakeOf(del_bandwidth', owner) + Weight(u, owner) - unweighed'[owner]
      BY <1>8, <1>10, <1>13, <1>14, <1>15, <3>1, <3>2
    <3>4. QED
      BY <1>14, <2>2, <2>3, <3>3
  <2>4. CASE a # owner
    <3>1. WeighsAs(sent, u, a) /\ sent.balances[a] = rexbalance[a]
          /\ Weight(sent, a) = Weight(Tables, a)
      BY <1>1, <1>7, <1>16, <2>4 DEF Weight
    <3>2. /\ voters'[a] = voters[a] /\ unweighed'[a] = unweighed[a]
          /\ StakeOf(del_bandwidth', a) = StakeOf(del_bandwidth, a)
      BY <1>13, <1>14, <1>15, <2>4
    <3>3. QED
      BY <2>1, <2>2, <3>1, <3>2 DEF WeighsAs
  <2>5. QED
    BY <2>3, <2>4
<1>18. Bal(u.tlos, STAKE_ACCOUNT) + taken[STAKE_ACCOUNT] = StakeOfAll(del_bandwidth') + OwedIn(refunds)
  <2>1. /\ Bal(accounts, STAKE_ACCOUNT) + taken[STAKE_ACCOUNT] = StakeOfAll(del_bandwidth) + OwedIn(refunds)
        /\ Bal(accounts, STAKE_ACCOUNT) \in Nat /\ taken[STAKE_ACCOUNT] \in Nat
    BY <1>2, HoldsIs
  <2>2. Bal(u.tlos, STAKE_ACCOUNT) = Bal(accounts, STAKE_ACCOUNT) - payment
    BY <1>1, <1>7, <1>16 DEF Elsewhere
  <2>3. OwedIn(refunds) \in Int
    <3>1. refunds \in RefundTable
      BY <1>2 DEF HoldsInv, HeldBut
    <3>2. refunds[owner] \in refund_request \cup {Nil}
      BY <3>1 DEF RefundTable
    <3>3. QED
      BY <3>1, <3>2, OwedPut
  <2>4. QED
    BY <1>3, <1>10, <1>13, <2>1, <2>2, <2>3
<1>19. Debt(u) = 0 /\ Spare(u) = Spare(Tables)
  <2>1. Debt(u) = 0
    BY <1>1, <1>7, <1>8, <1>10
  <2>2. QED
    BY <1>7, <1>16, <2>1 DEF Elsewhere
<1>20. BooksInv'
  <2>1. /\ GoodPool(u.pool, u.balances, u.loans) /\ GoodLoans(u.loans, loan_num')
        /\ GoodRows(u.balances, u.orders) /\ GoodOrders(u.balances, u.orders)
        /\ u.funds \in FundTable
        /\ GoodTotals(u.totals, u.limits) /\ GoodTokens(u.tlos) /\ u.retained \in Nat
    BY <1>3, <1>8 DEF Good
  <2>2. QED
    BY <1>2, <1>3, <1>13, <1>14, <1>15, <1>17, <1>18, <1>19, <2>1, CommitKeeps
<1>21. RamInv'
  <2>1. accounts' = u.tlos /\ userres' = u.totals /\ limits' = u.limits
    BY <1>3, CommitIs
  <2>2. ASSUME NEW a \in Account
        PROVE  /\ Totals(userres'[a]).ram_bytes = Totals(userres[a]).ram_bytes
               /\ limits'[a].ram = limits[a].ram
               /\ "ram_managed" \in Flags(voters[a]) => "ram_managed" \in Flags(voters'[a])
    <3>1. Flags(voters'[a]) = Flags(voters[a])
      BY <1>14
    <3>2. QED
      BY <1>1, <1>7, <1>16, <2>1, <3>1 DEF OwnsAs
  <2>3. Bal(accounts', RAM_ACCOUNT) = Bal(accounts, RAM_ACCOUNT)
    BY <1>1, <1>7, <1>16, <2>1 DEF Elsewhere
  <2>4. QED
    BY <1>2, <1>3, <2>2, <2>3, RamKept
<1>22. QED
  BY <1>20, <1>21 DEF ContractInv

-----------------------------------------------------------------------------
(* Selling REX *)

\* The order that is canceled is open, and has earned nothing.
LEMMA CnclRexOrderKeeps ==
  ASSUME ContractInv, NEW owner \in Account, CnclRexOrder(owner), UNCHANGED <<bidVars, ram>>
  PROVE  ContractInv'
<1> DEFINE u == [Tables EXCEPT !.orders[owner] = Nil]
<1>1. /\ Shape(Tables) /\ Good(Tables) /\ Debt(Tables) = 0 /\ rexorders \in OrderTable
      /\ Tables.orders = rexorders
  BY TablesAre
<1>2. Commit(u) /\ VotesKept /\ LoansCounted /\ IsOpen(Tables, owner)
  BY DEF CnclRexOrder
<1>3. /\ Tables.orders[owner] # Nil /\ Tables.orders[owner].is_open
      /\ Tables.orders[owner].proceeds = 0
  BY <1>1, <1>2 DEF IsOpen, Good, GoodOrders, GoodOrder
<1>4. Nil \in rex_order \cup {Nil} /\ GoodOrder(Nil, Tables.balances[owner])
  BY DEF GoodOrder
<1>5. /\ u.balances = Tables.balances /\ Good(u)
      /\ Debt(u) = Debt(Tables) + EarnedIn(Tables.orders[owner]) - EarnedIn(Nil)
      /\ u.orders[owner] = Nil /\ Only(Tables, u, owner)
  BY <1>1, <1>4, OrderPutKeeps
<1> HIDE DEF u
<1>6. Debt(u) = 0
  BY <1>1, <1>3, <1>5 DEF EarnedIn
<1>7. WeighsAs(Tables, u, owner)
  BY <1>3, <1>5 DEF WeighsAs, Weight, ChangeOf
<1>8. Same(Tables, u)
  BY <1>1, <1>5, <1>6, <1>7 DEF Same, Only
<1>9. QED
  BY <1>2, <1>5, <1>6, <1>8, SameKeeps

\* REX that has matured is put with what had, and nothing else.
LEMMA MaturedFrame ==
  ASSUME NEW t, Shape(t), NEW owner
  PROVE  LET u == Matured(t, owner)
         IN /\ Shape(u) /\ (Alive(u) <=> Alive(t))
            /\ u = [t EXCEPT !.balances[owner] = process_rex_maturities(t.balances[owner])]
            /\ u.pool = t.pool /\ u.orders = t.orders
  BY DEF Matured, Shape, Alive

\* It is as much, and weighs the same.
LEMMA MaturedKeeps ==
  ASSUME NEW t, Shape(t), Good(t), now \in Time, NEW owner \in Account, t.balances[owner] # Nil
  PROVE  LET u == Matured(t, owner)
         IN /\ Good(u) /\ Same(t, u) /\ Only(t, u, owner) /\ u.balances[owner] \in rex_balance
            /\ u.balances[owner].vote_stake = t.balances[owner].vote_stake
            /\ GoodRow(u.balances[owner])
<1> DEFINE rb == t.balances[owner]
           row == process_rex_maturities(rb)
           u == Matured(t, owner)
<1>1. rb \in rex_balance /\ GoodRow(rb) /\ GoodOrder(t.orders[owner], rb)
  BY DEF Good, GoodRows, GoodOrders, RexTable
<1>2. 0 <= rb.matured_rex /\ \A m \in Maturity : 0 <= rb.rex_maturities[m]
  BY <1>1 DEF GoodRow
<1>3. /\ row \in rex_balance /\ row.vote_stake = rb.vote_stake
      /\ row.rex_balance = rb.rex_balance
      /\ row.matured_rex \in Nat /\ rb.matured_rex <= row.matured_rex
      /\ \A m \in Maturity : 0 <= row.rex_maturities[m]
      /\ row.matured_rex + SumRex(row.rex_maturities) = rb.matured_rex + SumRex(rb.rex_maturities)
  <2> HIDE DEF rb
  <2>1. QED
    BY <1>1, <1>2, ProcessedIs
<1> HIDE DEF row
<1>4. GoodRow(row)
  BY <1>1, <1>3 DEF GoodRow
<1>5. GoodOrder(t.orders[owner], row)
  <2>1. rb.matured_rex \in Nat /\ t.orders[owner] \in rex_order \cup {Nil}
    BY <1>1, RowNumbers DEF Good, GoodRows, OrderTable
  <2>2. t.orders[owner] # Nil => t.orders[owner].rex_requested \in Nat
    BY <2>1 DEF rex_order
  <2>3. row # Nil
    BY <1>3, NoRow
  <2> HIDE DEF rb
  <2>4. QED
    BY <1>1, <1>3, <2>1, <2>2, <2>3 DEF GoodOrder
<1>6. u = [t EXCEPT !.balances[owner] = row]
  BY DEF row, Matured
<1> HIDE DEF u
<1>7. /\ Good(u) /\ Debt(u) = Debt(t) /\ Only(t, u, owner) /\ u.balances[owner] = row
      /\ u.orders = t.orders
  BY <1>1, <1>3, <1>4, <1>5, <1>6, RowPutKeeps
<1>8. WeighsAs(t, u, owner)
  <2>1. row # Nil
    BY <1>3, NoRow
  <2>2. QED
    BY <1>3, <1>7, <2>1 DEF WeighsAs, Weight, RexStake
<1>9. Same(t, u)
  BY <1>7, <1>8 DEF Same, Only
<1>10. QED
  BY <1>3, <1>4, <1>7, <1>9 DEF u

\* The sale at once.
LEMMA SellKeeps ==
  ASSUME ContractInv, NEW t, Shape(t), Good(t), Same(Tables, t), t.pool # Nil,
         NEW from \in Account, t.balances[from] # Nil, NEW rex \in Nat, 0 < rex,
         rex <= t.balances[from].matured_rex, Sell(t, from, rex), LoansCounted,
         UNCHANGED <<bidVars, ram>>
  PROVE  ContractInv'
<1> DEFINE f == Filled(t, from, rex)
           worth == Proceeds(t.pool, rex)
           sold == Settled(f, from, worth)
           delta == StakeChange(t, from, rex)
<1>1. /\ Shape(Tables) /\ Good(Tables) /\ Debt(Tables) = 0 /\ Tables.balances = rexbalance
  BY TablesAre
<1>2. /\ CanFill(t.pool, rex) /\ InSellOrder(sold, from) <= sold.balances[from].matured_rex
      /\ Commit(sold) /\ Reweigh(t, from, delta, FALSE)
  BY DEF Sell
<1>3. /\ Shape(f) /\ f.ok = t.ok /\ f.tlos = t.tlos /\ f.funds = t.funds /\ f.orders = t.orders
      /\ f.loans = t.loans /\ f.totals = t.totals /\ f.limits = t.limits
      /\ f.retained = t.retained
  BY FilledFrame
<1>4. /\ GoodPool(t.pool, t.balances, t.loans) /\ GoodLoans(t.loans, loan_num)
      /\ GoodRows(t.balances, t.orders) /\ GoodOrders(t.balances, t.orders)
      /\ t.funds \in FundTable /\ GoodTotals(t.totals, t.limits) /\ GoodTokens(t.tlos)
      /\ t.retained \in Nat
  BY DEF Good
<1>5. /\ GoodPool(f.pool, f.balances, f.loans) /\ GoodRows(f.balances, f.orders)
      /\ f.pool # Nil /\ worth \in Nat
      /\ PoolOf(f.pool).total_lendable = PoolOf(t.pool).total_lendable - worth
      /\ PoolOf(f.pool).namebid_proceeds = PoolOf(t.pool).namebid_proceeds
      /\ f.balances[from] \in rex_balance
      /\ \A a \in Account : a # from => f.balances[a] = t.balances[a]
  BY <1>2, <1>4, FilledKeeps
<1>6. delta = RexStake(f.balances[from]) - RexStake(t.balances[from])
  BY DEF StakeChange, VoteStake, RexStake
<1> HIDE DEF f, worth, delta
<1>7. f.orders \in OrderTable
  BY <1>3, <1>4 DEF GoodRows
<1>8. /\ sold.balances = f.balances
      /\ sold.orders[from] = IF IsFilled(f, from) THEN Nil ELSE f.orders[from]
      /\ Good(f) => /\ Good(sold) /\ Debt(sold) = Debt(f) - worth /\ Only(f, sold, from)
                    /\ ChangeOf(sold.orders[from]) = 0
  BY <1>3, <1>5, <1>7, SettledKeeps
<1> HIDE DEF sold
<1>9. GoodOrders(f.balances, f.orders)
  <2> SUFFICES ASSUME NEW a \in Account
               PROVE  GoodOrder(f.orders[a], f.balances[a])
    BY DEF GoodOrders
  <2>1. GoodOrder(t.orders[a], t.balances[a])
    BY <1>4 DEF GoodOrders
  <2>2. CASE a # from
    BY <1>3, <1>5, <2>1, <2>2
  <2>3. CASE a = from
    <3>1. f.balances[from] # Nil
      BY <1>5, NoRow
    <3>2. CASE f.orders[from] = Nil
      BY <2>3, <3>2 DEF GoodOrder
    <3>3. CASE f.orders[from] # Nil /\ ~ f.orders[from].is_open
      BY <2>3, <3>1, <3>3 DEF GoodOrder
    <3>4. CASE f.orders[from] # Nil /\ f.orders[from].is_open
      <4>1. sold.orders[from] = f.orders[from]
        BY <1>8, <3>4 DEF IsFilled
      <4>2. f.orders[from].rex_requested <= f.balances[from].matured_rex
        BY <1>2, <1>8, <3>4, <4>1 DEF InSellOrder, IsOpen
      <4>3. QED
        BY <1>3, <2>1, <2>3, <3>1, <3>4, <4>2 DEF GoodOrder
    <3>5. QED
      BY <3>2, <3>3, <3>4
  <2>4. QED
    BY <2>2, <2>3
<1>10. Good(f)
  BY <1>3, <1>4, <1>5, <1>9 DEF Good
<1>11. Only(t, f, from)
  BY <1>3, <1>5, OnlyFrame
<1>12. Good(sold) /\ Only(Tables, sold, from) /\ ChangeOf(sold.orders[from]) = 0
  <2>1. Only(Tables, t, from)
    BY SameOnly
  <2>2. QED
    BY <1>8, <1>10, <1>11, <2>1, OnlyTwice
<1>13. Debt(sold) = 0
  <2>1. /\ Bal(t.tlos, REX_ACCOUNT) \in Int /\ PoolOf(t.pool).total_lendable \in Int
        /\ SumFunds(t.funds) \in Int /\ SumEarned(t.orders) \in Int
        /\ OnLoans(BalanceBy, t.loans) \in Int
    BY DebtNumbers
  <2>2. Debt(f) = Debt(t) + worth
    BY <1>3, <1>5, <2>1 DEF Debt
  <2>3. Debt(t) = 0
    BY <1>1 DEF Same
  <2>4. QED
    BY <1>5, <1>8, <1>10, <2>2, <2>3
<1>14. WeighsAs(Tables, t, from)
  BY DEF Same
<1>15. /\ RexStake(f.balances[from]) \in Int /\ RexStake(t.balances[from]) \in Int
       /\ ChangeOf(t.orders[from]) \in Int
  BY <1>10, TableNumbers
<1>16. delta \in Int /\ delta + ChangeOf(t.orders[from]) = Weight(sold, from) - Weight(Tables, from)
  <2>1. Weight(sold, from) = RexStake(f.balances[from])
    BY <1>8, <1>12, <1>15 DEF Weight
  <2>2. Weight(Tables, from) = RexStake(t.balances[from]) - ChangeOf(t.orders[from])
    BY <1>14 DEF WeighsAs, Weight
  <2>3. QED
    BY <1>6, <1>15, <2>1, <2>2
<1>17. voters[from] # Nil
  <2>1. Tables.balances[from] # Nil
    BY <1>14 DEF WeighsAs
  <2>2. voters[from] = Nil => rexbalance[from] = Nil
    BY DEF ContractInv, BooksInv, WeightInv
  <2>3. QED
    BY <1>1, <2>1, <2>2
<1>18. QED
  BY <1>2, <1>12, <1>13, <1>16, <1>17, PlainlyReweighed

\* Or an order for it, which takes nothing and changes no stake yet.
LEMMA QueueKeeps ==
  ASSUME ContractInv, NEW t, Shape(t), Good(t), Same(Tables, t),
         NEW from \in Account, t.balances[from] # Nil, NEW rex \in Nat, 0 < rex,
         Queue(t, from, rex), LoansCounted, UNCHANGED <<bidVars, ram>>
  PROVE  ContractInv'
<1> DEFINE s == Settled(t, from, 0)
           order == OrderFor(s.orders[from], rex)
           queued == Ordered(s, from, rex)
           delta == 0
<1>1. /\ Shape(Tables) /\ Good(Tables) /\ Debt(Tables) = 0 /\ Tables.balances = rexbalance
      /\ now \in Time
  BY TablesAre
<1>2. /\ Covers(queued, from, rex) /\ Commit(queued) /\ Reweigh(t, from, delta, FALSE)
  BY DEF Queue
<1>3. queued = [s EXCEPT !.orders[from] = order]
  BY DEF Ordered
<1>4. t.orders \in OrderTable /\ 0 \in Nat
  BY DEF Good, GoodRows
<1>5. /\ Shape(s) /\ (Alive(s) <=> Alive(t)) /\ s.balances = t.balances
      /\ s.orders[from] = IF IsFilled(t, from) THEN Nil ELSE t.orders[from]
      /\ Good(s) /\ Debt(s) = Debt(t) - 0 /\ Only(t, s, from)
  BY <1>4, SettledKeeps
<1> HIDE DEF s
<1>6. /\ s.orders[from] \in rex_order \cup {Nil} /\ GoodOrder(s.orders[from], s.balances[from])
      /\ (s.orders[from] # Nil => s.orders[from].is_open)
  <2>1. s.orders[from] # Nil => s.orders[from].is_open
    BY <1>5 DEF IsFilled
  <2>2. QED
    BY <1>5, <2>1 DEF Good, GoodRows, GoodOrders, OrderTable
<1>7. /\ order \in rex_order /\ order.is_open /\ order.proceeds = 0 /\ 0 < order.rex_requested
  <2>1. CASE s.orders[from] = Nil
    BY <1>1, <2>1 DEF OrderFor, rex_order
  <2>2. CASE s.orders[from] # Nil
    <3> DEFINE old == s.orders[from]
    <3>1. old \in rex_order /\ old.is_open /\ old.proceeds = 0 /\ 0 < old.rex_requested
      BY <1>6, <2>2 DEF GoodOrder
    <3>2. order = [old EXCEPT !.rex_requested = @ + rex]
      BY <2>2 DEF OrderFor
    <3> HIDE DEF old, order
    <3>3. old.rex_requested \in Nat
      BY <3>1 DEF rex_order
    <3>4. old.rex_requested + rex \in Nat /\ 0 < old.rex_requested + rex
      BY <3>1, <3>3
    <3>5. QED
      BY <3>1, <3>2, <3>4 DEF rex_order
  <2>3. QED
    BY <2>1, <2>2
<1> HIDE DEF order
<1>8. order # Nil
  BY <1>7, NoRow
<1>9. queued.orders[from] = order /\ queued.balances = s.balances
  <2>1. s.orders \in OrderTable
    BY <1>5 DEF Good, GoodRows
  <2>2. QED
    BY <1>3, <1>5, <2>1 DEF Shape, OrderTable
<1>10. GoodOrder(order, s.balances[from])
  <2>1. order.rex_requested <= s.balances[from].matured_rex
    BY <1>2, <1>7, <1>8, <1>9 DEF Covers, InSellOrder, IsOpen
  <2>2. QED
    BY <1>5, <1>7, <2>1 DEF GoodOrder
<1>11. /\ Good(queued) /\ Debt(queued) = Debt(s) + EarnedIn(s.orders[from]) - EarnedIn(order)
       /\ Only(s, queued, from)
  <2>1. order \in rex_order \cup {Nil}
    BY <1>7
  <2> HIDE DEF queued
  <2>2. QED
    BY <1>3, <1>5, <1>10, <2>1, OrderPutKeeps
<1> HIDE DEF queued
<1>12. Debt(queued) = 0
  <2>1. EarnedIn(order) = 0 /\ EarnedIn(s.orders[from]) = 0
    BY <1>6, <1>7, <1>8 DEF EarnedIn, GoodOrder
  <2>2. Debt(t) = 0
    BY <1>1 DEF Same
  <2>3. QED
    BY <1>5, <1>11, <2>1, <2>2
<1>13. Only(Tables, queued, from)
  <2>1. Only(Tables, t, from)
    BY SameOnly
  <2>2. QED
    BY <1>5, <1>11, <2>1, OnlyTwice
<1>14. WeighsAs(Tables, t, from)
  BY DEF Same
<1>15. RexStake(t.balances[from]) \in Int /\ ChangeOf(t.orders[from]) \in Int
  BY TableNumbers
<1>16. /\ delta \in Int
       /\ delta + ChangeOf(t.orders[from]) = Weight(queued, from) - Weight(Tables, from)
  <2>1. ChangeOf(order) = 0
    BY <1>7, <1>8 DEF ChangeOf
  <2>2. Weight(queued, from) = RexStake(t.balances[from])
    BY <1>5, <1>9, <1>15, <2>1 DEF Weight
  <2>3. Weight(Tables, from) = RexStake(t.balances[from]) - ChangeOf(t.orders[from])
    BY <1>14 DEF WeighsAs, Weight
  <2>4. QED
    BY <1>15, <2>2, <2>3
<1>17. voters[from] # Nil
  <2>1. Tables.balances[from] # Nil
    BY <1>14 DEF WeighsAs
  <2>2. voters[from] = Nil => rexbalance[from] = Nil
    BY DEF ContractInv, BooksInv, WeightInv
  <2>3. QED
    BY <1>1, <2>1, <2>2
<1> HIDE DEF delta
<1>18. QED
  BY <1>2, <1>11, <1>12, <1>13, <1>16, <1>17, PlainlyReweighed

\* sellrex
LEMMA SellRexKeeps ==
  ASSUME ContractInv, NEW from \in Account, NEW rex \in Nat, SellRex(from, rex),
         UNCHANGED <<bidVars, ram>>
  PROVE  ContractInv'
<1> DEFINE run == runrex(Tables, 2)
           t == Matured(run, from)
<1>1. /\ Shape(Tables) /\ Good(Tables) /\ Debt(Tables) = 0 /\ now \in Time
  BY TablesAre
<1>2. /\ run.balances[from] # Nil /\ 0 < rex /\ rex <= t.balances[from].matured_rex
      /\ Sell(t, from, rex) \/ Queue(t, from, rex)
      /\ LoansCounted
  BY DEF SellRex
<1>3. Shape(run)
  <2>1. 2 \in Nat
    OBVIOUS
  <2>2. QED
    BY <1>1, <2>1, RunKeeps DEF Keeps
<1> HIDE DEF run
<1>4. /\ Shape(t) /\ (Alive(t) <=> Alive(run)) /\ t.pool = run.pool
  BY <1>3, MaturedFrame
<1> HIDE DEF t
<1>5. Alive(t)
  <2>1. CASE Sell(t, from, rex)
    <3> DEFINE f == Filled(t, from, rex)
               worth == Proceeds(t.pool, rex)
    <3>1. Commit(Settled(f, from, worth))
      BY <2>1 DEF Sell
    <3>2. Shape(f) /\ f.ok = t.ok /\ f.tlos = t.tlos
      BY <1>4, FilledFrame
    <3> HIDE DEF f, worth
    <3>3. Alive(Settled(f, from, worth)) <=> Alive(f)
      BY <3>2, SettledFrame
    <3>4. QED
      BY <3>1, <3>2, <3>3, CommitIs DEF Alive
  <2>2. CASE Queue(t, from, rex)
    <3> DEFINE s == Settled(t, from, 0)
    <3>1. Commit(Ordered(s, from, rex))
      BY <2>2 DEF Queue
    <3>2. Shape(s) /\ (Alive(s) <=> Alive(t))
      BY <1>4, SettledFrame
    <3> HIDE DEF s
    <3>3. Alive(Ordered(s, from, rex)) <=> Alive(s)
      BY <3>2 DEF Ordered, Shape, Alive
    <3>4. QED
      BY <3>1, <3>2, <3>3, CommitIs
  <2>3. QED
    BY <1>2, <2>1, <2>2
<1>6. Good(run) /\ run.pool # Nil /\ Same(Tables, run)
  BY <1>1, <1>4, <1>5, RunSettled DEF run
<1>7. /\ Good(t) /\ Same(run, t) /\ t.balances[from] # Nil
  <2>1. Good(t) /\ Same(run, t) /\ t.balances[from] \in rex_balance
    BY <1>1, <1>2, <1>3, <1>6, MaturedKeeps DEF t
  <2>2. QED
    BY <2>1, NoRow
<1>8. Same(Tables, t)
  BY <1>6, <1>7, SameTwice
<1>9. t.pool # Nil
  BY <1>4, <1>6
<1>10. CASE Sell(t, from, rex)
  BY <1>2, <1>4, <1>7, <1>8, <1>9, <1>10, SellKeeps
<1>11. CASE Queue(t, from, rex)
  BY <1>2, <1>4, <1>7, <1>8, <1>11, QueueKeeps
<1>12. QED
  BY <1>2, <1>10, <1>11

-----------------------------------------------------------------------------
(* Loans that are taken, funded and unfunded *)

\* The tables with one more loan.
Loaned(t, r, loan) == [t EXCEPT !.pool = AddLoanToPool(@, loan.payment, loan.total_staked),
                                !.loans[r] = @ \cup {loan}]

\* A loan of the next number leaves a good pool and good loans.
LEMMA LoanAdded ==
  ASSUME NEW t, Shape(t), Good(t), t.pool # Nil, 0 < t.pool.total_rex, loan_num \in Nat,
         NEW r \in RESOURCES, NEW loan \in rex_loan, loan.loan_num = loan_num + 1,
         0 < loan.payment, loan.payment < loan.total_staked,
         loan.total_staked <= t.pool.total_unlent,
         NEW w, w = Loaned(t, r, loan)
  PROVE  /\ Shape(w) /\ (Alive(w) => Alive(t)) /\ w.pool # Nil
         /\ GoodPool(w.pool, t.balances, w.loans) /\ GoodLoans(w.loans, loan_num + 1)
         /\ Debt(w) = Debt(t) - loan.payment - loan.balance
         /\ PoolOf(w.pool).namebid_proceeds = PoolOf(t.pool).namebid_proceeds
         /\ w.balances = t.balances /\ w.orders = t.orders /\ w.totals = t.totals
         /\ w.limits = t.limits /\ w.tlos = t.tlos /\ w.retained = t.retained /\ w.funds = t.funds
         /\ \A a \in Account, s \in RESOURCES :
              SumFunctionOnSet(StakedFor(a), w.loans[s])
                = SumFunctionOnSet(StakedFor(a), t.loans[s])
                  + (IF s = r /\ a = loan.receiver THEN loan.total_staked ELSE 0)
<1> DEFINE p == t.pool
           np == AddLoanToPool(p, loan.payment, loan.total_staked)
           ls == Including(t.loans, r, loan)
<1>1. /\ p \in rex_pool /\ GoodPool(p, t.balances, t.loans) /\ GoodLoans(t.loans, loan_num)
      /\ FiniteLoans(t.loans) /\ t.loans \in LoanTable
  BY DEF Good, GoodPool, GoodLoans, FiniteLoans
<1>2. /\ loan.payment \in Nat /\ loan.balance \in Nat /\ loan.total_staked \in Nat
      /\ loan.receiver \in Account
  BY LoanNumbers
<1>3. /\ 0 <= p.total_unlent /\ 0 <= p.total_rent /\ 0 <= p.namebid_proceeds
      /\ p.total_lent = OnLoans(StakedBy, t.loans)
      /\ p.total_lendable = p.total_lent + p.total_unlent
      /\ p.total_rex = SumHeld(t.balances)
  BY <1>1, GoodPoolIs
<1>4. /\ p.total_unlent \in Int /\ p.total_lent \in Int /\ p.total_lendable \in Int
      /\ p.total_rex \in Int
  BY <1>1 DEF rex_pool
<1>5. /\ np \in rex_pool /\ 0 <= np.total_rent
      /\ np.total_unlent = p.total_unlent - loan.total_staked + loan.payment
      /\ np.total_lent = p.total_lent + loan.total_staked
      /\ np.total_lendable = p.total_unlent + p.total_lent + loan.payment
      /\ np.total_rex = p.total_rex /\ np.namebid_proceeds = p.namebid_proceeds
  BY <1>1, <1>2, <1>3, AddedIs
<1>6. /\ Shape(w) /\ (Alive(w) => Alive(t)) /\ w.pool = np /\ w.loans = ls
      /\ w.balances = t.balances /\ w.funds = t.funds
      /\ w.orders = t.orders /\ w.totals = t.totals /\ w.limits = t.limits /\ w.tlos = t.tlos
      /\ w.retained = t.retained
  <2>1. ls = [t.loans EXCEPT ![r] = @ \cup {loan}]
    BY DEF Including
  <2> HIDE DEF np, ls
  <2>2. w = [t EXCEPT !.pool = np, !.loans = ls]
    BY <2>1 DEF np, Shape, Loaned
  <2>3. QED
    BY <2>2 DEF Shape, Alive
<1> HIDE DEF np
<1>7. loan \notin t.loans[r]
  <2>1. \A l \in t.loans[r] : l.loan_num <= loan_num /\ l \in rex_loan
    BY <1>1 DEF GoodLoans, LoanTable
  <2>2. QED
    BY <2>1
<1>8. ASSUME NEW f, OfLoans(f)
      PROVE  /\ FiniteLoans(ls) /\ ls[r] = t.loans[r] \cup {loan}
             /\ \A s \in RESOURCES : s # r => ls[s] = t.loans[s]
             /\ \A s \in RESOURCES : SumFunctionOnSet(f, ls[s])
                  = SumFunctionOnSet(f, t.loans[s]) + (IF s = r THEN f[loan] ELSE 0)
             /\ OnLoans(f, ls) = OnLoans(f, t.loans) + f[loan]
             /\ OnLoans(f, t.loans) \in Int
  BY <1>1, <1>7, <1>8, LoanIn, LoanSums
<1> HIDE DEF ls
<1>9. /\ OfLoans(StakedBy) /\ OfLoans(BalanceBy) /\ StakedBy[loan] = loan.total_staked
      /\ BalanceBy[loan] = loan.balance
  BY LoanNumbers
<1>10. /\ OnLoans(StakedBy, ls) = OnLoans(StakedBy, t.loans) + loan.total_staked
       /\ OnLoans(BalanceBy, ls) = OnLoans(BalanceBy, t.loans) + loan.balance
       /\ OnLoans(BalanceBy, t.loans) \in Int
       /\ FiniteLoans(ls) /\ ls[r] = t.loans[r] \cup {loan}
       /\ \A s \in RESOURCES : s # r => ls[s] = t.loans[s]
  BY <1>8, <1>9
<1>11. GoodLoans(ls, loan_num + 1)
  <2> SUFFICES ASSUME NEW s \in RESOURCES, NEW l \in ls[s]
               PROVE  /\ 0 < l.payment /\ 0 < l.total_staked /\ l.loan_num <= loan_num + 1
                      /\ \A m \in ls[s] : m.loan_num = l.loan_num => m = l
    BY <1>10 DEF GoodLoans
  <2>1. \A m \in t.loans[s] : /\ 0 < m.payment /\ 0 < m.total_staked /\ m.loan_num <= loan_num
                              /\ m.loan_num \in Nat
                              /\ \A o \in t.loans[s] : o.loan_num = m.loan_num => o = m
    BY <1>1, LoanNumbers DEF GoodLoans, LoanTable
  <2>2. CASE s # r
    BY <1>10, <2>1, <2>2
  <2>3. CASE s = r
    <3>1. 0 < loan.total_staked
      BY <1>2
    <3>2. QED
      BY <1>10, <2>1, <2>3, <3>1
  <2>4. QED
    BY <2>2, <2>3
<1>12. GoodPool(np, t.balances, ls)
  <2>1. 0 <= np.total_unlent
    BY <1>2, <1>4, <1>5
  <2>2. np.total_lent = OnLoans(StakedBy, ls)
    BY <1>3, <1>5, <1>10
  <2>3. np.total_lendable = np.total_lent + np.total_unlent
    BY <1>2, <1>4, <1>5
  <2>4. np.total_rex = SumHeld(t.balances) /\ np.total_rex # 0
    BY <1>3, <1>4, <1>5
  <2>5. QED
    BY <1>3, <1>5, <2>1, <2>2, <2>3, <2>4, GoodPoolIs
<1>13. np # Nil /\ PoolOf(np) = np /\ PoolOf(p) = p
  BY <1>5, NoRow DEF PoolOf
<1>14. Debt(w) = Debt(t) - loan.payment - loan.balance
  <2>1. np.total_lendable = p.total_lendable + loan.payment
    BY <1>2, <1>3, <1>4, <1>5
  <2>2. Debt(w) = Bal(t.tlos, REX_ACCOUNT) - np.total_lendable - SumFunds(t.funds)
                    - SumEarned(t.orders) - OnLoans(BalanceBy, ls)
    BY <1>6, <1>13 DEF Debt
  <2>3. Debt(t) = Bal(t.tlos, REX_ACCOUNT) - p.total_lendable - SumFunds(t.funds)
                    - SumEarned(t.orders) - OnLoans(BalanceBy, t.loans)
    BY <1>13 DEF Debt
  <2>4. QED
    BY <1>2, <1>4, <1>10, <2>1, <2>2, <2>3, DebtNumbers
<1>15. ASSUME NEW a \in Account, NEW s \in RESOURCES
       PROVE  SumFunctionOnSet(StakedFor(a), ls[s])
                = SumFunctionOnSet(StakedFor(a), t.loans[s])
                  + (IF s = r /\ a = loan.receiver THEN loan.total_staked ELSE 0)
  <2>1. OfLoans(StakedFor(a)) /\ StakedFor(a)[loan] = IF loan.receiver = a THEN loan.total_staked ELSE 0
    BY LoanNumbers
  <2>2. SumFunctionOnSet(StakedFor(a), ls[s])
          = SumFunctionOnSet(StakedFor(a), t.loans[s]) + (IF s = r THEN StakedFor(a)[loan] ELSE 0)
    BY <1>8, <2>1
  <2>3. SumFunctionOnSet(StakedFor(a), t.loans[s]) \in Int
    BY <1>1, <2>1, LoanSums
  <2>4. QED
    BY <1>2, <2>1, <2>2, <2>3
<1>16. QED
  BY <1>5, <1>6, <1>11, <1>12, <1>13, <1>14, <1>15

\* rentcpu, rentnet
LEMMA RentRexKeeps ==
  ASSUME ContractInv, NEW resource \in RESOURCES, NEW from \in Account, NEW receiver \in Account,
         NEW payment \in Nat, NEW fund \in Nat, RentRex(resource, from, receiver, payment, fund),
         UNCHANGED <<bidVars, ram>>
  PROVE  ContractInv'
<1> DEFINE first == runrex(Tables, 2)
           run == FromFund(first, from, payment + fund)
           rented == get_bancor_output(run.pool.total_rent, run.pool.total_unlent, payment)
           loan == [from |-> from, receiver |-> receiver, payment |-> payment, balance |-> fund,
                    total_staked |-> rented, expiration |-> now + LOAN_TIME, loan_num |-> loan_num + 1]
           w == [run EXCEPT !.pool = AddLoanToPool(@, payment, rented),
                            !.loans[resource] = @ \cup {loan}]
           u == LentOf(w, resource, receiver, rented)
<1>1. /\ Shape(Tables) /\ Good(Tables) /\ Debt(Tables) = 0 /\ now \in Time
      /\ Tables.balances = rexbalance /\ Tables.totals = userres /\ Tables.limits = limits
      /\ Tables.tlos = accounts /\ voters \in VoterTable
  BY TablesAre
<1>2. /\ BooksInv /\ RamInv /\ WeightInv /\ HoldsInv /\ del_bandwidth \in DelTable
      /\ unweighed \in [Account -> Int] /\ loan_num \in Nat
  BY DEF ContractInv, BooksInv, WeightInv
<1>3. /\ 0 < payment /\ loans_available(run) /\ payment < rented /\ Commit(u)
      /\ loan_num' = loan_num + 1 /\ VotesKept /\ UNCHANGED <<unweighed, taken, del_bandwidth>>
  <2>1. 0 < payment /\ loans_available(run) /\ payment < rented
    BY Zenon DEF RentRex
  <2>2. Commit(u)
    BY Zenon DEF RentRex
  <2>3. loan_num' = loan_num + 1 /\ VotesKept /\ UNCHANGED <<unweighed, taken, del_bandwidth>>
    BY Zenon DEF RentRex
  <2>4. QED
    BY <2>1, <2>2, <2>3
<1>4. Shape(first)
  <2>1. 2 \in Nat
    OBVIOUS
  <2>2. QED
    BY <1>1, <2>1, RunKeeps DEF Keeps
<1> HIDE DEF first
<1>5. /\ Shape(run) /\ (Alive(run) => Alive(first) /\ HasFund(first, from, payment + fund))
      /\ run.pool = first.pool /\ run.balances = first.balances /\ run.orders = first.orders
      /\ run.loans = first.loans /\ run.totals = first.totals /\ run.limits = first.limits
      /\ run.tlos = first.tlos /\ run.retained = first.retained
      /\ Good(first) /\ Alive(run) => Good(run) /\ Debt(run) = Debt(first) + (payment + fund)
  <2> DEFINE amount == payment + fund
  <2>1. amount \in Int
    OBVIOUS
  <2>2. run = FromFund(first, from, amount)
    OBVIOUS
  <2> HIDE DEF amount, run
  <2>3. /\ Shape(run) /\ (Alive(run) => Alive(first) /\ HasFund(first, from, amount))
        /\ run.pool = first.pool /\ run.balances = first.balances /\ run.orders = first.orders
        /\ run.loans = first.loans /\ run.totals = first.totals /\ run.limits = first.limits
        /\ run.tlos = first.tlos /\ run.retained = first.retained
        /\ Good(first) /\ Alive(run) => Good(run) /\ Debt(run) = Debt(first) + amount
    BY <1>4, <2>1, <2>2, FromFundIs
  <2>4. QED
    BY <2>3 DEF amount
<1> HIDE DEF run
<1>6. Shape(w) /\ (Alive(w) => Alive(run))
  BY <1>5 DEF Shape, Alive
<1>7. Alive(u) /\ Alive(w)
  <2> HIDE DEF w, rented
  <2>1. Alive(u) => Alive(w)
    BY <1>6, LentOfFrame
  <2> HIDE DEF u
  <2>2. QED
    BY <1>3, <2>1, CommitIs
<1>8. Good(first) /\ first.pool # Nil /\ Same(Tables, first) /\ Debt(first) = 0
  <2>1. Alive(runrex(Tables, 2))
    BY <1>5, <1>6, <1>7 DEF first
  <2>2. Good(first) /\ first.pool # Nil /\ Same(Tables, first)
    BY <1>1, <2>1, RunSettled DEF first
  <2>3. QED
    BY <1>1, <2>2 DEF Same
<1>9. Good(run) /\ Debt(run) = payment + fund /\ run.pool # Nil
  BY <1>5, <1>6, <1>7, <1>8
<1>10. /\ run.pool \in rex_pool /\ 0 < run.pool.total_rex
       /\ run.pool.total_rent \in Nat /\ run.pool.total_unlent \in Nat
  <2>1. run.pool \in rex_pool /\ GoodPool(run.pool, run.balances, run.loans)
    BY <1>9 DEF Good, GoodPool
  <2>2. 0 < run.pool.total_rex
    BY <1>3, <1>9, <2>1 DEF loans_available, rex_available, rex_pool
  <2>3. 0 <= run.pool.total_rent /\ 0 <= run.pool.total_unlent
    BY <2>1, GoodPoolIs
  <2>4. QED
    BY <2>1, <2>2, <2>3 DEF rex_pool
<1>11. rented \in Nat /\ rented <= run.pool.total_unlent
  <2> DEFINE a == run.pool.total_rent
             b == run.pool.total_unlent
  <2>1. a \in Nat /\ b \in Nat /\ 0 < a + payment
    BY <1>3, <1>10
  <2> HIDE DEF a, b
  <2>2. get_bancor_output(a, b, payment) \in Nat /\ get_bancor_output(a, b, payment) <= b
    BY <2>1, BancorIs
  <2>3. QED
    BY <2>2 DEF a, b
<1> HIDE DEF rented
<1>12. /\ loan \in rex_loan /\ loan.loan_num = loan_num + 1 /\ loan.payment = payment
       /\ loan.total_staked = rented /\ loan.balance = fund /\ loan.receiver = receiver
  <2>1. now + LOAN_TIME \in Nat /\ loan_num + 1 \in Nat
    BY <1>1, <1>2, RexAssumption, VotingAssumption DEF Time
  <2>2. loan \in rex_loan
    BY <1>11, <2>1 DEF rex_loan
  <2>3. QED
    BY <2>2
<1> HIDE DEF loan
<1>13. w = Loaned(run, resource, loan)
  BY <1>12 DEF Loaned
<1> HIDE DEF w
<1>14. /\ GoodPool(w.pool, run.balances, w.loans) /\ GoodLoans(w.loans, loan_num + 1)
       /\ Debt(w) = Debt(run) - loan.payment - loan.balance
       /\ PoolOf(w.pool).namebid_proceeds = PoolOf(run.pool).namebid_proceeds
       /\ w.balances = run.balances /\ w.orders = run.orders /\ w.totals = run.totals
       /\ w.limits = run.limits /\ w.tlos = run.tlos /\ w.retained = run.retained /\ w.funds = run.funds
       /\ \A a \in Account, s \in RESOURCES :
            SumFunctionOnSet(StakedFor(a), w.loans[s])
              = SumFunctionOnSet(StakedFor(a), run.loans[s])
                + (IF s = resource /\ a = loan.receiver THEN loan.total_staked ELSE 0)
  <2>1. loan.payment < loan.total_staked /\ 0 < loan.payment /\ loan.total_staked <= run.pool.total_unlent
    BY <1>3, <1>11, <1>12
  <2>2. /\ Shape(run) /\ Good(run) /\ run.pool # Nil /\ 0 < run.pool.total_rex /\ loan_num \in Nat
        /\ loan \in rex_loan /\ loan.loan_num = loan_num + 1
    BY <1>2, <1>5, <1>9, <1>10, <1>12
  <2>3. QED
    BY <1>13, <2>1, <2>2, LoanAdded
<1>15. /\ GoodTotals(run.totals, run.limits) /\ FiniteLoans(run.loans)
       /\ GoodRows(run.balances, run.orders) /\ GoodOrders(run.balances, run.orders)
       /\ run.funds \in FundTable /\ GoodTokens(run.tlos) /\ run.retained \in Nat
  BY <1>9 DEF Good, GoodLoans
<1>16. /\ GoodTotals(u.totals, u.limits) /\ Debt(u) = Debt(w)
       /\ \A a \in Account : OwnsAs(run, u, a)
       /\ u.pool = w.pool /\ u.balances = w.balances /\ u.funds = w.funds
       /\ u.orders = w.orders /\ u.loans = w.loans /\ u.tlos = w.tlos
       /\ u.retained = w.retained
  <2>1. rented \in Int
    BY <1>11
  <2>2. \A a \in Account, s \in RESOURCES :
          SumFunctionOnSet(StakedFor(a), w.loans[s])
            = SumFunctionOnSet(StakedFor(a), run.loans[s])
              + (IF s = resource /\ a = receiver THEN rented ELSE 0)
    BY <1>12, <1>14
  <2>3. Shape(w) /\ Alive(LentOf(w, resource, receiver, rented)) /\ w.totals = run.totals
        /\ w.limits = run.limits
    BY <1>6, <1>7, <1>14
  <2>4. QED
    BY <1>15, <2>1, <2>2, <2>3, OwnStakeMoved
<1> HIDE DEF u
<1>17. Debt(u) = 0
  BY <1>9, <1>12, <1>14, <1>16
<1>18. ASSUME NEW a \in Account
       PROVE  /\ OwnsAs(Tables, u, a) /\ WeighsAs(Tables, u, a)
  <2>1. OwnsAs(Tables, first, a) /\ WeighsAs(Tables, first, a)
    BY <1>8 DEF Same
  <2>2. OwnsAs(first, run, a)
    BY <1>5, OwnsFrame
  <2>3. OwnsAs(run, u, a)
    BY <1>16
  <2>4. WeighsAs(first, u, a)
    BY <1>5, <1>14, <1>16, WeighsFrame
  <2>5. QED
    BY <2>1, <2>2, <2>3, <2>4 DEF OwnsAs, WeighsAs
<1>19. Elsewhere(Tables, u)
  <2>1. Elsewhere(Tables, first)
    BY <1>8 DEF Same
  <2>2. Elsewhere(first, u)
    BY <1>5, <1>14, <1>16, ElsewhereFrame
  <2>3. QED
    BY <2>1, <2>2 DEF Elsewhere
<1>20. /\ voters' = voters /\ unweighed' = unweighed /\ del_bandwidth' = del_bandwidth
       /\ UNCHANGED <<taken, bidVars, ram>>
  BY <1>3 DEF VotesKept
<1>21. ASSUME NEW a \in Account
       PROVE  /\ StakedIn(voters'[a]) = StakeOf(del_bandwidth', a) + Weight(u, a) - unweighed'[a]
              /\ voters'[a] = Nil => u.balances[a] = Nil
              /\ Own(u, a, "net") = NetTo(del_bandwidth', a)
              /\ Own(u, a, "cpu") = CpuTo(del_bandwidth', a)
  <2>1. /\ StakedIn(voters[a]) = StakeOf(del_bandwidth, a) + Weight(Tables, a) - unweighed[a]
        /\ voters[a] = Nil => rexbalance[a] = Nil
        /\ Own(Tables, a, "net") = NetTo(del_bandwidth, a)
        /\ Own(Tables, a, "cpu") = CpuTo(del_bandwidth, a)
    BY <1>2 DEF WeightInv
  <2>2. QED
    BY <1>1, <1>18, <1>20, <2>1 DEF OwnsAs, WeighsAs
<1>22. Bal(u.tlos, STAKE_ACCOUNT) + taken[STAKE_ACCOUNT] = StakeOfAll(del_bandwidth') + OwedIn(refunds)
  BY <1>1, <1>2, <1>19, <1>20, HoldsIs DEF Elsewhere
<1>23. BooksInv'
  <2>1. /\ GoodPool(u.pool, u.balances, u.loans) /\ GoodLoans(u.loans, loan_num')
        /\ GoodRows(u.balances, u.orders) /\ GoodOrders(u.balances, u.orders)
        /\ u.funds \in FundTable
        /\ GoodTotals(u.totals, u.limits) /\ GoodTokens(u.tlos) /\ u.retained \in Nat
    BY <1>3, <1>14, <1>15, <1>16
  <2>2. /\ loan_num' \in Nat /\ voters' \in VoterTable /\ del_bandwidth' \in DelTable
        /\ unweighed' \in [Account -> Int] /\ UNCHANGED <<taken, bidVars>>
    BY <1>1, <1>2, <1>3, <1>20
  <2>3. Spare(u) = Spare(Tables)
    BY <1>19 DEF Elsewhere
  <2>4. QED
    BY <1>3, <1>17, <1>21, <1>22, <2>1, <2>2, <2>3, CommitKeeps
<1>24. RamInv'
  <2>1. accounts' = u.tlos /\ userres' = u.totals /\ limits' = u.limits
    BY <1>3, CommitIs
  <2>2. ASSUME NEW a \in Account
        PROVE  /\ Totals(userres'[a]).ram_bytes = Totals(userres[a]).ram_bytes
               /\ limits'[a].ram = limits[a].ram
               /\ "ram_managed" \in Flags(voters[a]) => "ram_managed" \in Flags(voters'[a])
    BY <1>1, <1>18, <1>20, <2>1 DEF OwnsAs
  <2>3. Bal(accounts', RAM_ACCOUNT) = Bal(accounts, RAM_ACCOUNT)
    BY <1>1, <1>19, <2>1 DEF Elsewhere
  <2>4. UNCHANGED <<ram, taken>>
    BY <1>20
  <2>5. QED
    BY <1>2, <2>2, <2>3, <2>4, RamKept
<1>25. QED
  BY <1>23, <1>24 DEF ContractInv

\* A loan is given some to be renewed with, or loses some.
LEMMA LoanFunded ==
  ASSUME NEW t, Shape(t), Good(t), NEW r \in RESOURCES, NEW loan \in t.loans[r], NEW delta \in Int,
         0 <= loan.balance + delta
  PROVE  LET u == WithBalance(t, r, loan, delta)
         IN /\ Shape(u) /\ (Alive(u) <=> Alive(t)) /\ Good(u) /\ Debt(u) = Debt(t) - delta
            /\ Elsewhere(t, u) /\ \A a \in Account : WeighsAs(t, u, a) /\ OwnsAs(t, u, a)
<1> DEFINE m == Funded(loan, delta)
           x == loan.balance + delta
           ls == Including(Without(t.loans, r, loan), r, m)
           u == WithBalance(t, r, loan, delta)
<1>1. /\ GoodPool(t.pool, t.balances, t.loans) /\ GoodLoans(t.loans, loan_num)
      /\ FiniteLoans(t.loans) /\ t.loans \in LoanTable
  BY DEF Good, GoodLoans, FiniteLoans
<1>2. loan \in rex_loan /\ 0 < loan.payment /\ 0 < loan.total_staked
  BY <1>1 DEF GoodLoans, LoanTable
<1>3. loan.balance \in Nat
  BY <1>2, LoanNumbers
<1>4. /\ m \in rex_loan /\ m.balance = loan.balance + delta /\ m.loan_num = loan.loan_num
      /\ m.payment = loan.payment /\ m.total_staked = loan.total_staked /\ m.receiver = loan.receiver
  <2>1. x \in Nat
    BY <1>3
  <2>2. m = [loan EXCEPT !.balance = x]
    BY DEF Funded
  <2> HIDE DEF m, x
  <2>3. m \in rex_loan
    BY <1>2, <2>1, <2>2 DEF rex_loan
  <2>4. /\ m.balance = x /\ m.loan_num = loan.loan_num
        /\ m.payment = loan.payment /\ m.total_staked = loan.total_staked /\ m.receiver = loan.receiver
    BY <1>2, <2>2 DEF rex_loan
  <2>5. QED
    BY <2>3, <2>4 DEF x
<1>5. /\ Shape(u) /\ (Alive(u) <=> Alive(t)) /\ u.pool = t.pool /\ u.loans = ls
      /\ u.balances = t.balances /\ u.funds = t.funds
      /\ u.orders = t.orders /\ u.totals = t.totals /\ u.limits = t.limits /\ u.tlos = t.tlos
      /\ u.retained = t.retained
  <2> HIDE DEF m
  <2>1. ls = [t.loans EXCEPT ![r] = (@ \ {loan}) \cup {m}]
    BY <1>1 DEF Including, Without, LoanTable
  <2> HIDE DEF ls
  <2>2. u = [t EXCEPT !.loans = ls]
    BY <2>1 DEF WithBalance, m, Shape
  <2>3. QED
    BY <2>2 DEF Shape, Alive
<1> HIDE DEF u, m
<1>6. ASSUME NEW f, OfLoans(f)
      PROVE  /\ GoodLoans(ls, loan_num)
             /\ \A s \in RESOURCES : SumFunctionOnSet(f, ls[s])
                  = SumFunctionOnSet(f, t.loans[s]) + (IF s = r THEN f[m] - f[loan] ELSE 0)
             /\ OnLoans(f, ls) = OnLoans(f, t.loans) + f[m] - f[loan]
             /\ OnLoans(f, t.loans) \in Int
             /\ \A s \in RESOURCES : SumFunctionOnSet(f, t.loans[s]) \in Int
  BY <1>1, <1>2, <1>4, <1>6, LoanSwap, LoanSums
<1> HIDE DEF ls
<1>7. /\ OfLoans(StakedBy) /\ OfLoans(BalanceBy)
      /\ StakedBy[m] = m.total_staked /\ StakedBy[loan] = loan.total_staked
      /\ BalanceBy[m] = m.balance /\ BalanceBy[loan] = loan.balance /\ loan.total_staked \in Nat
  BY <1>2, <1>4, LoanNumbers
<1>8. /\ OnLoans(StakedBy, ls) = OnLoans(StakedBy, t.loans)
      /\ OnLoans(BalanceBy, ls) = OnLoans(BalanceBy, t.loans) + delta
      /\ OnLoans(BalanceBy, t.loans) \in Int /\ GoodLoans(ls, loan_num)
  <2>1. /\ OnLoans(StakedBy, ls) = OnLoans(StakedBy, t.loans) + StakedBy[m] - StakedBy[loan]
        /\ OnLoans(StakedBy, t.loans) \in Int
    BY <1>6, <1>7
  <2>2. /\ OnLoans(BalanceBy, ls) = OnLoans(BalanceBy, t.loans) + BalanceBy[m] - BalanceBy[loan]
        /\ OnLoans(BalanceBy, t.loans) \in Int /\ GoodLoans(ls, loan_num)
    BY <1>6, <1>7
  <2>3. QED
    BY <1>3, <1>4, <1>7, <2>1, <2>2
<1>9. GoodPool(t.pool, t.balances, ls)
  BY <1>1, <1>8 DEF GoodPool
<1>10. Good(u)
  BY <1>5, <1>8, <1>9 DEF Good
<1>11. Debt(u) = Debt(t) - delta
  BY <1>5, <1>8, DebtNumbers DEF Debt
<1>12. Elsewhere(t, u) /\ \A a \in Account : WeighsAs(t, u, a)
  BY <1>5, ElsewhereFrame, WeighsFrame
<1>13. ASSUME NEW a \in Account
       PROVE  OwnsAs(t, u, a)
  <2>1. /\ OfLoans(StakedFor(a))
        /\ StakedFor(a)[m] = StakedFor(a)[loan] /\ StakedFor(a)[loan] \in Int
    BY <1>2, <1>4, <1>7, LoanNumbers
  <2>2. \A s \in RESOURCES :
          SumFunctionOnSet(StakedFor(a), ls[s]) = SumFunctionOnSet(StakedFor(a), t.loans[s])
    BY <1>6, <2>1
  <2>3. "net" \in RESOURCES /\ "cpu" \in RESOURCES
    BY DEF RESOURCES
  <2>4. QED
    BY <1>5, <2>2, <2>3 DEF OwnsAs, Own
<1>14. QED
  BY <1>5, <1>10, <1>11, <1>12, <1>13 DEF u

\* fundcpuloan, fundnetloan
LEMMA FundLoanKeeps ==
  ASSUME ContractInv, NEW resource \in RESOURCES, NEW from \in Account, NEW loan, NEW payment \in Nat,
         FundLoan(resource, from, loan, payment), UNCHANGED <<bidVars, ram>>
  PROVE  ContractInv'
<1> DEFINE t == FromFund(Tables, from, payment)
           u == WithBalance(t, resource, loan, payment)
<1>1. Shape(Tables) /\ Good(Tables) /\ Debt(Tables) = 0 /\ Tables.loans = loans
  BY TablesAre
<1>2. loan \in loans[resource] /\ Commit(u) /\ VotesKept /\ LoansCounted
  BY DEF FundLoan, OwnLoan
<1>3. /\ Shape(t) /\ (Alive(t) => Alive(Tables))
      /\ t.pool = Tables.pool /\ t.balances = Tables.balances /\ t.orders = Tables.orders
      /\ t.loans = Tables.loans /\ t.totals = Tables.totals /\ t.limits = Tables.limits
      /\ t.tlos = Tables.tlos /\ t.retained = Tables.retained
      /\ Good(Tables) /\ Alive(t) => Good(t) /\ Debt(t) = Debt(Tables) + payment
  BY <1>1, FromFundIs
<1> HIDE DEF t
<1>4. Alive(t)
  <2>1. Alive(u) => Alive(t)
    BY <1>3 DEF WithBalance, Shape, Alive
  <2> HIDE DEF u
  <2>2. QED
    BY <1>2, <2>1, CommitIs
<1>5. Good(t) /\ Debt(t) = payment
  BY <1>1, <1>3, <1>4
<1>6. payment \in Int /\ 0 <= loan.balance + payment /\ loan \in t.loans[resource]
  <2>1. loan \in rex_loan
    BY <1>1, <1>2 DEF Good, GoodLoans, FiniteLoans, LoanTable
  <2>2. loan.balance \in Nat
    BY <2>1, LoanNumbers
  <2>3. QED
    BY <1>1, <1>2, <1>3, <2>2
<1>7. /\ Good(u) /\ Debt(u) = Debt(t) - payment
      /\ Elsewhere(t, u) /\ \A a \in Account : WeighsAs(t, u, a) /\ OwnsAs(t, u, a)
  BY <1>3, <1>5, <1>6, LoanFunded
<1> HIDE DEF u
<1>8. Debt(u) = 0
  BY <1>5, <1>7
<1>9. Same(Tables, u)
  <2>1. Elsewhere(Tables, t) /\ \A a \in Account : WeighsAs(Tables, t, a) /\ OwnsAs(Tables, t, a)
    BY <1>3, ElsewhereFrame, WeighsFrame, OwnsFrame
  <2>2. QED
    BY <1>1, <1>7, <1>8, <2>1 DEF Same, Elsewhere, WeighsAs, OwnsAs
<1>10. QED
  BY <1>2, <1>7, <1>8, <1>9, SameKeeps

\* defcpuloan, defnetloan
LEMMA DefundLoanKeeps ==
  ASSUME ContractInv, NEW resource \in RESOURCES, NEW from \in Account, NEW loan, NEW amount \in Nat,
         DefundLoan(resource, from, loan, amount), UNCHANGED <<bidVars, ram>>
  PROVE  ContractInv'
<1> DEFINE t == ToFund(Tables, from, amount)
           delta == -amount
           u == WithBalance(t, resource, loan, delta)
<1>1. Shape(Tables) /\ Good(Tables) /\ Debt(Tables) = 0 /\ Tables.loans = loans
  BY TablesAre
<1>2. /\ loan \in loans[resource] /\ amount <= loan.balance
      /\ Commit(u) /\ VotesKept /\ LoansCounted
  BY DEF DefundLoan, OwnLoan
<1>3. /\ Shape(t)
      /\ t.pool = Tables.pool /\ t.balances = Tables.balances /\ t.orders = Tables.orders
      /\ t.loans = Tables.loans /\ t.totals = Tables.totals /\ t.limits = Tables.limits
      /\ t.tlos = Tables.tlos /\ t.retained = Tables.retained
      /\ Good(t) /\ Debt(t) = Debt(Tables) - amount
  BY <1>1, ToFundIs
<1> HIDE DEF t
<1>4. delta \in Int /\ 0 <= loan.balance + delta /\ loan \in t.loans[resource]
  <2>1. loan \in rex_loan
    BY <1>1, <1>2 DEF Good, GoodLoans, FiniteLoans, LoanTable
  <2>2. loan.balance \in Nat
    BY <2>1, LoanNumbers
  <2>3. QED
    BY <1>1, <1>2, <1>3, <2>2
<1> HIDE DEF delta
<1>5. /\ Good(u) /\ Debt(u) = Debt(t) - delta
      /\ Elsewhere(t, u) /\ \A a \in Account : WeighsAs(t, u, a) /\ OwnsAs(t, u, a)
  BY <1>3, <1>4, LoanFunded
<1> HIDE DEF u
<1>6. Debt(u) = 0
  BY <1>1, <1>3, <1>5 DEF delta
<1>7. Same(Tables, u)
  <2>1. Elsewhere(Tables, t) /\ \A a \in Account : WeighsAs(Tables, t, a) /\ OwnsAs(Tables, t, a)
    BY <1>3, ElsewhereFrame, WeighsFrame, OwnsFrame
  <2>2. QED
    BY <1>1, <1>5, <1>6, <2>1 DEF Same, Elsewhere, WeighsAs, OwnsAs
<1>8. QED
  BY <1>2, <1>5, <1>6, <1>7, SameKeeps
=============================================================================
