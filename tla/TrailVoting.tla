----------------------------- MODULE TrailVoting -----------------------------
(***************************************************************************)
(* Ballots of contracts/eosio.trail: proposals and leaderboards, the votes *)
(* cast on them and the receipts voters keep.  Every action is one         *)
(* transaction; the environment structure's time_now is read from the      *)
(* clock by the contract's constructor in every action, so now stands for  *)
(* both it and current_time_point.                                         *)
(*                                                                         *)
(* All ballots count tokens of one registry, which stays registered.  What *)
(* moves its tokens is the environment's action WeightChanges.             *)
(***************************************************************************)
EXTENDS Integers, SequencesExt

CONSTANTS Publisher, Voter,
          Member,         \* accounts that can be candidates
          Nil,            \* no row
          MaxBallotId,    \* bound: ids of ballots and of their rows are 0..MaxBallotId
          MaxTime,        \* bound on the clock, in seconds
          MaxCycle,       \* bound on cycle_count, below the range of its uint16_t
          Weight,         \* balances a voter can have
          Recastable,     \* values the registry's is_recastable can have
          CandidateLists, \* arguments of setallcands
          NumDeletes,     \* arguments of deloldvotes
          NumSeats,       \* arguments of setseats
          Status          \* codes given to closeballot and setallstats

VARIABLES now,
          ballots,       \* ballot_id -> [table_id, reference_id]
          proposals,     \* reference_id -> proposal
          leaderboards,  \* reference_id -> leaderboard
          totals,        \* environment: number of rows, by table_id
          receipts,      \* voter -> ballot_id -> receipt
          weight,        \* voter -> balance in the voting token
          recastable     \* the registry's settings.is_recastable

vars == <<now, ballots, proposals, leaderboards, totals, receipts, weight, recastable>>

BallotId == 0..MaxBallotId
Time == 0..MaxTime

\* table_id
PROPOSAL == 0
LEADERBOARD == 2

\* Directions of a vote for a proposal.
Direction == 0..2

Ballot == [table_id : {PROPOSAL, LEADERBOARD}, reference_id : BallotId]

\* counts holds no_count, yes_count and abstain_count.  An asset can be
\* negative.
Proposal == [publisher : Publisher, counts : [Direction -> Int], unique_voters : Nat,
             begin_time : Time, end_time : Time, cycle_count : 0..MaxCycle,
             status : Status]

Candidate == [member : Member, votes : Nat, status : Status]

Leaderboard == [publisher : Publisher, candidates : Seq(Candidate), unique_voters : Nat,
                available_seats : Nat, begin_time : Time, end_time : Time, status : Status]

Receipt == [directions : Seq(Nat), weight : Nat, expiration : Time]

\* Names are 64-bit numbers, so there are finitely many voters.
ASSUME ConstantsAssumption ==
  /\ IsFiniteSet(Voter)
  /\ MaxBallotId \in Nat /\ MaxTime \in Nat /\ MaxCycle \in Nat
  /\ Weight \subseteq Nat /\ 0 \in Weight
  /\ Recastable \subseteq BOOLEAN /\ Recastable # {}
  /\ CandidateLists \subseteq Seq(Candidate)
  /\ NumDeletes \subseteq Nat \ {0} /\ NumSeats \subseteq Nat \ {0}
  /\ 0 \in Status
  /\ Nil \notin Ballot /\ Nil \notin Proposal /\ Nil \notin Leaderboard /\ Nil \notin Receipt

Rows(table) == {k \in DOMAIN table : table[k] # Nil}

\* available_primary_key(): one past the largest key, zero in an empty table.
IsNextKey(k, keys) == /\ \A key \in keys : key < k
                      /\ k = 0 \/ k - 1 \in keys

TypeOK == /\ now \in Time
          /\ ballots \in [BallotId -> Ballot \cup {Nil}]
          /\ proposals \in [BallotId -> Proposal \cup {Nil}]
          /\ leaderboards \in [BallotId -> Leaderboard \cup {Nil}]
          /\ totals \in [{PROPOSAL, LEADERBOARD} -> Nat]
          /\ receipts \in [Voter -> [BallotId -> Receipt \cup {Nil}]]
          /\ weight \in [Voter -> Weight]
          /\ recastable \in Recastable

Init == /\ now = 0
        /\ ballots = [b \in BallotId |-> Nil]
        /\ proposals = [r \in BallotId |-> Nil]
        /\ leaderboards = [r \in BallotId |-> Nil]
        /\ totals = [t \in {PROPOSAL, LEADERBOARD} |-> 0]
        /\ receipts = [v \in Voter |-> [b \in BallotId |-> Nil]]
        /\ weight = [v \in Voter |-> 0]
        /\ recastable \in Recastable

voterVars == <<receipts, weight, recastable>>
listVars == <<ballots, totals>>

ReferenceOf(b) == ballots[b].reference_id

IsBallot(b, table) == b \in Rows(ballots) /\ ballots[b].table_id = table

-----------------------------------------------------------------------------
(* The clock, the voters' balances and the registry's settings *)

Tick == /\ now < MaxTime
        /\ now' = now + 1
        /\ UNCHANGED <<listVars, proposals, leaderboards, voterVars>>

\* mirrorcast, transfer, issuetoken and the other token actions.
WeightChanges(voter) ==
  /\ \E w \in Weight : w # weight[voter] /\ weight' = [weight EXCEPT ![voter] = w]
  /\ UNCHANGED <<now, listVars, proposals, leaderboards, receipts, recastable>>

InitSettings ==
  /\ recastable' \in Recastable
  /\ UNCHANGED <<now, listVars, proposals, leaderboards, receipts, weight>>

-----------------------------------------------------------------------------
(* Registration of ballots *)

NewProposal(publisher, begin_time, end_time) ==
  [publisher |-> publisher, counts |-> [d \in Direction |-> 0], unique_voters |-> 0,
   begin_time |-> begin_time, end_time |-> end_time, cycle_count |-> 0, status |-> 0]

NewLeaderboard(publisher, begin_time, end_time) ==
  [publisher |-> publisher, candidates |-> <<>>, unique_voters |-> 0, available_seats |-> 0,
   begin_time |-> begin_time, end_time |-> end_time, status |-> 0]

ListBallot(table, r) ==
  /\ totals' = [totals EXCEPT ![table] = @ + 1]
  /\ \E b \in BallotId :
       /\ IsNextKey(b, Rows(ballots))
       /\ ballots' = [ballots EXCEPT ![b] = [table_id |-> table, reference_id |-> r]]

RegProposal(publisher, begin_time, end_time) ==
  /\ begin_time < end_time
  /\ \E r \in BallotId :
       /\ IsNextKey(r, Rows(proposals))
       /\ proposals' = [proposals EXCEPT ![r] = NewProposal(publisher, begin_time, end_time)]
       /\ ListBallot(PROPOSAL, r)
  /\ UNCHANGED <<now, leaderboards, voterVars>>

RegLeaderboard(publisher, begin_time, end_time) ==
  /\ begin_time < end_time
  /\ \E r \in BallotId :
       /\ IsNextKey(r, Rows(leaderboards))
       /\ leaderboards' =
            [leaderboards EXCEPT ![r] = NewLeaderboard(publisher, begin_time, end_time)]
       /\ ListBallot(LEADERBOARD, r)
  /\ UNCHANGED <<now, proposals, voterVars>>

\* Mutant: the ballot stays in the list, with the row's reference.
UnlistRowOnly(b) ==
  /\ totals' = [totals EXCEPT ![ballots[b].table_id] = @ - 1]
  /\ UNCHANGED ballots

UnlistBallot(b) ==
  /\ totals' = [totals EXCEPT ![ballots[b].table_id] = @ - 1]
  /\ ballots' = [ballots EXCEPT ![b] = Nil]

UnregProposal(publisher, b) ==
  /\ IsBallot(b, PROPOSAL)
  /\ ReferenceOf(b) \in Rows(proposals)
  /\ now < proposals[ReferenceOf(b)].begin_time
  /\ proposals[ReferenceOf(b)].publisher = publisher
  /\ proposals[ReferenceOf(b)].cycle_count = 0
  /\ proposals' = [proposals EXCEPT ![ReferenceOf(b)] = Nil]
  /\ UnlistBallot(b)
  /\ UNCHANGED <<now, leaderboards, voterVars>>

UnregLeaderboard(publisher, b) ==
  /\ IsBallot(b, LEADERBOARD)
  /\ ReferenceOf(b) \in Rows(leaderboards)
  /\ now < leaderboards[ReferenceOf(b)].begin_time
  /\ leaderboards[ReferenceOf(b)].publisher = publisher
  /\ leaderboards' = [leaderboards EXCEPT ![ReferenceOf(b)] = Nil]
  /\ UnlistBallot(b)
  /\ UNCHANGED <<now, proposals, voterVars>>

-----------------------------------------------------------------------------
(* Candidates and seats of a leaderboard *)

\* Mutant: the list is still open in the second in which voting begins.
ListOpenAtBegin(board) == now <= board.begin_time

ListOpen(board) == now < board.begin_time

\* The leaderboard of ballot b, which publisher may change until voting begins.
OwnListOpen(publisher, b) ==
  /\ IsBallot(b, LEADERBOARD)
  /\ ReferenceOf(b) \in Rows(leaderboards)
  /\ leaderboards[ReferenceOf(b)].publisher = publisher
  /\ ListOpen(leaderboards[ReferenceOf(b)])

AddCandidate(publisher, b, new_candidate) ==
  /\ OwnListOpen(publisher, b)
  /\ leaderboards[ReferenceOf(b)].available_seats > 0
  /\ \A i \in DOMAIN leaderboards[ReferenceOf(b)].candidates :
       leaderboards[ReferenceOf(b)].candidates[i].member # new_candidate
  /\ leaderboards' = [leaderboards EXCEPT ![ReferenceOf(b)].candidates =
                        Append(@, [member |-> new_candidate, votes |-> 0, status |-> 0])]
  /\ UNCHANGED <<now, listVars, proposals, voterVars>>

\* The list is taken as it is given.
SetAllCands(publisher, b, new_candidates) ==
  /\ OwnListOpen(publisher, b)
  /\ leaderboards' = [leaderboards EXCEPT ![ReferenceOf(b)].candidates = new_candidates]
  /\ UNCHANGED <<now, listVars, proposals, voterVars>>

\* The first candidate of that name is removed.
RmvCandidate(publisher, b, member) ==
  /\ OwnListOpen(publisher, b)
  /\ LET candidates == leaderboards[ReferenceOf(b)].candidates
     IN  \E i \in DOMAIN candidates :
           /\ candidates[i].member = member
           /\ \A j \in 1..(i - 1) : candidates[j].member # member
           /\ leaderboards' = [leaderboards EXCEPT ![ReferenceOf(b)].candidates =
                                 RemoveAt(candidates, i)]
  /\ UNCHANGED <<now, listVars, proposals, voterVars>>

\* The type of the ballot is not tested: the reference of a proposal is taken
\* for that of a leaderboard.
SetSeats(publisher, b, num_seats) ==
  /\ b \in Rows(ballots)
  /\ ReferenceOf(b) \in Rows(leaderboards)
  /\ now < leaderboards[ReferenceOf(b)].begin_time
  /\ leaderboards[ReferenceOf(b)].publisher = publisher
  /\ leaderboards' = [leaderboards EXCEPT ![ReferenceOf(b)].available_seats = num_seats]
  /\ UNCHANGED <<now, listVars, proposals, voterVars>>

SetAllStats(publisher, b) ==
  /\ IsBallot(b, LEADERBOARD)
  /\ ReferenceOf(b) \in Rows(leaderboards)
  /\ leaderboards[ReferenceOf(b)].publisher = publisher
  /\ now > leaderboards[ReferenceOf(b)].end_time
  /\ LET candidates == leaderboards[ReferenceOf(b)].candidates
     IN  \E statuses \in [DOMAIN candidates -> Status] :
           leaderboards' = [leaderboards EXCEPT ![ReferenceOf(b)].candidates =
             [i \in DOMAIN candidates |-> [candidates[i] EXCEPT !.status = statuses[i]]]]
  /\ UNCHANGED <<now, listVars, proposals, voterVars>>

-----------------------------------------------------------------------------
(* Voting *)

\* Mutant: voting never ends.
VotingBegun(row) == row.begin_time <= now

\* Both ends of the window belong to it.
VotingOpen(row) == row.begin_time <= now /\ now <= row.end_time

\* A receipt of the cycle that ends at end_time.
IsOfCycle(vr, end_time) == vr # Nil /\ vr.expiration = end_time

\* The counts after a vote.  One that is cast again in the same cycle replaces
\* that of receipt vr: in the same direction only the difference of the weights
\* is counted.
Recounted(counts, recast, vr, direction, w) ==
  CASE ~ recast -> [counts EXCEPT ![direction] = @ + w]
    [] recast /\ vr.directions[1] = direction ->
         [counts EXCEPT ![direction] = @ + (w - vr.weight)]
    [] OTHER -> [counts EXCEPT ![vr.directions[1]] = @ - vr.weight, ![direction] = @ + w]

\* Mutant: the vote for a new cycle does not renew the receipt's expiration.
ReceiptUnrenewed(vr, direction, w, end_time) ==
  CASE vr = Nil -> [directions |-> <<direction>>, weight |-> w, expiration |-> end_time]
    [] OTHER -> [directions |-> <<direction>>, weight |-> w, expiration |-> vr.expiration]

\* The voter's receipt after the vote.  A vote in the same direction leaves it
\* as it was, weight included; so would a receipt of a later cycle.
ProposalReceipt(vr, direction, w, end_time) ==
  CASE vr = Nil -> [directions |-> <<direction>>, weight |-> w, expiration |-> end_time]
    [] vr # Nil /\ vr.expiration = end_time /\ vr.directions[1] = direction -> vr
    [] vr # Nil /\ vr.expiration > end_time -> vr
    [] OTHER -> [directions |-> <<direction>>, weight |-> w, expiration |-> end_time]

VoteForProposal(voter, b, direction) ==
  /\ IsBallot(b, PROPOSAL)
  /\ ReferenceOf(b) \in Rows(proposals)
  /\ VotingOpen(proposals[ReferenceOf(b)])
  /\ weight[voter] > 0
  /\ LET prop == proposals[ReferenceOf(b)]
         vr == receipts[voter][b]
         recast == IsOfCycle(vr, prop.end_time)
     IN  /\ recast => recastable
         /\ receipts' = [receipts EXCEPT ![voter][b] =
                           ProposalReceipt(vr, direction, weight[voter], prop.end_time)]
         /\ proposals' = [proposals EXCEPT
              ![ReferenceOf(b)].counts = Recounted(@, recast, vr, direction, weight[voter]),
              ![ReferenceOf(b)].unique_voters = IF recast THEN @ ELSE @ + 1]
  /\ UNCHANGED <<now, listVars, leaderboards, weight, recastable>>

\* Mutant: only the first direction is written down.
FirstDirectionOnly(vr, direction, w, end_time) ==
  IF vr = Nil THEN [directions |-> <<direction>>, weight |-> w, expiration |-> end_time]
  ELSE vr

\* The receipt after a vote for a candidate: each candidate is written down,
\* the weight is that of the first.  A receipt that expires at another time
\* than the board stays as it is.
BoardReceipt(vr, direction, w, end_time) ==
  CASE vr = Nil -> [directions |-> <<direction>>, weight |-> w, expiration |-> end_time]
    [] IsOfCycle(vr, end_time) -> [vr EXCEPT !.directions = Append(@, direction)]
    [] OTHER -> vr

\* direction is the candidate's index from zero.  A second vote for the same
\* candidate fails: recasting is disabled for leaderboards.
VoteForLeaderboard(voter, b, direction) ==
  /\ IsBallot(b, LEADERBOARD)
  /\ ReferenceOf(b) \in Rows(leaderboards)
  /\ direction + 1 \in DOMAIN leaderboards[ReferenceOf(b)].candidates
  /\ VotingOpen(leaderboards[ReferenceOf(b)])
  /\ weight[voter] > 0
  /\ LET end_time == leaderboards[ReferenceOf(b)].end_time
         vr == receipts[voter][b]
         again == IsOfCycle(vr, end_time)
     IN  /\ again => ~ Contains(vr.directions, direction)
         /\ receipts' = [receipts EXCEPT ![voter][b] =
                           BoardReceipt(vr, direction, weight[voter], end_time)]
         /\ leaderboards' = [leaderboards EXCEPT
              ![ReferenceOf(b)].candidates[direction + 1].votes = @ + weight[voter],
              ![ReferenceOf(b)].unique_voters = IF again THEN @ ELSE @ + 1]
  /\ UNCHANGED <<now, listVars, proposals, weight, recastable>>

\* Mutant: a receipt is old in the last second of its ballot.
ExpiredAtEnd(vr) == vr # Nil /\ vr.expiration <= now

Expired(vr) == vr # Nil /\ vr.expiration < now

\* The first num_to_delete expired receipts, in the order of their ballots.
DelOldVotes(voter, num_to_delete) ==
  /\ LET old == {b \in BallotId : Expired(receipts[voter][b])}
         deleted == {b \in old : Cardinality({e \in old : e < b}) < num_to_delete}
     IN  receipts' = [receipts EXCEPT ![voter] =
                        [b \in BallotId |-> IF b \in deleted THEN Nil ELSE @[b]]]
  /\ UNCHANGED <<now, listVars, proposals, leaderboards, weight, recastable>>

-----------------------------------------------------------------------------
(* Closing and cycling *)

CloseProposal(publisher, b, pass) ==
  /\ IsBallot(b, PROPOSAL)
  /\ ReferenceOf(b) \in Rows(proposals)
  /\ now > proposals[ReferenceOf(b)].end_time
  /\ proposals[ReferenceOf(b)].publisher = publisher
  /\ proposals' = [proposals EXCEPT ![ReferenceOf(b)].status = pass]
  /\ UNCHANGED <<now, listVars, leaderboards, voterVars>>

CloseLeaderboard(publisher, b, pass) ==
  /\ IsBallot(b, LEADERBOARD)
  /\ ReferenceOf(b) \in Rows(leaderboards)
  /\ now > leaderboards[ReferenceOf(b)].end_time
  /\ leaderboards[ReferenceOf(b)].publisher = publisher
  /\ leaderboards' = [leaderboards EXCEPT ![ReferenceOf(b)].status = pass]
  /\ UNCHANGED <<now, listVars, proposals, voterVars>>

\* Mutant: the voters of the previous cycle are still counted.
CycledWithVoters(prop, begin_time, end_time) ==
  [prop EXCEPT !.counts = [d \in Direction |-> 0],
               !.begin_time = begin_time, !.end_time = end_time,
               !.cycle_count = @ + 1, !.status = 0]

Cycled(prop, begin_time, end_time) ==
  [prop EXCEPT !.counts = [d \in Direction |-> 0], !.unique_voters = 0,
               !.begin_time = begin_time, !.end_time = end_time,
               !.cycle_count = @ + 1, !.status = 0]

\* Whoever calls it: the publisher is not compared with the proposal's.  The
\* new window may lie in the past.
NextCycle(b, begin_time, end_time) ==
  /\ begin_time < end_time
  /\ IsBallot(b, PROPOSAL)
  /\ ReferenceOf(b) \in Rows(proposals)
  /\ ~ VotingOpen(proposals[ReferenceOf(b)])
  /\ proposals[ReferenceOf(b)].cycle_count < MaxCycle
  /\ proposals' = [proposals EXCEPT ![ReferenceOf(b)] = Cycled(@, begin_time, end_time)]
  /\ UNCHANGED <<now, listVars, leaderboards, voterVars>>

-----------------------------------------------------------------------------
VoterNext ==
  \E v \in Voter :
    \/ WeightChanges(v)
    \/ \E n \in NumDeletes : DelOldVotes(v, n)
    \/ \E b \in BallotId :
         \/ \E d \in Direction : VoteForProposal(v, b, d)
         \/ /\ IsBallot(b, LEADERBOARD)
            /\ \E i \in DOMAIN leaderboards[ReferenceOf(b)].candidates :
                 VoteForLeaderboard(v, b, i - 1)

\* What a publisher can do to the ballots there are.
BallotNext(publisher) ==
  \E b \in BallotId :
    \/ UnregProposal(publisher, b) \/ UnregLeaderboard(publisher, b)
    \/ \E m \in Member : AddCandidate(publisher, b, m) \/ RmvCandidate(publisher, b, m)
    \/ \E list \in CandidateLists : SetAllCands(publisher, b, list)
    \/ \E n \in NumSeats : SetSeats(publisher, b, n)
    \/ SetAllStats(publisher, b)
    \/ \E pass \in Status : CloseProposal(publisher, b, pass) \/ CloseLeaderboard(publisher, b, pass)

PublisherNext ==
  \E p \in Publisher :
    \/ \E begin, end \in Time : RegProposal(p, begin, end) \/ RegLeaderboard(p, begin, end)
    \/ BallotNext(p)

Next == \/ Tick
        \/ InitSettings
        \/ VoterNext
        \/ PublisherNext
        \/ \E b \in BallotId, begin, end \in Time : NextCycle(b, begin, end)

Spec == Init /\ [][Next]_vars
-----------------------------------------------------------------------------
(* Properties *)

ProposalBallots == {b \in Rows(ballots) : ballots[b].table_id = PROPOSAL}
BoardBallots == Rows(ballots) \ ProposalBallots

\* The voters whose receipt for ballot b is of the cycle ending at end_time.
VotersOf(b, end_time) == {v \in Voter : IsOfCycle(receipts[v][b], end_time)}

\* Ballots and rows correspond one to one although the ids of both are given
\* out again, and the environment's totals count them (regballot, unregballot).
BallotsOwnRows ==
  /\ \A b \in ProposalBallots : ReferenceOf(b) \in Rows(proposals)
  /\ \A b \in BoardBallots : ReferenceOf(b) \in Rows(leaderboards)
  /\ \A b, d \in Rows(ballots) : ballots[b] = ballots[d] => b = d
  /\ totals[PROPOSAL] = Cardinality(Rows(proposals))
  /\ totals[LEADERBOARD] = Cardinality(Rows(leaderboards))

\* While a ballot can be voted on, its unique_voters are the voters with a
\* receipt of its current cycle: nobody is counted twice in a cycle, or left
\* out because of a vote in an earlier one or on a ballot that had the same id.
VotersCounted ==
  /\ \A b \in ProposalBallots :
       LET prop == proposals[ReferenceOf(b)]
       IN  now <= prop.end_time =>
             prop.unique_voters = Cardinality(VotersOf(b, prop.end_time))
  /\ \A b \in BoardBallots :
       LET board == leaderboards[ReferenceOf(b)]
       IN  now <= board.end_time =>
             board.unique_voters = Cardinality(VotersOf(b, board.end_time))

\* What a voter's receipt adds to the count in direction d.
Counted(v, b, end_time, d) ==
  IF v \in VotersOf(b, end_time) /\ receipts[v][b].directions[1] = d
  THEN receipts[v][b].weight
  ELSE 0

\* While a proposal can be voted on, each count is the weight of the current
\* receipts in that direction (castvote with changing balances, nextcycle).
CountsAreReceipts ==
  \A b \in ProposalBallots :
    LET prop == proposals[ReferenceOf(b)]
    IN  now <= prop.end_time =>
          \A d \in Direction :
            prop.counts[d] =
              SumFunctionOnSet([v \in Voter |-> Counted(v, b, prop.end_time, d)], Voter)

\* A receipt names a ballot that is still there, and, for a leaderboard, the
\* window of that board and candidates that are still on its list.
ReceiptsFit ==
  \A v \in Voter : \A b \in BallotId : receipts[v][b] # Nil =>
    /\ b \in Rows(ballots)
    /\ b \in BoardBallots =>
         LET board == leaderboards[ReferenceOf(b)]
         IN  /\ receipts[v][b].expiration = board.end_time
             /\ \A i \in DOMAIN receipts[v][b].directions :
                  receipts[v][b].directions[i] < Len(board.candidates)

\* deloldvotes "will never delete a vote receipt that is still applicable to
\* an open ballot", whatever cycle the ballot is in.
ReceiptsKept ==
  [][\A v \in Voter, b \in Rows(ballots) :
       LET end_time == IF b \in ProposalBallots THEN proposals[ReferenceOf(b)].end_time
                       ELSE leaderboards[ReferenceOf(b)].end_time
       IN  IsOfCycle(receipts[v][b], end_time) /\ receipts'[v][b] = Nil => now > end_time]_vars

\* Once voting has ended a result is final: the counts of a proposal stay
\* until its next cycle, the candidates of a board and their votes for good.
ResultsFinal ==
  [][/\ \A b \in ProposalBallots :
          LET prop == proposals[ReferenceOf(b)]
              next == proposals'[ReferenceOf(b)]
          IN  now > prop.end_time =>
                /\ b \in Rows(ballots')
                /\ next.counts # prop.counts => next.cycle_count > prop.cycle_count
     /\ \A b \in BoardBallots :
          LET board == leaderboards[ReferenceOf(b)]
              next == leaderboards'[ReferenceOf(b)]
          IN  now > board.end_time =>
                /\ b \in Rows(ballots')
                /\ DOMAIN next.candidates = DOMAIN board.candidates
                /\ \A i \in DOMAIN board.candidates :
                     /\ next.candidates[i].member = board.candidates[i].member
                     /\ next.candidates[i].votes = board.candidates[i].votes]_vars

\* Each vote a candidate gets after voting has begun is on the receipt of a
\* voter who had not voted for that candidate before.
BoardVotesRecorded ==
  [][\A b \in BoardBallots :
       LET board == leaderboards[ReferenceOf(b)]
           next == leaderboards'[ReferenceOf(b)]
       IN  now >= board.begin_time =>
             \A i \in DOMAIN board.candidates :
               next.candidates[i].votes # board.candidates[i].votes =>
                 \E v \in Voter :
                   /\ IsOfCycle(receipts'[v][b], board.end_time)
                   /\ Contains(receipts'[v][b].directions, i - 1)
                   /\ receipts[v][b] # Nil => ~ Contains(receipts[v][b].directions, i - 1)]_vars
=============================================================================
