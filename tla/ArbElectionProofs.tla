-------------------------- MODULE ArbElectionProofs --------------------------
(***************************************************************************)
(* Proofs about ArbElection: who stands for election, who is seated and    *)
(* who keeps the result, for any number of accounts, ballots and voters.   *)
(*                                                                         *)
(* What trail's tables look like is known from TrailVotingProofs, whose    *)
(* lemmas hold with the contract as one more publisher.                    *)
(***************************************************************************)
EXTENDS ArbElection, Collections

TP == INSTANCE TrailVotingProofs WITH Publisher <- Publisher \cup {Self}

-----------------------------------------------------------------------------
(* The trail of the election is the trail of TrailVotingProofs *)

\* The rows of its tables.
LEMMA SameRows ==
  /\ TP!Ballot = Trail!Ballot /\ TP!Proposal = Trail!Proposal
  /\ TP!Leaderboard = Trail!Leaderboard /\ TP!Candidate = Trail!Candidate
  /\ TP!Receipt = Trail!Receipt
BY DEF TP!Ballot, Trail!Ballot, TP!PROPOSAL, Trail!PROPOSAL, TP!LEADERBOARD, Trail!LEADERBOARD,
       TP!BallotId, Trail!BallotId, TP!Proposal, Trail!Proposal, TP!Direction, Trail!Direction,
       TP!Time, Trail!Time, TP!Candidate, Trail!Candidate, TP!Leaderboard, Trail!Leaderboard,
       TP!Receipt, Trail!Receipt

\* The assumptions on its constants.
LEMMA TrailConstants == TP!ConstantsAssumption
<1>1. Trail!ConstantsAssumption
  BY ConstantsAssumption DEF ConstantsAssumption
<1>2. Trail!IsFiniteSet(Voter) <=> TP!IsFiniteSet(Voter)
  BY DEF Trail!IsFiniteSet, TP!IsFiniteSet
<1>3. QED
  BY <1>1, <1>2, SameRows DEF Trail!ConstantsAssumption, TP!ConstantsAssumption

\* Sets and operators of the tables.
LEMMA SameTables ==
  /\ TP!BallotId = Trail!BallotId /\ TP!Time = Trail!Time
  /\ TP!PROPOSAL = Trail!PROPOSAL /\ TP!LEADERBOARD = Trail!LEADERBOARD
  /\ TP!ProposalBallots = Trail!ProposalBallots /\ TP!BoardBallots = Trail!BoardBallots
  /\ \A b : TP!ReferenceOf(b) = Trail!ReferenceOf(b)
  /\ \A b, t : TP!IsBallot(b, t) <=> Trail!IsBallot(b, t)
  /\ \A k, keys : TP!IsNextKey(k, keys) <=> Trail!IsNextKey(k, keys)
  /\ \A t, r : TP!ListBallot(t, r) <=> Trail!ListBallot(t, r)
  /\ \A p, b, e : TP!NewLeaderboard(p, b, e) = Trail!NewLeaderboard(p, b, e)
BY DEF TP!BallotId, Trail!BallotId, TP!Time, Trail!Time, TP!PROPOSAL, Trail!PROPOSAL,
       TP!LEADERBOARD, Trail!LEADERBOARD, TP!ProposalBallots, Trail!ProposalBallots,
       TP!BoardBallots, Trail!BoardBallots, TP!Rows, Trail!Rows, TP!ReferenceOf,
       Trail!ReferenceOf, TP!IsBallot, Trail!IsBallot, TP!IsNextKey, Trail!IsNextKey,
       TP!ListBallot, Trail!ListBallot, TP!NewLeaderboard, Trail!NewLeaderboard

\* The rows of a table, and the tables in the beginning.
LEMMA SameStates ==
  /\ \A t : TP!Rows(t) = Rows(t)
  /\ TP!TypeOK <=> Trail!TypeOK
  /\ TP!Init <=> Trail!Init
BY DEF TP!Rows, Rows, TP!TypeOK, Trail!TypeOK, TP!Init, Trail!Init, TP!Ballot, Trail!Ballot,
       TP!PROPOSAL, Trail!PROPOSAL, TP!LEADERBOARD, Trail!LEADERBOARD,
       TP!BallotId, Trail!BallotId, TP!Proposal, Trail!Proposal, TP!Direction, Trail!Direction,
       TP!Time, Trail!Time, TP!Candidate, Trail!Candidate, TP!Leaderboard, Trail!Leaderboard,
       TP!Receipt, Trail!Receipt

\* What the contract itself does to the candidates.
LEMMA SameCandidateActions ==
  /\ \A p, b, m : TP!AddCandidate(p, b, m) <=> Trail!AddCandidate(p, b, m)
  /\ \A p, b, m : TP!RmvCandidate(p, b, m) <=> Trail!RmvCandidate(p, b, m)
<1> USE DEF TP!voterVars, Trail!voterVars, TP!listVars, Trail!listVars
<1>1. /\ \A b : TP!ReferenceOf(b) = Trail!ReferenceOf(b)
      /\ \A p, b : TP!OwnListOpen(p, b) <=> Trail!OwnListOpen(p, b)
  BY SameTables, SameStates
     DEF TP!OwnListOpen, Trail!OwnListOpen, TP!ListOpen, Trail!ListOpen, Trail!Rows, Rows
<1>2. \A s, i : TP!RemoveAt(s, i) = Trail!RemoveAt(s, i)
  BY DEF TP!RemoveAt, Trail!RemoveAt
<1>3. QED
  BY <1>1, <1>2, Zenon DEF TP!AddCandidate, Trail!AddCandidate, TP!RmvCandidate, Trail!RmvCandidate

\* Votes.
LEMMA SameVotes ==
  /\ \A v, b, d : TP!VoteForLeaderboard(v, b, d) <=> Trail!VoteForLeaderboard(v, b, d)
  /\ \A v, b, d : TP!VoteForProposal(v, b, d) <=> Trail!VoteForProposal(v, b, d)
<1> USE DEF TP!voterVars, Trail!voterVars, TP!listVars, Trail!listVars
<1>1. \A v, b, d : TP!VoteForLeaderboard(v, b, d) <=> Trail!VoteForLeaderboard(v, b, d)
  BY DEF TP!VoteForLeaderboard, Trail!VoteForLeaderboard, TP!VotingOpen, Trail!VotingOpen,
         TP!IsOfCycle, Trail!IsOfCycle, TP!Contains, Trail!Contains, TP!BoardReceipt,
         Trail!BoardReceipt, TP!IsBallot, Trail!IsBallot, TP!ReferenceOf, Trail!ReferenceOf,
         TP!Rows, Trail!Rows, TP!LEADERBOARD, Trail!LEADERBOARD
<1>2. \A v, b, d : TP!VoteForProposal(v, b, d) <=> Trail!VoteForProposal(v, b, d)
  BY DEF TP!VoteForProposal, Trail!VoteForProposal, TP!VotingOpen, Trail!VotingOpen,
         TP!IsOfCycle, Trail!IsOfCycle, TP!Recounted, Trail!Recounted, TP!ProposalReceipt,
         Trail!ProposalReceipt, TP!IsBallot, Trail!IsBallot, TP!ReferenceOf, Trail!ReferenceOf,
         TP!Rows, Trail!Rows, TP!PROPOSAL, Trail!PROPOSAL
<1>3. QED
  BY <1>1, <1>2, Zenon

\* Receipts that are deleted.
LEMMA SameDeletions ==
  \A v, n : TP!DelOldVotes(v, n) <=> Trail!DelOldVotes(v, n)
<1>1. \A S : TP!Cardinality(S) = Trail!Cardinality(S)
  BY Zenon DEF TP!Cardinality, Trail!Cardinality
<1>2. TP!BallotId = Trail!BallotId /\ \A x : TP!Expired(x) <=> Trail!Expired(x)
  BY DEF TP!Expired, Trail!Expired, TP!BallotId, Trail!BallotId
<1>3. QED
  BY <1>1, <1>2, Zenon DEF TP!DelOldVotes, Trail!DelOldVotes, TP!listVars, Trail!listVars

\* What publishers do with their ballots.
LEMMA SameBallotActions == \A p : TP!BallotNext(p) <=> Trail!BallotNext(p)
<1> USE DEF TP!voterVars, Trail!voterVars, TP!listVars, Trail!listVars
<1>1. /\ \A b : TP!ReferenceOf(b) = Trail!ReferenceOf(b)
      /\ \A b, t : TP!IsBallot(b, t) <=> Trail!IsBallot(b, t)
      /\ \A t : TP!Rows(t) = Trail!Rows(t)
      /\ TP!PROPOSAL = Trail!PROPOSAL /\ TP!LEADERBOARD = Trail!LEADERBOARD
      /\ TP!BallotId = Trail!BallotId
  BY SameTables, SameStates DEF Trail!Rows, Rows
<1>2. \A b : TP!UnlistBallot(b) <=> Trail!UnlistBallot(b)
  BY DEF TP!UnlistBallot, Trail!UnlistBallot
<1>3. \A p, b : TP!OwnListOpen(p, b) <=> Trail!OwnListOpen(p, b)
  BY <1>1 DEF TP!OwnListOpen, Trail!OwnListOpen, TP!ListOpen, Trail!ListOpen
<1>4. /\ \A p, b : TP!UnregProposal(p, b) <=> Trail!UnregProposal(p, b)
      /\ \A p, b : TP!UnregLeaderboard(p, b) <=> Trail!UnregLeaderboard(p, b)
  BY <1>1, <1>2, Zenon
     DEF TP!UnregProposal, Trail!UnregProposal, TP!UnregLeaderboard, Trail!UnregLeaderboard
<1>5. /\ \A p, b, m : TP!AddCandidate(p, b, m) <=> Trail!AddCandidate(p, b, m)
      /\ \A p, b, m : TP!RmvCandidate(p, b, m) <=> Trail!RmvCandidate(p, b, m)
  BY SameCandidateActions
<1>6. \A p, b, list : TP!SetAllCands(p, b, list) <=> Trail!SetAllCands(p, b, list)
  BY <1>1, <1>3, Zenon DEF TP!SetAllCands, Trail!SetAllCands
<1>7. \A p, b, n : TP!SetSeats(p, b, n) <=> Trail!SetSeats(p, b, n)
  BY <1>1, Zenon DEF TP!SetSeats, Trail!SetSeats
<1>8. \A p, b : TP!SetAllStats(p, b) <=> Trail!SetAllStats(p, b)
  BY <1>1, SMT DEF TP!SetAllStats, Trail!SetAllStats
<1>9. /\ \A p, b, s : TP!CloseProposal(p, b, s) <=> Trail!CloseProposal(p, b, s)
      /\ \A p, b, s : TP!CloseLeaderboard(p, b, s) <=> Trail!CloseLeaderboard(p, b, s)
  BY <1>1, Zenon DEF TP!CloseProposal, Trail!CloseProposal, TP!CloseLeaderboard, Trail!CloseLeaderboard
<1>10. QED
  BY <1>1, <1>4, <1>5, <1>6, <1>7, <1>8, <1>9, Zenon DEF TP!BallotNext, Trail!BallotNext

\* The other steps of others.
LEMMA SameActions ==
  /\ TP!Tick <=> Trail!Tick
  /\ TP!InitSettings <=> Trail!InitSettings
  /\ \A v : TP!WeightChanges(v) <=> Trail!WeightChanges(v)
  /\ \A p, b, e : TP!RegProposal(p, b, e) <=> Trail!RegProposal(p, b, e)
  /\ \A p, b, e : TP!RegLeaderboard(p, b, e) <=> Trail!RegLeaderboard(p, b, e)
  /\ \A b, begin, end : TP!NextCycle(b, begin, end) <=> Trail!NextCycle(b, begin, end)
<1> USE DEF TP!voterVars, Trail!voterVars, TP!listVars, Trail!listVars
<1>1. /\ \A b : TP!ReferenceOf(b) = Trail!ReferenceOf(b)
      /\ \A b, t : TP!IsBallot(b, t) <=> Trail!IsBallot(b, t)
      /\ \A t : TP!Rows(t) = Trail!Rows(t)
      /\ TP!PROPOSAL = Trail!PROPOSAL /\ TP!LEADERBOARD = Trail!LEADERBOARD
      /\ TP!BallotId = Trail!BallotId
  BY SameTables, SameStates DEF Trail!Rows, Rows
<1>2. /\ \A k, keys : TP!IsNextKey(k, keys) <=> Trail!IsNextKey(k, keys)
      /\ \A t, r : TP!ListBallot(t, r) <=> Trail!ListBallot(t, r)
      /\ \A p, b, e : TP!NewLeaderboard(p, b, e) = Trail!NewLeaderboard(p, b, e)
      /\ \A p, b, e : TP!NewProposal(p, b, e) = Trail!NewProposal(p, b, e)
  BY SameTables DEF TP!NewProposal, Trail!NewProposal, TP!Direction, Trail!Direction
<1>3. /\ TP!Tick <=> Trail!Tick
      /\ TP!InitSettings <=> Trail!InitSettings
      /\ \A v : TP!WeightChanges(v) <=> Trail!WeightChanges(v)
  BY DEF TP!Tick, Trail!Tick, TP!WeightChanges, Trail!WeightChanges, TP!InitSettings,
         Trail!InitSettings
<1>4. /\ \A p, b, e : TP!RegProposal(p, b, e) <=> Trail!RegProposal(p, b, e)
      /\ \A p, b, e : TP!RegLeaderboard(p, b, e) <=> Trail!RegLeaderboard(p, b, e)
  BY <1>1, <1>2, Zenon DEF TP!RegProposal, Trail!RegProposal, TP!RegLeaderboard, Trail!RegLeaderboard
<1>5. \A b, begin, end : TP!NextCycle(b, begin, end) <=> Trail!NextCycle(b, begin, end)
  <2>1. /\ \A prop : TP!VotingOpen(prop) <=> Trail!VotingOpen(prop)
        /\ \A prop, begin, end : TP!Cycled(prop, begin, end) = Trail!Cycled(prop, begin, end)
    BY DEF TP!VotingOpen, Trail!VotingOpen, TP!Cycled, Trail!Cycled, TP!Direction, Trail!Direction
  <2>2. QED
    BY <1>1, <2>1, Zenon DEF TP!NextCycle, Trail!NextCycle
<1>6. QED
  BY <1>3, <1>4, <1>5, Zenon

\* Windows are times.
LEMMA WindowTimes == \A w \in Windows : w[1] \in TP!Time /\ w[2] \in TP!Time
BY ConstantsAssumption, SameTables DEF ConstantsAssumption

\* What others do with trail is a step of trail's own.
LEMMA OthersNext ==
  ASSUME TrailNext
  PROVE  TP!Next
<1>1. CASE Trail!Tick \/ Trail!InitSettings
  BY <1>1, SameActions DEF TP!Next
<1>2. ASSUME NEW v \in Voter,
             \/ Trail!WeightChanges(v)
             \/ \E n \in NumDeletes : Trail!DelOldVotes(v, n)
             \/ \E b \in Trail!BallotId, d \in Trail!Direction : Trail!VoteForProposal(v, b, d)
      PROVE  TP!Next
  <2>1. TP!BallotId = Trail!BallotId /\ TP!Direction = Trail!Direction
    BY SameTables DEF TP!Direction, Trail!Direction
  <2>2. \/ TP!WeightChanges(v)
        \/ \E n \in NumDeletes : TP!DelOldVotes(v, n)
        \/ \E b \in TP!BallotId : \E d \in TP!Direction : TP!VoteForProposal(v, b, d)
    BY <1>2, <2>1, SameActions, SameVotes, SameDeletions, Zenon
  <2>3. TP!VoterNext
    BY <2>2, Zenon DEF TP!VoterNext
  <2>4. QED
    BY <2>3 DEF TP!Next
<1>3. ASSUME NEW w \in Windows, NEW p \in Publisher,
             Trail!RegProposal(p, w[1], w[2]) \/ Trail!RegLeaderboard(p, w[1], w[2])
      PROVE  TP!Next
  <2>1. TP!RegProposal(p, w[1], w[2]) \/ TP!RegLeaderboard(p, w[1], w[2])
    BY <1>3, SameActions, Zenon
  <2>2. TP!PublisherNext
    BY <2>1, WindowTimes DEF TP!PublisherNext
  <2>3. QED
    BY <2>2 DEF TP!Next
<1>4. ASSUME NEW w \in Windows, NEW b \in Trail!BallotId, Trail!NextCycle(b, w[1], w[2])
      PROVE  TP!Next
  <2>1. TP!NextCycle(b, w[1], w[2]) /\ b \in TP!BallotId
    BY <1>4, SameActions, SameTables, Zenon
  <2>2. QED
    BY <2>1, WindowTimes DEF TP!Next
<1>5. ASSUME NEW p \in Publisher, Trail!BallotNext(p)
      PROVE  TP!Next
  <2>1. TP!BallotNext(p) /\ p \in Publisher \cup {Self}
    BY <1>5, SameBallotActions
  <2>2. TP!PublisherNext
    BY <2>1 DEF TP!PublisherNext
  <2>3. QED
    BY <2>2 DEF TP!Next
<1>6. QED
  BY <1>1, <1>2, <1>3, <1>4, <1>5, Zenon DEF TrailNext

-----------------------------------------------------------------------------
(* Candidates and the votes they have *)

ListOf(b) == leaderboards[TP!ReferenceOf(b)].candidates

\* Nobody is on a list twice (candaddlead).
Distinct(list) == \A i, j \in DOMAIN list : list[i].member = list[j].member => i = j

Unvoted(list) == \A i \in DOMAIN list : list[i].votes = 0

\* Who has votes on the new list had votes on the old one.
Drawn(list, old) ==
  \A i \in DOMAIN list : list[i].votes > 0 =>
    \E j \in DOMAIN old : old[j].member = list[i].member /\ old[j].votes > 0

\* Every candidate with votes owes them to a voter.
Owed(b) == \A i \in DOMAIN ListOf(b) : ListOf(b)[i].votes > 0 =>
             \E v \in Voter : <<v, b, ListOf(b)[i].member>> \in cast

\* The boards of the contract.
OwnBoard(b) == b \in TP!BoardBallots /\ leaderboards[TP!ReferenceOf(b)].publisher = Self

CastType == cast \subseteq Voter \X TP!BallotId \X Member

BoardsInv == /\ TP!Inv
             /\ CastType
             /\ \A b \in TP!BoardBallots : OwnBoard(b) => Distinct(ListOf(b)) /\ Owed(b)

\* The ballots that are leaderboards, and their rows.
LEMMA BoardRows ==
  ASSUME TP!Inv
  PROVE  /\ \A b \in TP!BoardBallots :
              /\ b \in TP!BallotId /\ b \in Rows(ballots)
              /\ ballots[b].table_id = TP!LEADERBOARD
              /\ TP!ReferenceOf(b) \in TP!BallotId /\ TP!ReferenceOf(b) \in Rows(leaderboards)
         /\ \A b, d \in TP!BoardBallots : TP!ReferenceOf(b) = TP!ReferenceOf(d) => b = d
         /\ \A r \in Rows(leaderboards) :
              /\ r \in TP!BallotId
              /\ leaderboards[r] \in TP!Leaderboard
              /\ leaderboards[r].candidates \in Seq(TP!Candidate)
         /\ leaderboards \in [TP!BallotId -> TP!Leaderboard \cup {Nil}]
         /\ now \in Nat
<1>1. TP!TypeOK /\ TP!BallotsOwnRows
  BY DEF TP!Inv
<1>2. \A r \in Rows(leaderboards) :
         /\ r \in TP!BallotId
         /\ leaderboards[r] \in TP!Leaderboard
         /\ leaderboards[r].candidates \in Seq(TP!Candidate)
  BY <1>1, TrailConstants, SameStates, TP!RowTypes, TP!FieldTypes
<1>3. \A b \in TP!BoardBallots :
         /\ b \in TP!BallotId /\ b \in Rows(ballots)
         /\ TP!ReferenceOf(b) \in TP!BallotId /\ TP!ReferenceOf(b) \in Rows(leaderboards)
  BY <1>1, TrailConstants, SameStates, TP!RowTypes DEF TP!BallotsOwnRows, TP!BoardBallots
<1>4. \A b, d \in TP!BoardBallots : TP!ReferenceOf(b) = TP!ReferenceOf(d) => b = d
  BY <1>1, TrailConstants, TP!BallotTables
<1>5. now \in Nat
  BY <1>1, TrailConstants, TP!FieldTypes DEF TP!TypeOK
<1>6. leaderboards \in [TP!BallotId -> TP!Leaderboard \cup {Nil}]
  BY <1>1 DEF TP!TypeOK
<1>7. ASSUME NEW b \in TP!BoardBallots
      PROVE  ballots[b].table_id = TP!LEADERBOARD
  <2>1. ballots[b] = [table_id |-> TP!LEADERBOARD, reference_id |-> TP!ReferenceOf(b)]
    BY <1>1, TrailConstants, TP!BallotTables
  <2>2. QED
    BY <2>1
<1>8. QED
  BY <1>2, <1>3, <1>4, <1>5, <1>6, <1>7

\* The votes of a list that is drawn from the old one are owed to the same voters.
LEMMA OwedFrame ==
  ASSUME NEW b, Owed(b), cast \subseteq cast', Drawn(ListOf(b)', ListOf(b))
  PROVE  Owed(b)'
<1> HIDE DEF ListOf
<1>1. ASSUME NEW i \in DOMAIN ListOf(b)', ListOf(b)'[i].votes > 0
      PROVE  \E v \in Voter : <<v, b, ListOf(b)'[i].member>> \in cast'
  <2>1. PICK j \in DOMAIN ListOf(b) :
          ListOf(b)[j].member = ListOf(b)'[i].member /\ ListOf(b)[j].votes > 0
    BY <1>1 DEF Drawn
  <2>2. PICK v \in Voter : <<v, b, ListOf(b)[j].member>> \in cast
    BY <2>1 DEF Owed
  <2>3. QED
    BY <2>1, <2>2
<1>2. QED
  BY <1>1 DEF Owed

\* A step that of the contract's boards leaves the candidates and their votes
\* alone.
LEMMA BoardsKept ==
  ASSUME BoardsInv, TP!Inv', CastType', cast \subseteq cast',
         \A b \in TP!BoardBallots' : OwnBoard(b)' =>
           OwnBoard(b) /\ TP!SameCandidates(ListOf(b)', ListOf(b))
  PROVE  BoardsInv'
<1>1. ASSUME NEW b \in TP!BoardBallots', OwnBoard(b)'
      PROVE  Distinct(ListOf(b)') /\ Owed(b)'
  <2>1. OwnBoard(b) /\ TP!SameCandidates(ListOf(b)', ListOf(b))
    BY <1>1
  <2>2. Distinct(ListOf(b)) /\ Owed(b)
    BY <2>1 DEF BoardsInv, OwnBoard
  <2> HIDE DEF ListOf
  <2>3. Distinct(ListOf(b)') /\ Drawn(ListOf(b)', ListOf(b))
    BY <2>1, <2>2 DEF TP!SameCandidates, Distinct, Drawn
  <2>4. QED
    BY <2>2, <2>3, OwedFrame
<1>2. QED
  BY <1>1 DEF BoardsInv

\* A step that leaves the rows of the contract's boards, and their ballots,
\* alone.
RowsKept ==
  /\ \A r \in Rows(leaderboards') : leaderboards'[r].publisher = Self =>
       r \in Rows(leaderboards) /\ leaderboards'[r] = leaderboards[r]
  /\ \A b \in TP!BoardBallots' : OwnBoard(b)' =>
       b \in TP!BoardBallots /\ ballots'[b] = ballots[b]

LEMMA RowsKeptInv ==
  ASSUME BoardsInv, TP!Inv', UNCHANGED cast, RowsKept
  PROVE  BoardsInv'
<1>1. ASSUME NEW b \in TP!BoardBallots', OwnBoard(b)'
      PROVE  OwnBoard(b) /\ TP!SameCandidates(ListOf(b)', ListOf(b))
  <2>1. b \in TP!BoardBallots /\ ballots'[b] = ballots[b]
    BY <1>1 DEF RowsKept
  <2>2. TP!ReferenceOf(b)' = TP!ReferenceOf(b)
    BY <2>1 DEF TP!ReferenceOf
  <2>3. TP!ReferenceOf(b)' \in Rows(leaderboards')
    <3>1. TP!Inv' => \A d \in TP!BoardBallots' : TP!ReferenceOf(d)' \in TP!Rows(leaderboards')
      BY DEF TP!Inv, TP!BallotsOwnRows
    <3>2. QED
      BY <1>1, <3>1, SameStates
  <2>4. leaderboards'[TP!ReferenceOf(b)] = leaderboards[TP!ReferenceOf(b)]
    BY <1>1, <2>2, <2>3 DEF RowsKept, OwnBoard
  <2>5. OwnBoard(b) /\ ListOf(b)' = ListOf(b)
    BY <1>1, <2>1, <2>2, <2>4 DEF OwnBoard, ListOf
  <2>6. QED
    BY <2>5 DEF TP!SameCandidates
<1>2. CastType'
  BY DEF BoardsInv, CastType
<1>3. QED
  BY <1>1, <1>2, BoardsKept

\* The candidates of one of the contract's boards change.
LEMMA ListReplaced ==
  ASSUME BoardsInv, TP!Inv', NEW b \in TP!BoardBallots, OwnBoard(b), NEW row \in TP!Leaderboard,
         leaderboards' = [leaderboards EXCEPT ![TP!ReferenceOf(b)] = row],
         Distinct(row.candidates), Drawn(row.candidates, ListOf(b)),
         UNCHANGED <<ballots, cast>>
  PROVE  BoardsInv'
<1> DEFINE r == TP!ReferenceOf(b)
<1>1. /\ r \in TP!BallotId /\ r \in Rows(leaderboards)
      /\ leaderboards \in [TP!BallotId -> TP!Leaderboard \cup {Nil}]
  BY BoardRows DEF BoardsInv
<1>2. leaderboards'[r] = row
  BY <1>1
<1>3. TP!BoardBallots' = TP!BoardBallots /\ \A d : TP!ReferenceOf(d)' = TP!ReferenceOf(d)
  BY DEF TP!BoardBallots, TP!ProposalBallots, TP!ReferenceOf
<1>4. ASSUME NEW d \in TP!BoardBallots, OwnBoard(d)'
      PROVE  Distinct(ListOf(d)') /\ Owed(d)'
  <2>1. CASE d = b
    <3>1. ListOf(d)' = row.candidates
      BY <1>2, <1>3, <2>1 DEF ListOf
    <3>2. QED
      BY <2>1, <3>1, OwedFrame DEF BoardsInv
  <2>2. CASE d # b
    <3>1. TP!ReferenceOf(d) # r /\ TP!ReferenceOf(d) \in TP!BallotId
      BY <2>2, BoardRows DEF BoardsInv
    <3>2. leaderboards'[TP!ReferenceOf(d)] = leaderboards[TP!ReferenceOf(d)]
      BY <1>1, <3>1
    <3>3. OwnBoard(d) /\ ListOf(d)' = ListOf(d)
      BY <1>3, <1>4, <3>2 DEF OwnBoard, ListOf
    <3>4. Distinct(ListOf(d)) /\ Owed(d)
      BY <3>3 DEF BoardsInv
    <3>5. Drawn(ListOf(d)', ListOf(d))
      BY <3>3 DEF Drawn
    <3>6. QED
      BY <3>3, <3>4, <3>5, OwedFrame
  <2>3. QED
    BY <2>1, <2>2
<1>5. CastType'
  BY DEF BoardsInv, CastType
<1>6. QED
  BY <1>3, <1>4, <1>5 DEF BoardsInv

\* A leaderboard of the contract is registered, the status of others may
\* change.
LEMMA BoardAdded ==
  ASSUME BoardsInv, TP!Inv',
         NEW boards \in [TP!BallotId -> TP!Leaderboard \cup {Nil}],
         Rows(boards) = Rows(leaderboards),
         \A s \in Rows(leaderboards) :
           /\ TP!SameCandidates(boards[s].candidates, leaderboards[s].candidates)
           /\ boards[s].publisher = leaderboards[s].publisher,
         NEW r \in TP!BallotId, TP!IsNextKey(r, TP!Rows(leaderboards)),
         NEW row \in TP!Leaderboard, Distinct(row.candidates), Unvoted(row.candidates),
         leaderboards' = [boards EXCEPT ![r] = row],
         TP!ListBallot(TP!LEADERBOARD, r), UNCHANGED cast
  PROVE  BoardsInv'
<1>1. PICK k \in TP!BallotId :
        /\ k \notin TP!Rows(ballots)
        /\ TP!Rows(ballots') = TP!Rows(ballots) \cup {k}
        /\ ballots'[k] = [table_id |-> TP!LEADERBOARD, reference_id |-> r]
        /\ \A d \in TP!BallotId : d # k => ballots'[d] = ballots[d]
  BY TrailConstants, TP!Listed DEF BoardsInv, TP!Inv
<1>2. r \notin Rows(leaderboards)
  <2>1. TP!Rows(leaderboards) \in SUBSET TP!BallotId
    BY TrailConstants, TP!RowTypes DEF BoardsInv, TP!Inv
  <2>2. QED
    BY <2>1, TrailConstants, TP!NextKeyIsNew, SameStates
<1>3. leaderboards'[r] = row
  OBVIOUS
<1>4. ASSUME NEW d \in TP!BoardBallots', OwnBoard(d)'
      PROVE  Distinct(ListOf(d)') /\ Owed(d)'
  <2>1. CASE d = k
    <3>1. ListOf(d)' = row.candidates
      BY <1>1, <1>3, <2>1 DEF ListOf, TP!ReferenceOf
    <3>2. QED
      BY <3>1 DEF Owed, Unvoted
  <2>2. CASE d # k
    <3>1. d \in TP!BoardBallots /\ ballots'[d] = ballots[d]
      <4>1. d \in TP!Rows(ballots) /\ ballots'[d].table_id # TP!PROPOSAL
        BY <1>1, <1>4, <2>2 DEF TP!BoardBallots, TP!ProposalBallots
      <4>2. d \in TP!BallotId
        BY <4>1, TrailConstants, TP!RowTypes DEF BoardsInv, TP!Inv
      <4>3. QED
        BY <1>1, <2>2, <4>1, <4>2 DEF TP!BoardBallots, TP!ProposalBallots
    <3>2. /\ TP!ReferenceOf(d)' = TP!ReferenceOf(d)
          /\ TP!ReferenceOf(d) \in Rows(leaderboards) /\ TP!ReferenceOf(d) \in TP!BallotId
      BY <3>1, BoardRows DEF BoardsInv, TP!ReferenceOf
    <3>3. leaderboards'[TP!ReferenceOf(d)] = boards[TP!ReferenceOf(d)]
      BY <1>2, <3>2
    <3>4. OwnBoard(d) /\ TP!SameCandidates(ListOf(d)', ListOf(d))
      BY <1>4, <3>1, <3>2, <3>3 DEF OwnBoard, ListOf
    <3>5. Distinct(ListOf(d)) /\ Owed(d)
      BY <3>1, <3>4 DEF BoardsInv
    <3> HIDE DEF ListOf
    <3>6. Distinct(ListOf(d)') /\ Drawn(ListOf(d)', ListOf(d))
      BY <3>4, <3>5 DEF TP!SameCandidates, Distinct, Drawn
    <3>7. QED
      BY <3>5, <3>6, OwedFrame
  <2>3. QED
    BY <2>1, <2>2
<1>5. CastType'
  BY DEF BoardsInv, CastType
<1>6. QED
  BY <1>4, <1>5 DEF BoardsInv

\* The vote that is cast is what the candidate's votes are owed to.
LEMMA VoteOwed ==
  ASSUME BoardsInv, VoteForCandidate
  PROVE  BoardsInv' /\ TP!Next /\ now' = now
<1>1. PICK v \in Voter, b \in TP!BallotId :
        /\ TP!IsBallot(b, TP!LEADERBOARD)
        /\ \E i \in DOMAIN ListOf(b) :
             /\ TP!VoteForLeaderboard(v, b, i - 1)
             /\ cast' = cast \cup {<<v, b, ListOf(b)[i].member>>}
  <2>1. /\ TP!BallotId = Trail!BallotId /\ TP!LEADERBOARD = Trail!LEADERBOARD
        /\ \A b : TP!ReferenceOf(b) = Trail!ReferenceOf(b)
        /\ \A b, t : TP!IsBallot(b, t) <=> Trail!IsBallot(b, t)
        /\ \A v, b, d : TP!VoteForLeaderboard(v, b, d) <=> Trail!VoteForLeaderboard(v, b, d)
    BY SameTables, SameVotes
  <2>2. QED
    BY <2>1, Zenon DEF VoteForCandidate, ListOf
<1>2. PICK i \in DOMAIN ListOf(b) :
        /\ TP!VoteForLeaderboard(v, b, i - 1)
        /\ cast' = cast \cup {<<v, b, ListOf(b)[i].member>>}
  BY <1>1
<1> DEFINE r == TP!ReferenceOf(b)
           board == leaderboards[r]
<1>3. TP!Inv /\ b \in TP!BoardBallots /\ r \in TP!BallotId /\ r \in Rows(leaderboards)
      /\ board \in TP!Leaderboard /\ board.candidates \in Seq(TP!Candidate)
  <2>1. b \in TP!BoardBallots
    BY <1>1, SameStates DEF TP!IsBallot, TP!BoardBallots, TP!ProposalBallots, TP!PROPOSAL, TP!LEADERBOARD
  <2>2. QED
    BY <2>1, BoardRows DEF BoardsInv
<1>4. i \in Nat /\ i - 1 \in Nat /\ ListOf(b)[i].member \in Member
  <2>1. ListOf(b) = board.candidates
    BY DEF ListOf
  <2>2. i \in Nat /\ i > 0 /\ ListOf(b)[i] \in TP!Candidate
    BY <1>3, <2>1
  <2>3. QED
    BY <2>2 DEF TP!Candidate
<1>5. TP!Inv'
  BY <1>2, <1>3, <1>4, TrailConstants, TP!VoteForLeaderboardInv
<1>6. PICK rec \in TP!Receipt, list \in Seq(TP!Candidate), n \in Nat :
        TP!BoardVoted(v, b, i - 1, rec, list, n)
  BY <1>2, <1>3, <1>4, TrailConstants, TP!BoardVote
<1> DEFINE row == [board EXCEPT !.candidates = list, !.unique_voters = n]
<1>7. /\ DOMAIN list = DOMAIN ListOf(b)
      /\ \A j \in DOMAIN list : j # i => list[j] = ListOf(b)[j]
      /\ \A j \in DOMAIN list : list[j].member = ListOf(b)[j].member
      /\ leaderboards' = [leaderboards EXCEPT ![r] = row]
  <2>1. (i - 1) + 1 = i
    BY <1>4
  <2>2. QED
    BY <1>6, <2>1 DEF TP!BoardVoted, ListOf
<1>8. row.candidates = list /\ row.publisher = board.publisher
  BY <1>3 DEF TP!Leaderboard
<1> HIDE DEF row
<1>9. UNCHANGED <<ballots, now>>
  BY <1>2 DEF TP!VoteForLeaderboard, TP!listVars
<1>10. TP!BoardBallots' = TP!BoardBallots /\ \A d : TP!ReferenceOf(d)' = TP!ReferenceOf(d)
  BY <1>9 DEF TP!BoardBallots, TP!ProposalBallots, TP!ReferenceOf
<1>11. leaderboards \in [TP!BallotId -> TP!Leaderboard \cup {Nil}]
  BY <1>3, BoardRows
<1>12. leaderboards'[r] = row /\ \A s \in TP!BallotId : s # r => leaderboards'[s] = leaderboards[s]
  BY <1>3, <1>7, <1>11
<1>13. ASSUME OwnBoard(b)'
       PROVE  Distinct(ListOf(b)') /\ Owed(b)'
  <2>1. ListOf(b)' = list
    BY <1>8, <1>10, <1>12 DEF ListOf
  <2>2. OwnBoard(b)
    BY <1>3, <1>8, <1>10, <1>12, <1>13 DEF OwnBoard
  <2>3. Distinct(ListOf(b)) /\ Owed(b)
    BY <1>3, <2>2 DEF BoardsInv
  <2>4. Distinct(list)
    BY <1>7, <2>3 DEF Distinct
  <2>5. ASSUME NEW j \in DOMAIN list, list[j].votes > 0
        PROVE  \E w \in Voter : <<w, b, list[j].member>> \in cast'
    <3>1. CASE j = i
      BY <1>2, <1>7, <3>1
    <3>2. CASE j # i
      <4>1. j \in DOMAIN ListOf(b) /\ ListOf(b)[j].votes > 0 /\ list[j].member = ListOf(b)[j].member
        BY <1>7, <2>5, <3>2
      <4>2. PICK w \in Voter : <<w, b, ListOf(b)[j].member>> \in cast
        BY <2>3, <4>1 DEF Owed
      <4>3. QED
        BY <1>2, <4>1, <4>2
    <3>3. QED
      BY <3>1, <3>2
  <2>6. QED
    BY <2>1, <2>4, <2>5 DEF Owed
<1>14. ASSUME NEW d \in TP!BoardBallots, d # b, OwnBoard(d)'
       PROVE  Distinct(ListOf(d)') /\ Owed(d)'
  <2>1. TP!ReferenceOf(d) # r /\ TP!ReferenceOf(d) \in TP!BallotId
    BY <1>3, <1>14, BoardRows
  <2>2. OwnBoard(d) /\ ListOf(d)' = ListOf(d)
    BY <1>10, <1>12, <1>14, <2>1 DEF OwnBoard, ListOf
  <2>3. Distinct(ListOf(d)) /\ Owed(d) /\ Drawn(ListOf(d)', ListOf(d))
    BY <2>2 DEF BoardsInv, Drawn
  <2>4. QED
    BY <1>2, <2>2, <2>3, OwedFrame
<1>15. CastType'
  BY <1>2, <1>4 DEF BoardsInv, CastType
<1>16. BoardsInv'
  BY <1>5, <1>10, <1>13, <1>14, <1>15 DEF BoardsInv
<1>17. TP!Next
  <2>1. \E j \in DOMAIN leaderboards[TP!ReferenceOf(b)].candidates :
          TP!VoteForLeaderboard(v, b, j - 1)
    BY <1>2 DEF ListOf
  <2>2. TP!VoterNext
    BY <1>1, <2>1, Zenon DEF TP!VoterNext
  <2>3. QED
    BY <2>2 DEF TP!Next
<1>18. QED
  BY <1>9, <1>16, <1>17

\* candaddlead: the new candidate is not on the list and has no votes.
LEMMA CandidateAdded ==
  ASSUME BoardsInv, NEW b \in TP!BallotId, NEW m \in Member, TP!AddCandidate(Self, b, m),
         UNCHANGED cast
  PROVE  BoardsInv'
<1> DEFINE r == TP!ReferenceOf(b)
           old == leaderboards[r].candidates
           new == [member |-> m, votes |-> 0, status |-> 0]
           list == Append(old, new)
           row == [leaderboards[r] EXCEPT !.candidates = list]
<1>1. /\ OwnBoard(b) /\ b \in TP!BoardBallots
      /\ \A i \in DOMAIN old : old[i].member # m
      /\ leaderboards' = [leaderboards EXCEPT ![r] = row]
      /\ UNCHANGED <<ballots, cast>>
  BY DEF TP!AddCandidate, TP!OwnListOpen, TP!IsBallot, TP!BoardBallots,
         TP!ProposalBallots, TP!PROPOSAL, TP!LEADERBOARD, TP!listVars, TP!voterVars, OwnBoard
<1>2. TP!Inv'
  <2>1. TP!TypeOK
    BY DEF BoardsInv, TP!Inv
  <2>2. TP!BoardChanged
    BY <2>1, TrailConstants, TP!BoardActions, Zenon
  <2>3. QED
    BY <2>2, TrailConstants, TP!BoardChangedInv DEF BoardsInv
<1>3. leaderboards[r] \in TP!Leaderboard /\ old \in Seq(TP!Candidate) /\ old = ListOf(b)
  BY <1>1, BoardRows DEF BoardsInv, ListOf
<1>4. new \in TP!Candidate /\ new.member = m /\ new.votes = 0
  BY TrailConstants DEF TP!Candidate, TP!ConstantsAssumption
<1>5. Distinct(old)
  BY <1>1, <1>3 DEF BoardsInv
<1> HIDE DEF new
<1>6. /\ list \in Seq(TP!Candidate) /\ Len(list) = Len(old) + 1 /\ DOMAIN list = 1..(Len(old) + 1)
      /\ list[Len(old) + 1] = new
      /\ \A i \in 1..Len(old) : list[i] = old[i] /\ i \in DOMAIN old
  <2> HIDE DEF old
  <2>1. QED
    BY <1>3, <1>4
<1> HIDE DEF list
<1>7. row \in TP!Leaderboard /\ row.candidates = list
  BY <1>3, <1>6 DEF TP!Leaderboard
<1> HIDE DEF row
<1>8. Len(old) \in Nat
  BY <1>3
<1>9. \A i \in DOMAIN list : i = Len(old) + 1 \/ i \in 1..Len(old)
  BY <1>6, <1>8
<1>10. Distinct(list)
  BY <1>1, <1>4, <1>5, <1>6, <1>9 DEF Distinct
<1>11. Drawn(list, ListOf(b))
  BY <1>3, <1>4, <1>6, <1>9 DEF Drawn
<1>12. QED
  BY <1>1, <1>2, <1>7, <1>10, <1>11, ListReplaced

\* candrmvlead: the candidate leaves the list.
LEMMA CandidateRemoved ==
  ASSUME BoardsInv, NEW b \in TP!BallotId, NEW m \in Member, TP!RmvCandidate(Self, b, m),
         UNCHANGED cast
  PROVE  BoardsInv'
<1> DEFINE r == TP!ReferenceOf(b)
           old == leaderboards[r].candidates
<1>1. OwnBoard(b) /\ b \in TP!BoardBallots /\ UNCHANGED <<ballots, cast>>
  BY DEF TP!RmvCandidate, TP!OwnListOpen, TP!IsBallot, TP!BoardBallots,
         TP!ProposalBallots, TP!PROPOSAL, TP!LEADERBOARD, TP!listVars, TP!voterVars, OwnBoard
<1>2. PICK i \in DOMAIN old :
        leaderboards' = [leaderboards EXCEPT ![r].candidates = TP!RemoveAt(old, i)]
  BY DEF TP!RmvCandidate
<1> DEFINE list == RemoveAt(old, i)
           row == [leaderboards[r] EXCEPT !.candidates = list]
<1>3. leaderboards' = [leaderboards EXCEPT ![r] = row]
  BY <1>2 DEF TP!RemoveAt, RemoveAt
<1>4. TP!Inv'
  <2>1. TP!TypeOK
    BY DEF BoardsInv, TP!Inv
  <2>2. TP!BoardChanged
    BY <2>1, TrailConstants, TP!BoardActions, Zenon
  <2>3. QED
    BY <2>2, TrailConstants, TP!BoardChangedInv DEF BoardsInv
<1>5. leaderboards[r] \in TP!Leaderboard /\ old \in Seq(TP!Candidate) /\ old = ListOf(b)
  BY <1>1, BoardRows DEF BoardsInv, ListOf
<1>6. Distinct(old)
  BY <1>1, <1>5 DEF BoardsInv
<1>7. /\ list \in Seq(TP!Candidate)
      /\ DOMAIN list = 1..(Len(old) - 1)
      /\ \A j \in 1..(Len(old) - 1) : list[j] = old[IF j < i THEN j ELSE j + 1]
  <2> HIDE DEF old
  <2>1. QED
    BY <1>5, RemoveAtElements
<1> HIDE DEF list
<1>8. row \in TP!Leaderboard /\ row.candidates = list
  BY <1>5, <1>7 DEF TP!Leaderboard
<1> HIDE DEF row
<1> DEFINE from(j) == IF j < i THEN j ELSE j + 1
<1>9. Len(old) \in Nat /\ DOMAIN old = 1..Len(old) /\ i \in Nat
  BY <1>5
<1>10. /\ \A j \in DOMAIN list : from(j) \in DOMAIN old /\ list[j] = old[from(j)]
       /\ \A j, k \in DOMAIN list : from(j) = from(k) => j = k
  <2> HIDE DEF old
  <2>1. QED
    BY <1>7, <1>9
<1> HIDE DEF from
<1>11. Distinct(list) /\ Drawn(list, ListOf(b))
  BY <1>5, <1>6, <1>10 DEF Distinct, Drawn
<1>12. QED
  BY <1>1, <1>3, <1>4, <1>8, <1>11, ListReplaced

\* A step of trail's own that leaves boards and their ballots alone.
LEMMA SameRowsKept ==
  ASSUME UNCHANGED <<ballots, leaderboards>>
  PROVE  RowsKept
<1>1. TP!BoardBallots' = TP!BoardBallots
  BY DEF TP!BoardBallots, TP!ProposalBallots
<1>2. QED
  BY <1>1 DEF RowsKept

\* Another publisher's change of a board of its own.
LEMMA OthersBoardKept ==
  ASSUME TP!Inv, NEW p \in Publisher, NEW r \in TP!BallotId, leaderboards[r].publisher = p,
         UNCHANGED ballots,
         \/ \E x : leaderboards' = [leaderboards EXCEPT ![r].candidates = x]
         \/ \E x : leaderboards' = [leaderboards EXCEPT ![r].available_seats = x]
         \/ \E x : leaderboards' = [leaderboards EXCEPT ![r].status = x],
         r \in Rows(leaderboards)
  PROVE  RowsKept
<1>1. /\ leaderboards \in [TP!BallotId -> TP!Leaderboard \cup {Nil}]
      /\ leaderboards[r] \in TP!Leaderboard /\ p # Self
  BY BoardRows, ConstantsAssumption DEF ConstantsAssumption
<1>2. PICK row : /\ leaderboards' = [leaderboards EXCEPT ![r] = row]
                 /\ row.publisher = p
  BY <1>1 DEF TP!Leaderboard
<1>3. ASSUME NEW s \in Rows(leaderboards'), leaderboards'[s].publisher = Self
      PROVE  s \in Rows(leaderboards) /\ leaderboards'[s] = leaderboards[s]
  BY <1>1, <1>2, <1>3 DEF Rows
<1>4. TP!BoardBallots' = TP!BoardBallots
  BY DEF TP!BoardBallots, TP!ProposalBallots
<1>5. QED
  BY <1>3, <1>4 DEF RowsKept

\* What another publisher does with ballots of its own.
LEMMA PublisherKept ==
  ASSUME TP!Inv, NEW p \in Publisher, TP!BallotNext(p)
  PROVE  RowsKept
<1>1. PICK b \in TP!BallotId :
        \/ TP!UnregProposal(p, b) \/ TP!UnregLeaderboard(p, b)
        \/ \E m \in Member : TP!AddCandidate(p, b, m) \/ TP!RmvCandidate(p, b, m)
        \/ \E list \in CandidateLists : TP!SetAllCands(p, b, list)
        \/ \E n \in NumSeats : TP!SetSeats(p, b, n)
        \/ TP!SetAllStats(p, b)
        \/ \E pass \in Status : TP!CloseProposal(p, b, pass) \/ TP!CloseLeaderboard(p, b, pass)
  BY Zenon DEF TP!BallotNext
<1> DEFINE r == TP!ReferenceOf(b)
<1>2. CASE TP!UnregProposal(p, b) \/ TP!UnregLeaderboard(p, b)
  <2>1. ballots' = [ballots EXCEPT ![b] = Nil]
    BY <1>2 DEF TP!UnregProposal, TP!UnregLeaderboard, TP!UnlistBallot
  <2>2. \/ leaderboards' = leaderboards
        \/ leaderboards' = [leaderboards EXCEPT ![r] = Nil]
    BY <1>2 DEF TP!UnregProposal, TP!UnregLeaderboard
  <2>3. \A s \in Rows(leaderboards') : s \in Rows(leaderboards) /\ leaderboards'[s] = leaderboards[s]
    BY <2>2, BoardRows DEF Rows
  <2>4. \A d \in TP!BoardBallots' : d \in TP!BoardBallots /\ ballots'[d] = ballots[d]
    BY <2>1 DEF TP!BoardBallots, TP!ProposalBallots, TP!Rows, TP!TypeOK, TP!Inv
  <2>5. QED
    BY <2>3, <2>4 DEF RowsKept
<1>3. ASSUME NEW pass, TP!CloseProposal(p, b, pass)
      PROVE  RowsKept
  <2>1. UNCHANGED <<ballots, leaderboards>>
    BY <1>3 DEF TP!CloseProposal, TP!listVars
  <2>2. QED
    BY <2>1, SameRowsKept
<1>4. ASSUME \/ \E m \in Member : TP!AddCandidate(p, b, m) \/ TP!RmvCandidate(p, b, m)
             \/ \E list \in CandidateLists : TP!SetAllCands(p, b, list)
             \/ \E n \in NumSeats : TP!SetSeats(p, b, n)
             \/ TP!SetAllStats(p, b)
             \/ \E pass \in Status : TP!CloseLeaderboard(p, b, pass)
      PROVE  RowsKept
  <2>1. r \in TP!Rows(leaderboards) /\ leaderboards[r].publisher = p /\ UNCHANGED ballots
    BY <1>4 DEF TP!AddCandidate, TP!RmvCandidate, TP!SetAllCands, TP!SetSeats, TP!SetAllStats,
                TP!CloseLeaderboard, TP!OwnListOpen, TP!listVars
  <2>2. \/ \E x : leaderboards' = [leaderboards EXCEPT ![r].candidates = x]
        \/ \E x : leaderboards' = [leaderboards EXCEPT ![r].available_seats = x]
        \/ \E x : leaderboards' = [leaderboards EXCEPT ![r].status = x]
    BY <1>4 DEF TP!AddCandidate, TP!RmvCandidate, TP!SetAllCands, TP!SetSeats, TP!SetAllStats,
                TP!CloseLeaderboard
  <2>3. r \in Rows(leaderboards) /\ r \in TP!BallotId
    BY <2>1, SameStates, BoardRows
  <2>4. QED
    BY <2>1, <2>2, <2>3, OthersBoardKept
<1>5. QED
  BY <1>1, <1>2, <1>3, <1>4, Zenon

\* Other publishers register ballots.
LEMMA RegistersKept ==
  ASSUME TP!Inv, NEW p \in Publisher, NEW begin, NEW end,
         TP!RegProposal(p, begin, end) \/ TP!RegLeaderboard(p, begin, end)
  PROVE  RowsKept
<1>1. TP!TypeOK /\ p # Self
  BY ConstantsAssumption DEF ConstantsAssumption, TP!Inv
<1>2. PICK r \in TP!BallotId, t \in {TP!PROPOSAL, TP!LEADERBOARD} :
        /\ TP!ListBallot(t, r)
        /\ t = TP!PROPOSAL => leaderboards' = leaderboards
        /\ t = TP!LEADERBOARD =>
             /\ leaderboards' = [leaderboards EXCEPT ![r] = TP!NewLeaderboard(p, begin, end)]
  BY DEF TP!RegProposal, TP!RegLeaderboard, TP!PROPOSAL, TP!LEADERBOARD
<1>3. PICK k \in TP!BallotId :
        /\ TP!Rows(ballots') = TP!Rows(ballots) \cup {k}
        /\ ballots'[k] = [table_id |-> t, reference_id |-> r]
        /\ \A d \in TP!BallotId : d # k => ballots'[d] = ballots[d]
  BY <1>1, <1>2, TrailConstants, TP!Listed
<1>4. TP!Rows(ballots) \subseteq TP!BallotId
  BY <1>1, TrailConstants, TP!RowTypes
<1>5. TP!NewLeaderboard(p, begin, end).publisher = p
  BY DEF TP!NewLeaderboard
<1>6. leaderboards \in [TP!BallotId -> TP!Leaderboard \cup {Nil}]
  BY BoardRows
<1>7. \A s \in Rows(leaderboards') : leaderboards'[s].publisher = Self =>
        s \in Rows(leaderboards) /\ leaderboards'[s] = leaderboards[s]
  BY <1>1, <1>2, <1>5, <1>6 DEF Rows
<1>8. ASSUME NEW b \in TP!BoardBallots', OwnBoard(b)'
      PROVE  b \in TP!BoardBallots /\ ballots'[b] = ballots[b]
  <2>1. b # k
    <3>1. CASE t = TP!PROPOSAL
      BY <1>3, <1>8, <3>1 DEF TP!BoardBallots, TP!ProposalBallots
    <3>2. CASE t = TP!LEADERBOARD
      <4>1. leaderboards'[r].publisher = p
        BY <1>2, <1>5, <1>6, <3>2
      <4>2. b = k => TP!ReferenceOf(b)' = r
        BY <1>3 DEF TP!ReferenceOf
      <4>3. QED
        BY <1>1, <1>8, <4>1, <4>2 DEF OwnBoard
    <3>3. QED
      BY <3>1, <3>2
  <2>2. QED
    BY <1>3, <1>4, <1>8, <2>1 DEF TP!BoardBallots, TP!ProposalBallots
<1>9. QED
  BY <1>7, <1>8 DEF RowsKept

\* What others do keeps all of it.
LEMMA OthersOwed ==
  ASSUME BoardsInv, TrailNext
  PROVE  BoardsInv'
<1>1. TP!Inv' /\ TP!Inv
  BY OthersNext, TrailConstants, TP!NextInv DEF BoardsInv
<1>2. ASSUME \/ Trail!Tick \/ Trail!InitSettings
             \/ \E v \in Voter : \/ Trail!WeightChanges(v)
                                 \/ \E n \in NumDeletes : Trail!DelOldVotes(v, n)
                                 \/ \E b \in Trail!BallotId, d \in Trail!Direction :
                                      Trail!VoteForProposal(v, b, d)
             \/ \E w \in Windows : \E b \in Trail!BallotId : Trail!NextCycle(b, w[1], w[2])
      PROVE  RowsKept
  <2>1. UNCHANGED <<ballots, leaderboards>>
    BY <1>2 DEF Trail!Tick, Trail!InitSettings, Trail!WeightChanges, Trail!DelOldVotes,
                Trail!VoteForProposal, Trail!NextCycle, Trail!listVars
  <2>2. QED
    BY <2>1, SameRowsKept
<1>3. ASSUME NEW w \in Windows, NEW p \in Publisher,
             Trail!RegProposal(p, w[1], w[2]) \/ Trail!RegLeaderboard(p, w[1], w[2])
      PROVE  RowsKept
  <2>1. TP!RegProposal(p, w[1], w[2]) \/ TP!RegLeaderboard(p, w[1], w[2])
    BY <1>3, SameActions, Zenon
  <2>2. QED
    BY <1>1, <2>1, RegistersKept
<1>4. ASSUME NEW p \in Publisher, Trail!BallotNext(p)
      PROVE  RowsKept
  BY <1>1, <1>4, SameBallotActions, PublisherKept
<1>5. RowsKept
  BY <1>2, <1>3, <1>4, Zenon DEF TrailNext
<1>6. UNCHANGED cast
  BY DEF TrailNext
<1>7. QED
  BY <1>1, <1>5, <1>6, RowsKeptInv

-----------------------------------------------------------------------------
(* Elections on the boards *)

\* Boards that an election has left with their windows, publishers and candidates.
Alike(boards) ==
  /\ boards \in [TP!BallotId -> TP!Leaderboard \cup {Nil}]
  /\ Rows(boards) = Rows(leaderboards)
  /\ \A s \in Rows(leaderboards) :
       /\ TP!SameWindow(boards[s], leaderboards[s])
       /\ TP!SameCandidates(boards[s].candidates, leaderboards[s].candidates)
       /\ boards[s].publisher = leaderboards[s].publisher

\* A list of accounts without repetitions.
Members(members) == /\ members \in Seq(Account)
                    /\ \A i, j \in DOMAIN members : members[i] = members[j] => i = j

\* The board of a new election.
Opened(begin, end, seats, members) ==
  [Trail!NewLeaderboard(Self, begin, end) EXCEPT
     !.available_seats = seats,
     !.candidates = [i \in DOMAIN members |->
                       [member |-> members[i], votes |-> 0, status |-> 0]]]

\* It is a leaderboard without votes, on which nobody is twice.
LEMMA NewBoard ==
  ASSUME NEW begin \in TP!Time, NEW end \in TP!Time, NEW seats \in Nat,
         NEW members, Members(members)
  PROVE  /\ Opened(begin, end, seats, members) \in TP!Leaderboard
         /\ Opened(begin, end, seats, members).begin_time = begin
         /\ Opened(begin, end, seats, members).end_time = end
         /\ Opened(begin, end, seats, members).unique_voters = 0
         /\ Distinct(Opened(begin, end, seats, members).candidates)
         /\ Unvoted(Opened(begin, end, seats, members).candidates)
<1> DEFINE list == [i \in DOMAIN members |-> [member |-> members[i], votes |-> 0, status |-> 0]]
           base == Trail!NewLeaderboard(Self, begin, end)
           row == [base EXCEPT !.available_seats = seats, !.candidates = list]
<1>1. Opened(begin, end, seats, members) = row
  BY DEF Opened
<1>2. 0 \in Status /\ Account \subseteq Member
  BY ConstantsAssumption, TrailConstants DEF ConstantsAssumption, TP!ConstantsAssumption
<1>3. list \in Seq(TP!Candidate)
  <2>1. DOMAIN members = 1..Len(members) /\ Len(members) \in Nat
    BY DEF Members
  <2>2. \A i \in DOMAIN members : [member |-> members[i], votes |-> 0, status |-> 0] \in TP!Candidate
    BY <1>2 DEF Members, TP!Candidate
  <2>3. list \in [1..Len(members) -> TP!Candidate]
    BY <2>1, <2>2
  <2> HIDE DEF list
  <2>4. QED
    BY <2>1, <2>3
<1>4. /\ \A i, j \in DOMAIN list : list[i].member = list[j].member => i = j
      /\ \A i \in DOMAIN list : list[i].votes = 0
  BY DEF Members
<1> HIDE DEF list
<1>5. /\ base \in TP!Leaderboard
      /\ base.begin_time = begin /\ base.end_time = end /\ base.unique_voters = 0
  <2>1. <<>> \in Seq(TP!Candidate)
    OBVIOUS
  <2>2. /\ base.begin_time = begin /\ base.end_time = end /\ base.unique_voters = 0
    BY DEF Trail!NewLeaderboard
  <2>3. base \in TP!Leaderboard
    BY <1>2, <2>1 DEF Trail!NewLeaderboard, TP!Leaderboard
  <2>4. QED
    BY <2>2, <2>3
<1> HIDE DEF base
<1>6. /\ row \in TP!Leaderboard
      /\ row.begin_time = begin /\ row.end_time = end /\ row.unique_voters = 0
      /\ row.candidates = list
  <2> DEFINE seated == [base EXCEPT !.available_seats = seats]
  <2>1. row = [seated EXCEPT !.candidates = list]
    OBVIOUS
  <2>2. /\ seated \in TP!Leaderboard
        /\ seated.begin_time = begin /\ seated.end_time = end /\ seated.unique_voters = 0
    BY <1>5, TrailConstants, TP!BoardFields DEF TP!SameWindow
  <2> HIDE DEF seated, row
  <2>3. QED
    BY <1>3, <2>1, <2>2, TrailConstants, TP!BoardFields DEF TP!SameWindow
<1> HIDE DEF row
<1>7. QED
  BY <1>1, <1>4, <1>6 DEF Distinct, Unvoted

\* The fields of the configuration.
LEMMA ConfigFields ==
  \A c \in Config : /\ c.election_start \in Nat /\ c.election_duration \in Nat
                     /\ c.arb_term_length \in Nat /\ c.max_elected_arbs \in 1..UINT16_MAX
BY DEF Config

\* regballot, setseats and the addcandidates of a new election.
LEMMA ElectionStarted ==
  ASSUME BoardsInv, config \in Config, NEW boards, Alike(boards), NEW seats \in Nat,
         NEW members, Members(members), StartNewElection(boards, seats, members), UNCHANGED cast
  PROVE  BoardsInv' /\ current_ballot_id' \in TP!BallotId
<1>1. PICK r \in Trail!BallotId, b \in Trail!BallotId, begin \in Trail!Time, end \in Trail!Time :
        /\ begin = now + config.election_start
        /\ end = begin + config.election_duration
        /\ Trail!IsNextKey(r, Rows(leaderboards))
        /\ current_ballot_id' = b
        /\ Trail!ListBallot(Trail!LEADERBOARD, r)
        /\ leaderboards' = [boards EXCEPT ![r] = Opened(begin, end, seats, members)]
  BY Zenon DEF StartNewElection, NewBoardKey, Opened
<1>2. /\ r \in TP!BallotId /\ b \in TP!BallotId /\ begin \in TP!Time /\ end \in TP!Time
      /\ TP!IsNextKey(r, TP!Rows(leaderboards))
      /\ TP!ListBallot(TP!LEADERBOARD, r)
  BY <1>1, SameTables, SameStates
<1> DEFINE row == Opened(begin, end, seats, members)
<1>3. /\ row \in TP!Leaderboard
      /\ row.begin_time = begin /\ row.end_time = end /\ row.unique_voters = 0
      /\ Distinct(row.candidates) /\ Unvoted(row.candidates)
      /\ leaderboards' = [boards EXCEPT ![r] = row]
  BY <1>1, <1>2, NewBoard
<1> HIDE DEF row
<1>4. UNCHANGED <<now, proposals, receipts, weight, recastable>> /\ config.election_duration > 0
  BY DEF StartNewElection
<1>5. row.begin_time < row.end_time
  <2>1. begin \in Nat /\ end \in Nat
    BY <1>2, TrailConstants, TP!FieldTypes
  <2>2. config.election_duration \in Nat
    BY ConfigFields
  <2>3. QED
    BY <1>1, <1>3, <1>4, <2>1, <2>2
<1>6. TP!Inv
  BY DEF BoardsInv
<1>7. /\ boards \in [TP!BallotId -> TP!Leaderboard \cup {Nil}]
      /\ Rows(boards) = Rows(leaderboards) /\ TP!Rows(boards) = TP!Rows(leaderboards)
      /\ \A s \in Rows(leaderboards) :
           /\ TP!SameCandidates(boards[s].candidates, leaderboards[s].candidates)
           /\ boards[s].publisher = leaderboards[s].publisher
      /\ \A s \in TP!Rows(leaderboards) :
           /\ TP!SameWindow(boards[s], leaderboards[s])
           /\ TP!SameCandidates(boards[s].candidates, leaderboards[s].candidates)
  BY SameStates DEF Alike
<1>8. TP!Inv'
  BY <1>2, <1>3, <1>4, <1>5, <1>6, <1>7, TrailConstants, TP!BoardListedInv
<1>9. BoardsInv'
  BY <1>2, <1>3, <1>7, <1>8, BoardAdded
<1>10. QED
  BY <1>1, <1>2, <1>9

\* The boards after endelection has closed one of them.
LEMMA ClosedAlike ==
  ASSUME TP!Inv, NEW r \in Rows(leaderboards)
  PROVE  /\ Alike(Closed(leaderboards, r))
         /\ Alike(leaderboards)
<1> DEFINE row == [leaderboards[r] EXCEPT !.status = CLOSED]
<1>1. /\ leaderboards \in [TP!BallotId -> TP!Leaderboard \cup {Nil}]
      /\ r \in TP!BallotId /\ leaderboards[r] \in TP!Leaderboard
  BY BoardRows
<1>2. CLOSED \in Status
  BY ConstantsAssumption DEF ConstantsAssumption
<1>3. row \in TP!Leaderboard /\ row.candidates = leaderboards[r].candidates
      /\ TP!SameWindow(row, leaderboards[r]) /\ row.publisher = leaderboards[r].publisher
  <2>1. row.publisher = leaderboards[r].publisher
    BY <1>1 DEF TP!Leaderboard
  <2>2. QED
    BY <1>1, <1>2, <2>1, TrailConstants, TP!BoardFields
<1>4. Closed(leaderboards, r) = [leaderboards EXCEPT ![r] = row]
  BY DEF Closed
<1> HIDE DEF row
<1>5. \A x : TP!SameCandidates(x, x)
  BY DEF TP!SameCandidates
<1>6. \A x : TP!SameWindow(x, x)
  BY DEF TP!SameWindow
<1>7. row # Nil
  BY <1>3, TrailConstants DEF TP!ConstantsAssumption
<1>8. Alike([leaderboards EXCEPT ![r] = row])
  BY <1>1, <1>3, <1>5, <1>6, <1>7 DEF Alike, Rows
<1>9. QED
  BY <1>1, <1>4, <1>5, <1>6, <1>8 DEF Alike

-----------------------------------------------------------------------------
(* Seats *)

\* endelection and dismissarb give the permission to all arbitrators there are.
SeatsKnown == major = Rows(arbitrators)

\* The inductive invariant.
ElectInv == TypeOK /\ NomineesHaveNoTerm /\ SeatsKnown /\ BoardsInv

\* What a step does to nominees and arbitrators: new terms for those who won,
\* who are nominees no more; the terms of others stay.
SeatStep(won) ==
  /\ won \subseteq nominees
  /\ arbitrators' \in [Account -> Arbitrator \cup {Nil}]
  /\ Rows(arbitrators') = Rows(arbitrators) \cup won
  /\ \A a \in won : arbitrators'[a].term_expiration = now + config.arb_term_length
  /\ \A a \in Rows(arbitrators) \ won :
       arbitrators'[a].term_expiration = arbitrators[a].term_expiration
  /\ nominees' \subseteq Account \ won
  /\ \A a \in nominees' : \/ a \in nominees
                          \/ a \in Rows(arbitrators) => now > arbitrators[a].term_expiration
  /\ major' = Rows(arbitrators')

\* The rows of the table of arbitrators.
LEMMA ArbRows ==
  ASSUME TypeOK
  PROVE  /\ Rows(arbitrators) \subseteq Account
         /\ \A a \in Rows(arbitrators) : arbitrators[a] \in Arbitrator
         /\ \A a \in Account \ Rows(arbitrators) : arbitrators[a] = Nil
         /\ config \in Config /\ config.arb_term_length \in Nat
         /\ now \in Nat
<1>1. config \in Config
  BY ConstantsAssumption DEF TypeOK, ConstantsAssumption
<1>2. config.arb_term_length \in Nat
  BY <1>1, ConfigFields
<1>3. now \in Nat
  <2>1. now \in Trail!Time
    BY DEF TypeOK, Trail!TypeOK
  <2>2. QED
    BY <2>1, SameTables, TrailConstants, TP!FieldTypes
<1>4. QED
  BY <1>1, <1>2, <1>3 DEF TypeOK, Rows

\* The fields of a row.
LEMMA ArbFields ==
  /\ \A row \in Arbitrator : row.arb_status \in Cases!ArbStatus /\ row.term_expiration \in Nat
  /\ \A row \in Arbitrator, s \in Cases!ArbStatus :
       /\ [row EXCEPT !.arb_status = s] \in Arbitrator
       /\ [row EXCEPT !.arb_status = s].arb_status = s
       /\ [row EXCEPT !.arb_status = s].term_expiration = row.term_expiration
BY DEF Arbitrator

\* What the boards say of the types.
LEMMA BoardsTypes ==
  BoardsInv => /\ now \in Nat /\ Trail!TypeOK
               /\ cast \subseteq Voter \X Trail!BallotId \X Member
BY BoardRows, SameStates, SameTables DEF BoardsInv, TP!Inv, CastType

\* Seats and boards together.
LEMMA SeatsKept ==
  ASSUME ElectInv, BoardsInv', NEW won, SeatStep(won), config' \in Configs,
         current_ballot_id' \in TP!BallotId, auto_start_election' \in BOOLEAN, now <= now'
  PROVE  ElectInv'
<1>1. TypeOK
  BY DEF ElectInv
<1>2. now \in Nat /\ now' \in Nat
  <2>1. BoardsInv' => (now \in Nat /\ Trail!TypeOK)'
    BY BoardsTypes, PTL
  <2>2. QED
    BY <2>1, BoardsTypes DEF ElectInv
<1>3. (Trail!TypeOK /\ cast \subseteq Voter \X Trail!BallotId \X Member)'
  <2>1. BoardsInv' => (now \in Nat /\ Trail!TypeOK
                        /\ cast \subseteq Voter \X Trail!BallotId \X Member)'
    BY BoardsTypes, PTL
  <2>2. QED
    BY <2>1
<1>4. \A a \in Rows(arbitrators') : arbitrators'[a] \in Arbitrator /\ a \in Account
  BY DEF SeatStep, Rows
<1>5. ASSUME NEW a \in Rows(arbitrators')
      PROVE  \E c \in Configs : arbitrators'[a].term_expiration <= now' + c.arb_term_length
  <2>1. arbitrators'[a].term_expiration \in Nat
    BY <1>4, <1>5, ArbFields
  <2>2. CASE a \in won
    <3>1. config \in Configs /\ config.arb_term_length \in Nat
      BY <1>1, ArbRows DEF TypeOK
    <3>2. arbitrators'[a].term_expiration = now + config.arb_term_length
      BY <2>2 DEF SeatStep
    <3>3. QED
      BY <1>2, <3>1, <3>2
  <2>3. CASE a \notin won
    <3>1. a \in Rows(arbitrators) /\ arbitrators'[a].term_expiration = arbitrators[a].term_expiration
      BY <2>3, <1>5 DEF SeatStep
    <3>2. PICK c \in Configs : arbitrators[a].term_expiration <= now + c.arb_term_length
      BY <1>1, <3>1 DEF TypeOK
    <3>3. c.arb_term_length \in Nat
      BY ConfigFields, ConstantsAssumption DEF ConstantsAssumption
    <3>4. QED
      BY <1>2, <2>1, <3>1, <3>2, <3>3
  <2>4. QED
    BY <2>2, <2>3
<1>6. current_ballot_id' \in Trail!BallotId
  BY SameTables
<1>7. TypeOK'
  <2>1. major' \subseteq Account
    BY <1>4 DEF SeatStep
  <2>2. nominees' \subseteq Account /\ arbitrators' \in [Account -> Arbitrator \cup {Nil}]
    BY DEF SeatStep
  <2>3. QED
    BY <1>3, <1>5, <1>6, <2>1, <2>2 DEF TypeOK
<1>8. NomineesHaveNoTerm'
  <2> SUFFICES ASSUME NEW a \in nominees', a \in Rows(arbitrators')
               PROVE  now' > arbitrators'[a].term_expiration
    BY DEF NomineesHaveNoTerm
  <2>1. /\ a \in Rows(arbitrators)
        /\ arbitrators'[a].term_expiration = arbitrators[a].term_expiration
    BY DEF SeatStep
  <2>2. now > arbitrators[a].term_expiration
    BY <2>1 DEF SeatStep, ElectInv, NomineesHaveNoTerm
  <2>3. arbitrators[a].term_expiration \in Nat
    BY <1>1, <2>1, ArbRows, ArbFields
  <2>4. QED
    BY <1>2, <2>1, <2>2, <2>3
<1>9. QED
  BY <1>7, <1>8 DEF ElectInv, SeatsKnown, SeatStep

\* A step that changes no more than the status of arbitrators.
LEMMA StatusStep ==
  ASSUME ElectInv, arbitrators' \in [Account -> Arbitrator \cup {Nil}],
         Rows(arbitrators') = Rows(arbitrators),
         \A a \in Rows(arbitrators) :
           arbitrators'[a].term_expiration = arbitrators[a].term_expiration,
         nominees' \subseteq nominees,
         major' = major \/ major' = Rows(arbitrators')
  PROVE  SeatStep({})
BY DEF ElectInv, TypeOK, SeatsKnown, SeatStep

-----------------------------------------------------------------------------
(* An election as the case files see it *)

\* The table of arbitrators, as Cases has it.
View(table) == [a \in Account |->
                  IF table[a] = Nil THEN Nil
                  ELSE [arb_status |-> table[a].arb_status, open_case_ids |-> {}]]

\* A row as Cases has it.
Seen(status) == [arb_status |-> status, open_case_ids |-> {}]

\* Its fields.
LEMMA SeenFields ==
  \A s, t : Seen(s).open_case_ids = {} /\ [Seen(s) EXCEPT !.arb_status = t] = Seen(t)
BY DEF Seen

\* It is a row.
LEMMA SeenRows ==
  ASSUME NEW s \in Cases!ArbStatus
  PROVE  /\ Seen(s) # Nil /\ Seen(s).arb_status = s /\ Seen(s).open_case_ids = {}
         /\ \A t : [Seen(s) EXCEPT !.arb_status = t] = Seen(t)
<1>1. Nil \notin Cases!Arbitrator
  BY ConstantsAssumption DEF ConstantsAssumption, Cases!ConstantsAssumption
<1>2. Seen(s) \in Cases!Arbitrator
  BY DEF Seen, Cases!Arbitrator
<1>3. Seen(s).arb_status = s /\ Seen(s).open_case_ids = {}
  BY DEF Seen
<1>4. ASSUME NEW t
      PROVE  [Seen(s) EXCEPT !.arb_status = t] = Seen(t)
  BY DEF Seen
<1>5. QED
  BY <1>1, <1>2, <1>3, <1>4

\* The rows of the view are those of the table, and all of them get the
\* permission.
LEMMA ViewRows ==
  ASSUME NEW table \in [Account -> Arbitrator \cup {Nil}]
  PROVE  /\ Cases!Rows(View(table)) = Rows(table)
         /\ DOMAIN View(table) = Account
         /\ \A a \in Rows(table) : View(table)[a] = Seen(table[a].arb_status)
         /\ \A a \in Account : a \notin Rows(table) => View(table)[a] = Nil
         /\ Cases!ArbPermissions(View(table)) = Rows(table)
         /\ Permissions(table) = Rows(table)
<1>1. /\ \A a \in Rows(table) : a \in Account /\ View(table)[a] = Seen(table[a].arb_status)
      /\ \A a \in Account : a \notin Rows(table) => View(table)[a] = Nil
      /\ DOMAIN View(table) = Account
  BY DEF Rows, View, Seen
<1>2. \A a \in Rows(table) : table[a].arb_status \in Cases!ArbStatus
  BY ArbFields DEF Rows
<1>3. \A a \in Rows(table) : View(table)[a] # Nil
  BY <1>1, <1>2, SeenRows
<1>4. Cases!Rows(View(table)) = Rows(table)
  BY <1>1, <1>3 DEF Cases!Rows
<1>5. Cases!ArbPermissions(View(table)) = Rows(table) /\ Permissions(table) = Rows(table)
  BY <1>4 DEF Cases!ArbPermissions, Permissions, Cases!SEAT_EXPIRED, Cases!REMOVED
<1>6. QED
  BY <1>1, <1>4, <1>5

\* The case files do not see a step that leaves the status of arbitrators and
\* the permission alone.
CasesStep == [Cases!Next]_(Cases!vars)

\* What an election does to the arbitrators is the outcome of an election.
LEMMA OutcomeSeen ==
  ASSUME ElectInv, arbitrators' \in [Account -> Arbitrator \cup {Nil}],
         NEW won \in SUBSET Account, NEW lapsed \in SUBSET Rows(arbitrators), won \cap lapsed = {},
         Rows(arbitrators') = Rows(arbitrators) \cup won,
         \A a \in won : arbitrators'[a].arb_status = Cases!UNAVAILABLE,
         \A a \in lapsed : arbitrators'[a].arb_status = Cases!SEAT_EXPIRED,
         \A a \in Rows(arbitrators) : a \notin won \cup lapsed =>
           arbitrators'[a].arb_status = arbitrators[a].arb_status,
         major' = Rows(arbitrators')
  PROVE  CasesStep
<1> DEFINE old == View(arbitrators)
           new == View(arbitrators')
<1>1. arbitrators \in [Account -> Arbitrator \cup {Nil}] /\ major = Rows(arbitrators)
  BY DEF ElectInv, TypeOK, SeatsKnown
<1>2. /\ Cases!Rows(old) = Rows(arbitrators) /\ Cases!ArbPermissions(new) = Rows(arbitrators')
      /\ \A a \in Rows(arbitrators) : old[a] = Seen(arbitrators[a].arb_status)
      /\ \A a \in Account : a \notin Rows(arbitrators) => old[a] = Nil
      /\ \A a \in Rows(arbitrators') : new[a] = Seen(arbitrators'[a].arb_status)
      /\ \A a \in Account : a \notin Rows(arbitrators') => new[a] = Nil
      /\ new = [a \in Account |-> new[a]] /\ old = [a \in Account |-> old[a]]
  BY <1>1, ViewRows DEF View
<1>3. Rows(arbitrators) \subseteq Account
      /\ \A a \in Rows(arbitrators) : arbitrators[a].arb_status \in Cases!ArbStatus
  BY ArbRows, ArbFields DEF ElectInv
<1>4. /\ Cases!vars = <<[c \in {0} |-> Nil], [k \in {0} |-> Nil], old, [o \in {} |-> Nil], 0, 0, major>>
      /\ Cases!vars' = <<[c \in {0} |-> Nil], [k \in {0} |-> Nil], new, [o \in {} |-> Nil], 0, 0, major'>>
  BY DEF Cases!vars, View
<1>8. \A a \in Rows(arbitrators) : old[a] = Seen(arbitrators[a].arb_status)
  BY <1>2
<1>5. CASE won \cup lapsed = {}
  <2>1. \A a \in Account : new[a] = old[a]
    BY <1>2, <1>5
  <2> HIDE DEF old, new
  <2>2. new = old /\ major' = major
    BY <1>1, <1>2, <1>5, <2>1
  <2>3. QED
    BY <1>4, <2>2 DEF CasesStep
<1>6. CASE won \cup lapsed # {}
  <2> DEFINE out(a) == CASE a \in won -> Cases!SeatedRow(a)
                         [] a \in lapsed -> [old[a] EXCEPT !.arb_status = Cases!SEAT_EXPIRED]
                         [] OTHER -> old[a]
  <2>1. \A a : Cases!SeatedRow(a) =
          [arb_status |-> Cases!UNAVAILABLE,
           open_case_ids |-> IF a \in Cases!Rows(old) THEN old[a].open_case_ids ELSE {}]
    BY DEF Cases!SeatedRow, View
  <2>2. Cases!ElectionOutcome(won, lapsed) <=>
          /\ won \cap lapsed = {} /\ won \cup lapsed # {}
          /\ lapsed \subseteq Cases!Rows(old)
          /\ new = [a \in Account |-> out(a)]
          /\ (won = {} /\ major' = major) \/ major' = Cases!ArbPermissions(new)
          /\ UNCHANGED <<<<[c \in {0} |-> Nil], [k \in {0} |-> Nil]>>, <<[o \in {} |-> Nil], 0, 0>>>>
    BY DEF Cases!ElectionOutcome, Cases!caseVars, Cases!moneyVars, View
  <2> HIDE DEF old, new
  <2>3. ASSUME NEW a \in won
        PROVE  new[a] = out(a)
    <3>1. a \in Rows(arbitrators) => old[a].open_case_ids = {}
      <4>1. a \in Rows(arbitrators) => old[a] = Seen(arbitrators[a].arb_status)
        BY <1>8
      <4>2. QED
        BY <4>1, SeenFields
    <3>2. Cases!SeatedRow(a) = Seen(Cases!UNAVAILABLE)
      BY <1>2, <2>1, <3>1 DEF Seen
    <3>3. new[a] = Seen(Cases!UNAVAILABLE)
      BY <1>2
    <3>4. QED
      BY <2>3, <3>2, <3>3
  <2>4. ASSUME NEW a \in lapsed
        PROVE  new[a] = out(a)
    <3>1. [old[a] EXCEPT !.arb_status = Cases!SEAT_EXPIRED] = Seen(Cases!SEAT_EXPIRED)
      <4>1. old[a] = Seen(arbitrators[a].arb_status)
        BY <1>8
      <4>2. QED
        BY <4>1, SeenFields
    <3>2. a \notin won /\ new[a] = Seen(Cases!SEAT_EXPIRED)
      BY <1>2
    <3>3. QED
      BY <2>4, <3>1, <3>2
  <2>5. ASSUME NEW a \in Account, a \notin won \cup lapsed
        PROVE  new[a] = out(a)
    <3>1. new[a] = old[a]
      BY <1>2, <2>5
    <3>2. QED
      BY <2>5, <3>1
  <2>6. \A a \in Account : new[a] = out(a)
    BY <2>3, <2>4, <2>5
  <2> HIDE DEF out
  <2>7. new = [a \in Account |-> out(a)]
    BY <1>2, <2>6
  <2>8. Cases!ElectionOutcome(won, lapsed)
    BY <1>2, <1>6, <2>2, <2>7
  <2>9. won \in SUBSET Account /\ lapsed \in SUBSET Account
    BY <1>3
  <2>10. QED
    BY <2>8, <2>9 DEF CasesStep, Cases!Next, Cases!ArbNext
<1>7. QED
  BY <1>5, <1>6

-----------------------------------------------------------------------------
(* The actions *)

\* What is proved of every step: it keeps the invariant, gives new terms to
\* those who won, and the case files take it for one of their own steps.
Steady(won) == ElectInv' /\ SeatStep(won) /\ CasesStep

\* The values of status.
LEMMA Statuses ==
  /\ Cases!UNAVAILABLE \in Cases!ArbStatus /\ Cases!REMOVED \in Cases!ArbStatus
  /\ Cases!SEAT_EXPIRED \in Cases!ArbStatus
  /\ \A s \in Cases!AVAILABLE..Cases!REMOVED : s \in Cases!ArbStatus
BY DEF Cases!ArbStatus, Cases!UNAVAILABLE, Cases!REMOVED, Cases!SEAT_EXPIRED, Cases!AVAILABLE

\* Nothing happens to the ballots.
LEMMA BoardsSame ==
  ASSUME BoardsInv, UNCHANGED <<trailVars, cast>>
  PROVE  BoardsInv'
<1>1. TP!TypeOK /\ now \in Nat
  BY BoardRows DEF BoardsInv, TP!Inv
<1>2. TP!Passing
  BY <1>1 DEF TP!Passing, TP!TypeOK, trailVars, TP!listVars
<1>3. TP!Inv'
  BY <1>2, TrailConstants, TP!PassingInv DEF BoardsInv
<1>4. RowsKept /\ UNCHANGED cast
  BY SameRowsKept DEF trailVars
<1>5. QED
  BY <1>3, <1>4, RowsKeptInv

\* Nothing happens to the arbitrators.
LEMMA SeatsUntouched ==
  ASSUME ElectInv, UNCHANGED <<arbitrators, major>>, nominees' \subseteq nominees, BoardsInv',
         config' \in Configs, current_ballot_id' \in TP!BallotId,
         auto_start_election' \in BOOLEAN, now <= now'
  PROVE  Steady({})
<1>1. SeatStep({})
  BY StatusStep DEF ElectInv, TypeOK
<1>2. ElectInv'
  BY <1>1, SeatsKept
<1>3. UNCHANGED Cases!vars
  BY DEF Cases!vars
<1>4. QED
  BY <1>1, <1>2, <1>3 DEF Steady, CasesStep

\* What the invariant says of the configuration.
LEMMA ElectTypes ==
  ASSUME ElectInv
  PROVE  /\ config \in Configs /\ config \in Config
         /\ current_ballot_id \in TP!BallotId /\ auto_start_election \in BOOLEAN
         /\ nominees \subseteq Account
         /\ arbitrators \in [Account -> Arbitrator \cup {Nil}]
         /\ major = Rows(arbitrators)
         /\ now \in Nat
         /\ BoardsInv /\ TP!Inv
BY ArbRows, SameTables DEF ElectInv, TypeOK, SeatsKnown, BoardsInv

\* Nothing happens to trail or to the configuration.
LEMMA BallotsUntouched ==
  ASSUME ElectInv, UNCHANGED <<electionVars, trailVars, cast>>
  PROVE  /\ BoardsInv' /\ now <= now'
         /\ config' \in Configs /\ current_ballot_id' \in TP!BallotId
         /\ auto_start_election' \in BOOLEAN
<1>1. UNCHANGED <<config, current_ballot_id, auto_start_election, now>>
  BY DEF electionVars, trailVars
<1>2. BoardsInv'
  BY BoardsSame, ElectTypes
<1>3. QED
  BY <1>1, <1>2, ElectTypes

\* setconfig.
LEMMA SetConfigSteady ==
  ASSUME ElectInv, SetConfig
  PROVE  Steady({})
<1>1. /\ config' \in Configs
      /\ UNCHANGED <<current_ballot_id, auto_start_election, nominees, arbitrators, major, trailVars, cast>>
      /\ UNCHANGED now
  BY DEF SetConfig, seatVars, trailVars
<1>2. BoardsInv'
  BY <1>1, BoardsSame, ElectTypes
<1>3. QED
  BY <1>1, <1>2, SeatsUntouched, ElectTypes

\* unregnominee.
LEMMA UnregNomineeSteady ==
  ASSUME ElectInv, NEW a \in Account, UnregNominee(a)
  PROVE  Steady({})
<1>1. UNCHANGED <<electionVars, trailVars, cast>> /\ UNCHANGED <<arbitrators, major>>
      /\ nominees' \subseteq nominees
  BY DEF UnregNominee
<1>2. QED
  BY <1>1, BallotsUntouched, SeatsUntouched

\* candaddlead and candrmvlead.
LEMMA CandidatesSteady ==
  ASSUME ElectInv, NEW a \in Account, CandAddLead(a) \/ CandRmvLead(a)
  PROVE  Steady({})
<1>1. /\ UNCHANGED <<config, current_ballot_id, auto_start_election>>
      /\ UNCHANGED <<nominees, arbitrators, major>>
  BY DEF CandAddLead, CandRmvLead, electionVars, seatVars
<1>2. a \in Member /\ current_ballot_id \in TP!BallotId /\ BoardsInv /\ UNCHANGED cast
  BY ConstantsAssumption, ElectTypes DEF ConstantsAssumption, CandAddLead, CandRmvLead
<1>3. BoardsInv' /\ now' = now
  <2>1. CASE CandAddLead(a)
    <3>1. TP!AddCandidate(Self, current_ballot_id, a)
      BY <2>1, SameCandidateActions DEF CandAddLead
    <3>2. now' = now
      BY <3>1 DEF TP!AddCandidate
    <3>3. QED
      BY <1>2, <3>1, <3>2, CandidateAdded
  <2>2. CASE CandRmvLead(a)
    <3>1. TP!RmvCandidate(Self, current_ballot_id, a)
      BY <2>2, SameCandidateActions DEF CandRmvLead
    <3>2. now' = now
      BY <3>1 DEF TP!RmvCandidate
    <3>3. QED
      BY <1>2, <3>1, <3>2, CandidateRemoved
  <2>3. QED
    BY <2>1, <2>2
<1>4. now <= now'
  BY <1>3, ElectTypes
<1>5. QED
  BY <1>1, <1>3, <1>4, ElectTypes, SeatsUntouched

\* The clock goes forward.
LEMMA OthersClock ==
  ASSUME ElectInv, TrailNext
  PROVE  now <= now'
<1>1. now \in Nat
  BY ElectTypes
<1>2. CASE Trail!Tick
  BY <1>1, <1>2 DEF Trail!Tick
<1>3. CASE Trail!InitSettings
  BY <1>1, <1>3 DEF Trail!InitSettings
<1>4. ASSUME NEW v \in Voter
      PROVE  /\ Trail!WeightChanges(v) => now' = now
             /\ \A n : Trail!DelOldVotes(v, n) => now' = now
             /\ \A b, d : Trail!VoteForProposal(v, b, d) => now' = now
  BY DEF Trail!WeightChanges, Trail!DelOldVotes, Trail!VoteForProposal
<1>5. ASSUME NEW p, NEW w
      PROVE  /\ Trail!RegProposal(p, w[1], w[2]) => now' = now
             /\ Trail!RegLeaderboard(p, w[1], w[2]) => now' = now
             /\ \A b : Trail!NextCycle(b, w[1], w[2]) => now' = now
  BY DEF Trail!RegProposal, Trail!RegLeaderboard, Trail!NextCycle
<1>6. ASSUME NEW p, Trail!BallotNext(p)
      PROVE  now' = now
  BY <1>6, Zenon
     DEF Trail!BallotNext, Trail!UnregProposal, Trail!UnregLeaderboard, Trail!AddCandidate,
         Trail!RmvCandidate, Trail!SetAllCands, Trail!SetSeats, Trail!SetAllStats,
         Trail!CloseProposal, Trail!CloseLeaderboard
<1>7. now' = now => now <= now'
  BY <1>1
<1>8. QED
  BY <1>2, <1>3, <1>4, <1>5, <1>6, <1>7, Zenon DEF TrailNext

\* What others do with trail.
LEMMA OthersSteady ==
  ASSUME ElectInv, TrailNext \/ VoteForCandidate
  PROVE  Steady({})
<1>1. /\ UNCHANGED <<config, current_ballot_id, auto_start_election>>
      /\ UNCHANGED <<nominees, arbitrators, major>>
  BY DEF TrailNext, VoteForCandidate, electionVars, seatVars
<1>2. BoardsInv' /\ now <= now'
  <2>1. CASE TrailNext
    BY <2>1, OthersOwed, OthersClock, ElectTypes
  <2>2. CASE VoteForCandidate
    BY <2>2, VoteOwed, ElectTypes
  <2>3. QED
    BY <2>1, <2>2
<1>3. QED
  BY <1>1, <1>2, ElectTypes, SeatsUntouched

\* A step that changes nothing.
LEMMA StutterSteady ==
  ASSUME ElectInv, UNCHANGED vars
  PROVE  Steady({})
<1>1. /\ UNCHANGED <<electionVars, trailVars, cast>>
      /\ UNCHANGED <<nominees, arbitrators, major>>
  BY DEF vars, seatVars
<1>2. QED
  BY <1>1, BallotsUntouched, SeatsUntouched

\* The table with the status of one arbitrator changed.
LEMMA StatusSet ==
  ASSUME ElectInv, NEW a \in Rows(arbitrators), NEW s \in Cases!ArbStatus
  PROVE  LET table == [arbitrators EXCEPT ![a].arb_status = s]
         IN  /\ table \in [Account -> Arbitrator \cup {Nil}]
             /\ Rows(table) = Rows(arbitrators)
             /\ table[a].arb_status = s
             /\ table[a].term_expiration = arbitrators[a].term_expiration
             /\ \A b \in Account : b # a => table[b] = arbitrators[b]
<1> DEFINE row == [arbitrators[a] EXCEPT !.arb_status = s]
           table == [arbitrators EXCEPT ![a].arb_status = s]
<1>1. /\ arbitrators \in [Account -> Arbitrator \cup {Nil}] /\ a \in Account
      /\ arbitrators[a] \in Arbitrator
  BY ElectTypes, ArbRows DEF ElectInv
<1>2. /\ row \in Arbitrator /\ row.arb_status = s
      /\ row.term_expiration = arbitrators[a].term_expiration
  BY <1>1, ArbFields
<1>3. table = [arbitrators EXCEPT ![a] = row]
  OBVIOUS
<1>4. row # Nil
  BY <1>2, ConstantsAssumption DEF ConstantsAssumption
<1> HIDE DEF row, table
<1>5. /\ table \in [Account -> Arbitrator \cup {Nil}] /\ table[a] = row
      /\ \A b \in Account : b # a => table[b] = arbitrators[b]
  BY <1>1, <1>2, <1>3
<1>6. Rows(table) = Rows(arbitrators)
  BY <1>1, <1>4, <1>5 DEF Rows
<1>7. QED
  BY <1>2, <1>5, <1>6 DEF table

\* One arbitrator's status changes.
LEMMA StatusSteady ==
  ASSUME ElectInv, NEW a \in Rows(arbitrators), NEW s \in Cases!ArbStatus,
         arbitrators' = [arbitrators EXCEPT ![a].arb_status = s],
         major' = major \/ major' = Rows(arbitrators'),
         nominees' \subseteq Account,
         \A n \in nominees' : \/ n \in nominees
                              \/ n \in Rows(arbitrators) => now > arbitrators[n].term_expiration,
         UNCHANGED <<electionVars, trailVars, cast>>
  PROVE  ElectInv' /\ SeatStep({})
<1>1. /\ arbitrators' \in [Account -> Arbitrator \cup {Nil}]
      /\ Rows(arbitrators') = Rows(arbitrators)
      /\ \A b \in Rows(arbitrators) :
           arbitrators'[b].term_expiration = arbitrators[b].term_expiration
  <2> DEFINE table == [arbitrators EXCEPT ![a].arb_status = s]
  <2>1. /\ table \in [Account -> Arbitrator \cup {Nil}]
        /\ Rows(table) = Rows(arbitrators)
        /\ table[a].term_expiration = arbitrators[a].term_expiration
        /\ \A b \in Account : b # a => table[b] = arbitrators[b]
    BY StatusSet
  <2>2. arbitrators' = table /\ Rows(arbitrators) \subseteq Account
    BY ArbRows DEF ElectInv
  <2> HIDE DEF table
  <2>3. QED
    BY <2>1, <2>2
<1>2. SeatStep({})
  BY <1>1, ElectTypes DEF SeatStep
<1>3. QED
  BY <1>2, BallotsUntouched, SeatsKept

\* The case files see it.
LEMMA ViewSet ==
  ASSUME ElectInv, NEW a \in Rows(arbitrators), NEW s \in Cases!ArbStatus,
         arbitrators' = [arbitrators EXCEPT ![a].arb_status = s]
  PROVE  /\ a \in Cases!Rows(View(arbitrators))
         /\ View(arbitrators)[a] = Seen(arbitrators[a].arb_status)
         /\ View(arbitrators') = [View(arbitrators) EXCEPT ![a] = Seen(s)]
         /\ Cases!ArbPermissions(View(arbitrators')) = Rows(arbitrators')
         /\ Permissions(arbitrators') = Rows(arbitrators')
<1> DEFINE old == View(arbitrators)
           new == View(arbitrators')
           table == [arbitrators EXCEPT ![a].arb_status = s]
<1>1. /\ table \in [Account -> Arbitrator \cup {Nil}]
      /\ Rows(table) = Rows(arbitrators)
      /\ table[a].arb_status = s
      /\ \A b \in Account : b # a => table[b] = arbitrators[b]
  BY StatusSet
<1>2. arbitrators' = table /\ arbitrators \in [Account -> Arbitrator \cup {Nil}]
  BY ElectTypes
<1> HIDE DEF table
<1>3. /\ arbitrators' \in [Account -> Arbitrator \cup {Nil}]
      /\ a \in Rows(arbitrators') /\ arbitrators'[a].arb_status = s
  BY <1>1, <1>2
<1>4. a \in Cases!Rows(old) /\ old[a] = Seen(arbitrators[a].arb_status)
  BY <1>2, ViewRows
<1>5. new[a] = Seen(arbitrators'[a].arb_status)
  BY <1>3, ViewRows
<1>6. \A b \in Account : b # a => new[b] = old[b]
  BY <1>1, <1>2 DEF View
<1>7. new = [b \in Account |-> new[b]] /\ old = [b \in Account |-> old[b]]
  BY DEF View
<1>8. Cases!ArbPermissions(new) = Rows(arbitrators') /\ Permissions(arbitrators') = Rows(arbitrators')
  BY <1>3, ViewRows
<1>9. a \in Account
  BY ArbRows DEF ElectInv
<1> HIDE DEF old, new
<1>10. new = [old EXCEPT ![a] = Seen(s)]
  BY <1>3, <1>5, <1>6, <1>7, <1>9
<1>11. QED
  BY <1>4, <1>8, <1>10 DEF old, new

\* newarbstatus, by an arbitrator at any time.
LEMMA NewArbStatusSteady ==
  ASSUME ElectInv, NEW a \in Account, NEW s \in Cases!AVAILABLE..Cases!REMOVED, NewArbStatus(a, s)
  PROVE  Steady({})
<1>1. /\ a \in Rows(arbitrators) /\ s \in Cases!ArbStatus
      /\ arbitrators' = [arbitrators EXCEPT ![a].arb_status = s]
      /\ UNCHANGED <<nominees, major>> /\ UNCHANGED <<electionVars, trailVars, cast>>
  BY Statuses DEF NewArbStatus
<1>2. ElectInv' /\ SeatStep({})
  BY <1>1, ElectTypes, StatusSteady
<1>3. Cases!NewArbStatus(a, s)
  <2> DEFINE old == View(arbitrators)
             new == View(arbitrators')
  <2>1. /\ a \in Cases!Rows(old) /\ old[a] = Seen(arbitrators[a].arb_status)
        /\ new = [old EXCEPT ![a] = Seen(s)]
    BY <1>1, ViewSet
  <2>2. Cases!NewArbStatus(a, s) <=>
          /\ a \in Cases!Rows(old)
          /\ new = [old EXCEPT ![a].arb_status = s]
          /\ UNCHANGED <<<<[c \in {0} |-> Nil], [k \in {0} |-> Nil]>>, <<[o \in {} |-> Nil], 0, 0>>, major>>
    BY DEF Cases!NewArbStatus, Cases!caseVars, Cases!moneyVars, View
  <2> HIDE DEF old, new
  <2>3. [old[a] EXCEPT !.arb_status = s] = Seen(s)
    BY <2>1, SeenFields
  <2>4. new = [old EXCEPT ![a].arb_status = s]
    BY <2>1, <2>3
  <2>5. QED
    BY <1>1, <2>1, <2>2, <2>4
<1>4. CasesStep
  BY <1>3 DEF CasesStep, Cases!Next, Cases!ArbNext
<1>5. QED
  BY <1>2, <1>4 DEF Steady

\* dismissarb: in ArbCases, without a look at the cases, of which none is known
\* here.
LEMMA DismissArbSteady ==
  ASSUME ElectInv, NEW a \in Account, DismissArb(a)
  PROVE  Steady({})
<1>1. /\ a \in Rows(arbitrators) /\ Cases!REMOVED \in Cases!ArbStatus
      /\ arbitrators[a].arb_status \notin {Cases!SEAT_EXPIRED, Cases!REMOVED}
      /\ arbitrators' = [arbitrators EXCEPT ![a].arb_status = Cases!REMOVED]
      /\ SetPermissions(Permissions(arbitrators'))
      /\ nominees' = nominees /\ UNCHANGED <<electionVars, trailVars, cast>>
  BY Statuses DEF DismissArb
<1>2. /\ a \in Cases!Rows(View(arbitrators))
      /\ View(arbitrators)[a] = Seen(arbitrators[a].arb_status)
      /\ View(arbitrators') = [View(arbitrators) EXCEPT ![a] = Seen(Cases!REMOVED)]
      /\ Cases!ArbPermissions(View(arbitrators')) = Rows(arbitrators')
      /\ Permissions(arbitrators') = Rows(arbitrators')
  BY <1>1, ViewSet
<1>3. major' = Rows(arbitrators')
  <2> DEFINE table == [arbitrators EXCEPT ![a].arb_status = Cases!REMOVED]
  <2>1. Rows(table) = Rows(arbitrators)
    BY <1>1, StatusSet
  <2>2. arbitrators' = table
    BY <1>1
  <2> HIDE DEF table
  <2>3. QED
    BY <1>1, <1>2, <2>1, <2>2 DEF SetPermissions
<1>4. ElectInv' /\ SeatStep({})
  BY <1>1, <1>3, ElectTypes, StatusSteady
<1>5. Cases!DismissArb(a, FALSE)
  <2> DEFINE old == View(arbitrators)
             new == View(arbitrators')
  <2>1. Cases!DismissArb(a, FALSE) <=>
          /\ a \in Cases!Rows(old)
          /\ old[a].arb_status \notin {Cases!SEAT_EXPIRED, Cases!REMOVED}
          /\ new = [old EXCEPT ![a].arb_status = Cases!REMOVED,
                               ![a].open_case_ids = IF FALSE THEN {} ELSE @]
          /\ major' = Cases!ArbPermissions(new)
          /\ [c \in {0} |-> Nil] = [c \in {0} |-> Nil]
          /\ UNCHANGED <<[k \in {0} |-> Nil], <<[o \in {} |-> Nil], 0, 0>>>>
    BY DEF Cases!DismissArb, Cases!caseVars, Cases!moneyVars, View
  <2>2. /\ a \in Cases!Rows(old) /\ old[a] = Seen(arbitrators[a].arb_status)
        /\ new = [old EXCEPT ![a] = Seen(Cases!REMOVED)]
        /\ Cases!ArbPermissions(new) = Rows(arbitrators')
        /\ DOMAIN old = Account
    BY <1>2 DEF View
  <2> HIDE DEF old, new
  <2>3. old[a].arb_status = arbitrators[a].arb_status
    BY <2>2 DEF Seen
  <2>4. new = [old EXCEPT ![a].arb_status = Cases!REMOVED,
                          ![a].open_case_ids = IF FALSE THEN {} ELSE @]
    <3> DEFINE mid == [old EXCEPT ![a].arb_status = Cases!REMOVED]
    <3>1. [old[a] EXCEPT !.arb_status = Cases!REMOVED] = Seen(Cases!REMOVED)
      BY <2>2, SeenFields
    <3>2. mid = new
      BY <2>2, <3>1
    <3>3. new[a] = Seen(Cases!REMOVED) /\ DOMAIN new = DOMAIN old
      BY <2>2
    <3>4. [mid EXCEPT ![a].open_case_ids = @] = mid
      <4>1. mid[a] = Seen(Cases!REMOVED)
        BY <3>2, <3>3
      <4> HIDE DEF mid
      <4>2. [mid[a] EXCEPT !.open_case_ids = @] = mid[a]
        BY <4>1 DEF Seen
      <4>3. mid = [x \in DOMAIN mid |-> mid[x]]
        BY DEF mid
      <4>4. QED
        BY <4>2, <4>3
    <3>5. QED
      BY <3>2, <3>4
  <2>5. QED
    BY <1>1, <1>3, <2>1, <2>2, <2>3, <2>4
<1>6. CasesStep
  BY <1>5 DEF CasesStep, Cases!Next, Cases!ArbNext
<1>7. QED
  BY <1>4, <1>6 DEF Steady

\* regarb: a former arbitrator stands again.
LEMMA RegArbSteady ==
  ASSUME ElectInv, NEW a \in Account, RegArb(a)
  PROVE  Steady({})
<1>1. /\ a \in Rows(arbitrators) => now > arbitrators[a].term_expiration
      /\ nominees' = nominees \cup {a} /\ major' = major
      /\ UNCHANGED <<electionVars, trailVars, cast>>
  BY DEF RegArb
<1>2. /\ nominees' \subseteq Account
      /\ \A n \in nominees' : \/ n \in nominees
                              \/ n \in Rows(arbitrators) => now > arbitrators[n].term_expiration
  BY <1>1, ElectTypes
<1>3. CASE a \in Rows(arbitrators)
  <2>1. arbitrators' = [arbitrators EXCEPT ![a].arb_status = Cases!SEAT_EXPIRED]
    BY <1>3 DEF RegArb, Rows
  <2>2. Cases!SEAT_EXPIRED \in Cases!ArbStatus
    BY Statuses
  <2>3. ElectInv' /\ SeatStep({})
    BY <1>1, <1>2, <1>3, <2>1, <2>2, StatusSteady
  <2>4. /\ arbitrators' \in [Account -> Arbitrator \cup {Nil}]
        /\ Rows(arbitrators') = Rows(arbitrators) \cup {}
        /\ major' = Rows(arbitrators')
    BY <2>3 DEF SeatStep
  <2>5. /\ arbitrators'[a].arb_status = Cases!SEAT_EXPIRED
        /\ \A b \in Account : b # a => arbitrators'[b] = arbitrators[b]
    <3> DEFINE table == [arbitrators EXCEPT ![a].arb_status = Cases!SEAT_EXPIRED]
    <3>1. /\ table[a].arb_status = Cases!SEAT_EXPIRED
          /\ \A b \in Account : b # a => table[b] = arbitrators[b]
      BY <1>3, <2>2, StatusSet
    <3>2. arbitrators' = table
      BY <2>1
    <3> HIDE DEF table
    <3>3. QED
      BY <3>1, <3>2
  <2>6. {a} \in SUBSET Rows(arbitrators) /\ {} \in SUBSET Account /\ Rows(arbitrators) \subseteq Account
    BY <1>3, ArbRows DEF ElectInv
  <2>7. \A b \in Rows(arbitrators) : b \notin {} \cup {a} =>
          arbitrators'[b].arb_status = arbitrators[b].arb_status
    BY <2>5, <2>6
  <2>8. CasesStep
    BY <2>4, <2>5, <2>6, <2>7, OutcomeSeen
  <2>9. QED
    BY <2>3, <2>8 DEF Steady
<1>4. CASE a \notin Rows(arbitrators)
  <2>1. arbitrators' = arbitrators
    BY <1>4, ElectTypes DEF RegArb, Rows
  <2>2. SeatStep({})
    BY <1>1, <1>2, <2>1, ElectTypes DEF SeatStep
  <2>3. ElectInv'
    BY <1>1, <2>2, BallotsUntouched, SeatsKept
  <2>4. UNCHANGED Cases!vars
    BY <1>1, <2>1 DEF Cases!vars
  <2>5. QED
    BY <2>2, <2>3, <2>4 DEF Steady, CasesStep
<1>5. QED
  BY <1>3, <1>4

\* The table after has_available_seats has ended the terms that are over.
LEMMA LapsedRows ==
  ASSUME NEW table \in [Account -> Arbitrator \cup {Nil}]
  PROVE  /\ Lapsed(table) \in [Account -> Arbitrator \cup {Nil}]
         /\ Rows(Lapsed(table)) = Rows(table)
         /\ \A a \in Rows(table) :
              /\ Lapsed(table)[a].term_expiration = table[a].term_expiration
              /\ now > table[a].term_expiration =>
                   Lapsed(table)[a].arb_status = Cases!SEAT_EXPIRED
              /\ ~ (now > table[a].term_expiration) => Lapsed(table)[a] = table[a]
<1>1. \A a \in Rows(table) : a \in Account /\ table[a] \in Arbitrator
  BY DEF Rows
<1>2. \A row \in Arbitrator :
        /\ [row EXCEPT !.arb_status = Cases!SEAT_EXPIRED] \in Arbitrator
        /\ [row EXCEPT !.arb_status = Cases!SEAT_EXPIRED].arb_status = Cases!SEAT_EXPIRED
        /\ [row EXCEPT !.arb_status = Cases!SEAT_EXPIRED].term_expiration = row.term_expiration
  BY Statuses, ArbFields
<1>3. ASSUME NEW a \in Account
      PROVE  /\ a \in Rows(table) /\ now > table[a].term_expiration =>
                  Lapsed(table)[a] = [table[a] EXCEPT !.arb_status = Cases!SEAT_EXPIRED]
             /\ a \notin Rows(table) => Lapsed(table)[a] = Nil /\ table[a] = Nil
             /\ a \in Rows(table) /\ ~ (now > table[a].term_expiration) =>
                  Lapsed(table)[a] = table[a]
  BY DEF Lapsed, Rows
<1>4. ASSUME NEW a \in Account
      PROVE  /\ Lapsed(table)[a] \in Arbitrator \cup {Nil}
             /\ a \in Rows(table) => Lapsed(table)[a] \in Arbitrator
  BY <1>1, <1>2, <1>3
<1>5. Nil \notin Arbitrator
  BY ConstantsAssumption DEF ConstantsAssumption
<1>6. DOMAIN Lapsed(table) = Account /\ Lapsed(table) = [a \in Account |-> Lapsed(table)[a]]
  BY DEF Lapsed
<1>7. Lapsed(table) \in [Account -> Arbitrator \cup {Nil}]
  BY <1>4, <1>6
<1>8. Rows(Lapsed(table)) = Rows(table)
  <2>1. \A a \in Account : a \in Rows(table) <=> Lapsed(table)[a] # Nil
    BY <1>3, <1>4, <1>5
  <2>2. QED
    BY <1>1, <1>6, <2>1 DEF Rows
<1>9. ASSUME NEW a \in Rows(table)
      PROVE  /\ Lapsed(table)[a].term_expiration = table[a].term_expiration
             /\ now > table[a].term_expiration =>
                  Lapsed(table)[a].arb_status = Cases!SEAT_EXPIRED
             /\ ~ (now > table[a].term_expiration) => Lapsed(table)[a] = table[a]
  <2>1. a \in Account /\ table[a] \in Arbitrator
    BY <1>1
  <2> HIDE DEF Lapsed
  <2>2. CASE now > table[a].term_expiration
    BY <1>2, <1>3, <2>1, <2>2
  <2>3. CASE ~ (now > table[a].term_expiration)
    <3>1. Lapsed(table)[a] = table[a]
      BY <1>3, <2>1, <2>3
    <3>2. QED
      BY <2>3, <3>1
  <2>4. QED
    BY <2>2, <2>3
<1>10. QED
  BY <1>7, <1>8, <1>9, Zenon

\* The number of free seats is a natural number.
LEMMA SeatsNat ==
  ASSUME ElectInv, NEW table \in [Account -> Arbitrator \cup {Nil}]
  PROVE  AvailableSeats(table) \in Nat
<1>1. Cardinality(Occupied(table)) \in Nat
  <2>1. Occupied(table) \subseteq Account
    BY DEF Occupied, Rows
  <2>2. QED
    BY <2>1, ConstantsAssumption, FS_Subset, FS_CardinalityType DEF ConstantsAssumption
<1>2. config.max_elected_arbs \in Int
  <2>1. config.max_elected_arbs \in 1..UINT16_MAX
    BY ElectTypes, ConfigFields
  <2>2. QED
    BY <2>1
<1>3. \A n \in Int, k \in Nat : (n - k) % 256 \in Nat
  OBVIOUS
<1>4. QED
  BY <1>1, <1>2, <1>3 DEF AvailableSeats

\* initelection.
LEMMA InitElectionSteady ==
  ASSUME ElectInv, InitElection
  PROVE  Steady({})
<1> DEFINE lapsed == {a \in Rows(arbitrators) : now > arbitrators[a].term_expiration}
<1>1. /\ arbitrators' = Lapsed(arbitrators) /\ auto_start_election' = TRUE
      /\ config' = config /\ nominees' = nominees /\ major' = major
  BY DEF InitElection
<1>2. arbitrators \in [Account -> Arbitrator \cup {Nil}]
  BY ElectTypes
<1>3. /\ arbitrators' \in [Account -> Arbitrator \cup {Nil}]
      /\ Rows(arbitrators') = Rows(arbitrators)
      /\ \A a \in Rows(arbitrators) :
           arbitrators'[a].term_expiration = arbitrators[a].term_expiration
      /\ \A a \in lapsed : arbitrators'[a].arb_status = Cases!SEAT_EXPIRED
      /\ \A a \in Rows(arbitrators) : a \notin lapsed => arbitrators'[a] = arbitrators[a]
  BY <1>1, <1>2, LapsedRows
<1>4. BoardsInv' /\ current_ballot_id' \in TP!BallotId /\ now' = now
  <2> DEFINE seats == AvailableSeats(arbitrators')
  <2>1. seats \in Nat
    BY <1>3, SeatsNat
  <2>2. CASE seats > 0
    <3>1. StartNewElection(leaderboards, seats, <<>>) /\ UNCHANGED cast
      BY <2>2 DEF InitElection
    <3>2. Alike(leaderboards) /\ Members(<<>>)
      BY ElectTypes, BoardRows DEF Alike, Members, TP!SameWindow, TP!SameCandidates
    <3>3. now' = now
      BY <3>1 DEF StartNewElection
    <3> HIDE DEF seats
    <3>4. QED
      BY <2>1, <3>1, <3>2, <3>3, ElectTypes, ElectionStarted
  <2>3. CASE ~ (seats > 0)
    <3>1. current_ballot_id' \in Trail!BallotId /\ UNCHANGED <<trailVars, cast>>
      BY <2>3 DEF InitElection
    <3>2. now' = now
      BY <3>1 DEF trailVars
    <3>3. QED
      BY <3>1, <3>2, ElectTypes, SameTables, BoardsSame
  <2>4. QED
    BY <2>2, <2>3
<1>5. SeatStep({})
  BY <1>1, <1>3, StatusStep
<1>6. now <= now' /\ config' \in Configs /\ auto_start_election' \in BOOLEAN
  BY <1>1, <1>4, ElectTypes
<1>7. ElectInv'
  BY <1>4, <1>5, <1>6, SeatsKept
<1>8. CasesStep
  <2>1. lapsed \in SUBSET Rows(arbitrators) /\ {} \in SUBSET Account
    OBVIOUS
  <2>2. major' = Rows(arbitrators') /\ Rows(arbitrators') = Rows(arbitrators) \cup {}
    BY <1>5 DEF SeatStep
  <2>3. \A a \in Rows(arbitrators) : a \notin {} \cup lapsed =>
          arbitrators'[a].arb_status = arbitrators[a].arb_status
    BY <1>3
  <2> HIDE DEF lapsed
  <2>4. QED
    BY <1>3, <2>1, <2>2, <2>3, OutcomeSeen
<1>9. QED
  BY <1>5, <1>7, <1>8 DEF Steady

\* The table with the winners seated.
SeatedTable(won) == [a \in Account |-> IF a \in won THEN Seated(a) ELSE arbitrators[a]]

\* Its rows.
LEMMA SeatedRows ==
  ASSUME ElectInv, NEW won \in SUBSET Account
  PROVE  /\ SeatedTable(won) \in [Account -> Arbitrator \cup {Nil}]
         /\ Rows(SeatedTable(won)) = Rows(arbitrators) \cup won
         /\ \A a \in won : /\ SeatedTable(won)[a].arb_status = Cases!UNAVAILABLE
                           /\ SeatedTable(won)[a].term_expiration = now + config.arb_term_length
                           /\ ~ (now > SeatedTable(won)[a].term_expiration)
         /\ \A a \in Account \ won : SeatedTable(won)[a] = arbitrators[a]
<1>1. /\ arbitrators \in [Account -> Arbitrator \cup {Nil}]
      /\ now \in Nat /\ config.arb_term_length \in Nat
  BY ElectTypes, ConfigFields
<1>2. \A a : /\ Seated(a) \in Arbitrator /\ Seated(a).arb_status = Cases!UNAVAILABLE
             /\ Seated(a).term_expiration = now + config.arb_term_length
  BY <1>1, Statuses DEF Seated, Arbitrator
<1>3. \A a \in Account : /\ a \in won => SeatedTable(won)[a] = Seated(a)
                         /\ a \notin won => SeatedTable(won)[a] = arbitrators[a]
  BY DEF SeatedTable
<1>4. DOMAIN SeatedTable(won) = Account
  BY DEF SeatedTable
<1>5. SeatedTable(won) = [a \in Account |-> SeatedTable(won)[a]]
  BY DEF SeatedTable
<1>6. SeatedTable(won) \in [Account -> Arbitrator \cup {Nil}]
  BY <1>1, <1>2, <1>3, <1>5
<1>7. Nil \notin Arbitrator
  BY ConstantsAssumption DEF ConstantsAssumption
<1>8. Rows(SeatedTable(won)) = Rows(arbitrators) \cup won
  BY <1>1, <1>2, <1>3, <1>4, <1>7 DEF Rows
<1>9. \A a \in won : /\ SeatedTable(won)[a].arb_status = Cases!UNAVAILABLE
                     /\ SeatedTable(won)[a].term_expiration = now + config.arb_term_length
  BY <1>2, <1>3
<1>10. ~ (now > now + config.arb_term_length)
  BY <1>1
<1>11. QED
  BY <1>3, <1>6, <1>8, <1>9, <1>10

\* The end of an election whose votes give these winners; the permission is
\* set when somebody competed.
Ends(won, contended) ==
  /\ SetPermissions(IF contended THEN Permissions(SeatedTable(won)) ELSE {})
  /\ contended \/ won = {}
  /\ arbitrators' = IF Remaining(won) = {} THEN SeatedTable(won) ELSE Lapsed(SeatedTable(won))
  /\ IF Remaining(won) # {} /\ AvailableSeats(arbitrators') > 0
     THEN /\ nominees' = Remaining(won)
          /\ \E members \in SetToSeqs(Remaining(won)) :
               StartNewElection(Closed(leaderboards, Trail!ReferenceOf(current_ballot_id)),
                                AvailableSeats(arbitrators'), members)
          /\ UNCHANGED auto_start_election
     ELSE /\ nominees' = {}
          /\ auto_start_election' = FALSE
          /\ leaderboards' = Closed(leaderboards, Trail!ReferenceOf(current_ballot_id))
          /\ UNCHANGED <<current_ballot_id, now, ballots, proposals, totals,
                         receipts, weight, recastable>>
  /\ UNCHANGED <<config, cast>>

\* endelection is one of these.
LEMMA EndElectionEnds ==
  ASSUME NEW a \in Account, EndElection(a)
  PROVE  \E ranking \in Ranked(Board.candidates) :
           /\ Winners(Contenders(ranking, Board.available_seats)) \subseteq nominees
           /\ Ends(Winners(Contenders(ranking, Board.available_seats)),
                   Contenders(ranking, Board.available_seats) # <<>>)
<1>1. ASSUME NEW contenders
      PROVE  /\ Winners(contenders) \subseteq nominees
             /\ contenders # <<>> \/ Winners(contenders) = {}
  BY DEF Winners
<1>2. ASSUME NEW contenders, NEW won, won = Winners(contenders),
             SetPermissions(IF contenders = <<>> THEN {} ELSE Permissions(SeatedTable(won)))
      PROVE  SetPermissions(IF contenders # <<>> THEN Permissions(SeatedTable(won)) ELSE {})
  <2>1. CASE contenders = <<>>
    BY <1>2, <2>1
  <2>2. CASE contenders # <<>>
    BY <1>2, <2>2
  <2>3. QED
    BY <2>1, <2>2
<1>3. PICK ranking \in Ranked(Board.candidates) :
        LET contenders == Contenders(ranking, Board.available_seats)
            won == Winners(contenders)
        IN  /\ SetPermissions(IF contenders = <<>> THEN {} ELSE Permissions(SeatedTable(won)))
            /\ arbitrators' = IF Remaining(won) = {} THEN SeatedTable(won)
                              ELSE Lapsed(SeatedTable(won))
            /\ IF Remaining(won) # {} /\ AvailableSeats(arbitrators') > 0
               THEN /\ nominees' = Remaining(won)
                    /\ \E members \in SetToSeqs(Remaining(won)) :
                         StartNewElection(Closed(leaderboards, Trail!ReferenceOf(current_ballot_id)),
                                          AvailableSeats(arbitrators'), members)
                    /\ UNCHANGED auto_start_election
               ELSE /\ nominees' = {}
                    /\ auto_start_election' = FALSE
                    /\ leaderboards' = Closed(leaderboards, Trail!ReferenceOf(current_ballot_id))
                    /\ UNCHANGED <<current_ballot_id, now, ballots, proposals, totals,
                                   receipts, weight, recastable>>
            /\ UNCHANGED <<config, cast>>
  BY Zenon DEF EndElection, SeatedTable
<1>4. QED
  BY <1>1, <1>2, <1>3, Zenon DEF Ends

\* The lists of all elements of a set of accounts.
LEMMA AllMembers ==
  ASSUME NEW S \in SUBSET Account, NEW members \in SetToSeqs(S)
  PROVE  Members(members)
<1>1. IsFiniteSet(S)
  BY ConstantsAssumption, FS_Subset DEF ConstantsAssumption
<1>2. Cardinality(S) \in Nat
  BY <1>1, FS_CardinalityType
<1>3. /\ members \in [1..Cardinality(S) -> S]
      /\ \A i, j \in 1..Cardinality(S) : i # j => members[i] # members[j]
  BY DEF SetToSeqs
<1>4. members \in Seq(Account)
  BY <1>2, <1>3
<1>5. QED
  BY <1>3, <1>4 DEF Members

\* endelection closes the board it has counted.
LEMMA ClosedRow ==
  ASSUME ElectInv, NEW r \in Rows(leaderboards), leaderboards' = Closed(leaderboards, r),
         UNCHANGED <<now, ballots, proposals, totals, receipts, weight, recastable>>
  PROVE  /\ TP!BoardChanged
         /\ Rows(leaderboards') = Rows(leaderboards)
         /\ \A s \in Rows(leaderboards) :
              /\ leaderboards'[s].candidates = leaderboards[s].candidates
              /\ leaderboards'[s].publisher = leaderboards[s].publisher
<1> DEFINE row == [leaderboards[r] EXCEPT !.status = CLOSED]
<1>1. /\ leaderboards[r] \in TP!Leaderboard /\ r \in TP!BallotId
      /\ leaderboards \in [TP!BallotId -> TP!Leaderboard \cup {Nil}]
  BY BoardRows, ElectTypes
<1>2. CLOSED \in Status
  BY ConstantsAssumption DEF ConstantsAssumption
<1>3. row \in TP!Leaderboard /\ row.candidates = leaderboards[r].candidates
      /\ TP!SameWindow(row, leaderboards[r]) /\ row.publisher = leaderboards[r].publisher
  <2>1. row.publisher = leaderboards[r].publisher
    BY <1>1 DEF TP!Leaderboard
  <2>2. QED
    BY <1>1, <1>2, <2>1, TrailConstants, TP!BoardFields
<1>4. leaderboards' = [leaderboards EXCEPT ![r] = row]
  BY DEF Closed
<1>5. row # Nil
  BY <1>3, TrailConstants DEF TP!ConstantsAssumption
<1> HIDE DEF row
<1>6. TP!BoardChange(r, row)
  BY <1>3, <1>4 DEF TP!BoardChange, TP!SameCandidates, TP!listVars, TP!voterVars
<1>7. TP!BoardChanged
  BY <1>3, <1>6, SameStates DEF TP!BoardChanged
<1>8. /\ Rows(leaderboards') = Rows(leaderboards)
      /\ \A s \in Rows(leaderboards) :
           /\ leaderboards'[s].candidates = leaderboards[s].candidates
           /\ leaderboards'[s].publisher = leaderboards[s].publisher
  BY <1>1, <1>3, <1>4, <1>5 DEF Rows
<1>9. QED
  BY <1>7, <1>8

\* The boards when an election ends.
LEMMA EndsBoards ==
  ASSUME ElectInv, HasBoard, NEW won \in SUBSET nominees, NEW contended, Ends(won, contended),
         arbitrators' \in [Account -> Arbitrator \cup {Nil}]
  PROVE  /\ BoardsInv' /\ current_ballot_id' \in TP!BallotId /\ now' = now
         /\ auto_start_election' \in BOOLEAN
<1> DEFINE r == Trail!ReferenceOf(current_ballot_id)
           seats == AvailableSeats(arbitrators')
           again == Remaining(won) # {} /\ seats > 0
<1>1. r \in Rows(leaderboards) /\ r = TP!ReferenceOf(current_ballot_id)
  BY SameTables DEF HasBoard
<1>2. Alike(Closed(leaderboards, r))
  BY <1>1, ElectTypes, ClosedAlike
<1>6. UNCHANGED cast
  BY DEF Ends
<1>3. CASE again
  <2>1. PICK members \in SetToSeqs(Remaining(won)) :
          StartNewElection(Closed(leaderboards, r), seats, members)
    BY <1>3, Zenon DEF Ends
  <2>2. Members(members)
    BY <2>1, ElectTypes, AllMembers DEF Remaining
  <2>3. seats \in Nat
    BY SeatsNat
  <2>4. now' = now
    BY <2>1 DEF StartNewElection
  <2>5. auto_start_election' = auto_start_election
    BY <1>3, Zenon DEF Ends
  <2> HIDE DEF seats
  <2>6. QED
    BY <1>2, <1>6, <2>1, <2>2, <2>3, <2>4, <2>5, ElectTypes, ElectionStarted
<1>4. CASE ~ again
  <2>1. /\ leaderboards' = Closed(leaderboards, r) /\ auto_start_election' = FALSE
        /\ UNCHANGED <<current_ballot_id, now, ballots, proposals, totals, receipts, weight,
                       recastable>>
    BY <1>4, Zenon DEF Ends
  <2>2. /\ TP!BoardChanged
        /\ Rows(leaderboards') = Rows(leaderboards)
        /\ \A s \in Rows(leaderboards) :
             /\ leaderboards'[s].candidates = leaderboards[s].candidates
             /\ leaderboards'[s].publisher = leaderboards[s].publisher
    BY <1>1, <2>1, ClosedRow
  <2>3. TP!Inv'
    BY <2>2, TrailConstants, ElectTypes, TP!BoardChangedInv
  <2>4. TP!BoardBallots' = TP!BoardBallots
    BY <2>1 DEF TP!BoardBallots, TP!ProposalBallots
  <2>5. ASSUME NEW d \in TP!BoardBallots, OwnBoard(d)'
        PROVE  OwnBoard(d) /\ TP!SameCandidates(ListOf(d)', ListOf(d))
    <3>1. TP!ReferenceOf(d)' = TP!ReferenceOf(d) /\ TP!ReferenceOf(d) \in Rows(leaderboards)
      BY <2>1, BoardRows, ElectTypes DEF TP!ReferenceOf
    <3>2. QED
      BY <2>2, <2>5, <3>1 DEF OwnBoard, ListOf, TP!SameCandidates
  <2>6. CastType'
    BY <1>6, ElectTypes DEF BoardsInv, CastType
  <2>7. BoardsInv'
    BY <1>6, <2>3, <2>4, <2>5, <2>6, BoardsKept, ElectTypes
  <2>8. QED
    BY <2>1, <2>7, ElectTypes
<1>5. QED
  BY <1>3, <1>4

\* The end of an election.
LEMMA EndsSteady ==
  ASSUME ElectInv, HasBoard, NEW won \in SUBSET nominees, NEW contended, Ends(won, contended)
  PROVE  Steady(won)
<1> DEFINE seated == SeatedTable(won)
           lapsed == IF Remaining(won) = {} THEN {}
                     ELSE {a \in Rows(seated) : now > seated[a].term_expiration}
<1>1. won \in SUBSET Account /\ won \subseteq nominees
  BY ElectTypes
<1>2. /\ seated \in [Account -> Arbitrator \cup {Nil}]
      /\ Rows(seated) = Rows(arbitrators) \cup won
      /\ \A a \in won : /\ seated[a].arb_status = Cases!UNAVAILABLE
                        /\ seated[a].term_expiration = now + config.arb_term_length
                        /\ ~ (now > seated[a].term_expiration)
      /\ \A a \in Account \ won : seated[a] = arbitrators[a]
  BY <1>1, SeatedRows
<1>3. arbitrators' = IF Remaining(won) = {} THEN seated ELSE Lapsed(seated)
  BY Zenon DEF Ends
<1> HIDE DEF seated
<1>4. /\ Lapsed(seated) \in [Account -> Arbitrator \cup {Nil}]
      /\ Rows(Lapsed(seated)) = Rows(seated)
      /\ \A a \in Rows(seated) :
           /\ Lapsed(seated)[a].term_expiration = seated[a].term_expiration
           /\ now > seated[a].term_expiration =>
                Lapsed(seated)[a].arb_status = Cases!SEAT_EXPIRED
           /\ ~ (now > seated[a].term_expiration) => Lapsed(seated)[a] = seated[a]
  BY <1>2, LapsedRows
<1>5. /\ arbitrators' \in [Account -> Arbitrator \cup {Nil}]
      /\ Rows(arbitrators') = Rows(arbitrators) \cup won
      /\ \A a \in Rows(seated) :
           /\ arbitrators'[a].term_expiration = seated[a].term_expiration
           /\ a \in lapsed => arbitrators'[a].arb_status = Cases!SEAT_EXPIRED
           /\ a \notin lapsed => arbitrators'[a] = seated[a]
      /\ lapsed \subseteq Rows(seated) /\ won \cap lapsed = {}
  <2>1. CASE Remaining(won) = {}
    BY <1>2, <1>3, <2>1
  <2>2. CASE Remaining(won) # {}
    BY <1>2, <1>3, <1>4, <2>2
  <2>3. QED
    BY <2>1, <2>2
<1> HIDE DEF lapsed
<1>6. lapsed \in SUBSET Rows(arbitrators) /\ Rows(arbitrators) \subseteq Account
  BY <1>2, <1>5, ArbRows DEF ElectInv
<1>7. /\ \A a \in won : /\ arbitrators'[a].arb_status = Cases!UNAVAILABLE
                        /\ arbitrators'[a].term_expiration = now + config.arb_term_length
      /\ \A a \in Rows(arbitrators) \ won :
           arbitrators'[a].term_expiration = arbitrators[a].term_expiration
      /\ \A a \in lapsed : arbitrators'[a].arb_status = Cases!SEAT_EXPIRED
      /\ \A a \in Rows(arbitrators) : a \notin won \cup lapsed =>
           arbitrators'[a].arb_status = arbitrators[a].arb_status
  BY <1>2, <1>5, <1>6
<1>8. major' = Rows(arbitrators')
  <2>1. Permissions(seated) = Rows(seated)
    BY <1>2, ViewRows
  <2>2. SetPermissions(IF contended THEN Permissions(seated) ELSE {}) /\ (contended \/ won = {})
    BY Zenon DEF Ends, seated
  <2>3. QED
    BY <1>2, <1>5, <2>1, <2>2, ElectTypes DEF SetPermissions
<1>9. nominees' \subseteq nominees \ won /\ config' = config
  BY DEF Ends, Remaining
<1>10. SeatStep(won)
  <2>1. nominees' \subseteq Account \ won
    BY <1>9, ElectTypes
  <2>2. \A a \in nominees' : a \in nominees
    BY <1>9
  <2>3. QED
    BY <1>1, <1>5, <1>7, <1>8, <2>1, <2>2 DEF SeatStep
<1>11. BoardsInv' /\ current_ballot_id' \in TP!BallotId /\ now' = now
       /\ auto_start_election' \in BOOLEAN
  BY <1>5, EndsBoards
<1>12. config' \in Configs /\ now <= now'
  BY <1>9, <1>11, ElectTypes
<1>13. ElectInv'
  BY <1>10, <1>11, <1>12, SeatsKept
<1>14. CasesStep
  BY <1>1, <1>5, <1>6, <1>7, <1>8, OutcomeSeen
<1>15. QED
  BY <1>10, <1>13, <1>14 DEF Steady

\* endelection, by any nominee.
LEMMA EndElectionSteady ==
  ASSUME ElectInv, NEW a \in Account, EndElection(a)
  PROVE  \E ranking \in Ranked(Board.candidates) :
           Steady(Winners(Contenders(ranking, Board.available_seats)))
<1>1. PICK ranking \in Ranked(Board.candidates) :
        /\ Winners(Contenders(ranking, Board.available_seats)) \subseteq nominees
        /\ Ends(Winners(Contenders(ranking, Board.available_seats)),
                Contenders(ranking, Board.available_seats) # <<>>)
  BY EndElectionEnds
<1>2. HasBoard
  BY DEF EndElection
<1>3. Steady(Winners(Contenders(ranking, Board.available_seats)))
  BY <1>1, <1>2, EndsSteady
<1>4. QED
  BY <1>3

\* A step that is not the end of an election seats nobody.
LEMMA StepSteady ==
  ASSUME ElectInv, [Next]_vars
  PROVE  \/ Steady({})
         \/ \E a \in Account : EndElection(a)
<1>1. CASE SetConfig
  BY <1>1, SetConfigSteady
<1>2. CASE InitElection
  BY <1>2, InitElectionSteady
<1>3. ASSUME NEW a \in Account, RegArb(a)
      PROVE  Steady({})
  BY <1>3, RegArbSteady
<1>4. ASSUME NEW a \in Account, UnregNominee(a)
      PROVE  Steady({})
  BY <1>4, UnregNomineeSteady
<1>5. ASSUME NEW a \in Account, CandAddLead(a) \/ CandRmvLead(a)
      PROVE  Steady({})
  BY <1>5, CandidatesSteady
<1>6. ASSUME NEW a \in Account, NEW s \in Cases!AVAILABLE..Cases!REMOVED, NewArbStatus(a, s)
      PROVE  Steady({})
  BY <1>6, NewArbStatusSteady
<1>7. ASSUME NEW a \in Account, DismissArb(a)
      PROVE  Steady({})
  BY <1>7, DismissArbSteady
<1>8. CASE TrailNext \/ VoteForCandidate
  BY <1>8, OthersSteady
<1>9. CASE UNCHANGED vars
  BY <1>9, StutterSteady
<1>10. QED
  BY <1>1, <1>2, <1>3, <1>4, <1>5, <1>6, <1>7, <1>8, <1>9, Zenon DEF Next

\* Every step keeps the invariant, and the case files see a step of their own.
LEMMA StepKept ==
  ASSUME ElectInv, [Next]_vars
  PROVE  ElectInv' /\ CasesStep
BY StepSteady, EndElectionSteady, Zenon DEF Steady

\* It holds in the beginning.
LEMMA ElectInit == Init => ElectInv
<1> SUFFICES ASSUME Init
             PROVE  ElectInv
  OBVIOUS
<1>1. TP!Inv
  BY SameStates, TrailConstants, TP!InitInv DEF Init
<1>2. Rows(leaderboards) = {} /\ TP!BoardBallots = {}
  <2>1. /\ leaderboards = [r \in TP!BallotId |-> Nil] /\ ballots = [b \in TP!BallotId |-> Nil]
    BY SameStates DEF Init, TP!Init
  <2>2. Rows(leaderboards) = {} /\ Rows(ballots) = {}
    BY <2>1 DEF Rows
  <2>3. QED
    BY <2>2, SameStates DEF TP!BoardBallots, TP!ProposalBallots
<1>3. BoardsInv
  BY <1>1, <1>2 DEF BoardsInv, CastType, Init
<1>4. Rows(arbitrators) = {} /\ major = {} /\ nominees = {}
  BY DEF Init, Rows
<1>5. current_ballot_id \in Trail!BallotId
  BY TrailConstants DEF Init, Trail!BallotId, TP!ConstantsAssumption
<1>6. TypeOK
  BY <1>3, <1>4, <1>5, BoardsTypes DEF Init, TypeOK
<1>7. QED
  BY <1>3, <1>4, <1>6 DEF ElectInv, NomineesHaveNoTerm, SeatsKnown

\* So it holds always.
LEMMA ElectInvHolds == Spec => []ElectInv
<1>1. ElectInv /\ [Next]_vars => ElectInv'
  BY StepKept
<1>2. QED
  BY <1>1, ElectInit, PTL DEF Spec

-----------------------------------------------------------------------------
(* Theorems *)

\* The tables keep their types; no term ends later than the longest term that
\* can be configured after now (setconfig, initelection, endelection).
THEOREM ElectionTypes == Spec => []TypeOK
<1>1. ElectInv => TypeOK
  BY DEF ElectInv
<1>2. QED
  BY <1>1, ElectInvHolds, PTL

\* Nobody stands for election during a term of his own (regarb, endelection).
THEOREM NomineesOutOfOffice == Spec => []NomineesHaveNoTerm
<1>1. ElectInv => NomineesHaveNoTerm
  BY DEF ElectInv
<1>2. QED
  BY <1>1, ElectInvHolds, PTL

\* The permission of the arbitrators is that of all who ever were one, the
\* dismissed ones too (endelection, dismissarb).
THEOREM AllAreArbitrators == Spec => []SeatsKnown
<1>1. ElectInv => SeatsKnown
  BY DEF ElectInv
<1>2. QED
  BY <1>1, ElectInvHolds, PTL

\* Seen from the case files nothing happens to arbitrators that ArbCases does
\* not allow for: this is the composition of the two halves of the contract.
THEOREM ElectionIsOutcome == Spec => CasesSpec
<1>1. Init => Cases!Init
  <2> SUFFICES ASSUME Init
               PROVE  Cases!Init
    OBVIOUS
  <2>1. View(arbitrators) = [a \in Account |-> Nil] /\ major = {}
    BY DEF Init, View
  <2>2. QED
    BY <2>1 DEF Cases!Init, Cases!CaseId, Cases!ClaimId, View
<1>2. ElectInv /\ [Next]_vars => [Cases!Next]_(Cases!vars)
  BY StepKept DEF CasesStep
<1>3. QED
  BY <1>1, <1>2, ElectInvHolds, PTL DEF Spec, CasesSpec, Cases!Spec

-----------------------------------------------------------------------------
(* Who wins *)

\* The new terms are those of the winners.
LEMMA TermsOfWinners ==
  ASSUME ElectInv, NEW won, SeatStep(won)
  PROVE  NewTerms = won
<1>1. /\ won \subseteq nominees /\ nominees \subseteq Account
      /\ arbitrators \in [Account -> Arbitrator \cup {Nil}]
      /\ arbitrators' \in [Account -> Arbitrator \cup {Nil}]
      /\ Rows(arbitrators') = Rows(arbitrators) \cup won
  BY ElectTypes DEF SeatStep
<1>2. ASSUME NEW a \in won
      PROVE  a \in NewTerms
  <2>1. a \in Account /\ a \in nominees /\ a \in Rows(arbitrators')
    BY <1>1
  <2>2. arbitrators'[a] # Nil /\ arbitrators'[a].term_expiration = now + config.arb_term_length
    BY <2>1 DEF SeatStep, Rows
  <2>3. ASSUME arbitrators[a] # Nil
        PROVE  arbitrators'[a].term_expiration # arbitrators[a].term_expiration
    <3>1. a \in Rows(arbitrators)
      BY <1>1, <2>1, <2>3 DEF Rows
    <3>2. now > arbitrators[a].term_expiration
      BY <2>1, <3>1 DEF ElectInv, NomineesHaveNoTerm
    <3>3. /\ arbitrators[a].term_expiration \in Nat /\ now \in Nat
          /\ config.arb_term_length \in Nat
      BY <3>1, ArbRows, ArbFields DEF ElectInv
    <3>4. QED
      BY <2>2, <3>2, <3>3
  <2>4. QED
    BY <2>1, <2>2, <2>3 DEF NewTerms
<1>3. ASSUME NEW a \in NewTerms, a \notin won
      PROVE  FALSE
  <2>1. /\ a \in Account /\ arbitrators'[a] # Nil
        /\ arbitrators[a] # Nil =>
             arbitrators'[a].term_expiration # arbitrators[a].term_expiration
    BY DEF NewTerms
  <2>2. a \in Rows(arbitrators')
    BY <1>1, <2>1 DEF Rows
  <2>3. a \in Rows(arbitrators) \ won
    BY <1>1, <1>3, <2>2
  <2>4. arbitrators'[a].term_expiration = arbitrators[a].term_expiration /\ arbitrators[a] # Nil
    BY <2>3 DEF SeatStep, Rows
  <2>5. QED
    BY <2>1, <2>4
<1>4. QED
  BY <1>2, <1>3

\* How many places at the head of a ranking are not tied with the first one
\* without a seat.
Untied(ranking, seats) ==
  IF Len(ranking) > seats
  THEN seats - Cardinality({i \in 1..seats : ranking[i].votes = ranking[seats + 1].votes})
  ELSE Len(ranking)

\* They are its contenders.
LEMMA ContendersAre ==
  ASSUME NEW S, NEW ranking \in Seq(S), NEW seats \in Nat
  PROVE  /\ Untied(ranking, seats) \in 0..Len(ranking)
         /\ DOMAIN Contenders(ranking, seats) = 1..Untied(ranking, seats)
         /\ \A i \in 1..Untied(ranking, seats) : Contenders(ranking, seats)[i] = ranking[i]
<1> DEFINE tied == {i \in 1..seats : ranking[i].votes = ranking[seats + 1].votes}
           m == Untied(ranking, seats)
<1>1. Len(ranking) \in Nat
  OBVIOUS
<1>2. Cardinality(tied) \in 0..seats
  <2>1. IsFiniteSet(1..seats) /\ Cardinality(1..seats) = seats
    BY FS_Interval
  <2>2. tied \subseteq 1..seats
    OBVIOUS
  <2>3. Cardinality(tied) <= Cardinality(1..seats) /\ IsFiniteSet(tied)
    BY <2>1, <2>2, FS_Subset
  <2>4. Cardinality(tied) \in Nat
    BY <2>3, FS_CardinalityType
  <2>5. QED
    BY <2>1, <2>3, <2>4
<1>3. CASE Len(ranking) > seats
  <2>1. m = seats - Cardinality(tied) /\ Contenders(ranking, seats) = SubSeq(ranking, 1, m)
    BY <1>3 DEF Untied, Contenders
  <2> HIDE DEF m, tied
  <2>2. m \in 0..Len(ranking)
    BY <1>1, <1>2, <1>3, <2>1
  <2>3. \A i \in 1..m : 1 + i - 1 = i /\ i \in 1..Len(ranking)
    BY <2>2
  <2>4. /\ DOMAIN SubSeq(ranking, 1, m) = 1..m
        /\ \A i \in 1..m : SubSeq(ranking, 1, m)[i] = ranking[i]
    BY <2>2, <2>3
  <2>5. QED
    BY <2>1, <2>2, <2>4 DEF m
<1>4. CASE ~ (Len(ranking) > seats)
  BY <1>1, <1>4 DEF Untied, Contenders
<1>5. QED
  BY <1>3, <1>4

\* What Ranked ranks.
LEMMA RankingIs ==
  ASSUME NEW S, NEW candidates \in Seq(S), NEW ranking \in Ranked(candidates)
  PROVE  /\ IsFiniteSet(ToSet(candidates))
         /\ ranking \in Seq(ToSet(candidates))
         /\ \A i, j \in DOMAIN ranking : ranking[i] = ranking[j] => i = j
         /\ \A c \in ToSet(candidates) : \E i \in DOMAIN ranking : ranking[i] = c
         /\ \A i, j \in DOMAIN ranking : i < j => ranking[i].votes >= ranking[j].votes
<1> DEFINE set == ToSet(candidates)
           n == Cardinality(set)
<1>1. IsFiniteSet(set)
  <2>1. DOMAIN candidates = 1..Len(candidates) /\ IsFiniteSet(1..Len(candidates))
    BY FS_Interval
  <2>2. candidates \in Surjection(DOMAIN candidates, set)
    BY DEF Surjection, ToSet
  <2>3. QED
    BY <2>1, <2>2, FS_Surjection
<1>2. /\ ranking \in [1..n -> set]
      /\ \A i, j \in 1..n : i # j => ranking[i] # ranking[j]
      /\ \A i, j \in DOMAIN ranking : i < j => ranking[i].votes >= ranking[j].votes
  BY DEF Ranked, SetToSeqs
<1>3. n \in Nat /\ Cardinality(1..n) = n /\ IsFiniteSet(1..n)
  BY <1>1, FS_CardinalityType, FS_Interval
<1> HIDE DEF set, n
<1>4. ranking \in Injection(1..n, set)
  BY <1>2 DEF Injection, IsInjective
<1>5. ranking \in Surjection(1..n, set)
  BY <1>1, <1>3, <1>4, FS_Injection DEF n
<1>6. \A c \in set : \E i \in DOMAIN ranking : ranking[i] = c
  BY <1>2, <1>5 DEF Surjection
<1>7. ranking \in Seq(set)
  BY <1>2, <1>3
<1>8. QED
  BY <1>1, <1>2, <1>6, <1>7 DEF set

\* The board of an election that ends.
LEMMA EndedBoard ==
  ASSUME ElectInv, NEW a \in Account, EndElection(a)
  PROVE  /\ current_ballot_id \in TP!BoardBallots
         /\ Board = leaderboards[TP!ReferenceOf(current_ballot_id)]
         /\ Board.candidates = ListOf(current_ballot_id)
         /\ Board \in TP!Leaderboard /\ Board.publisher = Self
         /\ Board.candidates \in Seq(TP!Candidate)
         /\ Board.available_seats \in Nat
         /\ \A i \in DOMAIN Board.candidates : Board.candidates[i].votes \in Nat
         /\ Distinct(Board.candidates)
<1> DEFINE b == current_ballot_id
<1>1. /\ b \in Rows(ballots) /\ Trail!IsBallot(b, Trail!LEADERBOARD)
      /\ Trail!ReferenceOf(b) \in Rows(leaderboards) /\ Board.publisher = Self
  BY DEF EndElection, HasBoard, OwnBoardEnded
<1>2. b \in TP!BoardBallots
  BY <1>1, SameTables, SameStates
     DEF TP!IsBallot, TP!BoardBallots, TP!ProposalBallots, TP!PROPOSAL, TP!LEADERBOARD
<1>3. Board = leaderboards[TP!ReferenceOf(b)]
  BY SameTables DEF Board
<1>4. TP!ReferenceOf(b) \in Rows(leaderboards)
  BY <1>1, SameTables
<1>5. Board \in TP!Leaderboard /\ Board.candidates \in Seq(TP!Candidate)
      /\ Distinct(Board.candidates)
  <2>1. OwnBoard(b) /\ ListOf(b) = Board.candidates
    BY <1>1, <1>2, <1>3 DEF OwnBoard, ListOf
  <2>2. Distinct(Board.candidates)
    BY <1>2, <2>1, ElectTypes DEF BoardsInv
  <2>3. QED
    BY <1>3, <1>4, <2>2, ElectTypes, BoardRows DEF BoardsInv
<1>6. Board.available_seats \in Nat
  BY <1>5, TrailConstants DEF TP!Leaderboard, TP!ConstantsAssumption
<1>7. ASSUME NEW i \in DOMAIN Board.candidates
      PROVE  Board.candidates[i].votes \in Nat
  <2>1. Board.candidates[i] \in TP!Candidate
    BY <1>5
  <2>2. QED
    BY <2>1 DEF TP!Candidate
<1>8. Board.candidates = ListOf(b)
  BY <1>3 DEF ListOf
<1>9. QED
  BY <1>1, <1>2, <1>3, <1>5, <1>6, <1>7, <1>8

\* A winner is on the board of the election, with votes.
LEMMA WinnerVoted ==
  ASSUME ElectInv, NEW n \in Account, EndElection(n), NEW ranking \in Ranked(Board.candidates),
         NEW a \in Winners(Contenders(ranking, Board.available_seats))
  PROVE  \E j \in DOMAIN Board.candidates :
           Board.candidates[j].member = a /\ Board.candidates[j].votes > 0
<1> DEFINE contenders == Contenders(ranking, Board.available_seats)
           m == Untied(ranking, Board.available_seats)
<1>1. PICK i \in DOMAIN contenders :
        contenders[i].member = a /\ contenders[i].votes >= MIN_VOTE_THRESHOLD
  BY DEF Winners
<1>2. /\ Board.available_seats \in Nat /\ Board.candidates \in Seq(TP!Candidate)
      /\ \A j \in DOMAIN Board.candidates : Board.candidates[j].votes \in Nat
  BY EndedBoard
<1>3. ranking \in Seq(ToSet(Board.candidates))
  BY <1>2, RankingIs
<1>4. /\ m \in 0..Len(ranking) /\ DOMAIN contenders = 1..m
      /\ \A k \in 1..m : contenders[k] = ranking[k]
  BY <1>2, <1>3, ContendersAre
<1> HIDE DEF contenders, m
<1>5. contenders[i] \in ToSet(Board.candidates)
  <2>1. i \in 1..Len(ranking) /\ contenders[i] = ranking[i]
    BY <1>3, <1>4
  <2>2. QED
    BY <1>3, <2>1
<1>6. PICK j \in DOMAIN Board.candidates : Board.candidates[j] = contenders[i]
  BY <1>5 DEF ToSet
<1>7. QED
  BY <1>1, <1>2, <1>6 DEF MIN_VOTE_THRESHOLD

\* Every new term is owed to a voter: SeatedByVoters of one step.
LEMMA SeatedStep ==
  ASSUME ElectInv, [Next]_vars, NEW a \in NewTerms
  PROVE  /\ current_ballot_id \in OwnBallots
         /\ \E v \in Voter : <<v, current_ballot_id, a>> \in cast
<1>1. ASSUME Steady({})
      PROVE  FALSE
  BY <1>1, TermsOfWinners DEF Steady
<1>2. PICK n \in Account : EndElection(n)
  BY <1>1, StepSteady
<1>3. PICK ranking \in Ranked(Board.candidates) :
        Steady(Winners(Contenders(ranking, Board.available_seats)))
  BY <1>2, EndElectionSteady
<1>4. a \in Winners(Contenders(ranking, Board.available_seats))
  <2>1. SeatStep(Winners(Contenders(ranking, Board.available_seats)))
    BY <1>3 DEF Steady
  <2>2. NewTerms = Winners(Contenders(ranking, Board.available_seats))
    BY <2>1, TermsOfWinners
  <2>3. QED
    BY <2>2
<1>5. PICK i \in DOMAIN Board.candidates :
        Board.candidates[i].member = a /\ Board.candidates[i].votes > 0
  BY <1>2, <1>4, WinnerVoted
<1> DEFINE b == current_ballot_id
<1>6. b \in TP!BoardBallots /\ Board.candidates = ListOf(b) /\ Board.publisher = Self
      /\ Board = leaderboards[TP!ReferenceOf(b)]
  BY <1>2, EndedBoard
<1>7. \E v \in Voter : <<v, b, a>> \in cast
  <2>1. Owed(b)
    BY <1>6, ElectTypes DEF BoardsInv, OwnBoard
  <2>2. QED
    BY <1>5, <1>6, <2>1 DEF Owed
<1>8. b \in OwnBallots
  <2>1. b \in Rows(ballots) /\ ballots[b].table_id = TP!LEADERBOARD
    BY <1>6, ElectTypes, BoardRows
  <2>2. TP!ReferenceOf(b) = ballots[b].reference_id
    BY DEF TP!ReferenceOf
  <2>3. QED
    BY <1>6, <2>1, <2>2, SameTables DEF OwnBallots
<1>9. QED
  BY <1>7, <1>8

\* Who is seated got a vote on a board of the contract's own (endelection,
\* castvote; initelection may set a ballot id that others get, deloldvotes may
\* have taken the receipt).
THEOREM SeatsAreVoted == Spec => SeatedByVoters
<1>1. ElectInv /\ [Next]_vars =>
        \A a \in NewTerms :
          /\ current_ballot_id \in OwnBallots
          /\ \E v \in Voter : <<v, current_ballot_id, a>> \in cast
  BY SeatedStep
<1>2. QED
  BY <1>1, ElectInvHolds, PTL DEF Spec, SeatedByVoters

\* The places of a list with n votes or more.
AsMany(list, n) == {j \in DOMAIN list : list[j].votes >= n}

\* A set of elements of a list without repetitions is as large as the set of
\* their places.
LEMMA PlacesCounted ==
  ASSUME NEW S, NEW s \in Seq(S), \A i, j \in DOMAIN s : s[i] = s[j] => i = j,
         NEW T \in SUBSET ToSet(s)
  PROVE  Cardinality({j \in DOMAIN s : s[j] \in T}) = Cardinality(T)
<1> DEFINE D == {j \in DOMAIN s : s[j] \in T}
           f == [j \in D |-> s[j]]
<1>1. IsFiniteSet(D)
  <2>1. DOMAIN s = 1..Len(s) /\ IsFiniteSet(1..Len(s))
    BY FS_Interval
  <2>2. D \subseteq 1..Len(s)
    BY <2>1
  <2>3. QED
    BY <2>1, <2>2, FS_Subset
<1>2. f \in Surjection(D, T)
  BY DEF Surjection, ToSet
<1>3. f \in Injection(D, T)
  BY DEF Injection, IsInjective
<1> HIDE DEF D, f
<1>4. Cardinality(T) = Cardinality(D)
  BY <1>1, <1>2, <1>3, FS_Surjection
<1>5. QED
  BY <1>4 DEF D

\* A list without repetitions and a ranking of its elements have as many
\* places with n votes or more.
LEMMA RankedAlike ==
  ASSUME NEW S, NEW candidates \in Seq(S), NEW ranking \in Ranked(candidates),
         \A i, j \in DOMAIN candidates : candidates[i] = candidates[j] => i = j,
         NEW n
  PROVE  Cardinality(AsMany(ranking, n)) = Cardinality(AsMany(candidates, n))
<1> DEFINE T == {c \in ToSet(candidates) : c.votes >= n}
<1>1. /\ ranking \in Seq(ToSet(candidates))
      /\ \A i, j \in DOMAIN ranking : ranking[i] = ranking[j] => i = j
      /\ \A c \in ToSet(candidates) : \E i \in DOMAIN ranking : ranking[i] = c
  BY RankingIs
<1>2. T \in SUBSET ToSet(candidates) /\ T \in SUBSET ToSet(ranking)
  BY <1>1 DEF ToSet
<1>3. AsMany(candidates, n) = {j \in DOMAIN candidates : candidates[j] \in T}
  BY DEF AsMany, ToSet
<1>4. AsMany(ranking, n) = {j \in DOMAIN ranking : ranking[j] \in T}
  <2>1. \A j \in DOMAIN ranking : ranking[j] \in ToSet(candidates)
    BY <1>1
  <2>2. QED
    BY <2>1 DEF AsMany
<1> HIDE DEF T
<1>5. Cardinality(AsMany(candidates, n)) = Cardinality(T)
  BY <1>2, <1>3, PlacesCounted
<1>6. Cardinality(AsMany(ranking, n)) = Cardinality(T)
  BY <1>1, <1>2, <1>4, PlacesCounted
<1>7. QED
  BY <1>5, <1>6

\* In a ranking the places that are not tied with the first one without a seat
\* are those which no more places than there are seats equal or surpass.
LEMMA UntiedIs ==
  ASSUME NEW S, NEW ranking \in Seq(S), NEW seats \in Nat,
         \A i \in DOMAIN ranking : ranking[i].votes \in Nat,
         \A i, j \in DOMAIN ranking : i < j => ranking[i].votes >= ranking[j].votes,
         NEW i \in DOMAIN ranking
  PROVE  i <= Untied(ranking, seats) <=> Cardinality(AsMany(ranking, ranking[i].votes)) <= seats
<1> DEFINE votes(j) == ranking[j].votes
           many == AsMany(ranking, votes(i))
           n == Len(ranking)
<1>1. n \in Nat /\ DOMAIN ranking = 1..n /\ i \in 1..n
  OBVIOUS
<1>2. \A k \in Nat : IsFiniteSet(1..k) /\ Cardinality(1..k) = k
  BY FS_Interval
<1>3. many \subseteq 1..n
  BY <1>1 DEF AsMany
<1>4. \A k \in Nat : many \subseteq 1..k => Cardinality(many) <= k
  BY <1>2, FS_Subset
<1>5. \A k \in Nat : 1..k \subseteq many => k <= Cardinality(many)
  <2>1. IsFiniteSet(many)
    BY <1>1, <1>2, <1>3, FS_Subset
  <2>2. QED
    BY <1>2, <2>1, FS_Subset
<1>6. CASE ~ (n > seats)
  <2>1. Cardinality(many) <= seats
    <3>1. many \subseteq 1..seats
      BY <1>1, <1>3, <1>6
    <3>2. QED
      BY <1>4, <3>1
  <2>2. i <= Untied(ranking, seats)
    BY <1>1, <1>6 DEF Untied
  <2>3. QED
    BY <2>1, <2>2
<1>7. CASE n > seats
  <2> DEFINE w == votes(seats + 1)
             tied == {j \in 1..seats : votes(j) = w}
  <2>1. /\ \A j \in 1..n : votes(j) \in Nat
        /\ \A j, k \in 1..n : j < k => votes(j) >= votes(k)
        /\ seats + 1 \in 1..n
    <3>1. DOMAIN ranking = 1..n
      BY <1>1
    <3>2. /\ \A j \in 1..n : votes(j) \in Nat
          /\ \A j, k \in 1..n : j < k => votes(j) >= votes(k)
      BY <3>1, Zenon
    <3>3. seats + 1 \in 1..n
      BY <1>1, <1>7
    <3>4. QED
      BY <3>2, <3>3, Zenon
  <2>2. PICK k \in 0..seats : tied = (k + 1)..seats
    <3>1. CASE tied = {}
      <4>1. seats \in 0..seats /\ (seats + 1)..seats = {}
        OBVIOUS
      <4>2. QED
        BY <3>1, <4>1
    <3>2. CASE tied # {}
      <4>1. tied \subseteq Nat
        OBVIOUS
      <4>2. PICK l \in tied : \A j \in tied : l <= j
        BY <3>2, <4>1, LeastNat
      <4>3. l \in 1..seats /\ votes(l) = w
        OBVIOUS
      <4>4. ASSUME NEW j \in l..seats
            PROVE  j \in tied
        <5>1. /\ j \in 1..seats /\ j \in 1..n /\ l \in 1..n
              /\ l < j \/ l = j
              /\ j < seats + 1
          BY <2>1, <4>3
        <5>2. votes(l) >= votes(j) /\ votes(j) >= w
          BY <2>1, <5>1
        <5>3. votes(j) = w
          BY <2>1, <4>3, <5>1, <5>2
        <5>4. QED
          BY <5>1, <5>3
      <4>5. tied = l..seats
        BY <4>2, <4>3, <4>4
      <4>6. l - 1 \in 0..seats /\ (l - 1) + 1 = l
        BY <4>3
      <4>7. QED
        BY <4>5, <4>6
    <3>3. QED
      BY <3>1, <3>2
  <2>3. Cardinality(tied) = seats - k
    <3>1. Cardinality((k + 1)..seats) = IF k + 1 > seats THEN 0 ELSE seats - (k + 1) + 1
      BY FS_Interval
    <3>2. tied = (k + 1)..seats
      BY <2>2
    <3> HIDE DEF tied
    <3>3. QED
      BY <3>1, <3>2
  <2>4. Untied(ranking, seats) = k
    <3>1. Untied(ranking, seats) = seats - Cardinality(tied)
      BY <1>7 DEF Untied
    <3>2. QED
      BY <2>3, <3>1
  <2>5. CASE i <= k
    <3>1. votes(i) >= w /\ votes(i) # w
      <4>1. i \in 1..seats /\ i < seats + 1 /\ i \notin (k + 1)..seats
        BY <1>1, <2>5
      <4>2. i \notin tied
        BY <2>2, <4>1
      <4>3. votes(i) >= w
        BY <1>1, <2>1, <4>1
      <4>4. QED
        BY <4>1, <4>2, <4>3
    <3>2. ASSUME NEW j \in many, j \notin 1..seats
          PROVE  FALSE
      <4>1. j \in 1..n /\ votes(j) >= votes(i)
        BY <1>1 DEF AsMany
      <4>2. j = seats + 1 \/ seats + 1 < j
        BY <3>2, <4>1
      <4>3. w >= votes(j)
        BY <2>1, <4>1, <4>2
      <4>4. QED
        BY <1>1, <2>1, <3>1, <4>1, <4>3
    <3>3. many \subseteq 1..seats
      BY <3>2
    <3>4. QED
      BY <1>4, <2>4, <2>5, <3>3
  <2>6. CASE ~ (i <= k)
    <3>1. w >= votes(i)
      <4>1. CASE i \in 1..seats
        <5>1. i \in (k + 1)..seats
          BY <2>6, <4>1
        <5>2. i \in tied
          BY <2>2, <5>1
        <5>3. QED
          BY <1>1, <2>1, <5>2
      <4>2. CASE i \notin 1..seats
        <5>1. i = seats + 1 \/ seats + 1 < i
          BY <1>1, <4>2
        <5>2. QED
          BY <1>1, <2>1, <5>1
      <4>3. QED
        BY <4>1, <4>2
    <3>2. ASSUME NEW j \in 1..(seats + 1)
          PROVE  j \in many
      <4>1. j \in 1..n /\ (j = seats + 1 \/ j < seats + 1)
        BY <2>1
      <4>2. votes(j) >= w
        BY <2>1, <4>1
      <4>3. votes(j) >= votes(i)
        BY <1>1, <2>1, <3>1, <4>1, <4>2
      <4>4. QED
        BY <1>1, <4>1, <4>3 DEF AsMany
    <3>3. seats + 1 <= Cardinality(many)
      BY <1>5, <3>2
    <3>4. Cardinality(many) \in Nat
      BY <1>1, <1>2, <1>3, FS_Subset, FS_CardinalityType
    <3>5. QED
      BY <2>4, <2>6, <3>3, <3>4
  <2>7. QED
    BY <2>5, <2>6
<1>8. QED
  BY <1>6, <1>7

\* A nominee with votes wins whom no more candidates than there are seats
\* equal or surpass: MostVotesWin of one step.
LEMMA MostVotesStep ==
  ASSUME ElectInv, NEW n \in Account, EndElection(n)
  PROVE  NewTerms = {a \in nominees : \E i \in DOMAIN Board.candidates :
           /\ Board.candidates[i].member = a
           /\ Board.candidates[i].votes >= MIN_VOTE_THRESHOLD
           /\ Cardinality({j \in DOMAIN Board.candidates :
                Board.candidates[j].votes >= Board.candidates[i].votes})
                <= Board.available_seats}
<1> DEFINE seats == Board.available_seats
           list == Board.candidates
           Best(a) == \E i \in DOMAIN list :
                        /\ list[i].member = a
                        /\ list[i].votes >= MIN_VOTE_THRESHOLD
                        /\ Cardinality(AsMany(list, list[i].votes)) <= seats
<1>1. PICK ranking \in Ranked(list) : Steady(Winners(Contenders(ranking, seats)))
  BY EndElectionSteady
<1>2. NewTerms = Winners(Contenders(ranking, seats))
  <2>1. SeatStep(Winners(Contenders(ranking, seats)))
    BY <1>1 DEF Steady
  <2>2. QED
    BY <2>1, TermsOfWinners
<1>3. /\ seats \in Nat /\ list \in Seq(TP!Candidate)
      /\ \A i \in DOMAIN list : list[i].votes \in Nat
      /\ \A i, j \in DOMAIN list : list[i] = list[j] => i = j
  BY EndedBoard DEF Distinct
<1> DEFINE contenders == Contenders(ranking, seats)
           m == Untied(ranking, seats)
<1> HIDE DEF seats, list
<1>4. /\ ranking \in Seq(ToSet(list))
      /\ \A c \in ToSet(list) : \E i \in DOMAIN ranking : ranking[i] = c
      /\ \A i, j \in DOMAIN ranking : i < j => ranking[i].votes >= ranking[j].votes
  BY <1>1, <1>3, RankingIs
<1>5. \A i \in DOMAIN ranking : \E j \in DOMAIN list : list[j] = ranking[i]
  BY <1>4 DEF ToSet
<1>6. \A j \in DOMAIN list : \E i \in DOMAIN ranking : ranking[i] = list[j]
  BY <1>4 DEF ToSet
<1>7. \A i \in DOMAIN ranking : ranking[i].votes \in Nat
  BY <1>3, <1>5
<1>8. ASSUME NEW i \in DOMAIN ranking
      PROVE  i <= m <=> Cardinality(AsMany(list, ranking[i].votes)) <= seats
  <2>1. i <= m <=> Cardinality(AsMany(ranking, ranking[i].votes)) <= seats
    BY <1>3, <1>4, <1>7, UntiedIs
  <2>2. Cardinality(AsMany(ranking, ranking[i].votes)) = Cardinality(AsMany(list, ranking[i].votes))
    BY <1>1, <1>3, RankedAlike
  <2>3. QED
    BY <2>1, <2>2
<1>9. /\ m \in 0..Len(ranking) /\ DOMAIN contenders = 1..m
      /\ \A i \in 1..m : contenders[i] = ranking[i]
  BY <1>3, <1>4, ContendersAre
<1>10. DOMAIN ranking = 1..Len(ranking) /\ Len(ranking) \in Nat
  BY <1>4
<1> HIDE DEF contenders, m
<1>11. ASSUME NEW a, NEW i \in DOMAIN contenders, contenders[i].member = a,
              contenders[i].votes >= MIN_VOTE_THRESHOLD
       PROVE  Best(a)
  <2>1. i \in DOMAIN ranking /\ i <= m /\ contenders[i] = ranking[i]
    BY <1>9, <1>10
  <2>2. PICK j \in DOMAIN list : list[j] = ranking[i]
    BY <1>5, <2>1
  <2>3. Cardinality(AsMany(list, list[j].votes)) <= seats
    BY <1>8, <2>1, <2>2
  <2>4. QED
    BY <1>11, <2>1, <2>2, <2>3
<1>12. ASSUME NEW a, Best(a)
       PROVE  \E i \in DOMAIN contenders : /\ contenders[i].member = a
                                           /\ contenders[i].votes >= MIN_VOTE_THRESHOLD
  <2>1. PICK j \in DOMAIN list : /\ list[j].member = a
                                 /\ list[j].votes >= MIN_VOTE_THRESHOLD
                                 /\ Cardinality(AsMany(list, list[j].votes)) <= seats
    BY <1>12
  <2>2. PICK i \in DOMAIN ranking : ranking[i] = list[j]
    BY <1>6
  <2>3. i \in 1..m
    <3>1. i <= m
      BY <1>8, <2>1, <2>2
    <3>2. QED
      BY <1>9, <1>10, <3>1
  <2>4. contenders[i] = list[j] /\ i \in DOMAIN contenders
    BY <1>9, <2>2, <2>3
  <2>5. QED
    BY <2>1, <2>4
<1> HIDE DEF Best
<1>13. Winners(contenders) = {a \in nominees : Best(a)}
  BY <1>11, <1>12 DEF Winners
<1>14. QED
  BY <1>2, <1>13 DEF Best, contenders, list, seats, AsMany

\* An election is decided by the votes (endelection; whatever std::sort does
\* with equals).
THEOREM VotesDecide == Spec => MostVotesWin
<1>1. ElectInv /\ [Next]_vars =>
        \A n \in Account : EndElection(n) =>
          NewTerms = {a \in nominees : \E i \in DOMAIN Board.candidates :
            /\ Board.candidates[i].member = a
            /\ Board.candidates[i].votes >= MIN_VOTE_THRESHOLD
            /\ Cardinality({j \in DOMAIN Board.candidates :
                 Board.candidates[j].votes >= Board.candidates[i].votes})
                 <= Board.available_seats}
  BY MostVotesStep
<1>2. QED
  BY <1>1, ElectInvHolds, PTL DEF Spec, MostVotesWin

-----------------------------------------------------------------------------
(* The results of all boards *)

\* A step that is one of trail's own leaves the results alone.
LEMMA TrailStepFinal ==
  ASSUME ElectInv, TP!StepKind
  PROVE  TP!ProposalsFinal /\ TP!BoardsFinal
BY ElectTypes, TrailConstants, TP!FinalSteps

\* What others do, and what the contract does with its candidates.
LEMMA OthersFinal ==
  ASSUME ElectInv,
         \/ TrailNext \/ VoteForCandidate
         \/ \E a \in Account : CandAddLead(a) \/ CandRmvLead(a)
         \/ UNCHANGED trailVars
  PROVE  TP!StepKind
<1>1. TP!TypeOK /\ now \in Nat /\ current_ballot_id \in TP!BallotId
  BY ElectTypes DEF TP!Inv
<1>2. CASE UNCHANGED trailVars
  <2>1. TP!Passing
    BY <1>1, <1>2 DEF TP!Passing, TP!TypeOK, trailVars, TP!listVars
  <2>2. QED
    BY <2>1 DEF TP!StepKind
<1>3. ASSUME NEW a \in Account, CandAddLead(a) \/ CandRmvLead(a)
      PROVE  TP!StepKind
  <2>1. \/ TP!AddCandidate(Self, current_ballot_id, a)
        \/ TP!RmvCandidate(Self, current_ballot_id, a)
    BY <1>3, SameCandidateActions DEF CandAddLead, CandRmvLead
  <2>2. a \in Member /\ Self \in Publisher \cup {Self}
    BY ConstantsAssumption DEF ConstantsAssumption
  <2>3. \E m \in Member : \/ TP!AddCandidate(Self, current_ballot_id, m)
                          \/ TP!RmvCandidate(Self, current_ballot_id, m)
    BY <2>1, <2>2
  <2>4. TP!BoardChanged
    BY <1>1, <2>2, <2>3, TrailConstants, TP!BoardActions
  <2>5. QED
    BY <2>4 DEF TP!StepKind
<1>4. CASE TrailNext \/ VoteForCandidate
  <2>1. TP!Next
    BY <1>4, OthersNext, VoteOwed, ElectTypes
  <2>2. QED
    BY <2>1, TrailConstants, ElectTypes, TP!StepKinds
<1>5. QED
  BY <1>2, <1>3, <1>4

\* An election that starts leaves the results alone.
LEMMA StartFinal ==
  ASSUME ElectInv, NEW boards, Alike(boards), NEW seats, NEW members,
         StartNewElection(boards, seats, members)
  PROVE  TP!ProposalsFinal /\ TP!BoardsFinal
<1>1. PICK r \in Trail!BallotId :
        /\ Trail!IsNextKey(r, Rows(leaderboards))
        /\ Trail!ListBallot(Trail!LEADERBOARD, r)
        /\ \E row : leaderboards' = [boards EXCEPT ![r] = row]
  BY Zenon DEF StartNewElection, NewBoardKey
<1>2. proposals' = proposals
  BY DEF StartNewElection
<1>3. /\ r \in TP!BallotId /\ TP!IsNextKey(r, TP!Rows(leaderboards))
      /\ TP!ListBallot(TP!LEADERBOARD, r)
  BY <1>1, SameTables, SameStates
<1>4. TP!Inv /\ TP!TypeOK /\ TP!BallotsOwnRows
  BY ElectTypes DEF TP!Inv
<1>5. \A b \in TP!Rows(ballots) : b \in TP!Rows(ballots') /\ ballots'[b] = ballots[b]
  BY <1>3, <1>4, TrailConstants, TP!ListedKept
<1>6. \A b \in TP!ProposalBallots \cup TP!BoardBallots : b \in TP!Rows(ballots')
  BY <1>5 DEF TP!ProposalBallots, TP!BoardBallots
<1>7. TP!ProposalsFinal
  BY <1>2, <1>6 DEF TP!ProposalsFinal
<1>8. ASSUME NEW b \in TP!BoardBallots
      PROVE  TP!SameCandidates(leaderboards'[TP!ReferenceOf(b)].candidates,
                               leaderboards[TP!ReferenceOf(b)].candidates)
  <2>1. TP!ReferenceOf(b) \in Rows(leaderboards) /\ TP!ReferenceOf(b) \in TP!BallotId
    BY <1>4, BoardRows
  <2>2. TP!ReferenceOf(b) # r
    <3>1. TP!Rows(leaderboards) \subseteq TP!BallotId
      BY <1>4, TrailConstants, TP!RowTypes
    <3>2. r \notin TP!Rows(leaderboards)
      BY <1>3, <1>4, <3>1, TrailConstants, TP!NextKeyIsNew
    <3>3. QED
      BY <2>1, <3>2, SameStates
  <2>3. leaderboards'[TP!ReferenceOf(b)] = boards[TP!ReferenceOf(b)]
    BY <1>1, <2>1, <2>2 DEF Alike
  <2>4. QED
    BY <2>1, <2>3 DEF Alike
<1>9. TP!BoardsFinal
  BY <1>6, <1>8 DEF TP!BoardsFinal, TP!SameCandidates
<1>10. QED
  BY <1>7, <1>9

\* So does one that ends.
LEMMA EndFinal ==
  ASSUME ElectInv, NEW a \in Account, EndElection(a)
  PROVE  TP!ProposalsFinal /\ TP!BoardsFinal
<1> DEFINE r == Trail!ReferenceOf(current_ballot_id)
<1>1. PICK won, contended : Ends(won, contended)
  BY EndElectionEnds
<1>2. r \in Rows(leaderboards)
  BY DEF EndElection, HasBoard
<1>3. Alike(Closed(leaderboards, r))
  BY <1>2, ElectTypes, ClosedAlike
<1> DEFINE seats == AvailableSeats(arbitrators')
           again == Remaining(won) # {} /\ seats > 0
<1>4. CASE again
  <2>1. PICK members : StartNewElection(Closed(leaderboards, r), seats, members)
    BY <1>1, <1>4, Zenon DEF Ends
  <2>2. QED
    BY <1>3, <2>1, StartFinal
<1>5. CASE ~ again
  <2>1. /\ leaderboards' = Closed(leaderboards, r)
        /\ UNCHANGED <<now, ballots, proposals, totals, receipts, weight, recastable>>
    BY <1>1, <1>5, Zenon DEF Ends
  <2>2. TP!BoardChanged
    BY <1>2, <2>1, ClosedRow
  <2>3. TP!StepKind
    BY <2>2 DEF TP!StepKind
  <2>4. QED
    BY <2>3, TrailStepFinal
<1>6. QED
  BY <1>4, <1>5

\* No step touches a result.
LEMMA StepFinal ==
  ASSUME ElectInv, [Next]_vars
  PROVE  TP!ProposalsFinal /\ TP!BoardsFinal
<1>1. CASE InitElection
  <2>1. CASE AvailableSeats(arbitrators') > 0
    <3>1. StartNewElection(leaderboards, AvailableSeats(arbitrators'), <<>>)
      BY <1>1, <2>1 DEF InitElection
    <3>2. Alike(leaderboards)
      BY ElectTypes, BoardRows DEF Alike, TP!SameWindow, TP!SameCandidates
    <3>3. QED
      BY <3>1, <3>2, StartFinal
  <2>2. CASE ~ (AvailableSeats(arbitrators') > 0)
    <3>1. UNCHANGED trailVars
      BY <1>1, <2>2 DEF InitElection
    <3>2. QED
      BY <3>1, OthersFinal, TrailStepFinal
  <2>3. QED
    BY <2>1, <2>2
<1>2. ASSUME NEW a \in Account, EndElection(a)
      PROVE  TP!ProposalsFinal /\ TP!BoardsFinal
  BY <1>2, EndFinal
<1>3. ASSUME UNCHANGED trailVars
      PROVE  TP!ProposalsFinal /\ TP!BoardsFinal
  BY <1>3, OthersFinal, TrailStepFinal
<1>4. CASE \/ TrailNext \/ VoteForCandidate
           \/ \E a \in Account : CandAddLead(a) \/ CandRmvLead(a)
  BY <1>4, OthersFinal, TrailStepFinal
<1>5. ASSUME \/ SetConfig \/ UNCHANGED vars
             \/ \E a \in Account : \/ RegArb(a) \/ UnregNominee(a) \/ DismissArb(a)
                                   \/ \E s \in Cases!AVAILABLE..Cases!REMOVED : NewArbStatus(a, s)
      PROVE  UNCHANGED trailVars
  BY <1>5, Zenon DEF SetConfig, RegArb, UnregNominee, DismissArb, NewArbStatus, vars
<1>6. QED
  BY <1>1, <1>2, <1>3, <1>4, <1>5, Zenon DEF Next

\* The results of all boards are final, of the contract's own and of others'
\* (initelection, endelection, candrmvlead).
THEOREM ResultsKeptByElections == Spec => ResultsKept
<1> DEFINE ProposalsFinal ==
             \A b \in Trail!ProposalBallots :
               LET prop == proposals[Trail!ReferenceOf(b)]
                   next == proposals'[Trail!ReferenceOf(b)]
               IN  now > prop.end_time =>
                     /\ b \in Trail!Rows(ballots')
                     /\ next.counts # prop.counts => next.cycle_count > prop.cycle_count
           BoardsFinal ==
             \A b \in Trail!BoardBallots :
               LET board == leaderboards[Trail!ReferenceOf(b)]
                   next == leaderboards'[Trail!ReferenceOf(b)]
               IN  now > board.end_time =>
                     /\ b \in Trail!Rows(ballots')
                     /\ DOMAIN next.candidates = DOMAIN board.candidates
                     /\ \A i \in DOMAIN board.candidates :
                          /\ next.candidates[i].member = board.candidates[i].member
                          /\ next.candidates[i].votes = board.candidates[i].votes
<1>1. /\ TP!ProposalBallots = Trail!ProposalBallots /\ TP!BoardBallots = Trail!BoardBallots
      /\ \A b : TP!ReferenceOf(b) = Trail!ReferenceOf(b)
      /\ \A t : TP!Rows(t) = Trail!Rows(t)
  BY SameTables, SameStates DEF Trail!Rows, Rows
<1>2. TP!ProposalsFinal => ProposalsFinal
  BY <1>1 DEF TP!ProposalsFinal
<1>3. TP!BoardsFinal => BoardsFinal
  BY <1>1 DEF TP!BoardsFinal
<1>4. ElectInv /\ [Next]_vars => ProposalsFinal /\ BoardsFinal
  <2> HIDE DEF ProposalsFinal, BoardsFinal
  <2>1. QED
    BY <1>2, <1>3, StepFinal
<1>5. QED
  BY <1>4, ElectInvHolds, PTL DEF Spec, ResultsKept, Trail!ResultsFinal
=============================================================================
