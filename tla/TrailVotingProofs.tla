-------------------------- MODULE TrailVotingProofs --------------------------
(***************************************************************************)
(* Proofs about TrailVoting, for every number of voters, publishers and    *)
(* ballots, whatever the bounds on the clock and the cycles.               *)
(***************************************************************************)
EXTENDS TrailVoting, Collections

-----------------------------------------------------------------------------
(* Rows *)

\* A table maps its keys to rows, and the keys of its rows are keys of it.
LEMMA RowTypes ==
  ASSUME TypeOK
  PROVE  /\ Rows(ballots) \subseteq BallotId
         /\ \A b \in Rows(ballots) : ballots[b] \in Ballot /\ ReferenceOf(b) \in BallotId
         /\ Rows(proposals) \subseteq BallotId
         /\ \A r \in Rows(proposals) : proposals[r] \in Proposal
         /\ Rows(leaderboards) \subseteq BallotId
         /\ \A r \in Rows(leaderboards) : leaderboards[r] \in Leaderboard
         /\ \A v \in Voter, b \in BallotId :
              receipts[v][b] \in Receipt \cup {Nil}
BY DEF TypeOK, Rows, Ballot, ReferenceOf

\* The tables are finite.
LEMMA RowsFinite ==
  ASSUME TypeOK
  PROVE  IsFiniteSet(Rows(proposals)) /\ IsFiniteSet(Rows(leaderboards))
<1>1. IsFiniteSet(BallotId)
  BY ConstantsAssumption, FS_Interval DEF BallotId
<1>2. QED
  BY <1>1, RowTypes, FS_Subset

\* What the times and counters of a row are.
LEMMA FieldTypes ==
  /\ \A row \in Proposal :
       /\ row.begin_time \in Nat /\ row.end_time \in Nat /\ row.unique_voters \in Nat
       /\ row.cycle_count \in Nat /\ row.counts \in [Direction -> Int]
  /\ \A row \in Leaderboard :
       /\ row.begin_time \in Nat /\ row.end_time \in Nat /\ row.unique_voters \in Nat
       /\ row.candidates \in Seq(Candidate)
  /\ \A row \in Receipt :
       row.directions \in Seq(Nat) /\ row.weight \in Nat /\ row.expiration \in Nat
  /\ \A t \in Time : t \in Nat
BY ConstantsAssumption DEF Proposal, Leaderboard, Receipt, Time

\* A row is written into one of the tables.
LEMMA RowWritten ==
  ASSUME NEW S, Nil \notin S, NEW table \in [BallotId -> S \cup {Nil}], NEW new,
         NEW r \in BallotId, NEW row \in S, new = [table EXCEPT ![r] = row]
  PROVE  /\ new \in [BallotId -> S \cup {Nil}]
         /\ Rows(new) = Rows(table) \cup {r}
         /\ new[r] = row
         /\ \A s \in BallotId : s # r => new[s] = table[s]
BY DEF Rows

\* A row is erased.
LEMMA RowErased ==
  ASSUME NEW S, NEW table \in [BallotId -> S \cup {Nil}], NEW new,
         NEW r \in BallotId, new = [table EXCEPT ![r] = Nil]
  PROVE  /\ new \in [BallotId -> S \cup {Nil}]
         /\ Rows(new) = Rows(table) \ {r}
         /\ \A s \in BallotId : s # r => new[s] = table[s]
BY DEF Rows

\* The next key is a new one.
LEMMA NextKeyIsNew ==
  ASSUME NEW keys \in SUBSET BallotId, NEW k \in BallotId, IsNextKey(k, keys)
  PROVE  k \notin keys
BY ConstantsAssumption DEF IsNextKey, BallotId

-----------------------------------------------------------------------------
(* The inductive invariant *)

\* A window of time for votes ends after it has begun.
WindowsOrdered ==
  /\ \A r \in Rows(proposals) : proposals[r].begin_time < proposals[r].end_time
  /\ \A r \in Rows(leaderboards) : leaderboards[r].begin_time < leaderboards[r].end_time

\* The receipts for a proposal are of its current cycle, once voting has begun,
\* or have expired; only a proposal that has been cycled has such old ones.  So
\* the end of a new window is the expiration of no receipt, and a proposal that
\* can be taken back has none.
ProposalFits(b) ==
  LET prop == proposals[ReferenceOf(b)]
  IN  /\ \A v \in Voter : receipts[v][b] # Nil =>
           \/ receipts[v][b].expiration < now /\ prop.cycle_count > 0
           \/ receipts[v][b].expiration = prop.end_time /\ prop.begin_time <= now
      /\ now <= prop.end_time =>
           prop.unique_voters = Cardinality(VotersOf(b, prop.end_time))

\* The receipts for a leaderboard are of its window and of its candidates, and
\* there are none before voting has begun.
BoardFits(b) ==
  LET board == leaderboards[ReferenceOf(b)]
  IN  /\ \A v \in Voter : receipts[v][b] # Nil =>
           /\ receipts[v][b].expiration = board.end_time
           /\ board.begin_time <= now
           /\ \A i \in DOMAIN receipts[v][b].directions :
                receipts[v][b].directions[i] < Len(board.candidates)
      /\ now <= board.end_time =>
           board.unique_voters = Cardinality(VotersOf(b, board.end_time))

\* Receipts and counts fit the ballot; there are no receipts without one.
Fits(b) ==
  /\ b \notin Rows(ballots) => \A v \in Voter : receipts[v][b] = Nil
  /\ b \in ProposalBallots => ProposalFits(b)
  /\ b \in BoardBallots => BoardFits(b)

Inv == TypeOK /\ WindowsOrdered /\ BallotsOwnRows /\ \A b \in BallotId : Fits(b)

\* What a step may do to the row of a ballot without touching its receipts.
SameWindow(new, old) == /\ new.begin_time = old.begin_time
                        /\ new.end_time = old.end_time
                        /\ new.unique_voters = old.unique_voters

\* The list of candidates stays, up to what happens to their status.
SameCandidates(new, old) ==
  /\ DOMAIN new = DOMAIN old
  /\ \A i \in DOMAIN old : new[i].member = old[i].member /\ new[i].votes = old[i].votes

\* A step fits a ballot if it leaves its receipts alone and of its row at
\* least the window, the voters and, once voting has begun, the candidates.
LEMMA FitsFrame ==
  ASSUME TypeOK, TypeOK', BallotsOwnRows, now <= now',
         NEW b \in BallotId, Fits(b), ballots'[b] = ballots[b],
         \A v \in Voter : receipts'[v][b] = receipts[v][b],
         b \in ProposalBallots =>
           LET old == proposals[ReferenceOf(b)]
               new == proposals'[ReferenceOf(b)]
           IN  SameWindow(new, old) /\ new.cycle_count = old.cycle_count,
         b \in BoardBallots =>
           LET old == leaderboards[ReferenceOf(b)]
               new == leaderboards'[ReferenceOf(b)]
           IN  /\ SameWindow(new, old)
               /\ \/ now < old.begin_time
                  \/ new.candidates \in Seq(Candidate) /\ DOMAIN new.candidates = DOMAIN old.candidates
  PROVE  Fits(b)'
<1>1. now \in Int /\ now' \in Int
  BY FieldTypes DEF TypeOK
<1>2. /\ b \in Rows(ballots)' <=> b \in Rows(ballots)
      /\ b \in ProposalBallots' <=> b \in ProposalBallots
      /\ b \in BoardBallots' <=> b \in BoardBallots
      /\ ReferenceOf(b)' = ReferenceOf(b)
  BY DEF Rows, TypeOK, ProposalBallots, BoardBallots, ReferenceOf
<1> DEFINE Later(t) == {v \in Voter : IsOfCycle(receipts'[v][b], t)}
<1>3. \A t : Later(t) = VotersOf(b, t)
  BY DEF VotersOf
<1>4. ASSUME b \in ProposalBallots
      PROVE  ProposalFits(b)'
  <2> DEFINE old == proposals[ReferenceOf(b)]
             new == proposals'[ReferenceOf(b)]
  <2>1. /\ old.begin_time \in Int /\ old.end_time \in Int
        /\ \A v \in Voter : receipts[v][b] # Nil => receipts[v][b].expiration \in Int
    BY <1>4, RowTypes, FieldTypes DEF BallotsOwnRows
  <2>2. ProposalFits(b)
    BY <1>4 DEF Fits
  <2>3. SameWindow(new, old) /\ new.cycle_count = old.cycle_count
    BY <1>4
  <2> HIDE DEF old, new
  <2>4. \A v \in Voter : receipts'[v][b] # Nil =>
           \/ receipts'[v][b].expiration < now' /\ new.cycle_count > 0
           \/ receipts'[v][b].expiration = new.end_time /\ new.begin_time <= now'
    BY <1>1, <2>1, <2>2, <2>3 DEF SameWindow, ProposalFits, old
  <2>5. now' <= new.end_time =>
          new.unique_voters = Cardinality(Later(new.end_time))
    <3>1. now' <= new.end_time => now <= old.end_time
      BY <1>1, <2>1, <2>3 DEF SameWindow
    <3>2. Later(new.end_time) = VotersOf(b, old.end_time)
      BY <1>3, <2>3 DEF SameWindow
    <3>3. QED
      BY <2>2, <2>3, <3>1, <3>2 DEF SameWindow, ProposalFits, old
  <2>6. QED
    BY <1>2, <2>4, <2>5 DEF ProposalFits, VotersOf, new
<1>5. ASSUME b \in BoardBallots
      PROVE  BoardFits(b)'
  <2> DEFINE old == leaderboards[ReferenceOf(b)]
             new == leaderboards'[ReferenceOf(b)]
  <2>1. /\ old.begin_time \in Int /\ old.end_time \in Int /\ old.candidates \in Seq(Candidate)
        /\ \A v \in Voter : receipts[v][b] # Nil => receipts[v][b].expiration \in Int
    BY <1>5, RowTypes, FieldTypes DEF BallotsOwnRows
  <2>2. BoardFits(b)
    BY <1>5 DEF Fits
  <2>3. /\ SameWindow(new, old)
        /\ \/ now < old.begin_time
           \/ new.candidates \in Seq(Candidate) /\ DOMAIN new.candidates = DOMAIN old.candidates
    BY <1>5
  <2> HIDE DEF old, new
  <2>4. \A v \in Voter : receipts'[v][b] # Nil =>
           /\ receipts'[v][b].expiration = new.end_time
           /\ new.begin_time <= now'
           /\ \A i \in DOMAIN receipts'[v][b].directions :
                receipts'[v][b].directions[i] < Len(new.candidates)
    <3>1. ASSUME NEW v \in Voter, receipts[v][b] # Nil
          PROVE  /\ old.begin_time <= now /\ receipts[v][b].expiration = old.end_time
                 /\ Len(new.candidates) = Len(old.candidates)
      <4>1. old.begin_time <= now /\ receipts[v][b].expiration = old.end_time
        BY <2>2, <3>1 DEF BoardFits, old
      <4>2. Len(new.candidates) = Len(old.candidates)
        BY <1>1, <2>1, <2>3, <4>1
      <4>3. QED
        BY <4>1, <4>2
    <3>2. QED
      BY <1>1, <2>1, <2>2, <2>3, <3>1 DEF SameWindow, BoardFits, old
  <2>5. now' <= new.end_time =>
          new.unique_voters = Cardinality(Later(new.end_time))
    <3>1. now' <= new.end_time => now <= old.end_time
      BY <1>1, <2>1, <2>3 DEF SameWindow
    <3>2. Later(new.end_time) = VotersOf(b, old.end_time)
      BY <1>3, <2>3 DEF SameWindow
    <3>3. QED
      BY <2>2, <2>3, <3>1, <3>2 DEF SameWindow, BoardFits, old
  <2>6. QED
    BY <1>2, <2>4, <2>5 DEF BoardFits, VotersOf, new
<1>6. b \notin Rows(ballots)' => \A v \in Voter : receipts'[v][b] = Nil
  BY <1>2 DEF Fits
<1>7. QED
  BY <1>2, <1>4, <1>5, <1>6 DEF Fits

-----------------------------------------------------------------------------
(* Steps that count nothing *)

\* Time passes, balances and the registry's settings change.
Passing ==
  /\ now' \in Time /\ now <= now'
  /\ weight' \in [Voter -> Weight]
  /\ recastable' \in Recastable
  /\ UNCHANGED <<listVars, proposals, leaderboards, receipts>>

\* A leaderboard is changed, other than by a vote.
BoardChange(r, row) ==
  /\ leaderboards' = [leaderboards EXCEPT ![r] = row]
  /\ SameWindow(row, leaderboards[r])
  /\ \/ now < leaderboards[r].begin_time
     \/ SameCandidates(row.candidates, leaderboards[r].candidates)
  /\ UNCHANGED <<now, listVars, proposals, voterVars>>

BoardChanged == \E r \in Rows(leaderboards), row \in Leaderboard : BoardChange(r, row)

\* A proposal gets another status.
ProposalClosed ==
  \E r \in Rows(proposals), row \in Proposal :
    /\ proposals' = [proposals EXCEPT ![r] = row]
    /\ SameWindow(row, proposals[r])
    /\ row.cycle_count = proposals[r].cycle_count
    /\ row.counts = proposals[r].counts
    /\ UNCHANGED <<now, listVars, leaderboards, voterVars>>

\* The clock, the balances and the settings let time pass.
LEMMA PassingActions ==
  ASSUME TypeOK,
         Tick \/ InitSettings \/ (\E v \in Voter : WeightChanges(v)) \/ UNCHANGED vars
  PROVE  Passing
<1> USE DEF Passing, listVars, voterVars, TypeOK
<1>1. now \in Int /\ now <= now
  BY FieldTypes
<1>2. ASSUME Tick
      PROVE  Passing
  BY <1>1, <1>2, ConstantsAssumption DEF Tick, Time
<1>3. ASSUME InitSettings
      PROVE  Passing
  BY <1>1, <1>3 DEF InitSettings
<1>4. ASSUME NEW v \in Voter, WeightChanges(v)
      PROVE  Passing
  BY <1>1, <1>4 DEF WeightChanges
<1>5. ASSUME UNCHANGED vars
      PROVE  Passing
  BY <1>1, <1>5 DEF vars
<1>6. QED
  BY <1>2, <1>3, <1>4, <1>5

\* One field of a leaderboard is assigned.
LEMMA BoardFields ==
  ASSUME NEW row \in Leaderboard
  PROVE  /\ \A x \in Seq(Candidate) :
              /\ [row EXCEPT !.candidates = x] \in Leaderboard
              /\ [row EXCEPT !.candidates = x].candidates = x
              /\ SameWindow([row EXCEPT !.candidates = x], row)
         /\ \A x \in Nat :
              /\ [row EXCEPT !.available_seats = x] \in Leaderboard
              /\ SameWindow([row EXCEPT !.available_seats = x], row)
         /\ \A x \in Status :
              /\ [row EXCEPT !.status = x] \in Leaderboard
              /\ [row EXCEPT !.status = x].candidates = row.candidates
              /\ SameWindow([row EXCEPT !.status = x], row)
BY DEF Leaderboard, SameWindow

\* The candidates of a leaderboard are replaced.
LEMMA CandidatesReplaced ==
  ASSUME TypeOK, NEW r \in Rows(leaderboards), NEW list \in Seq(Candidate),
         leaderboards' = [leaderboards EXCEPT ![r].candidates = list],
         \/ now < leaderboards[r].begin_time
         \/ SameCandidates(list, leaderboards[r].candidates),
         UNCHANGED <<now, listVars, proposals, voterVars>>
  PROVE  BoardChanged
<1> DEFINE row == [leaderboards[r] EXCEPT !.candidates = list]
<1>1. leaderboards[r] \in Leaderboard
  BY RowTypes
<1>2. row \in Leaderboard /\ row.candidates = list /\ SameWindow(row, leaderboards[r])
  BY <1>1, BoardFields
<1>3. leaderboards' = [leaderboards EXCEPT ![r] = row]
  OBVIOUS
<1> HIDE DEF row
<1>4. QED
  BY <1>2, <1>3 DEF BoardChanged, BoardChange

\* A publisher's actions on a leaderboard.
LEMMA BoardActions ==
  ASSUME TypeOK, NEW p \in Publisher, NEW b \in BallotId,
         \/ \E m \in Member : AddCandidate(p, b, m) \/ RmvCandidate(p, b, m)
         \/ \E list \in CandidateLists : SetAllCands(p, b, list)
         \/ \E n \in NumSeats : SetSeats(p, b, n)
         \/ SetAllStats(p, b)
         \/ \E pass \in Status : CloseLeaderboard(p, b, pass)
  PROVE  BoardChanged
<1> DEFINE r == ReferenceOf(b)
           old == leaderboards[r]
<1>1. r \in Rows(leaderboards) => old \in Leaderboard /\ old.candidates \in Seq(Candidate)
  BY RowTypes, FieldTypes
<1>2. OwnListOpen(p, b) => r \in Rows(leaderboards) /\ now < old.begin_time
  BY DEF OwnListOpen, ListOpen
<1>3. ASSUME NEW m \in Member, AddCandidate(p, b, m)
      PROVE  BoardChanged
  <2> DEFINE new == [member |-> m, votes |-> 0, status |-> 0]
             list == Append(old.candidates, new)
  <2>1. new \in Candidate
    BY ConstantsAssumption DEF Candidate
  <2>2. list \in Seq(Candidate)
    BY <1>1, <1>2, <1>3, <2>1 DEF AddCandidate
  <2>3. leaderboards' = [leaderboards EXCEPT ![r].candidates = list]
    BY <1>3 DEF AddCandidate
  <2> HIDE DEF list
  <2>4. QED
    BY <1>2, <1>3, <2>2, <2>3, CandidatesReplaced DEF AddCandidate
<1>4. ASSUME NEW m \in Member, RmvCandidate(p, b, m)
      PROVE  BoardChanged
  <2>1. PICK i \in DOMAIN old.candidates :
          leaderboards' = [leaderboards EXCEPT ![r].candidates = RemoveAt(old.candidates, i)]
    BY <1>4 DEF RmvCandidate
  <2> DEFINE list == RemoveAt(old.candidates, i)
  <2>2. list \in Seq(Candidate)
    BY <1>1, <1>2, <1>4, RemoveAtElements DEF RmvCandidate
  <2> HIDE DEF list
  <2>3. leaderboards' = [leaderboards EXCEPT ![r].candidates = list]
    BY <2>1 DEF list
  <2>4. QED
    BY <1>2, <1>4, <2>2, <2>3, CandidatesReplaced DEF RmvCandidate
<1>5. ASSUME NEW list \in CandidateLists, SetAllCands(p, b, list)
      PROVE  BoardChanged
  BY <1>2, <1>5, CandidatesReplaced, ConstantsAssumption DEF SetAllCands
<1>6. ASSUME NEW n \in NumSeats, SetSeats(p, b, n)
      PROVE  BoardChanged
  <2> DEFINE row == [old EXCEPT !.available_seats = n]
  <2>1. r \in Rows(leaderboards) /\ now < old.begin_time
    BY <1>6 DEF SetSeats
  <2>2. row \in Leaderboard /\ SameWindow(row, old)
    BY <1>1, <2>1, BoardFields, ConstantsAssumption
  <2>3. leaderboards' = [leaderboards EXCEPT ![r] = row]
    BY <1>6 DEF SetSeats
  <2> HIDE DEF row
  <2>4. QED
    BY <1>6, <2>1, <2>2, <2>3 DEF BoardChanged, BoardChange, SetSeats
<1>7. ASSUME SetAllStats(p, b)
      PROVE  BoardChanged
  <2>1. PICK statuses \in [DOMAIN old.candidates -> Status] :
          leaderboards' = [leaderboards EXCEPT ![r].candidates =
            [i \in DOMAIN old.candidates |-> [old.candidates[i] EXCEPT !.status = statuses[i]]]]
    BY <1>7 DEF SetAllStats
  <2> DEFINE list == [i \in DOMAIN old.candidates |->
                        [old.candidates[i] EXCEPT !.status = statuses[i]]]
  <2>2. r \in Rows(leaderboards) /\ old.candidates \in Seq(Candidate)
    BY <1>1, <1>7 DEF SetAllStats
  <2>3. \A i \in DOMAIN old.candidates : /\ list[i] \in Candidate
                                         /\ list[i].member = old.candidates[i].member
                                         /\ list[i].votes = old.candidates[i].votes
    <3> DEFINE cands == old.candidates
    <3> HIDE DEF old
    <3>1. \A i \in DOMAIN cands : cands[i] \in Candidate /\ statuses[i] \in Status
      BY <2>1, <2>2
    <3>2. QED
      BY <3>1 DEF Candidate
  <2>4. list \in Seq(Candidate) /\ SameCandidates(list, old.candidates)
    <3>1. DOMAIN list = DOMAIN old.candidates
      OBVIOUS
    <3>2. DOMAIN old.candidates = 1..Len(old.candidates) /\ Len(old.candidates) \in Nat
      BY <2>2
    <3>3. list = [i \in 1..Len(old.candidates) |-> list[i]]
      BY <3>2
    <3> HIDE DEF list
    <3>4. list \in [1..Len(old.candidates) -> Candidate]
      BY <2>3, <3>2, <3>3
    <3>5. QED
      BY <2>3, <3>1, <3>2, <3>4 DEF SameCandidates
  <2>5. leaderboards' = [leaderboards EXCEPT ![r].candidates = list]
    BY <2>1
  <2> HIDE DEF list
  <2>6. QED
    BY <1>7, <2>2, <2>4, <2>5, CandidatesReplaced DEF SetAllStats
<1>8. ASSUME NEW pass \in Status, CloseLeaderboard(p, b, pass)
      PROVE  BoardChanged
  <2> DEFINE row == [old EXCEPT !.status = pass]
  <2>1. r \in Rows(leaderboards)
    BY <1>8 DEF CloseLeaderboard
  <2>2. row \in Leaderboard /\ SameWindow(row, old) /\ row.candidates = old.candidates
    BY <1>1, <2>1, BoardFields
  <2>3. leaderboards' = [leaderboards EXCEPT ![r] = row]
    BY <1>8 DEF CloseLeaderboard
  <2> HIDE DEF row
  <2>4. QED
    BY <1>8, <2>1, <2>2, <2>3 DEF BoardChanged, BoardChange, CloseLeaderboard, SameCandidates
<1>9. QED
  BY <1>3, <1>4, <1>5, <1>6, <1>7, <1>8

\* closeballot on a proposal.
LEMMA CloseProposalAction ==
  ASSUME TypeOK, NEW p \in Publisher, NEW b \in BallotId, NEW pass \in Status,
         CloseProposal(p, b, pass)
  PROVE  ProposalClosed
<1> DEFINE r == ReferenceOf(b)
           row == [proposals[r] EXCEPT !.status = pass]
<1>1. r \in Rows(proposals) /\ proposals[r] \in Proposal
  BY RowTypes DEF CloseProposal
<1>2. /\ row \in Proposal /\ SameWindow(row, proposals[r])
      /\ row.cycle_count = proposals[r].cycle_count
      /\ row.counts = proposals[r].counts
  BY <1>1 DEF Proposal, SameWindow
<1>3. proposals' = [proposals EXCEPT ![r] = row]
  BY DEF CloseProposal
<1> HIDE DEF row
<1>4. QED
  BY <1>1, <1>2, <1>3 DEF ProposalClosed, CloseProposal

\* These steps keep the invariant.
LEMMA PassingInv ==
  ASSUME Inv, Passing
  PROVE  Inv'
<1>1. TypeOK'
  BY DEF Inv, Passing, TypeOK, listVars
<1>2. WindowsOrdered' /\ BallotsOwnRows'
  BY DEF Inv, Passing, WindowsOrdered, BallotsOwnRows, ProposalBallots, BoardBallots, Rows,
         ReferenceOf, listVars
<1>3. ASSUME NEW b \in BallotId
      PROVE  Fits(b)'
  <2>1. /\ ballots' = ballots /\ receipts' = receipts /\ now <= now'
        /\ proposals' = proposals /\ leaderboards' = leaderboards
    BY DEF Passing, listVars
  <2>2. b \in BoardBallots => leaderboards[ReferenceOf(b)].candidates \in Seq(Candidate)
    BY RowTypes, FieldTypes DEF Inv, BallotsOwnRows
  <2>3. QED
    BY <1>1, <2>1, <2>2, FitsFrame DEF Inv, SameWindow
<1>4. QED
  BY <1>1, <1>2, <1>3 DEF Inv

\* A leaderboard that changes where it may keeps the invariant.
LEMMA BoardChangedInv ==
  ASSUME Inv, BoardChanged
  PROVE  Inv'
<1>1. PICK r \in Rows(leaderboards), row \in Leaderboard : BoardChange(r, row)
  BY DEF BoardChanged
<1>2. r \in BallotId /\ leaderboards \in [BallotId -> Leaderboard \cup {Nil}]
  BY RowTypes DEF Inv, TypeOK
<1>3. /\ leaderboards' \in [BallotId -> Leaderboard \cup {Nil}]
      /\ Rows(leaderboards') = Rows(leaderboards)
      /\ leaderboards'[r] = row
      /\ \A s \in BallotId : s # r => leaderboards'[s] = leaderboards[s]
  BY <1>1, <1>2, ConstantsAssumption DEF BoardChange, Rows
<1>4. TypeOK'
  BY <1>1, <1>3 DEF Inv, TypeOK, BoardChange, listVars, voterVars
<1>5. WindowsOrdered'
  BY <1>1, <1>3, RowTypes DEF Inv, WindowsOrdered, BoardChange, SameWindow, Rows
<1>6. BallotsOwnRows'
  BY <1>1, <1>3 DEF Inv, BallotsOwnRows, BoardChange, ProposalBallots, BoardBallots,
                    ReferenceOf, listVars
<1>7. now \in Nat /\ now' = now
  BY <1>1, FieldTypes DEF Inv, TypeOK, BoardChange
<1>8. ASSUME NEW b \in BallotId
      PROVE  Fits(b)'
  <2>1. ASSUME b \in BoardBallots
        PROVE  LET old == leaderboards[ReferenceOf(b)]
                   new == leaderboards'[ReferenceOf(b)]
               IN  /\ SameWindow(new, old)
                   /\ \/ now < old.begin_time
                      \/ new.candidates \in Seq(Candidate) /\ DOMAIN new.candidates = DOMAIN old.candidates
    <3>1. ReferenceOf(b) \in Rows(leaderboards) /\ ReferenceOf(b) \in BallotId
      BY <2>1, RowTypes DEF Inv, BallotsOwnRows
    <3>2. leaderboards[ReferenceOf(b)].candidates \in Seq(Candidate) /\ row.candidates \in Seq(Candidate)
      BY <3>1, RowTypes, FieldTypes DEF Inv
    <3>3. QED
      BY <1>1, <1>3, <3>1, <3>2 DEF BoardChange, SameWindow, SameCandidates
  <2>2. b \in ProposalBallots =>
           LET old == proposals[ReferenceOf(b)]
               new == proposals'[ReferenceOf(b)]
           IN  SameWindow(new, old) /\ new.cycle_count = old.cycle_count
    BY <1>1 DEF BoardChange, SameWindow
  <2>3. /\ ballots'[b] = ballots[b] /\ now <= now'
        /\ \A v \in Voter : receipts'[v][b] = receipts[v][b]
    BY <1>1, <1>7 DEF BoardChange, listVars, voterVars
  <2>4. QED
    BY <1>4, <2>1, <2>2, <2>3, FitsFrame DEF Inv
<1>9. QED
  BY <1>4, <1>5, <1>6, <1>8 DEF Inv

\* So does a proposal whose vote is closed or started anew.
LEMMA ProposalClosedInv ==
  ASSUME Inv, ProposalClosed
  PROVE  Inv'
<1>1. PICK r \in Rows(proposals), row \in Proposal :
        /\ proposals' = [proposals EXCEPT ![r] = row]
        /\ SameWindow(row, proposals[r])
        /\ row.cycle_count = proposals[r].cycle_count
        /\ UNCHANGED <<now, listVars, leaderboards, voterVars>>
  BY DEF ProposalClosed
<1>2. r \in BallotId /\ proposals \in [BallotId -> Proposal \cup {Nil}]
  BY RowTypes DEF Inv, TypeOK
<1>3. /\ proposals' \in [BallotId -> Proposal \cup {Nil}]
      /\ Rows(proposals') = Rows(proposals)
      /\ proposals'[r] = row
      /\ \A s \in BallotId : s # r => proposals'[s] = proposals[s]
  BY <1>1, <1>2, ConstantsAssumption DEF Rows
<1>4. TypeOK'
  BY <1>1, <1>3 DEF Inv, TypeOK, listVars, voterVars
<1>5. WindowsOrdered'
  BY <1>1, <1>3, RowTypes DEF Inv, WindowsOrdered, SameWindow, Rows
<1>6. BallotsOwnRows'
  BY <1>1, <1>3 DEF Inv, BallotsOwnRows, ProposalBallots, BoardBallots, ReferenceOf, listVars
<1>7. now \in Nat /\ now' = now
  BY <1>1, FieldTypes DEF Inv, TypeOK
<1>8. ASSUME NEW b \in BallotId
      PROVE  Fits(b)'
  <2>1. ASSUME b \in ProposalBallots
        PROVE  LET old == proposals[ReferenceOf(b)]
                   new == proposals'[ReferenceOf(b)]
               IN  SameWindow(new, old) /\ new.cycle_count = old.cycle_count
    <3>1. ReferenceOf(b) \in BallotId
      BY <2>1, RowTypes DEF Inv, ProposalBallots
    <3>2. QED
      BY <1>1, <1>3, <3>1 DEF SameWindow
  <2>2. ASSUME b \in BoardBallots
        PROVE  LET old == leaderboards[ReferenceOf(b)]
                   new == leaderboards'[ReferenceOf(b)]
               IN  /\ SameWindow(new, old)
                   /\ \/ now < old.begin_time
                      \/ new.candidates \in Seq(Candidate) /\ DOMAIN new.candidates = DOMAIN old.candidates
    BY <1>1, <2>2, RowTypes, FieldTypes DEF Inv, BallotsOwnRows, SameWindow
  <2>3. /\ ballots'[b] = ballots[b] /\ now <= now'
        /\ \A v \in Voter : receipts'[v][b] = receipts[v][b]
    BY <1>1, <1>7 DEF listVars, voterVars
  <2>4. QED
    BY <1>4, <2>1, <2>2, <2>3, FitsFrame DEF Inv
<1>9. QED
  BY <1>4, <1>5, <1>6, <1>8 DEF Inv

-----------------------------------------------------------------------------
(* Registration *)

\* What ListBallot does to the list of ballots.
LEMMA Listed ==
  ASSUME TypeOK, NEW t \in {PROPOSAL, LEADERBOARD}, NEW r \in BallotId, ListBallot(t, r)
  PROVE  \E b \in BallotId :
           /\ b \notin Rows(ballots)
           /\ ballots' \in [BallotId -> Ballot \cup {Nil}]
           /\ Rows(ballots') = Rows(ballots) \cup {b}
           /\ ballots'[b] = [table_id |-> t, reference_id |-> r]
           /\ \A d \in BallotId : d # b => ballots'[d] = ballots[d]
           /\ totals' \in [{PROPOSAL, LEADERBOARD} -> Nat]
           /\ totals' = [totals EXCEPT ![t] = @ + 1]
<1>1. PICK b \in BallotId :
        /\ IsNextKey(b, Rows(ballots))
        /\ ballots' = [ballots EXCEPT ![b] = [table_id |-> t, reference_id |-> r]]
  BY DEF ListBallot
<1>2. b \notin Rows(ballots)
  BY <1>1, RowTypes, NextKeyIsNew
<1> DEFINE row == [table_id |-> t, reference_id |-> r]
<1>3. row \in Ballot /\ row # Nil
  BY ConstantsAssumption DEF Ballot
<1> HIDE DEF row
<1>4. /\ ballots' \in [BallotId -> Ballot \cup {Nil}]
      /\ Rows(ballots') = Rows(ballots) \cup {b}
      /\ ballots'[b] = row
      /\ \A d \in BallotId : d # b => ballots'[d] = ballots[d]
  BY <1>1, <1>3 DEF TypeOK, Rows, row
<1>5. totals' = [totals EXCEPT ![t] = @ + 1] /\ totals' \in [{PROPOSAL, LEADERBOARD} -> Nat]
  BY DEF ListBallot, TypeOK
<1>6. QED
  BY <1>2, <1>4, <1>5 DEF row

\* Ballots and their tables, which the reference of a ballot says.
LEMMA BallotTables ==
  ASSUME TypeOK, BallotsOwnRows
  PROVE  /\ \A b \in ProposalBallots : ballots[b] = [table_id |-> PROPOSAL,
                                                     reference_id |-> ReferenceOf(b)]
         /\ \A b \in BoardBallots : ballots[b] = [table_id |-> LEADERBOARD,
                                                  reference_id |-> ReferenceOf(b)]
         /\ \A b, d \in ProposalBallots : ReferenceOf(b) = ReferenceOf(d) => b = d
         /\ \A b, d \in BoardBallots : ReferenceOf(b) = ReferenceOf(d) => b = d
<1>1. \A b \in Rows(ballots) : ballots[b] \in Ballot
  BY RowTypes
<1>2. \A b \in Rows(ballots) : ballots[b] = [table_id |-> ballots[b].table_id,
                                             reference_id |-> ReferenceOf(b)]
  BY <1>1 DEF Ballot, ReferenceOf
<1>3. /\ \A b \in ProposalBallots : b \in Rows(ballots) /\ ballots[b].table_id = PROPOSAL
      /\ \A b \in BoardBallots : b \in Rows(ballots) /\ ballots[b].table_id = LEADERBOARD
  BY <1>1 DEF ProposalBallots, BoardBallots, Ballot
<1>4. \A b, d \in Rows(ballots) : ballots[b] = ballots[d] => b = d
  BY DEF BallotsOwnRows
<1>5. \A b \in ProposalBallots : ballots[b] = [table_id |-> PROPOSAL,
                                                reference_id |-> ReferenceOf(b)]
  BY <1>2, <1>3
<1>6. \A b \in BoardBallots : ballots[b] = [table_id |-> LEADERBOARD,
                                             reference_id |-> ReferenceOf(b)]
  BY <1>2, <1>3
<1>7. ASSUME NEW b \in ProposalBallots, NEW d \in ProposalBallots, ReferenceOf(b) = ReferenceOf(d)
      PROVE  b = d
  <2>1. ballots[b] = ballots[d]
    BY <1>5, <1>7
  <2>2. QED
    BY <1>3, <1>4, <2>1
<1>8. ASSUME NEW b \in BoardBallots, NEW d \in BoardBallots, ReferenceOf(b) = ReferenceOf(d)
      PROVE  b = d
  <2>1. ballots[b] = ballots[d]
    BY <1>6, <1>8
  <2>2. QED
    BY <1>3, <1>4, <2>1
<1>9. QED
  BY <1>5, <1>6, <1>7, <1>8

\* A new proposal fits: the id of its ballot has no receipts, whoever had it.
LEMMA RegProposalInv ==
  ASSUME Inv, NEW p \in Publisher, NEW begin \in Time, NEW end \in Time,
         RegProposal(p, begin, end)
  PROVE  Inv'
<1>1. PICK r \in BallotId : /\ IsNextKey(r, Rows(proposals))
                            /\ proposals' = [proposals EXCEPT ![r] = NewProposal(p, begin, end)]
                            /\ ListBallot(PROPOSAL, r)
  BY DEF RegProposal
<1> DEFINE row == NewProposal(p, begin, end)
<1>2. /\ row \in Proposal /\ row # Nil
      /\ row.begin_time = begin /\ row.end_time = end /\ row.unique_voters = 0
  BY ConstantsAssumption DEF NewProposal, Proposal
<1> HIDE DEF row
<1>3. r \notin Rows(proposals)
  BY <1>1, RowTypes, NextKeyIsNew DEF Inv
<1>4. /\ proposals' \in [BallotId -> Proposal \cup {Nil}]
      /\ Rows(proposals') = Rows(proposals) \cup {r}
      /\ proposals'[r] = row
      /\ \A s \in BallotId : s # r => proposals'[s] = proposals[s]
  BY <1>1, <1>2 DEF Inv, TypeOK, Rows, row
<1>5. PICK b \in BallotId :
        /\ b \notin Rows(ballots)
        /\ ballots' \in [BallotId -> Ballot \cup {Nil}]
        /\ Rows(ballots') = Rows(ballots) \cup {b}
        /\ ballots'[b] = [table_id |-> PROPOSAL, reference_id |-> r]
        /\ \A d \in BallotId : d # b => ballots'[d] = ballots[d]
        /\ totals' \in [{PROPOSAL, LEADERBOARD} -> Nat]
        /\ totals' = [totals EXCEPT ![PROPOSAL] = @ + 1]
  BY <1>1, Listed DEF Inv
<1>6. UNCHANGED <<now, leaderboards, receipts, weight, recastable>>
  BY DEF RegProposal, voterVars
<1>7. TypeOK'
  BY <1>4, <1>5, <1>6 DEF Inv, TypeOK
<1>8. WindowsOrdered'
  BY <1>2, <1>4, <1>6, RowTypes DEF Inv, WindowsOrdered, RegProposal
<1>9. /\ ProposalBallots' = ProposalBallots \cup {b}
      /\ BoardBallots' = BoardBallots
      /\ ReferenceOf(b)' = r
      /\ \A d \in Rows(ballots) : d # b /\ ReferenceOf(d)' = ReferenceOf(d)
  <2>1. \A d \in Rows(ballots) : d # b /\ d \in BallotId
    BY <1>5, RowTypes DEF Inv
  <2>2. QED
    BY <1>5, <2>1 DEF ProposalBallots, BoardBallots, ReferenceOf
<1>10. BallotsOwnRows'
  <2>1. \A d \in ProposalBallots' : ReferenceOf(d)' \in Rows(proposals')
    BY <1>4, <1>9 DEF Inv, BallotsOwnRows, ProposalBallots
  <2>2. \A d \in BoardBallots' : ReferenceOf(d)' \in Rows(leaderboards')
    BY <1>6, <1>9 DEF Inv, BallotsOwnRows, BoardBallots
  <2>3. \A d \in Rows(ballots) : ballots[d] # [table_id |-> PROPOSAL, reference_id |-> r]
    BY <1>3 DEF Inv, BallotsOwnRows, ProposalBallots, ReferenceOf
  <2>4. \A d, e \in Rows(ballots') : ballots'[d] = ballots'[e] => d = e
    BY <1>5, <2>3, RowTypes DEF Inv, BallotsOwnRows
  <2>5. Cardinality(Rows(proposals')) = Cardinality(Rows(proposals)) + 1
    BY <1>3, <1>4, RowsFinite, FS_AddElement DEF Inv
  <2>6. /\ totals'[PROPOSAL] = Cardinality(Rows(proposals'))
        /\ totals'[LEADERBOARD] = Cardinality(Rows(leaderboards'))
    BY <1>5, <1>6, <2>5 DEF Inv, BallotsOwnRows, TypeOK, PROPOSAL, LEADERBOARD
  <2>7. QED
    BY <2>1, <2>2, <2>4, <2>6 DEF BallotsOwnRows
<1>11. now \in Nat /\ now' = now
  BY <1>6, FieldTypes DEF Inv, TypeOK
<1>12. ASSUME NEW d \in BallotId, d # b
       PROVE  Fits(d)'
  <2>1. ASSUME d \in ProposalBallots
        PROVE  LET old == proposals[ReferenceOf(d)]
                   new == proposals'[ReferenceOf(d)]
               IN  SameWindow(new, old) /\ new.cycle_count = old.cycle_count
    <3>1. ReferenceOf(d) \in Rows(proposals) /\ ReferenceOf(d) \in BallotId
      BY <2>1, RowTypes DEF Inv, BallotsOwnRows
    <3>2. QED
      BY <1>3, <1>4, <3>1 DEF SameWindow
  <2>2. ASSUME d \in BoardBallots
        PROVE  LET old == leaderboards[ReferenceOf(d)]
                   new == leaderboards'[ReferenceOf(d)]
               IN  /\ SameWindow(new, old)
                   /\ \/ now < old.begin_time
                      \/ new.candidates \in Seq(Candidate) /\ DOMAIN new.candidates = DOMAIN old.candidates
    BY <1>6, <2>2, RowTypes, FieldTypes DEF Inv, BallotsOwnRows, SameWindow
  <2>3. /\ ballots'[d] = ballots[d] /\ now <= now'
        /\ \A v \in Voter : receipts'[v][d] = receipts[v][d]
    BY <1>5, <1>6, <1>11, <1>12
  <2>4. QED
    BY <1>7, <2>1, <2>2, <2>3, FitsFrame DEF Inv
<1>13. Fits(b)'
  <2>1. \A v \in Voter : receipts'[v][b] = Nil
    BY <1>5, <1>6 DEF Inv, Fits
  <2>2. \A t : {v \in Voter : IsOfCycle(receipts'[v][b], t)} = {}
    BY <2>1 DEF IsOfCycle
  <2>3. b \notin BoardBallots'
    BY <1>5, <1>9 DEF BoardBallots
  <2>4. ProposalFits(b)'
    BY <1>2, <1>4, <1>9, <2>1, <2>2, FS_EmptySet DEF ProposalFits, VotersOf
  <2>5. QED
    BY <2>1, <2>3, <2>4 DEF Fits
<1>14. QED
  BY <1>7, <1>8, <1>10, <1>12, <1>13 DEF Inv

\* So does a new leaderboard, whatever happens in the same transaction to the
\* status and the seats of the others.
LEMMA BoardListedInv ==
  ASSUME Inv,
         NEW boards \in [BallotId -> Leaderboard \cup {Nil}], Rows(boards) = Rows(leaderboards),
         \A s \in Rows(leaderboards) :
           /\ SameWindow(boards[s], leaderboards[s])
           /\ SameCandidates(boards[s].candidates, leaderboards[s].candidates),
         NEW r \in BallotId, IsNextKey(r, Rows(leaderboards)),
         NEW row \in Leaderboard, row.begin_time < row.end_time, row.unique_voters = 0,
         leaderboards' = [boards EXCEPT ![r] = row],
         ListBallot(LEADERBOARD, r),
         UNCHANGED <<now, proposals, receipts, weight, recastable>>
  PROVE  Inv'
<1>1. row # Nil
  BY ConstantsAssumption
<1>2. r \notin Rows(leaderboards)
  BY RowTypes, NextKeyIsNew DEF Inv
<1>3. /\ leaderboards' \in [BallotId -> Leaderboard \cup {Nil}]
      /\ Rows(leaderboards') = Rows(leaderboards) \cup {r}
      /\ leaderboards'[r] = row
      /\ \A s \in BallotId : s # r => leaderboards'[s] = boards[s]
  <2>1. /\ leaderboards' \in [BallotId -> Leaderboard \cup {Nil}]
        /\ Rows(leaderboards') = Rows(boards) \cup {r}
        /\ leaderboards'[r] = row
        /\ \A s \in BallotId : s # r => leaderboards'[s] = boards[s]
    BY <1>1 DEF Rows
  <2>2. QED
    BY <2>1
<1>4. PICK b \in BallotId :
        /\ b \notin Rows(ballots)
        /\ ballots' \in [BallotId -> Ballot \cup {Nil}]
        /\ Rows(ballots') = Rows(ballots) \cup {b}
        /\ ballots'[b] = [table_id |-> LEADERBOARD, reference_id |-> r]
        /\ \A d \in BallotId : d # b => ballots'[d] = ballots[d]
        /\ totals' \in [{PROPOSAL, LEADERBOARD} -> Nat]
        /\ totals' = [totals EXCEPT ![LEADERBOARD] = @ + 1]
  BY Listed DEF Inv
<1>5. UNCHANGED <<now, proposals, receipts, weight, recastable>>
  OBVIOUS
<1>6. TypeOK'
  BY <1>3, <1>4, <1>5 DEF Inv, TypeOK
<1>7. WindowsOrdered'
  BY <1>1, <1>3, <1>5, RowTypes DEF Inv, WindowsOrdered, SameWindow
<1>8. /\ ProposalBallots' = ProposalBallots
      /\ BoardBallots' = BoardBallots \cup {b}
      /\ ReferenceOf(b)' = r
      /\ \A d \in Rows(ballots) : d # b /\ ReferenceOf(d)' = ReferenceOf(d)
  <2>1. \A d \in Rows(ballots) : d # b /\ d \in BallotId
    BY <1>4, RowTypes DEF Inv
  <2>2. PROPOSAL # LEADERBOARD
    BY DEF PROPOSAL, LEADERBOARD
  <2>3. QED
    BY <1>4, <2>1, <2>2 DEF ProposalBallots, BoardBallots, ReferenceOf
<1>9. BallotsOwnRows'
  <2>1. \A d \in ProposalBallots' : ReferenceOf(d)' \in Rows(proposals')
    BY <1>5, <1>8 DEF Inv, BallotsOwnRows, ProposalBallots
  <2>2. \A d \in BoardBallots' : ReferenceOf(d)' \in Rows(leaderboards')
    <3>1. \A d \in BoardBallots : d \in Rows(ballots) /\ ReferenceOf(d) \in Rows(leaderboards)
      BY DEF Inv, BallotsOwnRows, BoardBallots
    <3>2. QED
      BY <1>3, <1>8, <3>1
  <2>3. \A d \in Rows(ballots) : ballots[d] # [table_id |-> LEADERBOARD, reference_id |-> r]
    BY <1>2 DEF Inv, BallotsOwnRows, ProposalBallots, BoardBallots, ReferenceOf, PROPOSAL,
                LEADERBOARD
  <2>4. \A d, e \in Rows(ballots') : ballots'[d] = ballots'[e] => d = e
    BY <1>4, <2>3, RowTypes DEF Inv, BallotsOwnRows
  <2>5. Cardinality(Rows(leaderboards')) = Cardinality(Rows(leaderboards)) + 1
    <3>1. IsFiniteSet(Rows(leaderboards)) /\ Rows(leaderboards') = Rows(leaderboards) \cup {r}
      BY <1>3, RowsFinite DEF Inv
    <3>2. QED
      BY <1>2, <3>1, FS_AddElement
  <2>6. /\ totals'[PROPOSAL] = Cardinality(Rows(proposals'))
        /\ totals'[LEADERBOARD] = Cardinality(Rows(leaderboards'))
    BY <1>4, <1>5, <2>5 DEF Inv, BallotsOwnRows, TypeOK, PROPOSAL, LEADERBOARD
  <2>7. QED
    BY <2>1, <2>2, <2>4, <2>6 DEF BallotsOwnRows
<1>10. now \in Nat /\ now' = now
  BY <1>5, FieldTypes DEF Inv, TypeOK
<1>11. ASSUME NEW d \in BallotId, d # b
       PROVE  Fits(d)'
  <2>1. ASSUME d \in ProposalBallots
        PROVE  LET old == proposals[ReferenceOf(d)]
                   new == proposals'[ReferenceOf(d)]
               IN  SameWindow(new, old) /\ new.cycle_count = old.cycle_count
    BY <1>5 DEF SameWindow
  <2>2. ASSUME d \in BoardBallots
        PROVE  LET old == leaderboards[ReferenceOf(d)]
                   new == leaderboards'[ReferenceOf(d)]
               IN  /\ SameWindow(new, old)
                   /\ \/ now < old.begin_time
                      \/ new.candidates \in Seq(Candidate) /\ DOMAIN new.candidates = DOMAIN old.candidates
    <3>1. ReferenceOf(d) \in Rows(leaderboards) /\ ReferenceOf(d) \in BallotId
      BY <2>2, RowTypes DEF Inv, BallotsOwnRows
    <3>2. leaderboards'[ReferenceOf(d)] = boards[ReferenceOf(d)]
      BY <1>2, <1>3, <3>1
    <3>3. boards[ReferenceOf(d)] \in Leaderboard
      BY <3>1 DEF Rows
    <3>4. boards[ReferenceOf(d)].candidates \in Seq(Candidate)
      BY <3>3, FieldTypes
    <3>5. QED
      BY <3>1, <3>2, <3>4 DEF SameWindow, SameCandidates
  <2>3. /\ ballots'[d] = ballots[d] /\ now <= now'
        /\ \A v \in Voter : receipts'[v][d] = receipts[v][d]
    BY <1>4, <1>5, <1>10, <1>11
  <2>4. QED
    BY <1>6, <2>1, <2>2, <2>3, FitsFrame DEF Inv
<1>12. Fits(b)'
  <2>1. \A v \in Voter : receipts'[v][b] = Nil
    BY <1>4, <1>5 DEF Inv, Fits
  <2>2. \A t : {v \in Voter : IsOfCycle(receipts'[v][b], t)} = {}
    BY <2>1 DEF IsOfCycle
  <2>3. b \notin ProposalBallots'
    BY <1>4, <1>8 DEF ProposalBallots
  <2>4. BoardFits(b)'
    BY <1>1, <1>3, <1>8, <2>1, <2>2, FS_EmptySet DEF BoardFits, VotersOf
  <2>5. QED
    BY <2>1, <2>3, <2>4 DEF Fits
<1>13. QED
  BY <1>6, <1>7, <1>9, <1>11, <1>12 DEF Inv

\* regballot for a leaderboard.
LEMMA RegLeaderboardInv ==
  ASSUME Inv, NEW p \in Publisher, NEW begin \in Time, NEW end \in Time,
         RegLeaderboard(p, begin, end)
  PROVE  Inv'
<1>1. PICK r \in BallotId :
        /\ IsNextKey(r, Rows(leaderboards))
        /\ leaderboards' = [leaderboards EXCEPT ![r] = NewLeaderboard(p, begin, end)]
        /\ ListBallot(LEADERBOARD, r)
  BY DEF RegLeaderboard
<1> DEFINE row == NewLeaderboard(p, begin, end)
<1>2. /\ row \in Leaderboard
      /\ row.begin_time = begin /\ row.end_time = end /\ row.unique_voters = 0
  <2>1. /\ row.begin_time = begin /\ row.end_time = end /\ row.unique_voters = 0
        /\ <<>> \in Seq(Candidate)
    BY DEF NewLeaderboard
  <2>2. row \in Leaderboard
    BY <2>1, ConstantsAssumption DEF NewLeaderboard, Leaderboard
  <2>3. QED
    BY <2>1, <2>2
<1>3. row.begin_time < row.end_time
  BY <1>2 DEF RegLeaderboard
<1>4. /\ leaderboards' = [leaderboards EXCEPT ![r] = row]
      /\ UNCHANGED <<now, proposals, receipts, weight, recastable>>
  BY <1>1 DEF RegLeaderboard, voterVars
<1>5. leaderboards \in [BallotId -> Leaderboard \cup {Nil}]
  BY DEF Inv, TypeOK
<1>6. \A s \in Rows(leaderboards) :
        /\ SameWindow(leaderboards[s], leaderboards[s])
        /\ SameCandidates(leaderboards[s].candidates, leaderboards[s].candidates)
  BY DEF SameWindow, SameCandidates
<1> HIDE DEF row
<1>7. QED
  BY <1>1, <1>2, <1>3, <1>4, <1>5, <1>6, BoardListedInv

\* What UnlistBallot does to the list of ballots.
LEMMA Unlisted ==
  ASSUME Inv, NEW b \in Rows(ballots), UnlistBallot(b)
  PROVE  /\ ballots' \in [BallotId -> Ballot \cup {Nil}]
         /\ Rows(ballots') = Rows(ballots) \ {b}
         /\ \A d \in BallotId : d # b => ballots'[d] = ballots[d]
         /\ totals' = [totals EXCEPT ![ballots[b].table_id] = @ - 1]
         /\ ballots[b].table_id \in {PROPOSAL, LEADERBOARD}
BY RowTypes DEF Inv, UnlistBallot, Rows, TypeOK, Ballot

\* A proposal is taken back before voting begins, and in its first cycle, so
\* it leaves no receipts.
LEMMA UnregProposalInv ==
  ASSUME Inv, NEW p \in Publisher, NEW b \in BallotId, UnregProposal(p, b)
  PROVE  Inv'
<1> DEFINE r == ReferenceOf(b)
<1>1. /\ b \in ProposalBallots /\ b \in Rows(ballots)
      /\ r \in Rows(proposals) /\ r \in BallotId
      /\ now < proposals[r].begin_time /\ proposals[r].cycle_count = 0
      /\ proposals' = [proposals EXCEPT ![r] = Nil]
      /\ UNCHANGED <<now, leaderboards, receipts, weight, recastable>>
  BY RowTypes DEF Inv, UnregProposal, IsBallot, ProposalBallots, voterVars
<1>2. /\ ballots' \in [BallotId -> Ballot \cup {Nil}]
      /\ Rows(ballots') = Rows(ballots) \ {b}
      /\ \A d \in BallotId : d # b => ballots'[d] = ballots[d]
      /\ totals' = [totals EXCEPT ![PROPOSAL] = @ - 1]
  BY <1>1, Unlisted DEF UnregProposal, ProposalBallots
<1>3. /\ proposals' \in [BallotId -> Proposal \cup {Nil}]
      /\ Rows(proposals') = Rows(proposals) \ {r}
      /\ \A s \in BallotId : s # r => proposals'[s] = proposals[s]
  BY <1>1 DEF Inv, TypeOK, Rows
<1>4. /\ Cardinality(Rows(proposals')) = Cardinality(Rows(proposals)) - 1
      /\ Cardinality(Rows(proposals')) \in Nat
  BY <1>1, <1>3, RowsFinite, FS_RemoveElement, FS_CardinalityType DEF Inv
<1>5. /\ totals' \in [{PROPOSAL, LEADERBOARD} -> Nat]
      /\ totals'[PROPOSAL] = Cardinality(Rows(proposals'))
      /\ totals'[LEADERBOARD] = Cardinality(Rows(leaderboards'))
  BY <1>1, <1>2, <1>4 DEF Inv, BallotsOwnRows, TypeOK, PROPOSAL, LEADERBOARD
<1>6. TypeOK'
  BY <1>1, <1>2, <1>3, <1>5 DEF Inv, TypeOK
<1>7. WindowsOrdered'
  BY <1>1, <1>3, RowTypes DEF Inv, WindowsOrdered
<1>8. /\ ProposalBallots' = ProposalBallots \ {b}
      /\ BoardBallots' = BoardBallots
      /\ \A d \in Rows(ballots') : ReferenceOf(d)' = ReferenceOf(d)
  <2>1. \A d \in Rows(ballots') : d \in BallotId /\ ballots'[d] = ballots[d]
    BY <1>2, RowTypes DEF Inv
  <2>2. QED
    BY <1>1, <1>2, <2>1 DEF ProposalBallots, BoardBallots, ReferenceOf
<1>9. \A d \in ProposalBallots : d # b =>
        ReferenceOf(d) # r /\ ReferenceOf(d) \in Rows(proposals) /\ ReferenceOf(d) \in BallotId
  BY <1>1, RowTypes, BallotTables DEF Inv, BallotsOwnRows, ProposalBallots
<1>10. BallotsOwnRows'
  <2>1. \A d \in ProposalBallots' : ReferenceOf(d)' \in Rows(proposals')
    BY <1>3, <1>8, <1>9, RowTypes DEF Inv, ProposalBallots
  <2>2. \A d \in BoardBallots' : ReferenceOf(d)' \in Rows(leaderboards')
    BY <1>1, <1>8 DEF Inv, BallotsOwnRows, BoardBallots
  <2>3. \A d, e \in Rows(ballots') : ballots'[d] = ballots'[e] => d = e
    BY <1>2, RowTypes DEF Inv, BallotsOwnRows
  <2>4. QED
    BY <1>5, <2>1, <2>2, <2>3 DEF BallotsOwnRows
<1>11. now \in Nat /\ now' = now
  BY <1>1, FieldTypes DEF Inv, TypeOK
<1>12. ASSUME NEW d \in BallotId, d # b
       PROVE  Fits(d)'
  <2>1. d \in ProposalBallots =>
          LET old == proposals[ReferenceOf(d)]
              new == proposals'[ReferenceOf(d)]
          IN  SameWindow(new, old) /\ new.cycle_count = old.cycle_count
    BY <1>3, <1>9, <1>12 DEF SameWindow
  <2>2. d \in BoardBallots =>
          LET old == leaderboards[ReferenceOf(d)]
              new == leaderboards'[ReferenceOf(d)]
          IN  /\ SameWindow(new, old)
              /\ \/ now < old.begin_time
                 \/ new.candidates \in Seq(Candidate) /\ DOMAIN new.candidates = DOMAIN old.candidates
    BY <1>1, RowTypes, FieldTypes DEF Inv, BallotsOwnRows, SameWindow
  <2>3. /\ ballots'[d] = ballots[d] /\ now <= now'
        /\ \A v \in Voter : receipts'[v][d] = receipts[v][d]
    BY <1>1, <1>2, <1>11, <1>12
  <2>4. QED
    BY <1>6, <2>1, <2>2, <2>3, FitsFrame DEF Inv
<1>13. Fits(b)'
  <2>1. \A v \in Voter : receipts[v][b] = Nil
    <3>1. ProposalFits(b)
      BY <1>1 DEF Inv, Fits
    <3>2. proposals[r].begin_time \in Int
      BY <1>1, RowTypes, FieldTypes DEF Inv
    <3>3. QED
      BY <1>1, <1>11, <3>1, <3>2 DEF ProposalFits
  <2>2. b \notin ProposalBallots' /\ b \notin BoardBallots'
    BY <1>1, <1>8 DEF BoardBallots
  <2>3. QED
    BY <1>1, <2>1, <2>2 DEF Fits
<1>14. QED
  BY <1>6, <1>7, <1>10, <1>12, <1>13 DEF Inv

\* So is a leaderboard.
LEMMA UnregLeaderboardInv ==
  ASSUME Inv, NEW p \in Publisher, NEW b \in BallotId, UnregLeaderboard(p, b)
  PROVE  Inv'
<1> DEFINE r == ReferenceOf(b)
<1>1. /\ b \in BoardBallots /\ b \in Rows(ballots) /\ ballots[b].table_id = LEADERBOARD
      /\ r \in Rows(leaderboards) /\ r \in BallotId
      /\ now < leaderboards[r].begin_time
      /\ leaderboards' = [leaderboards EXCEPT ![r] = Nil]
      /\ UNCHANGED <<now, proposals, receipts, weight, recastable>>
  BY RowTypes DEF Inv, UnregLeaderboard, IsBallot, ProposalBallots, BoardBallots, voterVars,
                  PROPOSAL, LEADERBOARD
<1>2. /\ ballots' \in [BallotId -> Ballot \cup {Nil}]
      /\ Rows(ballots') = Rows(ballots) \ {b}
      /\ \A d \in BallotId : d # b => ballots'[d] = ballots[d]
      /\ totals' = [totals EXCEPT ![LEADERBOARD] = @ - 1]
  BY <1>1, Unlisted DEF UnregLeaderboard
<1>3. /\ leaderboards' \in [BallotId -> Leaderboard \cup {Nil}]
      /\ Rows(leaderboards') = Rows(leaderboards) \ {r}
      /\ \A s \in BallotId : s # r => leaderboards'[s] = leaderboards[s]
  BY <1>1 DEF Inv, TypeOK, Rows
<1>4. /\ Cardinality(Rows(leaderboards')) = Cardinality(Rows(leaderboards)) - 1
      /\ Cardinality(Rows(leaderboards')) \in Nat
  BY <1>1, <1>3, RowsFinite, FS_RemoveElement, FS_CardinalityType DEF Inv
<1>5. /\ totals' \in [{PROPOSAL, LEADERBOARD} -> Nat]
      /\ totals'[PROPOSAL] = Cardinality(Rows(proposals'))
      /\ totals'[LEADERBOARD] = Cardinality(Rows(leaderboards'))
  BY <1>1, <1>2, <1>4 DEF Inv, BallotsOwnRows, TypeOK, PROPOSAL, LEADERBOARD
<1>6. TypeOK'
  BY <1>1, <1>2, <1>3, <1>5 DEF Inv, TypeOK
<1>7. WindowsOrdered'
  BY <1>1, <1>3, RowTypes DEF Inv, WindowsOrdered
<1>8. /\ ProposalBallots' = ProposalBallots
      /\ BoardBallots' = BoardBallots \ {b}
      /\ \A d \in Rows(ballots') : ReferenceOf(d)' = ReferenceOf(d)
  <2>1. \A d \in Rows(ballots') : d \in BallotId /\ ballots'[d] = ballots[d]
    BY <1>2, RowTypes DEF Inv
  <2>2. b \notin ProposalBallots
    BY <1>1 DEF BoardBallots
  <2>3. QED
    BY <1>1, <1>2, <2>1, <2>2 DEF ProposalBallots, BoardBallots, ReferenceOf
<1>9. \A d \in BoardBallots : d # b =>
        /\ ReferenceOf(d) # r
        /\ ReferenceOf(d) \in Rows(leaderboards) /\ ReferenceOf(d) \in BallotId
  BY <1>1, RowTypes, BallotTables DEF Inv, BallotsOwnRows, BoardBallots
<1>10. BallotsOwnRows'
  <2>1. \A d \in ProposalBallots' : ReferenceOf(d)' \in Rows(proposals')
    <3>1. \A d \in ProposalBallots : d \in Rows(ballots')
      BY <1>8 DEF ProposalBallots
    <3>2. QED
      BY <1>1, <1>8, <3>1 DEF Inv, BallotsOwnRows
  <2>2. \A d \in BoardBallots' : ReferenceOf(d)' \in Rows(leaderboards')
    BY <1>2, <1>3, <1>8, <1>9 DEF BoardBallots
  <2>3. \A d, e \in Rows(ballots') : ballots'[d] = ballots'[e] => d = e
    BY <1>2, RowTypes DEF Inv, BallotsOwnRows
  <2>4. QED
    BY <1>5, <2>1, <2>2, <2>3 DEF BallotsOwnRows
<1>11. now \in Nat /\ now' = now
  BY <1>1, FieldTypes DEF Inv, TypeOK
<1>12. ASSUME NEW d \in BallotId, d # b
       PROVE  Fits(d)'
  <2>1. d \in ProposalBallots =>
          LET old == proposals[ReferenceOf(d)]
              new == proposals'[ReferenceOf(d)]
          IN  SameWindow(new, old) /\ new.cycle_count = old.cycle_count
    BY <1>1 DEF SameWindow
  <2>2. d \in BoardBallots =>
          LET old == leaderboards[ReferenceOf(d)]
              new == leaderboards'[ReferenceOf(d)]
          IN  /\ SameWindow(new, old)
              /\ \/ now < old.begin_time
                 \/ new.candidates \in Seq(Candidate) /\ DOMAIN new.candidates = DOMAIN old.candidates
    BY <1>3, <1>9, <1>12, RowTypes, FieldTypes DEF Inv, SameWindow
  <2>3. /\ ballots'[d] = ballots[d] /\ now <= now'
        /\ \A v \in Voter : receipts'[v][d] = receipts[v][d]
    BY <1>1, <1>2, <1>11, <1>12
  <2>4. QED
    BY <1>6, <2>1, <2>2, <2>3, FitsFrame DEF Inv
<1>13. Fits(b)'
  <2>1. \A v \in Voter : receipts[v][b] = Nil
    <3>1. BoardFits(b)
      BY <1>1 DEF Inv, Fits
    <3>2. leaderboards[r].begin_time \in Int
      BY <1>1, RowTypes, FieldTypes DEF Inv
    <3>3. QED
      BY <1>1, <1>11, <3>1, <3>2 DEF BoardFits
  <2>2. b \notin ProposalBallots' /\ b \notin BoardBallots'
    BY <1>1, <1>8 DEF BoardBallots
  <2>3. QED
    BY <1>1, <2>1, <2>2 DEF Fits
<1>14. QED
  BY <1>6, <1>7, <1>10, <1>12, <1>13 DEF Inv

-----------------------------------------------------------------------------
(* Cycles and old votes *)

\* When a cycle can be started every receipt for the proposal has expired.
LEMMA OldReceipts ==
  ASSUME Inv, NEW b \in ProposalBallots, ~ VotingOpen(proposals[ReferenceOf(b)])
  PROVE  \A v \in Voter : receipts[v][b] # Nil => receipts[v][b].expiration < now
<1> DEFINE prop == proposals[ReferenceOf(b)]
<1>1. b \in BallotId /\ ProposalFits(b)
  BY RowTypes DEF Inv, Fits, ProposalBallots
<1>2. prop.begin_time \in Int /\ prop.end_time \in Int /\ now \in Int
  BY RowTypes, FieldTypes DEF Inv, BallotsOwnRows, TypeOK
<1>3. QED
  BY <1>1, <1>2 DEF ProposalFits, VotingOpen

\* The row of a proposal is replaced, which no other ballot has.
LEMMA ProposalRowReplaced ==
  ASSUME Inv, NEW b \in ProposalBallots, NEW row \in Proposal, row.begin_time < row.end_time,
         proposals' = [proposals EXCEPT ![ReferenceOf(b)] = row],
         receipts' \in [Voter -> [BallotId -> Receipt \cup {Nil}]],
         \A v \in Voter, d \in BallotId : d # b => receipts'[v][d] = receipts[v][d],
         UNCHANGED <<now, listVars, leaderboards, weight, recastable>>
  PROVE  /\ TypeOK' /\ WindowsOrdered' /\ BallotsOwnRows'
         /\ proposals'[ReferenceOf(b)] = row
         /\ ProposalBallots' = ProposalBallots
         /\ BoardBallots' = BoardBallots
         /\ Rows(ballots)' = Rows(ballots)
         /\ \A d \in BallotId : d # b => Fits(d)'
<1> DEFINE r == ReferenceOf(b)
<1>1. r \in Rows(proposals) /\ r \in BallotId
  BY RowTypes DEF Inv, BallotsOwnRows
<1>2. /\ proposals' \in [BallotId -> Proposal \cup {Nil}]
      /\ Rows(proposals') = Rows(proposals)
      /\ proposals'[r] = row
      /\ \A s \in BallotId : s # r => proposals'[s] = proposals[s]
  BY <1>1, ConstantsAssumption DEF Inv, TypeOK, Rows
<1>3. TypeOK'
  BY <1>2 DEF Inv, TypeOK, listVars
<1>4. WindowsOrdered'
  BY <1>2, RowTypes DEF Inv, WindowsOrdered, Rows
<1>5. BallotsOwnRows'
  BY <1>2 DEF Inv, BallotsOwnRows, ProposalBallots, BoardBallots, ReferenceOf, listVars
<1>6. now \in Nat /\ now' = now
  BY FieldTypes DEF Inv, TypeOK
<1>7. ASSUME NEW d \in BallotId, d # b
      PROVE  Fits(d)'
  <2>1. ASSUME d \in ProposalBallots
        PROVE  LET old == proposals[ReferenceOf(d)]
                   new == proposals'[ReferenceOf(d)]
               IN  SameWindow(new, old) /\ new.cycle_count = old.cycle_count
    <3>1. ReferenceOf(d) \in BallotId /\ ReferenceOf(d) # r
      BY <1>7, <2>1, RowTypes, BallotTables DEF Inv, ProposalBallots
    <3>2. QED
      BY <1>2, <3>1 DEF SameWindow
  <2>2. ASSUME d \in BoardBallots
        PROVE  LET old == leaderboards[ReferenceOf(d)]
                   new == leaderboards'[ReferenceOf(d)]
               IN  /\ SameWindow(new, old)
                   /\ \/ now < old.begin_time
                      \/ new.candidates \in Seq(Candidate) /\ DOMAIN new.candidates = DOMAIN old.candidates
    BY <2>2, RowTypes, FieldTypes DEF Inv, BallotsOwnRows, SameWindow
  <2>3. /\ ballots'[d] = ballots[d] /\ now <= now'
        /\ \A v \in Voter : receipts'[v][d] = receipts[v][d]
    BY <1>6, <1>7 DEF listVars
  <2>4. QED
    BY <1>3, <2>1, <2>2, <2>3, FitsFrame DEF Inv
<1>8. QED
  BY <1>2, <1>3, <1>4, <1>5, <1>7 DEF listVars, ProposalBallots, BoardBallots

\* The row of a proposal after a cycle.
LEMMA CycledRow ==
  ASSUME NEW old \in Proposal, NEW begin \in Time, NEW end \in Time,
         old.cycle_count < MaxCycle, NEW row, row = Cycled(old, begin, end)
  PROVE  /\ row \in Proposal
         /\ row.begin_time = begin /\ row.end_time = end /\ row.unique_voters = 0
         /\ row.cycle_count = old.cycle_count + 1
         /\ row.counts = [d \in Direction |-> 0]
<1>1. old.cycle_count + 1 \in 0..MaxCycle
  BY ConstantsAssumption DEF Proposal
<1>2. [d \in Direction |-> 0] \in [Direction -> Int]
  OBVIOUS
<1>3. row \in Proposal
  BY <1>1, <1>2, ConstantsAssumption DEF Proposal, Cycled
<1>4. /\ row.begin_time = begin /\ row.end_time = end /\ row.unique_voters = 0
      /\ row.counts = [d \in Direction |-> 0]
  BY DEF Proposal, Cycled
<1>5. row.cycle_count = old.cycle_count + 1
  BY DEF Proposal, Cycled
<1>6. QED
  BY <1>3, <1>4, <1>5

\* A new cycle starts without votes, and all receipts of the old ones have
\* expired: none can expire at the end of the new window while it is open.
LEMMA NextCycleInv ==
  ASSUME Inv, NEW b \in BallotId, NEW begin \in Time, NEW end \in Time, NextCycle(b, begin, end)
  PROVE  Inv'
<1> DEFINE r == ReferenceOf(b)
           row == Cycled(proposals[r], begin, end)
<1>1. /\ b \in ProposalBallots /\ r \in Rows(proposals)
      /\ ~ VotingOpen(proposals[r])
      /\ proposals[r].cycle_count < MaxCycle
      /\ proposals' = [proposals EXCEPT ![r] = row]
      /\ begin < end
      /\ UNCHANGED <<now, listVars, leaderboards, receipts, weight, recastable>>
  BY DEF NextCycle, IsBallot, ProposalBallots, voterVars
<1>2. proposals[r] \in Proposal
  BY <1>1, RowTypes DEF Inv
<1>3. /\ row \in Proposal
      /\ row.begin_time = begin /\ row.end_time = end /\ row.unique_voters = 0
      /\ row.cycle_count = proposals[r].cycle_count + 1
  BY <1>1, <1>2, CycledRow
<1> HIDE DEF row
<1>4. /\ TypeOK' /\ WindowsOrdered' /\ BallotsOwnRows'
      /\ proposals'[ReferenceOf(b)] = row
      /\ ProposalBallots' = ProposalBallots
      /\ BoardBallots' = BoardBallots
      /\ Rows(ballots)' = Rows(ballots)
      /\ \A d \in BallotId : d # b => Fits(d)'
  <2>1. receipts' \in [Voter -> [BallotId -> Receipt \cup {Nil}]]
    BY <1>1 DEF Inv, TypeOK
  <2>2. QED
    BY <1>1, <1>3, <2>1, ProposalRowReplaced
<1>5. \A v \in Voter : receipts[v][b] # Nil =>
        receipts[v][b].expiration < now /\ receipts[v][b].expiration \in Int
  BY <1>1, RowTypes, FieldTypes, OldReceipts DEF Inv
<1>6. row.cycle_count > 0 /\ now \in Int /\ end \in Int
  BY <1>2, <1>3, FieldTypes DEF Inv, TypeOK
<1>7. now <= end => VotersOf(b, end) = {}
  BY <1>5, <1>6 DEF VotersOf, IsOfCycle
<1>8. VotersOf(b, end)' = VotersOf(b, end) /\ ReferenceOf(b)' = ReferenceOf(b)
  BY <1>1 DEF VotersOf, ReferenceOf, listVars
<1>9. ProposalFits(b)'
  BY <1>1, <1>3, <1>4, <1>5, <1>6, <1>7, <1>8, FS_EmptySet DEF ProposalFits, VotersOf
<1>10. b \notin BoardBallots' /\ b \in Rows(ballots)'
  BY <1>1, <1>4 DEF BoardBallots, ProposalBallots
<1>11. Fits(b)'
  BY <1>9, <1>10 DEF Fits
<1>12. QED
  BY <1>4, <1>11 DEF Inv

\* deloldvotes takes only what has expired, which no open ballot counts.
LEMMA DelOldVotesInv ==
  ASSUME Inv, NEW w \in Voter, NEW n \in NumDeletes, DelOldVotes(w, n)
  PROVE  Inv'
<1>1. UNCHANGED <<now, listVars, proposals, leaderboards, weight, recastable>>
  BY DEF DelOldVotes
<1>2. \A v \in Voter, b \in BallotId :
        \/ receipts'[v][b] = receipts[v][b]
        \/ Expired(receipts[v][b]) /\ receipts'[v][b] = Nil
  BY DEF DelOldVotes, Inv, TypeOK
<1>3. receipts' \in [Voter -> [BallotId -> Receipt \cup {Nil}]]
  BY DEF DelOldVotes, Inv, TypeOK
<1>4. TypeOK'
  BY <1>1, <1>3 DEF Inv, TypeOK, listVars
<1>5. WindowsOrdered' /\ BallotsOwnRows'
  BY <1>1 DEF Inv, WindowsOrdered, BallotsOwnRows, ProposalBallots, BoardBallots, Rows,
              ReferenceOf, listVars
<1>6. ASSUME NEW b \in BallotId
      PROVE  Fits(b)'
  <2>1. \A v \in Voter : receipts'[v][b] # Nil => receipts'[v][b] = receipts[v][b]
    BY <1>2
  <2>2. \A t : now <= t => {v \in Voter : IsOfCycle(receipts'[v][b], t)} = VotersOf(b, t)
    <3>1. ASSUME NEW t, now <= t, NEW v \in Voter, IsOfCycle(receipts[v][b], t)
          PROVE  receipts'[v][b] = receipts[v][b]
      <4>1. receipts[v][b].expiration = t /\ t \in Int /\ now \in Int
        BY <3>1, RowTypes, FieldTypes DEF IsOfCycle, Inv, TypeOK
      <4>2. ~ (t < now)
        BY <3>1, <4>1
      <4>3. QED
        BY <1>2, <4>1, <4>2 DEF Expired
    <3>2. QED
      BY <2>1, <3>1 DEF VotersOf, IsOfCycle
  <2>3. /\ b \in Rows(ballots)' <=> b \in Rows(ballots)
        /\ b \in ProposalBallots' <=> b \in ProposalBallots
        /\ b \in BoardBallots' <=> b \in BoardBallots
        /\ ReferenceOf(b)' = ReferenceOf(b)
    BY <1>1 DEF Rows, ProposalBallots, BoardBallots, ReferenceOf, listVars
  <2>4. ASSUME ProposalFits(b)
        PROVE  ProposalFits(b)'
    BY <1>1, <2>1, <2>2, <2>3, <2>4 DEF ProposalFits, VotersOf
  <2>5. ASSUME BoardFits(b)
        PROVE  BoardFits(b)'
    BY <1>1, <2>1, <2>2, <2>3, <2>5 DEF BoardFits, VotersOf
  <2>6. QED
    BY <2>1, <2>3, <2>4, <2>5 DEF Inv, Fits
<1>7. QED
  BY <1>4, <1>5, <1>6 DEF Inv

-----------------------------------------------------------------------------
(* Votes *)

\* A voter joins those who have voted.
LEMMA VoterJoins ==
  ASSUME NEW S \in SUBSET Voter, NEW T \in SUBSET Voter, NEW v \in Voter, v \in T,
         \A w \in Voter : w # v => (w \in T <=> w \in S)
  PROVE  Cardinality(T) = Cardinality(S) + (IF v \in S THEN 0 ELSE 1)
<1>1. IsFiniteSet(S)
  BY ConstantsAssumption, FS_Subset
<1>2. T = S \cup {v}
  OBVIOUS
<1>3. Cardinality(S) \in Nat
  BY <1>1, FS_CardinalityType
<1>4. QED
  BY <1>1, <1>2, <1>3, FS_AddElement

\* One receipt is written.
LEMMA ReceiptWritten ==
  ASSUME NEW old \in [Voter -> [BallotId -> Receipt \cup {Nil}]],
         NEW v \in Voter, NEW b \in BallotId, NEW rec \in Receipt, NEW mine, NEW new,
         mine = [old[v] EXCEPT ![b] = rec],
         new = [old EXCEPT ![v] = mine]
  PROVE  /\ new \in [Voter -> [BallotId -> Receipt \cup {Nil}]]
         /\ new[v][b] = rec
         /\ \A w \in Voter, d \in BallotId : w # v \/ d # b => new[w][d] = old[w][d]
<1>1. old[v] \in [BallotId -> Receipt \cup {Nil}]
  OBVIOUS
<1>2. /\ mine \in [BallotId -> Receipt \cup {Nil}]
      /\ mine[b] = rec /\ \A d \in BallotId : d # b => mine[d] = old[v][d]
  BY <1>1
<1>3. QED
  BY <1>2

\* The receipt of a vote.  One of another cycle has expired, so it is replaced.
LEMMA VotedReceipt ==
  ASSUME NEW vr, vr = Nil \/ vr \in Receipt, NEW d \in Direction, NEW w \in Nat,
         NEW end \in Time, vr # Nil => vr.expiration <= end,
         NEW rec, rec = ProposalReceipt(vr, d, w, end)
  PROVE  /\ rec \in Receipt /\ rec.expiration = end
         /\ rec = vr \/ rec.weight = w
         /\ rec.directions[1] = d
         /\ IsOfCycle(vr, end) /\ vr.directions[1] = d => rec = vr
         /\ ~ (IsOfCycle(vr, end) /\ vr.directions[1] = d) => rec.weight = w
<1>1. CASE IsOfCycle(vr, end) /\ vr.directions[1] = d
  BY <1>1 DEF IsOfCycle, ProposalReceipt
<1>2. CASE ~ (IsOfCycle(vr, end) /\ vr.directions[1] = d)
  <2>1. d \in Nat /\ end \in Int
    BY FieldTypes DEF Direction
  <2>2. vr # Nil => vr.expiration \in Int
    BY FieldTypes
  <2>3. rec = [directions |-> <<d>>, weight |-> w, expiration |-> end]
    BY <1>2, <2>1, <2>2 DEF IsOfCycle, ProposalReceipt
  <2>4. QED
    BY <1>2, <2>1, <2>3 DEF Receipt
<1>3. QED
  BY <1>1, <1>2

\* What a vote for a proposal does to the rows: the voter's receipt is written,
\* the votes are counted again and a voter who is new in this cycle is counted.
ProposalVoted(v, b, d, rec, counts, n) ==
  LET prop == proposals[ReferenceOf(b)]
      recast == IsOfCycle(receipts[v][b], prop.end_time)
  IN  /\ rec = ProposalReceipt(receipts[v][b], d, weight[v], prop.end_time)
      /\ counts = Recounted(prop.counts, recast, receipts[v][b], d, weight[v])
      /\ n = prop.unique_voters + (IF recast THEN 0 ELSE 1)
      /\ receipts' \in [Voter -> [BallotId -> Receipt \cup {Nil}]]
      /\ receipts'[v][b] = rec
      /\ \A w \in Voter, e \in BallotId : w # v \/ e # b => receipts'[w][e] = receipts[w][e]
      /\ proposals' = [proposals EXCEPT ![ReferenceOf(b)] =
                         [prop EXCEPT !.counts = counts, !.unique_voters = n]]
\* When a vote for a proposal is cast, and what it leaves alone.
LEMMA ProposalVoteGuards ==
  ASSUME Inv, NEW v \in Voter, NEW b \in BallotId, NEW d \in Direction, VoteForProposal(v, b, d),
         NEW prop, prop = proposals[ReferenceOf(b)], NEW vr, vr = receipts[v][b]
  PROVE  /\ b \in ProposalBallots /\ ReferenceOf(b) \in Rows(proposals)
         /\ ReferenceOf(b) \in BallotId
         /\ prop \in Proposal /\ prop.end_time \in Time
         /\ prop.begin_time <= now /\ now <= prop.end_time
         /\ IsOfCycle(vr, prop.end_time) => recastable
         /\ UNCHANGED <<now, listVars, leaderboards, weight, recastable>>
         /\ weight[v] \in Nat
         /\ vr = Nil \/ vr \in Receipt
         /\ vr # Nil => vr.expiration <= prop.end_time
<1>1. /\ b \in ProposalBallots /\ ReferenceOf(b) \in Rows(proposals)
      /\ prop.begin_time <= now /\ now <= prop.end_time
      /\ IsOfCycle(vr, prop.end_time) => recastable
      /\ UNCHANGED <<now, listVars, leaderboards, weight, recastable>>
  BY DEF VoteForProposal, VotingOpen, IsBallot, ProposalBallots
<1>2. prop \in Proposal /\ ReferenceOf(b) \in BallotId /\ (vr = Nil \/ vr \in Receipt)
  BY <1>1, RowTypes DEF Inv
<1>3. prop.end_time \in Time
  BY <1>2 DEF Proposal
<1>4. weight[v] \in Nat
  <2>1. weight[v] \in Weight
    BY DEF Inv, TypeOK
  <2>2. QED
    BY <2>1, ConstantsAssumption
<1>5. vr # Nil => vr.expiration < now \/ vr.expiration = prop.end_time
  BY <1>1 DEF Inv, Fits, ProposalFits
<1>6. now \in Int /\ prop.end_time \in Int /\ (vr # Nil => vr.expiration \in Int)
  BY <1>2, FieldTypes DEF Inv, TypeOK
<1>7. vr # Nil => vr.expiration <= prop.end_time
  BY <1>1, <1>5, <1>6
<1>8. QED
  BY <1>1, <1>2, <1>3, <1>4, <1>7

\* The counts after a vote are counts.
LEMMA RecountedType ==
  ASSUME NEW counts \in [Direction -> Int], NEW recast, NEW vr, NEW d \in Direction, NEW w \in Nat,
         recast => vr \in Receipt
  PROVE  Recounted(counts, recast, vr, d, w) \in [Direction -> Int]
<1>1. recast => vr.weight \in Int
  BY FieldTypes
<1>2. QED
  BY <1>1 DEF Recounted

\* What a vote for a proposal does.
LEMMA ProposalVote ==
  ASSUME Inv, NEW v \in Voter, NEW b \in BallotId, NEW d \in Direction, VoteForProposal(v, b, d)
  PROVE  \E rec \in Receipt, counts \in [Direction -> Int], n \in Nat :
           ProposalVoted(v, b, d, rec, counts, n)
<1> DEFINE r == ReferenceOf(b)
           prop == proposals[r]
           vr == receipts[v][b]
           recast == IsOfCycle(vr, prop.end_time)
           rec == ProposalReceipt(vr, d, weight[v], prop.end_time)
           counts == Recounted(prop.counts, recast, vr, d, weight[v])
           n == prop.unique_voters + (IF recast THEN 0 ELSE 1)
           mine == [receipts[v] EXCEPT ![b] = rec]
<1>1. /\ r \in BallotId /\ prop \in Proposal /\ prop.end_time \in Time
      /\ weight[v] \in Nat /\ (vr = Nil \/ vr \in Receipt)
      /\ vr # Nil => vr.expiration <= prop.end_time
  BY ProposalVoteGuards
<1>2. prop.unique_voters \in Nat /\ prop.counts \in [Direction -> Int]
  BY <1>1, FieldTypes
<1>3. rec \in Receipt
  BY <1>1, VotedReceipt
<1>4. counts \in [Direction -> Int]
  BY <1>1, <1>2, RecountedType DEF IsOfCycle
<1>5. n \in Nat
  BY <1>2
<1>6. receipts' = [receipts EXCEPT ![v][b] = rec]
  BY DEF VoteForProposal
<1>7. proposals' = [proposals EXCEPT ![r].counts = counts,
                                     ![r].unique_voters = IF recast THEN @ ELSE @ + 1]
  BY DEF VoteForProposal
<1>8. n = IF recast THEN prop.unique_voters ELSE prop.unique_voters + 1
  BY <1>2
<1>9. receipts' = [receipts EXCEPT ![v] = mine] /\ mine = [receipts[v] EXCEPT ![b] = rec]
  BY <1>6
<1> HIDE DEF rec, counts, n, mine
<1>10. /\ receipts' \in [Voter -> [BallotId -> Receipt \cup {Nil}]]
       /\ receipts'[v][b] = rec
       /\ \A w \in Voter, e \in BallotId : w # v \/ e # b => receipts'[w][e] = receipts[w][e]
  <2>1. receipts \in [Voter -> [BallotId -> Receipt \cup {Nil}]]
    BY DEF Inv, TypeOK
  <2> HIDE DEF vr, prop, recast
  <2>2. QED
    BY <1>3, <1>9, <2>1, ReceiptWritten
<1>11. proposals' = [proposals EXCEPT ![r] = [prop EXCEPT !.counts = counts, !.unique_voters = n]]
  <2>1. proposals' = [proposals EXCEPT ![r].counts = counts, ![r].unique_voters = n]
    <3> HIDE DEF recast
    <3>1. QED
      BY <1>7, <1>8
  <2>2. QED
    BY <1>1, <2>1 DEF Inv, TypeOK
<1>12. ProposalVoted(v, b, d, rec, counts, n)
  BY <1>10, <1>11 DEF ProposalVoted, rec, counts, n
<1>13. QED
  BY <1>3, <1>4, <1>5, <1>12
\* A voter's receipt of this window is written: the voters of the window are
\* those of before and this one.
LEMMA VotersAfter ==
  ASSUME NEW v \in Voter, NEW b \in BallotId, NEW t, NEW rec \in Receipt,
         rec.expiration = t, receipts'[v][b] = rec,
         \A w \in Voter : w # v => receipts'[w][b] = receipts[w][b],
         NEW later, later = {w \in Voter : IsOfCycle(receipts'[w][b], t)}
  PROVE  Cardinality(later) =
           Cardinality(VotersOf(b, t)) + (IF IsOfCycle(receipts[v][b], t) THEN 0 ELSE 1)
<1> DEFINE earlier == VotersOf(b, t)
<1>1. rec # Nil
  BY ConstantsAssumption
<1>2. v \in later /\ \A w \in Voter : w # v => (w \in later <=> w \in earlier)
  BY <1>1 DEF VotersOf, IsOfCycle
<1>3. IsOfCycle(receipts[v][b], t) <=> v \in earlier
  BY DEF VotersOf
<1>4. later \in SUBSET Voter /\ earlier \in SUBSET Voter
  BY DEF VotersOf
<1> HIDE DEF earlier
<1>5. Cardinality(later) = Cardinality(earlier) + (IF v \in earlier THEN 0 ELSE 1)
  BY <1>2, <1>4, VoterJoins
<1>6. QED
  BY <1>3, <1>5 DEF earlier

\* A vote for a proposal counts a voter once in a cycle.
LEMMA VoteForProposalInv ==
  ASSUME Inv, NEW v \in Voter, NEW b \in BallotId, NEW d \in Direction, VoteForProposal(v, b, d)
  PROVE  Inv'
<1> DEFINE prop == proposals[ReferenceOf(b)]
           vr == receipts[v][b]
<1>1. /\ b \in ProposalBallots
      /\ prop \in Proposal /\ prop.end_time \in Time
      /\ prop.begin_time <= now /\ now <= prop.end_time
      /\ UNCHANGED <<now, listVars, leaderboards, weight, recastable>>
      /\ weight[v] \in Nat
      /\ vr = Nil \/ vr \in Receipt
      /\ vr # Nil => vr.expiration <= prop.end_time
  BY ProposalVoteGuards
<1>2. PICK rec \in Receipt, counts \in [Direction -> Int], n \in Nat :
        ProposalVoted(v, b, d, rec, counts, n)
  BY ProposalVote
<1> DEFINE row == [prop EXCEPT !.counts = counts, !.unique_voters = n]
           later == {w \in Voter : IsOfCycle(receipts'[w][b], prop.end_time)}
<1>3. /\ rec = ProposalReceipt(vr, d, weight[v], prop.end_time)
      /\ n = prop.unique_voters + (IF IsOfCycle(vr, prop.end_time) THEN 0 ELSE 1)
      /\ receipts' \in [Voter -> [BallotId -> Receipt \cup {Nil}]]
      /\ receipts'[v][b] = rec
      /\ \A w \in Voter, e \in BallotId : w # v \/ e # b => receipts'[w][e] = receipts[w][e]
      /\ proposals' = [proposals EXCEPT ![ReferenceOf(b)] = row]
  BY <1>2 DEF ProposalVoted
<1>4. rec.expiration = prop.end_time
  <2>1. rec = ProposalReceipt(vr, d, weight[v], prop.end_time)
    BY <1>3
  <2>2. /\ prop.end_time \in Time /\ weight[v] \in Nat /\ (vr = Nil \/ vr \in Receipt)
        /\ vr # Nil => vr.expiration <= prop.end_time
    BY <1>1
  <2> HIDE DEF prop, vr, row
  <2>3. QED
    BY <2>1, <2>2, VotedReceipt
<1>5. /\ row \in Proposal
      /\ row.begin_time = prop.begin_time /\ row.end_time = prop.end_time
      /\ row.cycle_count = prop.cycle_count
      /\ row.unique_voters = n
  <2>1. row = [prop EXCEPT !.counts = counts, !.unique_voters = n]
    OBVIOUS
  <2>2. prop \in Proposal /\ counts \in [Direction -> Int] /\ n \in Nat
    BY <1>1, <1>2
  <2> HIDE DEF row, prop
  <2>3. QED
    BY <2>1, <2>2 DEF Proposal
<1>6. prop.begin_time < prop.end_time
  BY <1>1 DEF Inv, BallotsOwnRows, WindowsOrdered
<1> HIDE DEF row
<1>7. /\ TypeOK' /\ WindowsOrdered' /\ BallotsOwnRows'
      /\ proposals'[ReferenceOf(b)] = row
      /\ ProposalBallots' = ProposalBallots
      /\ BoardBallots' = BoardBallots
      /\ Rows(ballots)' = Rows(ballots)
      /\ \A e \in BallotId : e # b => Fits(e)'
  BY <1>1, <1>3, <1>5, <1>6, ProposalRowReplaced
<1>8. ProposalFits(b) /\ ReferenceOf(b)' = ReferenceOf(b) /\ now' = now
  BY <1>1 DEF Inv, Fits, ReferenceOf, listVars
<1>9. Cardinality(later) = n
  <2>1. later = {w \in Voter : IsOfCycle(receipts'[w][b], prop.end_time)}
    OBVIOUS
  <2> HIDE DEF later
  <2>2. Cardinality(later) = Cardinality(VotersOf(b, prop.end_time))
                               + (IF IsOfCycle(vr, prop.end_time) THEN 0 ELSE 1)
    BY <1>3, <1>4, <2>1, VotersAfter
  <2>3. prop.unique_voters = Cardinality(VotersOf(b, prop.end_time))
    BY <1>1, <1>8 DEF ProposalFits
  <2> HIDE DEF prop, vr
  <2>4. QED
    BY <1>3, <2>2, <2>3
<1>10. ProposalFits(b)'
  <2>1. \A w \in Voter : receipts'[w][b] # Nil =>
          \/ receipts'[w][b].expiration < now' /\ row.cycle_count > 0
          \/ receipts'[w][b].expiration = row.end_time /\ row.begin_time <= now'
    BY <1>1, <1>3, <1>4, <1>5, <1>8 DEF ProposalFits
  <2>2. row.unique_voters = Cardinality(later)
    BY <1>5, <1>9
  <2> HIDE DEF prop, vr
  <2>3. QED
    BY <1>5, <1>7, <1>8, <2>1, <2>2 DEF ProposalFits, VotersOf
<1>11. b \notin BoardBallots' /\ b \in Rows(ballots)'
  BY <1>1, <1>7 DEF BoardBallots, ProposalBallots
<1>12. Fits(b)'
  BY <1>10, <1>11 DEF Fits
<1>13. QED
  BY <1>7, <1>12 DEF Inv
\* The row of a leaderboard is replaced by one with the same, ordered window,
\* and only receipts for it are written: the rest of the invariant holds.
LEMMA BoardRowReplaced ==
  ASSUME Inv, NEW b \in BoardBallots, NEW row \in Leaderboard,
         row.begin_time < row.end_time,
         leaderboards' = [leaderboards EXCEPT ![ReferenceOf(b)] = row],
         receipts' \in [Voter -> [BallotId -> Receipt \cup {Nil}]],
         \A v \in Voter, d \in BallotId : d # b => receipts'[v][d] = receipts[v][d],
         UNCHANGED <<now, listVars, proposals, weight, recastable>>
  PROVE  /\ TypeOK' /\ WindowsOrdered' /\ BallotsOwnRows'
         /\ leaderboards'[ReferenceOf(b)] = row
         /\ ProposalBallots' = ProposalBallots
         /\ BoardBallots' = BoardBallots
         /\ Rows(ballots)' = Rows(ballots)
         /\ \A d \in BallotId : d # b => Fits(d)'
<1> DEFINE r == ReferenceOf(b)
<1>1. r \in Rows(leaderboards) /\ r \in BallotId
  BY RowTypes DEF Inv, BallotsOwnRows
<1>2. /\ leaderboards' \in [BallotId -> Leaderboard \cup {Nil}]
      /\ Rows(leaderboards') = Rows(leaderboards)
      /\ leaderboards'[r] = row
      /\ \A s \in BallotId : s # r => leaderboards'[s] = leaderboards[s]
  BY <1>1, ConstantsAssumption DEF Inv, TypeOK, Rows
<1>3. TypeOK'
  BY <1>2 DEF Inv, TypeOK, listVars
<1>4. WindowsOrdered'
  BY <1>2, RowTypes DEF Inv, WindowsOrdered, Rows
<1>5. BallotsOwnRows'
  BY <1>2 DEF Inv, BallotsOwnRows, ProposalBallots, BoardBallots, ReferenceOf, listVars
<1>6. now \in Nat /\ now' = now
  BY FieldTypes DEF Inv, TypeOK
<1>7. ASSUME NEW d \in BallotId, d # b
      PROVE  Fits(d)'
  <2>1. ASSUME d \in BoardBallots
        PROVE  LET old == leaderboards[ReferenceOf(d)]
                   new == leaderboards'[ReferenceOf(d)]
               IN  /\ SameWindow(new, old)
                   /\ \/ now < old.begin_time
                      \/ new.candidates \in Seq(Candidate) /\ DOMAIN new.candidates = DOMAIN old.candidates
    <3>1. ReferenceOf(d) \in BallotId /\ ReferenceOf(d) # r
      BY <1>7, <2>1, RowTypes, BallotTables DEF Inv, BoardBallots
    <3>2. leaderboards[ReferenceOf(d)] \in Leaderboard
      BY <2>1, RowTypes DEF Inv, BallotsOwnRows
    <3>3. QED
      BY <1>2, <3>1, <3>2, FieldTypes DEF SameWindow
  <2>2. ASSUME d \in ProposalBallots
        PROVE  LET old == proposals[ReferenceOf(d)]
                   new == proposals'[ReferenceOf(d)]
               IN  SameWindow(new, old) /\ new.cycle_count = old.cycle_count
    BY DEF SameWindow
  <2>3. /\ ballots'[d] = ballots[d] /\ now <= now'
        /\ \A v \in Voter : receipts'[v][d] = receipts[v][d]
    BY <1>6, <1>7 DEF listVars
  <2>4. QED
    BY <1>3, <2>1, <2>2, <2>3, FitsFrame DEF Inv
<1>8. QED
  BY <1>2, <1>3, <1>4, <1>5, <1>7 DEF listVars, ProposalBallots, BoardBallots

\* A receipt has the candidates of another one and candidate d.
OneMore(rec, vr, d) ==
  \A i \in DOMAIN rec.directions :
    \/ rec.directions[i] = d
    \/ /\ vr # Nil /\ i \in DOMAIN vr.directions
       /\ rec.directions[i] = vr.directions[i]

\* The receipt of a vote for candidate d of a leaderboard.
LEMMA BoardReceiptWritten ==
  ASSUME NEW vr, vr = Nil \/ vr \in Receipt, NEW d \in Nat, NEW w \in Nat,
         NEW end \in Time, vr # Nil => vr.expiration = end,
         NEW rec, rec = BoardReceipt(vr, d, w, end)
  PROVE  /\ rec \in Receipt /\ rec.expiration = end
         /\ Contains(rec.directions, d)
         /\ vr # Nil => \A k : Contains(vr.directions, k) => Contains(rec.directions, k)
         /\ OneMore(rec, vr, d)
<1>1. CASE vr = Nil
  <2>1. rec = [directions |-> <<d>>, weight |-> w, expiration |-> end]
    BY <1>1 DEF BoardReceipt, IsOfCycle
  <2>2. rec \in Receipt /\ rec.directions = <<d>> /\ rec.expiration = end
    BY <2>1 DEF Receipt
  <2>3. QED
    <3>1. Contains(rec.directions, d)
      BY <2>2 DEF Contains
    <3>2. OneMore(rec, vr, d)
      BY <2>2 DEF OneMore
    <3>3. QED
      BY <1>1, <2>2, <3>1, <3>2
<1>2. CASE vr # Nil
  <2>1. rec = [vr EXCEPT !.directions = Append(@, d)]
    BY <1>2 DEF BoardReceipt, IsOfCycle
  <2>2. vr \in Receipt /\ vr.directions \in Seq(Nat)
    BY <1>2, FieldTypes
  <2>3. rec \in Receipt /\ rec.directions = Append(vr.directions, d) /\ rec.expiration = end
    <3> DEFINE longer == Append(vr.directions, d)
    <3>1. longer \in Seq(Nat)
      BY <2>2
    <3>2. rec = [vr EXCEPT !.directions = longer]
      BY <2>1
    <3> HIDE DEF longer
    <3>3. rec \in Receipt /\ rec.directions = longer /\ rec.expiration = vr.expiration
      BY <2>2, <3>1, <3>2 DEF Receipt
    <3>4. QED
      BY <1>2, <3>3 DEF longer
  <2>4. /\ Len(rec.directions) = Len(vr.directions) + 1
        /\ rec.directions[Len(vr.directions) + 1] = d
        /\ \A i \in 1..Len(vr.directions) : rec.directions[i] = vr.directions[i]
        /\ rec.directions \in Seq(Nat)
    BY <2>2, <2>3
  <2> DEFINE l == Len(vr.directions)
  <2>5. l \in Nat /\ DOMAIN rec.directions = 1..(l + 1) /\ DOMAIN vr.directions = 1..l
    BY <2>2, <2>4
  <2> HIDE DEF l
  <2>6. \A i \in 1..(l + 1) : i = l + 1 \/ i \in 1..l
    BY <2>5
  <2>7. l + 1 \in DOMAIN rec.directions /\ rec.directions[l + 1] = d
    BY <2>4, <2>5 DEF l
  <2>8. Contains(rec.directions, d)
    BY <2>7 DEF Contains
  <2>9. \A k : Contains(vr.directions, k) => Contains(rec.directions, k)
    <3>1. /\ 1..Len(vr.directions) \subseteq 1..Len(rec.directions)
          /\ \A i \in 1..Len(vr.directions) : rec.directions[i] = vr.directions[i]
      BY <2>4, <2>5 DEF l
    <3>2. QED
      BY <3>1, Zenon DEF Contains
  <2>10. OneMore(rec, vr, d)
    BY <1>2, <2>3, <2>4, <2>5, <2>6 DEF l, OneMore
  <2>11. QED
    BY <2>3, <2>8, <2>9, <2>10
<1>3. QED
  BY <1>1, <1>2
\* When a vote for a leaderboard is cast, and what it leaves alone.  A receipt
\* for the board is of its window.
LEMMA BoardVoteGuards ==
  ASSUME Inv, NEW v \in Voter, NEW b \in BallotId, NEW d \in Nat, VoteForLeaderboard(v, b, d),
         NEW board, board = leaderboards[ReferenceOf(b)], NEW vr, vr = receipts[v][b]
  PROVE  /\ b \in BoardBallots /\ ReferenceOf(b) \in Rows(leaderboards)
         /\ ReferenceOf(b) \in BallotId
         /\ board \in Leaderboard /\ board.end_time \in Time /\ board.candidates \in Seq(Candidate)
         /\ board.begin_time <= now /\ now <= board.end_time
         /\ d + 1 \in DOMAIN board.candidates
         /\ IsOfCycle(vr, board.end_time) => ~ Contains(vr.directions, d)
         /\ UNCHANGED <<now, listVars, proposals, weight, recastable>>
         /\ weight[v] \in Nat
         /\ vr = Nil \/ vr \in Receipt
         /\ vr # Nil => vr.expiration = board.end_time
<1>1. /\ b \in BoardBallots /\ ReferenceOf(b) \in Rows(leaderboards)
      /\ board.begin_time <= now /\ now <= board.end_time
      /\ d + 1 \in DOMAIN board.candidates
      /\ IsOfCycle(vr, board.end_time) => ~ Contains(vr.directions, d)
      /\ UNCHANGED <<now, listVars, proposals, weight, recastable>>
  BY DEF VoteForLeaderboard, VotingOpen, IsBallot, BoardBallots, ProposalBallots,
         LEADERBOARD, PROPOSAL
<1>2. board \in Leaderboard /\ ReferenceOf(b) \in BallotId /\ (vr = Nil \/ vr \in Receipt)
  BY <1>1, RowTypes DEF Inv
<1>3. board.end_time \in Time /\ board.candidates \in Seq(Candidate)
  BY <1>2 DEF Leaderboard
<1>4. weight[v] \in Nat
  <2>1. weight[v] \in Weight
    BY DEF Inv, TypeOK
  <2>2. QED
    BY <2>1, ConstantsAssumption
<1>5. vr # Nil => vr.expiration = board.end_time
  BY <1>1 DEF Inv, Fits, BoardFits
<1>6. QED
  BY <1>1, <1>2, <1>3, <1>4, <1>5

\* What a vote for a leaderboard does to the rows: the voter's receipt is
\* written, the candidate gets the votes, and a voter without a receipt for the
\* board is counted.
BoardVoted(v, b, d, rec, list, n) ==
  LET board == leaderboards[ReferenceOf(b)]
      vr == receipts[v][b]
  IN  /\ rec.expiration = board.end_time
      /\ Contains(rec.directions, d)
      /\ vr # Nil => \A k : Contains(vr.directions, k) => Contains(rec.directions, k)
      /\ OneMore(rec, vr, d)
      /\ n = board.unique_voters + (IF IsOfCycle(vr, board.end_time) THEN 0 ELSE 1)
      /\ DOMAIN list = DOMAIN board.candidates /\ Len(list) = Len(board.candidates)
      /\ \A j \in DOMAIN board.candidates : j # d + 1 => list[j] = board.candidates[j]
      /\ \A j \in DOMAIN board.candidates : list[j].member = board.candidates[j].member
      /\ receipts' \in [Voter -> [BallotId -> Receipt \cup {Nil}]]
      /\ receipts'[v][b] = rec
      /\ \A w \in Voter, e \in BallotId : w # v \/ e # b => receipts'[w][e] = receipts[w][e]
      /\ leaderboards' = [leaderboards EXCEPT ![ReferenceOf(b)] =
                            [board EXCEPT !.candidates = list, !.unique_voters = n]]

\* What a vote for a leaderboard does.
LEMMA BoardVote ==
  ASSUME Inv, NEW v \in Voter, NEW b \in BallotId, NEW d \in Nat, VoteForLeaderboard(v, b, d)
  PROVE  \E rec \in Receipt, list \in Seq(Candidate), n \in Nat :
           BoardVoted(v, b, d, rec, list, n)
<1> DEFINE r == ReferenceOf(b)
           board == leaderboards[r]
           old == board.candidates
           vr == receipts[v][b]
           again == IsOfCycle(vr, board.end_time)
           rec == BoardReceipt(vr, d, weight[v], board.end_time)
           i == d + 1
           cand == [old[i] EXCEPT !.votes = @ + weight[v]]
           list == [old EXCEPT ![i] = cand]
           n == board.unique_voters + (IF again THEN 0 ELSE 1)
           mine == [receipts[v] EXCEPT ![b] = rec]
<1>1. /\ r \in BallotId /\ board \in Leaderboard /\ board.end_time \in Time
      /\ weight[v] \in Nat /\ (vr = Nil \/ vr \in Receipt)
      /\ vr # Nil => vr.expiration = board.end_time
      /\ old \in Seq(Candidate) /\ i \in DOMAIN old
  BY BoardVoteGuards
<1>2. board.unique_voters \in Nat
  BY <1>1, FieldTypes
<1>3. /\ rec \in Receipt /\ rec.expiration = board.end_time
      /\ Contains(rec.directions, d)
      /\ vr # Nil => \A k : Contains(vr.directions, k) => Contains(rec.directions, k)
      /\ OneMore(rec, vr, d)
  <2>1. \A w \in Nat, end \in Time : (vr # Nil => vr.expiration = end) =>
          LET new == BoardReceipt(vr, d, w, end)
          IN  /\ new \in Receipt /\ new.expiration = end
              /\ Contains(new.directions, d)
              /\ vr # Nil => \A k : Contains(vr.directions, k) => Contains(new.directions, k)
              /\ OneMore(new, vr, d)
    <3> HIDE DEF vr
    <3>1. QED
      BY <1>1, BoardReceiptWritten, Zenon
  <2> HIDE DEF board, vr
  <2>2. QED
    BY <1>1, <2>1, Zenon
<1>4. /\ list \in Seq(Candidate) /\ DOMAIN list = DOMAIN old /\ Len(list) = Len(old)
      /\ \A j \in DOMAIN old : j # i => list[j] = old[j]
      /\ \A j \in DOMAIN old : list[j].member = old[j].member
  <2>1. old \in Seq(Candidate) /\ i \in DOMAIN old /\ weight[v] \in Nat
    BY <1>1
  <2>2. old[i] \in Candidate
    BY <2>1
  <2> HIDE DEF old, i
  <2>3. cand \in Candidate /\ cand.member = old[i].member
    BY <2>1, <2>2 DEF Candidate
  <2> HIDE DEF cand
  <2>4. /\ list \in Seq(Candidate) /\ DOMAIN list = DOMAIN old /\ Len(list) = Len(old)
        /\ \A j \in DOMAIN old : j # i => list[j] = old[j]
    BY <2>1, <2>3
  <2>5. list[i] = cand
    BY <2>1
  <2>6. QED
    BY <2>3, <2>4, <2>5
<1>5. n \in Nat
  BY <1>2
<1>6. receipts' = [receipts EXCEPT ![v][b] = rec]
  BY DEF VoteForLeaderboard
<1>7. leaderboards' = [leaderboards EXCEPT
        ![r].candidates[i].votes = @ + weight[v],
        ![r].unique_voters = IF again THEN @ ELSE @ + 1]
  BY DEF VoteForLeaderboard
<1>8. n = IF again THEN board.unique_voters ELSE board.unique_voters + 1
  BY <1>2
<1>9. receipts' = [receipts EXCEPT ![v] = mine] /\ mine = [receipts[v] EXCEPT ![b] = rec]
  BY <1>6
<1> HIDE DEF rec, n, mine
<1>10. /\ receipts' \in [Voter -> [BallotId -> Receipt \cup {Nil}]]
       /\ receipts'[v][b] = rec
       /\ \A w \in Voter, e \in BallotId : w # v \/ e # b => receipts'[w][e] = receipts[w][e]
  <2>1. receipts \in [Voter -> [BallotId -> Receipt \cup {Nil}]]
    BY DEF Inv, TypeOK
  <2> HIDE DEF vr, board, again
  <2>2. QED
    BY <1>3, <1>9, <2>1, ReceiptWritten
<1>11. leaderboards' = [leaderboards EXCEPT ![r] = [board EXCEPT !.candidates = list, !.unique_voters = n]]
  <2>1. leaderboards' = [leaderboards EXCEPT ![r].candidates[i].votes = @ + weight[v],
                                             ![r].unique_voters = n]
    <3> HIDE DEF again, i
    <3>1. QED
      BY <1>7, <1>8
  <2>2. leaderboards' = [leaderboards EXCEPT ![r].candidates = list, ![r].unique_voters = n]
    BY <2>1
  <2> HIDE DEF list
  <2>3. QED
    BY <1>1, <2>2 DEF Inv, TypeOK
<1>12. BoardVoted(v, b, d, rec, list, n)
  BY <1>3, <1>4, <1>10, <1>11 DEF BoardVoted, n
<1> HIDE DEF list
<1>13. QED
  BY <1>3, <1>4, <1>5, <1>12
\* A vote for a leaderboard counts a voter once, and is for one of its candidates.
LEMMA VoteForLeaderboardInv ==
  ASSUME Inv, NEW v \in Voter, NEW b \in BallotId, NEW d \in Nat, VoteForLeaderboard(v, b, d)
  PROVE  Inv'
<1> DEFINE board == leaderboards[ReferenceOf(b)]
           vr == receipts[v][b]
<1>1. /\ b \in BoardBallots
      /\ board \in Leaderboard /\ board.end_time \in Time /\ board.candidates \in Seq(Candidate)
      /\ board.begin_time <= now /\ now <= board.end_time
      /\ d + 1 \in DOMAIN board.candidates
      /\ UNCHANGED <<now, listVars, proposals, weight, recastable>>
      /\ weight[v] \in Nat
      /\ vr = Nil \/ vr \in Receipt
      /\ vr # Nil => vr.expiration = board.end_time
  BY BoardVoteGuards
<1>2. PICK rec \in Receipt, list \in Seq(Candidate), n \in Nat :
        BoardVoted(v, b, d, rec, list, n)
  BY BoardVote
<1> DEFINE row == [board EXCEPT !.candidates = list, !.unique_voters = n]
           later == {w \in Voter : IsOfCycle(receipts'[w][b], board.end_time)}
<1>3. /\ n = board.unique_voters + (IF IsOfCycle(vr, board.end_time) THEN 0 ELSE 1)
      /\ Len(list) = Len(board.candidates)
      /\ receipts' \in [Voter -> [BallotId -> Receipt \cup {Nil}]]
      /\ receipts'[v][b] = rec
      /\ \A w \in Voter, e \in BallotId : w # v \/ e # b => receipts'[w][e] = receipts[w][e]
      /\ leaderboards' = [leaderboards EXCEPT ![ReferenceOf(b)] = row]
  BY <1>2 DEF BoardVoted
<1>4. /\ rec.expiration = board.end_time
      /\ OneMore(rec, vr, d)
  BY <1>2 DEF BoardVoted
<1>5. /\ row \in Leaderboard
      /\ row.begin_time = board.begin_time /\ row.end_time = board.end_time
      /\ row.candidates = list
      /\ row.unique_voters = n
  <2>1. row = [board EXCEPT !.candidates = list, !.unique_voters = n]
    OBVIOUS
  <2>2. board \in Leaderboard /\ list \in Seq(Candidate) /\ n \in Nat
    BY <1>1, <1>2
  <2> HIDE DEF row, board
  <2>3. QED
    BY <2>1, <2>2 DEF Leaderboard
<1>6. board.begin_time < board.end_time
  BY <1>1 DEF Inv, BallotsOwnRows, WindowsOrdered
<1> HIDE DEF row
<1>7. /\ TypeOK' /\ WindowsOrdered' /\ BallotsOwnRows'
      /\ leaderboards'[ReferenceOf(b)] = row
      /\ ProposalBallots' = ProposalBallots
      /\ BoardBallots' = BoardBallots
      /\ Rows(ballots)' = Rows(ballots)
      /\ \A e \in BallotId : e # b => Fits(e)'
  BY <1>1, <1>3, <1>5, <1>6, BoardRowReplaced
<1>8. BoardFits(b) /\ ReferenceOf(b)' = ReferenceOf(b) /\ now' = now
  BY <1>1 DEF Inv, Fits, ReferenceOf, listVars
<1>9. Cardinality(later) = n
  <2>1. later = {w \in Voter : IsOfCycle(receipts'[w][b], board.end_time)}
    OBVIOUS
  <2> HIDE DEF later
  <2>2. Cardinality(later) = Cardinality(VotersOf(b, board.end_time))
                               + (IF IsOfCycle(vr, board.end_time) THEN 0 ELSE 1)
    BY <1>3, <1>4, <2>1, VotersAfter
  <2>3. board.unique_voters = Cardinality(VotersOf(b, board.end_time))
    BY <1>1, <1>8 DEF BoardFits
  <2> HIDE DEF board, vr
  <2>4. QED
    BY <1>3, <2>2, <2>3
<1>10. \A i \in DOMAIN rec.directions : rec.directions[i] < Len(list)
  <2>1. d < Len(board.candidates)
    BY <1>1
  <2>2. vr # Nil => \A i \in DOMAIN vr.directions : vr.directions[i] < Len(board.candidates)
    BY <1>8 DEF BoardFits
  <2>3. QED
    BY <1>3, <1>4, <2>1, <2>2 DEF OneMore
<1>11. BoardFits(b)'
  <2>1. \A w \in Voter : receipts'[w][b] # Nil =>
          /\ receipts'[w][b].expiration = row.end_time
          /\ row.begin_time <= now'
          /\ \A i \in DOMAIN receipts'[w][b].directions :
               receipts'[w][b].directions[i] < Len(row.candidates)
    <3>1. ASSUME NEW w \in Voter, w # v, receipts'[w][b] # Nil
          PROVE  /\ receipts'[w][b].expiration = row.end_time
                 /\ \A i \in DOMAIN receipts'[w][b].directions :
                      receipts'[w][b].directions[i] < Len(row.candidates)
      BY <1>3, <1>5, <1>8, <3>1 DEF BoardFits
    <3>2. row.begin_time <= now'
      BY <1>1, <1>5, <1>8
    <3>3. QED
      BY <1>3, <1>4, <1>5, <1>10, <3>1, <3>2
  <2>2. row.unique_voters = Cardinality(later)
    BY <1>5, <1>9
  <2> HIDE DEF board, vr
  <2>3. QED
    BY <1>5, <1>7, <1>8, <2>1, <2>2 DEF BoardFits, VotersOf
<1>12. b \notin ProposalBallots' /\ b \in Rows(ballots)'
  BY <1>1, <1>7 DEF BoardBallots
<1>13. Fits(b)'
  BY <1>11, <1>12 DEF Fits
<1>14. QED
  BY <1>7, <1>13 DEF Inv

-----------------------------------------------------------------------------
(* The theorems *)

\* In the beginning there is nothing.
LEMMA InitInv == Init => Inv
<1> SUFFICES ASSUME Init
             PROVE  Inv
  OBVIOUS
<1>1. TypeOK
  BY ConstantsAssumption DEF Init, TypeOK, Time
<1>2. /\ Rows(ballots) = {} /\ Rows(proposals) = {} /\ Rows(leaderboards) = {}
      /\ ProposalBallots = {} /\ BoardBallots = {}
  BY DEF Init, Rows, ProposalBallots, BoardBallots
<1>3. WindowsOrdered
  BY <1>2 DEF WindowsOrdered
<1>4. BallotsOwnRows
  BY <1>2, FS_EmptySet DEF BallotsOwnRows, Init, PROPOSAL, LEADERBOARD
<1>5. ASSUME NEW b \in BallotId
      PROVE  Fits(b)
  BY <1>2 DEF Fits, Init
<1>6. QED
  BY <1>1, <1>3, <1>4, <1>5 DEF Inv

\* The kinds of steps.
StepKind ==
  \/ Passing
  \/ BoardChanged
  \/ ProposalClosed
  \/ \E p \in Publisher, begin, end \in Time :
       RegProposal(p, begin, end) \/ RegLeaderboard(p, begin, end)
  \/ \E p \in Publisher, b \in BallotId : UnregProposal(p, b) \/ UnregLeaderboard(p, b)
  \/ \E v \in Voter, n \in NumDeletes : DelOldVotes(v, n)
  \/ \E v \in Voter, b \in BallotId, d \in Direction : VoteForProposal(v, b, d)
  \/ \E v \in Voter, b \in BallotId, d \in Nat : VoteForLeaderboard(v, b, d)
  \/ \E b \in BallotId, begin, end \in Time : NextCycle(b, begin, end)

\* Every step is of one of these kinds.
LEMMA StepKinds == Inv /\ [Next]_vars => StepKind
<1> SUFFICES ASSUME Inv, [Next]_vars
             PROVE  StepKind
  OBVIOUS
<1>1. TypeOK
  BY DEF Inv
<1>2. CASE Tick \/ InitSettings \/ UNCHANGED vars
  BY <1>1, <1>2, PassingActions DEF StepKind
<1>3. CASE VoterNext
  <2> SUFFICES ASSUME NEW v \in Voter,
                      \/ WeightChanges(v)
                      \/ \E n \in NumDeletes : DelOldVotes(v, n)
                      \/ \E b \in BallotId :
                           \/ \E d \in Direction : VoteForProposal(v, b, d)
                           \/ /\ IsBallot(b, LEADERBOARD)
                              /\ \E i \in DOMAIN leaderboards[ReferenceOf(b)].candidates :
                                   VoteForLeaderboard(v, b, i - 1)
               PROVE  StepKind
    BY <1>3 DEF VoterNext
  <2>1. CASE WeightChanges(v)
    BY <1>1, <2>1, PassingActions DEF StepKind
  <2>2. CASE \E n \in NumDeletes : DelOldVotes(v, n)
    BY <2>2 DEF StepKind
  <2>3. ASSUME NEW b \in BallotId, NEW d \in Direction, VoteForProposal(v, b, d)
        PROVE  StepKind
    BY <2>3 DEF StepKind
  <2>4. ASSUME NEW b \in BallotId, IsBallot(b, LEADERBOARD),
               NEW i \in DOMAIN leaderboards[ReferenceOf(b)].candidates,
               VoteForLeaderboard(v, b, i - 1)
        PROVE  StepKind
    <3>1. b \in BoardBallots
      BY <2>4 DEF IsBallot, BoardBallots, ProposalBallots, LEADERBOARD, PROPOSAL
    <3>2. leaderboards[ReferenceOf(b)].candidates \in Seq(Candidate)
      BY <1>1, <3>1, RowTypes, FieldTypes DEF Inv, BallotsOwnRows
    <3>3. i - 1 \in Nat
      BY <3>2
    <3>4. QED
      BY <2>4, <3>3 DEF StepKind
  <2>5. QED
    BY <2>1, <2>2, <2>3, <2>4
<1>4. CASE PublisherNext
  <2> SUFFICES ASSUME NEW p \in Publisher,
                      \/ \E begin, end \in Time : RegProposal(p, begin, end) \/ RegLeaderboard(p, begin, end)
                      \/ \E b \in BallotId :
                           \/ UnregProposal(p, b) \/ UnregLeaderboard(p, b)
                           \/ \E m \in Member : AddCandidate(p, b, m) \/ RmvCandidate(p, b, m)
                           \/ \E list \in CandidateLists : SetAllCands(p, b, list)
                           \/ \E n \in NumSeats : SetSeats(p, b, n)
                           \/ SetAllStats(p, b)
                           \/ \E pass \in Status : CloseProposal(p, b, pass) \/ CloseLeaderboard(p, b, pass)
               PROVE  StepKind
    BY <1>4 DEF PublisherNext, BallotNext
  <2>1. ASSUME NEW begin \in Time, NEW end \in Time,
               RegProposal(p, begin, end) \/ RegLeaderboard(p, begin, end)
        PROVE  StepKind
    BY <2>1 DEF StepKind
  <2>2. ASSUME NEW b \in BallotId, UnregProposal(p, b) \/ UnregLeaderboard(p, b)
        PROVE  StepKind
    BY <2>2 DEF StepKind
  <2>3. ASSUME NEW b \in BallotId,
               \/ \E m \in Member : AddCandidate(p, b, m) \/ RmvCandidate(p, b, m)
               \/ \E list \in CandidateLists : SetAllCands(p, b, list)
               \/ \E n \in NumSeats : SetSeats(p, b, n)
               \/ SetAllStats(p, b)
               \/ \E pass \in Status : CloseLeaderboard(p, b, pass)
        PROVE  StepKind
    BY <1>1, <2>3, BoardActions, Zenon DEF StepKind
  <2>4. ASSUME NEW b \in BallotId, NEW pass \in Status, CloseProposal(p, b, pass)
        PROVE  StepKind
    BY <1>1, <2>4, CloseProposalAction DEF StepKind
  <2>5. QED
    BY <2>1, <2>2, <2>3, <2>4, Zenon
<1>5. CASE \E b \in BallotId, begin, end \in Time : NextCycle(b, begin, end)
  BY <1>5 DEF StepKind
<1>6. QED
  BY <1>2, <1>3, <1>4, <1>5 DEF Next

\* Every step keeps the invariant.
LEMMA NextInv == Inv /\ [Next]_vars => Inv'
<1> SUFFICES ASSUME Inv, [Next]_vars
             PROVE  Inv'
  OBVIOUS
<1>1. StepKind
  BY StepKinds
<1>2. QED
  BY <1>1, PassingInv, BoardChangedInv, ProposalClosedInv, RegProposalInv, RegLeaderboardInv,
     UnregProposalInv, UnregLeaderboardInv, DelOldVotesInv, VoteForProposalInv,
     VoteForLeaderboardInv, NextCycleInv DEF StepKind

\* The inductive invariant holds.
LEMMA InvHolds == Spec => []Inv
<1>1. Init => Inv
  BY InitInv
<1>2. Inv /\ [Next]_vars => Inv'
  BY NextInv
<1>3. QED
  BY <1>1, <1>2, PTL DEF Spec

\* The tables hold rows of their types.
THEOREM TrailTypes == Spec => []TypeOK
<1>1. Inv => TypeOK
  BY DEF Inv
<1>2. QED
  BY <1>1, InvHolds, PTL

\* Ballots and rows correspond one to one, although the ids of both are given
\* out again (regballot, unregballot).
THEOREM BallotsOwned == Spec => []BallotsOwnRows
<1>1. Inv => BallotsOwnRows
  BY DEF Inv
<1>2. QED
  BY <1>1, InvHolds, PTL

\* Receipts name ballots and candidates that are there (castvote, unregballot,
\* rmvcandidate, setallcands).
THEOREM ReceiptsFitted == Spec => []ReceiptsFit
<1>1. Inv => ReceiptsFit
  <2> SUFFICES ASSUME Inv, NEW v \in Voter, NEW b \in BallotId, receipts[v][b] # Nil
               PROVE  /\ b \in Rows(ballots)
                      /\ b \in BoardBallots =>
                           LET board == leaderboards[ReferenceOf(b)]
                           IN  /\ receipts[v][b].expiration = board.end_time
                               /\ \A i \in DOMAIN receipts[v][b].directions :
                                    receipts[v][b].directions[i] < Len(board.candidates)
    BY DEF ReceiptsFit
  <2>1. QED
    BY DEF Inv, Fits, BoardFits
<1>2. QED
  BY <1>1, InvHolds, PTL

\* Nobody is counted twice among the voters of a cycle, or left out (castvote,
\* nextcycle, deloldvotes).
THEOREM VotersCountedOnce == Spec => []VotersCounted
<1>1. Inv => VotersCounted
  <2> SUFFICES ASSUME Inv
               PROVE  VotersCounted
    OBVIOUS
  <2>1. ProposalBallots \subseteq BallotId /\ BoardBallots \subseteq BallotId
    BY RowTypes DEF Inv, ProposalBallots, BoardBallots
  <2>2. QED
    BY <2>1 DEF Inv, Fits, ProposalFits, BoardFits, VotersCounted
<1>2. QED
  BY <1>1, InvHolds, PTL

-----------------------------------------------------------------------------
(* What a step does to receipts and results *)

\* Only deloldvotes erases receipts, and those it erases have expired.
LEMMA ReceiptsErased ==
  ASSUME Inv, StepKind, NEW v \in Voter, NEW b \in BallotId,
         receipts[v][b] # Nil, receipts'[v][b] = Nil
  PROVE  Expired(receipts[v][b])
<1>1. ASSUME Passing \/ BoardChanged \/ ProposalClosed
      PROVE  FALSE
  BY <1>1 DEF Passing, BoardChanged, BoardChange, ProposalClosed, voterVars
<1>2. ASSUME NEW p \in Publisher, NEW begin \in Time, NEW end \in Time,
             RegProposal(p, begin, end) \/ RegLeaderboard(p, begin, end)
      PROVE  FALSE
  BY <1>2 DEF RegProposal, RegLeaderboard, voterVars
<1>3. ASSUME NEW p \in Publisher, NEW d \in BallotId, UnregProposal(p, d) \/ UnregLeaderboard(p, d)
      PROVE  FALSE
  BY <1>3 DEF UnregProposal, UnregLeaderboard, voterVars
<1>4. ASSUME NEW w \in Voter, NEW n \in NumDeletes, DelOldVotes(w, n)
      PROVE  Expired(receipts[v][b])
  BY <1>4 DEF DelOldVotes, Inv, TypeOK
<1>5. ASSUME NEW w \in Voter, NEW d \in BallotId, NEW k \in Direction, VoteForProposal(w, d, k)
      PROVE  FALSE
  <2>1. PICK rec \in Receipt, counts \in [Direction -> Int], n \in Nat :
          ProposalVoted(w, d, k, rec, counts, n)
    BY <1>5, ProposalVote
  <2>2. \A u \in Voter, e \in BallotId : receipts'[u][e] = receipts[u][e] \/ receipts'[u][e] \in Receipt
    BY <2>1 DEF ProposalVoted
  <2>3. QED
    BY <2>2, ConstantsAssumption
<1>6. ASSUME NEW w \in Voter, NEW d \in BallotId, NEW k \in Nat, VoteForLeaderboard(w, d, k)
      PROVE  FALSE
  <2>1. PICK rec \in Receipt, list \in Seq(Candidate), n \in Nat :
          BoardVoted(w, d, k, rec, list, n)
    BY <1>6, BoardVote
  <2>2. \A u \in Voter, e \in BallotId : receipts'[u][e] = receipts[u][e] \/ receipts'[u][e] \in Receipt
    BY <2>1 DEF BoardVoted
  <2>3. QED
    BY <2>2, ConstantsAssumption
<1>7. ASSUME NEW d \in BallotId, NEW begin \in Time, NEW end \in Time, NextCycle(d, begin, end)
      PROVE  FALSE
  BY <1>7 DEF NextCycle, voterVars
<1>8. QED
  BY <1>1, <1>2, <1>3, <1>4, <1>5, <1>6, <1>7, Zenon DEF StepKind

\* A ballot stays on the list when another one is listed.
LEMMA ListedKept ==
  ASSUME TypeOK, NEW table \in {PROPOSAL, LEADERBOARD}, NEW r \in BallotId, ListBallot(table, r),
         NEW b \in Rows(ballots)
  PROVE  b \in Rows(ballots') /\ ballots'[b] = ballots[b]
<1>1. PICK k \in BallotId :
        /\ IsNextKey(k, Rows(ballots))
        /\ ballots' = [ballots EXCEPT ![k] = [table_id |-> table, reference_id |-> r]]
  BY DEF ListBallot
<1>2. k # b /\ b \in BallotId
  BY <1>1, RowTypes, NextKeyIsNew
<1>3. QED
  BY <1>1, <1>2 DEF TypeOK, Rows

\* What a step does to a proposal whose voting has begun: its ballot stays, and
\* its counts stay, are those of the next cycle, or get a vote within the window.
LEMMA ProposalSteps ==
  ASSUME Inv, StepKind, NEW b \in ProposalBallots, NEW prop, prop = proposals[ReferenceOf(b)],
         NEW next, next = proposals'[ReferenceOf(b)], ~ (now < prop.begin_time)
  PROVE  /\ b \in Rows(ballots')
         /\ \/ next.counts = prop.counts
            \/ next.cycle_count > prop.cycle_count
            \/ now <= prop.end_time
<1> DEFINE r == ReferenceOf(b)
<1>1. /\ b \in Rows(ballots) /\ b \in BallotId /\ r \in Rows(proposals) /\ r \in BallotId
      /\ prop \in Proposal
  BY RowTypes DEF Inv, BallotsOwnRows, ProposalBallots
<1>2. /\ proposals \in [BallotId -> Proposal \cup {Nil}]
      /\ ballots \in [BallotId -> Ballot \cup {Nil}]
  BY DEF Inv, TypeOK
<1>3. ASSUME Passing \/ BoardChanged
      PROVE  b \in Rows(ballots') /\ next.counts = prop.counts
  BY <1>1, <1>3 DEF Passing, BoardChanged, BoardChange, listVars
<1>4. ASSUME ProposalClosed
      PROVE  b \in Rows(ballots') /\ next.counts = prop.counts
  <2>1. PICK s \in Rows(proposals), row \in Proposal :
          /\ proposals' = [proposals EXCEPT ![s] = row]
          /\ row.counts = proposals[s].counts
          /\ ballots' = ballots
    BY <1>4 DEF ProposalClosed, listVars
  <2>2. QED
    BY <1>1, <1>2, <2>1
<1>5. ASSUME NEW p \in Publisher, NEW begin \in Time, NEW end \in Time, RegProposal(p, begin, end)
      PROVE  b \in Rows(ballots') /\ next.counts = prop.counts
  <2>1. PICK s \in BallotId : /\ IsNextKey(s, Rows(proposals))
                              /\ proposals' = [proposals EXCEPT ![s] = NewProposal(p, begin, end)]
                              /\ ListBallot(PROPOSAL, s)
    BY <1>5 DEF RegProposal
  <2>2. s # r
    BY <1>1, <2>1, RowTypes, NextKeyIsNew DEF Inv
  <2>3. b \in Rows(ballots')
    BY <1>1, <2>1, ListedKept DEF Inv
  <2>4. QED
    BY <1>1, <1>2, <2>1, <2>2, <2>3
<1>6. ASSUME NEW p \in Publisher, NEW begin \in Time, NEW end \in Time, RegLeaderboard(p, begin, end)
      PROVE  b \in Rows(ballots') /\ next.counts = prop.counts
  BY <1>1, <1>6, ListedKept DEF RegLeaderboard, Inv
<1>7. ASSUME NEW p \in Publisher, NEW d \in BallotId, UnregProposal(p, d)
      PROVE  b \in Rows(ballots') /\ next.counts = prop.counts
  <2>1. /\ d \in ProposalBallots /\ ReferenceOf(d) \in Rows(proposals)
        /\ now < proposals[ReferenceOf(d)].begin_time
        /\ proposals' = [proposals EXCEPT ![ReferenceOf(d)] = Nil]
        /\ ballots' = [ballots EXCEPT ![d] = Nil]
    BY <1>7 DEF UnregProposal, UnlistBallot, IsBallot, ProposalBallots
  <2>2. ReferenceOf(d) # r
    BY <2>1
  <2>3. QED
    BY <1>1, <1>2, <2>1, <2>2 DEF Rows
<1>8. ASSUME NEW p \in Publisher, NEW d \in BallotId, UnregLeaderboard(p, d)
      PROVE  b \in Rows(ballots') /\ next.counts = prop.counts
  <2>1. /\ d \notin ProposalBallots
        /\ proposals' = proposals
        /\ ballots' = [ballots EXCEPT ![d] = Nil]
    BY <1>8 DEF UnregLeaderboard, UnlistBallot, IsBallot, ProposalBallots, PROPOSAL, LEADERBOARD
  <2>2. QED
    BY <1>1, <1>2, <2>1 DEF Rows
<1>9. ASSUME NEW v \in Voter, NEW n \in NumDeletes, DelOldVotes(v, n)
      PROVE  b \in Rows(ballots') /\ next.counts = prop.counts
  BY <1>1, <1>9 DEF DelOldVotes, listVars
<1>10. ASSUME NEW v \in Voter, NEW d \in BallotId, NEW k \in Direction, VoteForProposal(v, d, k)
       PROVE  b \in Rows(ballots') /\ (next.counts = prop.counts \/ now <= prop.end_time)
  <2>1. /\ ballots' = ballots
        /\ now <= proposals[ReferenceOf(d)].end_time
    BY <1>10, ProposalVoteGuards DEF listVars
  <2>2. PICK rec \in Receipt, counts \in [Direction -> Int], n \in Nat :
          ProposalVoted(v, d, k, rec, counts, n)
    BY <1>10, ProposalVote
  <2>3. \E row : proposals' = [proposals EXCEPT ![ReferenceOf(d)] = row]
    BY <2>2 DEF ProposalVoted
  <2>4. QED
    BY <1>1, <1>2, <2>1, <2>3
<1>11. ASSUME NEW v \in Voter, NEW d \in BallotId, NEW k \in Nat, VoteForLeaderboard(v, d, k)
       PROVE  b \in Rows(ballots') /\ next.counts = prop.counts
  BY <1>1, <1>11 DEF VoteForLeaderboard, listVars
<1>12. ASSUME NEW d \in BallotId, NEW begin \in Time, NEW end \in Time, NextCycle(d, begin, end)
       PROVE  /\ b \in Rows(ballots')
              /\ next.counts = prop.counts \/ next.cycle_count > prop.cycle_count
  <2> DEFINE s == ReferenceOf(d)
             row == Cycled(proposals[s], begin, end)
  <2>1. /\ s \in Rows(proposals) /\ proposals[s].cycle_count < MaxCycle
        /\ ballots' = ballots
        /\ proposals' = [proposals EXCEPT ![s] = row]
    BY <1>12 DEF NextCycle, listVars
  <2>2. proposals[s] \in Proposal
    BY <2>1, RowTypes DEF Inv
  <2>3. row.cycle_count = proposals[s].cycle_count + 1 /\ proposals[s].cycle_count \in Int
    BY <2>1, <2>2, CycledRow, FieldTypes
  <2> HIDE DEF row
  <2>4. QED
    BY <1>1, <1>2, <2>1, <2>3
<1>13. QED
  BY <1>3, <1>4, <1>5, <1>6, <1>7, <1>8, <1>9, <1>10, <1>11, <1>12 DEF StepKind

\* A voter votes for candidate k + 1 of the board of ballot b, for the first time.
VotesFor(v, b, k, board) ==
  /\ IsOfCycle(receipts'[v][b], board.end_time)
  /\ Contains(receipts'[v][b].directions, k)
  /\ receipts[v][b] # Nil => ~ Contains(receipts[v][b].directions, k)

\* A vote for a leaderboard is on the receipt of a voter who had not voted for
\* that candidate.
LEMMA BoardVoteRecorded ==
  ASSUME Inv, NEW v \in Voter, NEW b \in BallotId, NEW k \in Nat, VoteForLeaderboard(v, b, k)
  PROVE  VotesFor(v, b, k, leaderboards[ReferenceOf(b)])
<1> DEFINE board == leaderboards[ReferenceOf(b)]
<1>1. PICK rec \in Receipt, list \in Seq(Candidate), n \in Nat :
        BoardVoted(v, b, k, rec, list, n)
  BY BoardVote
<1>2. rec # Nil
  BY <1>1, ConstantsAssumption
<1>3. /\ IsOfCycle(receipts'[v][b], board.end_time)
      /\ Contains(receipts'[v][b].directions, k)
  BY <1>1, <1>2 DEF BoardVoted, IsOfCycle
<1>4. /\ IsOfCycle(receipts[v][b], board.end_time) => ~ Contains(receipts[v][b].directions, k)
      /\ receipts[v][b] # Nil => receipts[v][b].expiration = board.end_time
  BY BoardVoteGuards
<1>5. QED
  BY <1>3, <1>4 DEF VotesFor, IsOfCycle

\* What a step does to a leaderboard whose voting has begun: its ballot stays,
\* and so do its candidates and their votes, unless one of them gets a vote
\* within the window.
LEMMA BoardSteps ==
  ASSUME Inv, StepKind, NEW b \in BoardBallots, NEW board, board = leaderboards[ReferenceOf(b)],
         NEW next, next = leaderboards'[ReferenceOf(b)], ~ (now < board.begin_time)
  PROVE  /\ b \in Rows(ballots')
         /\ \/ SameCandidates(next.candidates, board.candidates)
            \/ \E v \in Voter, k \in Nat :
                 /\ now <= board.end_time
                 /\ \A j \in DOMAIN board.candidates :
                      j # k + 1 => next.candidates[j] = board.candidates[j]
                 /\ VotesFor(v, b, k, board)
<1> DEFINE r == ReferenceOf(b)
           Same == SameCandidates(next.candidates, board.candidates)
<1>1. /\ b \in Rows(ballots) /\ b \in BallotId /\ r \in Rows(leaderboards) /\ r \in BallotId
      /\ board \in Leaderboard
  BY RowTypes DEF Inv, BallotsOwnRows, BoardBallots
<1>2. /\ leaderboards \in [BallotId -> Leaderboard \cup {Nil}]
      /\ ballots \in [BallotId -> Ballot \cup {Nil}]
  BY DEF Inv, TypeOK
<1>3. next = board => Same
  BY DEF SameCandidates
<1>4. ASSUME Passing \/ ProposalClosed
      PROVE  b \in Rows(ballots') /\ next = board
  BY <1>1, <1>4 DEF Passing, ProposalClosed, listVars
<1>5. ASSUME BoardChanged
      PROVE  b \in Rows(ballots') /\ Same
  <2>1. PICK s \in Rows(leaderboards), row \in Leaderboard : BoardChange(s, row)
    BY <1>5 DEF BoardChanged
  <2>2. /\ leaderboards' = [leaderboards EXCEPT ![s] = row]
        /\ \/ now < leaderboards[s].begin_time
           \/ SameCandidates(row.candidates, leaderboards[s].candidates)
        /\ ballots' = ballots
    BY <2>1 DEF BoardChange, listVars
  <2>3. CASE s = r
    BY <1>1, <1>2, <2>2, <2>3
  <2>4. CASE s # r
    BY <1>1, <1>2, <1>3, <2>2, <2>4
  <2>5. QED
    BY <2>3, <2>4
<1>6. ASSUME NEW p \in Publisher, NEW begin \in Time, NEW end \in Time, RegLeaderboard(p, begin, end)
      PROVE  b \in Rows(ballots') /\ next = board
  <2>1. PICK s \in BallotId :
          /\ IsNextKey(s, Rows(leaderboards))
          /\ leaderboards' = [leaderboards EXCEPT ![s] = NewLeaderboard(p, begin, end)]
          /\ ListBallot(LEADERBOARD, s)
    BY <1>6 DEF RegLeaderboard
  <2>2. s # r
    BY <1>1, <2>1, RowTypes, NextKeyIsNew DEF Inv
  <2>3. b \in Rows(ballots')
    BY <1>1, <2>1, ListedKept DEF Inv
  <2>4. QED
    BY <1>1, <1>2, <2>1, <2>2, <2>3
<1>7. ASSUME NEW p \in Publisher, NEW begin \in Time, NEW end \in Time, RegProposal(p, begin, end)
      PROVE  b \in Rows(ballots') /\ next = board
  BY <1>1, <1>7, ListedKept DEF RegProposal, Inv
<1>8. ASSUME NEW p \in Publisher, NEW d \in BallotId, UnregLeaderboard(p, d)
      PROVE  b \in Rows(ballots') /\ next = board
  <2>1. /\ now < leaderboards[ReferenceOf(d)].begin_time
        /\ ReferenceOf(d) \in Rows(leaderboards)
        /\ leaderboards' = [leaderboards EXCEPT ![ReferenceOf(d)] = Nil]
        /\ ballots' = [ballots EXCEPT ![d] = Nil]
    BY <1>8 DEF UnregLeaderboard, UnlistBallot
  <2>2. ReferenceOf(d) # r
    BY <2>1
  <2>3. QED
    BY <1>1, <1>2, <2>1, <2>2 DEF Rows
<1>9. ASSUME NEW p \in Publisher, NEW d \in BallotId, UnregProposal(p, d)
      PROVE  b \in Rows(ballots') /\ next = board
  <2>1. /\ d \in ProposalBallots
        /\ leaderboards' = leaderboards
        /\ ballots' = [ballots EXCEPT ![d] = Nil]
    BY <1>9 DEF UnregProposal, UnlistBallot, IsBallot, ProposalBallots
  <2>2. QED
    BY <1>1, <1>2, <2>1 DEF Rows, BoardBallots
<1>10. ASSUME NEW v \in Voter, NEW n \in NumDeletes, DelOldVotes(v, n)
       PROVE  b \in Rows(ballots') /\ next = board
  BY <1>1, <1>10 DEF DelOldVotes, listVars
<1>11. ASSUME NEW v \in Voter, NEW d \in BallotId, NEW k \in Direction, VoteForProposal(v, d, k)
       PROVE  b \in Rows(ballots') /\ next = board
  BY <1>1, <1>11 DEF VoteForProposal, listVars
<1>12. ASSUME NEW v \in Voter, NEW d \in BallotId, NEW k \in Nat, VoteForLeaderboard(v, d, k)
       PROVE  /\ b \in Rows(ballots')
              /\ \/ Same
                 \/ /\ now <= board.end_time
                    /\ \A j \in DOMAIN board.candidates :
                         j # k + 1 => next.candidates[j] = board.candidates[j]
                    /\ VotesFor(v, b, k, board)
  <2>1. /\ ballots' = ballots /\ d \in BoardBallots
        /\ now <= leaderboards[ReferenceOf(d)].end_time
    BY <1>12, BoardVoteGuards DEF listVars
  <2>2. PICK rec \in Receipt, list \in Seq(Candidate), n \in Nat :
          BoardVoted(v, d, k, rec, list, n)
    BY <1>12, BoardVote
  <2>3. CASE d = b
    <3> DEFINE row == [board EXCEPT !.candidates = list, !.unique_voters = n]
    <3>1. /\ leaderboards' = [leaderboards EXCEPT ![r] = row]
          /\ \A j \in DOMAIN board.candidates : j # k + 1 => list[j] = board.candidates[j]
      BY <2>2, <2>3 DEF BoardVoted
    <3>2. row.candidates = list
      BY <1>1 DEF Leaderboard
    <3> HIDE DEF row
    <3>3. next.candidates = list
      BY <1>1, <1>2, <3>1, <3>2
    <3>4. VotesFor(v, b, k, board)
      BY <1>12, <2>3, BoardVoteRecorded
    <3>5. QED
      BY <1>1, <2>1, <2>3, <3>1, <3>3, <3>4
  <2>4. CASE d # b
    <3>1. ReferenceOf(d) # r
      BY <2>1, <2>4, BallotTables DEF Inv
    <3>2. \E row : leaderboards' = [leaderboards EXCEPT ![ReferenceOf(d)] = row]
      BY <2>2 DEF BoardVoted
    <3>3. QED
      BY <1>1, <1>2, <1>3, <2>1, <3>1, <3>2
  <2>5. QED
    BY <2>3, <2>4
<1>13. ASSUME NEW d \in BallotId, NEW begin \in Time, NEW end \in Time, NextCycle(d, begin, end)
       PROVE  b \in Rows(ballots') /\ next = board
  BY <1>1, <1>13 DEF NextCycle, listVars
<1> HIDE DEF Same
<1>14. b \in Rows(ballots') /\ (Same \/ \E v \in Voter, k \in Nat :
          /\ now <= board.end_time
          /\ \A j \in DOMAIN board.candidates :
               j # k + 1 => next.candidates[j] = board.candidates[j]
          /\ VotesFor(v, b, k, board))
  BY <1>3, <1>4, <1>5, <1>6, <1>7, <1>8, <1>9, <1>10, <1>11, <1>12, <1>13, Zenon DEF StepKind
<1>15. QED
  BY <1>14 DEF Same

\* deloldvotes erases no receipt of a ballot that can still be voted on.
THEOREM ReceiptsStay == Spec => ReceiptsKept
<1> DEFINE EndOf(b) == IF b \in ProposalBallots THEN proposals[ReferenceOf(b)].end_time
                       ELSE leaderboards[ReferenceOf(b)].end_time
           Kept == \A v \in Voter, b \in Rows(ballots) :
                     IsOfCycle(receipts[v][b], EndOf(b)) /\ receipts'[v][b] = Nil => now > EndOf(b)
<1>1. ASSUME Inv, [Next]_vars
      PROVE  Kept
  <2> SUFFICES ASSUME NEW v \in Voter, NEW b \in Rows(ballots),
                      IsOfCycle(receipts[v][b], EndOf(b)), receipts'[v][b] = Nil
               PROVE  now > EndOf(b)
    OBVIOUS
  <2>1. b \in BallotId /\ (receipts[v][b] = Nil \/ receipts[v][b] \in Receipt)
    BY <1>1, RowTypes DEF Inv
  <2>2. receipts[v][b] # Nil /\ receipts[v][b].expiration = EndOf(b)
    BY DEF IsOfCycle
  <2>3. StepKind
    BY <1>1, StepKinds
  <2>4. Expired(receipts[v][b])
    BY <1>1, <2>1, <2>2, <2>3, ReceiptsErased
  <2>5. EndOf(b) < now
    BY <2>2, <2>4 DEF Expired
  <2>6. EndOf(b) \in Int /\ now \in Int
    BY <1>1, <2>1, <2>2, FieldTypes DEF Inv, TypeOK
  <2> HIDE DEF EndOf
  <2>7. QED
    BY <2>5, <2>6
<1>2. QED
  BY <1>1, InvHolds, PTL DEF Spec, ReceiptsKept

\* The results of ballots whose voting has ended, before and after a step.
ProposalsFinal ==
  \A b \in ProposalBallots :
    LET prop == proposals[ReferenceOf(b)]
        next == proposals'[ReferenceOf(b)]
    IN  now > prop.end_time =>
          /\ b \in Rows(ballots')
          /\ next.counts # prop.counts => next.cycle_count > prop.cycle_count

BoardsFinal ==
  \A b \in BoardBallots :
    LET board == leaderboards[ReferenceOf(b)]
        next == leaderboards'[ReferenceOf(b)]
    IN  now > board.end_time =>
          /\ b \in Rows(ballots')
          /\ DOMAIN next.candidates = DOMAIN board.candidates
          /\ \A i \in DOMAIN board.candidates :
               /\ next.candidates[i].member = board.candidates[i].member
               /\ next.candidates[i].votes = board.candidates[i].votes

\* A step leaves them as they are.
LEMMA FinalSteps ==
  ASSUME Inv, StepKind
  PROVE  ProposalsFinal /\ BoardsFinal
<1>1. ASSUME NEW b \in ProposalBallots, NEW prop, prop = proposals[ReferenceOf(b)],
             NEW next, next = proposals'[ReferenceOf(b)], now > prop.end_time
      PROVE  /\ b \in Rows(ballots')
             /\ next.counts # prop.counts => next.cycle_count > prop.cycle_count
  <2>1. prop.begin_time < prop.end_time
    BY <1>1 DEF Inv, WindowsOrdered, BallotsOwnRows
  <2>2. prop.begin_time \in Int /\ prop.end_time \in Int /\ now \in Int
    BY <1>1, RowTypes, FieldTypes DEF Inv, BallotsOwnRows, TypeOK
  <2>3. ~ (now < prop.begin_time) /\ ~ (now <= prop.end_time)
    BY <1>1, <2>1, <2>2
  <2>4. QED
    BY <1>1, <2>3, ProposalSteps
<1>2. ASSUME NEW b \in BoardBallots, NEW board, board = leaderboards[ReferenceOf(b)],
             NEW next, next = leaderboards'[ReferenceOf(b)], now > board.end_time
      PROVE  b \in Rows(ballots') /\ SameCandidates(next.candidates, board.candidates)
  <2>1. board.begin_time < board.end_time
    BY <1>2 DEF Inv, WindowsOrdered, BallotsOwnRows
  <2>2. board.begin_time \in Int /\ board.end_time \in Int /\ now \in Int
    BY <1>2, RowTypes, FieldTypes DEF Inv, BallotsOwnRows, TypeOK
  <2>3. ~ (now < board.begin_time) /\ ~ (now <= board.end_time)
    BY <1>2, <2>1, <2>2
  <2>4. QED
    BY <1>2, <2>3, BoardSteps
<1>3. QED
  BY <1>1, <1>2 DEF ProposalsFinal, BoardsFinal, SameCandidates

\* What is counted when voting ends stays (castvote, nextcycle, setallstats,
\* rmvcandidate, unregballot).
THEOREM ResultsStay == Spec => ResultsFinal
<1>1. Inv /\ [Next]_vars => ProposalsFinal /\ BoardsFinal
  BY StepKinds, FinalSteps
<1>2. QED
  BY <1>1, InvHolds, PTL DEF Spec, ResultsFinal, ProposalsFinal, BoardsFinal

\* A candidate gets votes only with a receipt that says so (castvote).
THEOREM VotesRecorded == Spec => BoardVotesRecorded
<1> DEFINE Recorded ==
             \A b \in BoardBallots :
               LET board == leaderboards[ReferenceOf(b)]
                   next == leaderboards'[ReferenceOf(b)]
               IN  now >= board.begin_time =>
                     \A i \in DOMAIN board.candidates :
                       next.candidates[i].votes # board.candidates[i].votes =>
                         \E v \in Voter :
                           /\ IsOfCycle(receipts'[v][b], board.end_time)
                           /\ Contains(receipts'[v][b].directions, i - 1)
                           /\ receipts[v][b] # Nil => ~ Contains(receipts[v][b].directions, i - 1)
<1>1. ASSUME Inv, [Next]_vars
      PROVE  Recorded
  <2>1. StepKind
    BY <1>1, StepKinds
  <2>2. ASSUME NEW b \in BoardBallots, NEW board, board = leaderboards[ReferenceOf(b)],
               NEW next, next = leaderboards'[ReferenceOf(b)], now >= board.begin_time,
               NEW i \in DOMAIN board.candidates,
               next.candidates[i].votes # board.candidates[i].votes
        PROVE  \E v \in Voter : VotesFor(v, b, i - 1, board)
    <3>1. board.begin_time \in Int /\ now \in Int /\ board.candidates \in Seq(Candidate)
      BY <1>1, <2>2, RowTypes, FieldTypes DEF Inv, BallotsOwnRows, TypeOK
    <3>2. ~ (now < board.begin_time)
      BY <2>2, <3>1
    <3>3. ~ SameCandidates(next.candidates, board.candidates)
      BY <2>2 DEF SameCandidates
    <3>4. PICK v \in Voter, k \in Nat :
            /\ \A j \in DOMAIN board.candidates :
                 j # k + 1 => next.candidates[j] = board.candidates[j]
            /\ VotesFor(v, b, k, board)
      BY <1>1, <2>1, <2>2, <3>2, <3>3, BoardSteps
    <3>5. i = k + 1
      BY <2>2, <3>4
    <3>6. i - 1 = k
      BY <3>5, <3>4
    <3>7. QED
      BY <3>4, <3>6
  <2>3. QED
    BY <2>2 DEF VotesFor
<1>2. QED
  BY <1>1, InvHolds, PTL DEF Spec, BoardVotesRecorded

-----------------------------------------------------------------------------
(* Counts of proposals, where votes are not cast again *)

\* What receipt vr counts in direction d of the cycle that ends at t.
CountOf(vr, t, d) == IF IsOfCycle(vr, t) /\ vr.directions[1] = d THEN vr.weight ELSE 0

\* What the receipts recs for ballot b count.
VotesIn(recs, b, t, d) == SumFunctionOnSet([v \in Voter |-> CountOf(recs[v][b], t, d)], Voter)

\* While proposal b can be voted on its counts are the weights of the current
\* receipts.
CountsFit(b) ==
  LET prop == proposals[ReferenceOf(b)]
  IN  now <= prop.end_time =>
        \A d \in Direction : prop.counts[d] = VotesIn(receipts, b, prop.end_time, d)

\* A receipt counts a number.
LEMMA CountOfType ==
  ASSUME NEW vr, vr = Nil \/ vr \in Receipt, NEW t, NEW d
  PROVE  CountOf(vr, t, d) \in Nat
BY FieldTypes DEF CountOf, IsOfCycle

\* Tables that agree on the current receipts count the same.
LEMMA VotesSame ==
  ASSUME NEW old, NEW new, NEW b, NEW t, NEW d,
         \A v \in Voter : CountOf(new[v][b], t, d) = CountOf(old[v][b], t, d)
  PROVE  VotesIn(new, b, t, d) = VotesIn(old, b, t, d)
<1>1. [v \in Voter |-> CountOf(new[v][b], t, d)] = [v \in Voter |-> CountOf(old[v][b], t, d)]
  OBVIOUS
<1>2. QED
  BY <1>1 DEF VotesIn

\* Without current receipts nothing is counted.
LEMMA VotesNone ==
  ASSUME NEW recs, NEW b, NEW t, NEW d, \A v \in Voter : ~ IsOfCycle(recs[v][b], t)
  PROVE  VotesIn(recs, b, t, d) = 0
<1> DEFINE f == [v \in Voter |-> CountOf(recs[v][b], t, d)]
<1>1. \A v \in Voter : f[v] = 0
  BY DEF CountOf
<1> HIDE DEF f
<1>2. SumFunctionOnSet(f, Voter) = 0
  BY <1>1, SumZero, ConstantsAssumption
<1>3. QED
  BY <1>2 DEF VotesIn, f

\* One more current receipt adds its weight.
LEMMA VotesOne ==
  ASSUME NEW old, NEW new, NEW b, NEW t, NEW d, NEW v \in Voter,
         \A w \in Voter : CountOf(old[w][b], t, d) \in Nat /\ CountOf(new[w][b], t, d) \in Nat,
         \A w \in Voter \ {v} : CountOf(new[w][b], t, d) = CountOf(old[w][b], t, d),
         CountOf(old[v][b], t, d) = 0
  PROVE  VotesIn(new, b, t, d) = VotesIn(old, b, t, d) + CountOf(new[v][b], t, d)
<1> DEFINE f == [w \in Voter |-> CountOf(old[w][b], t, d)]
           g == [w \in Voter |-> CountOf(new[w][b], t, d)]
<1>1. \A w \in Voter : f[w] \in Int /\ g[w] \in Int
  OBVIOUS
<1>2. \A w \in Voter \ {v} : g[w] = f[w]
  OBVIOUS
<1>3. f[v] = 0 /\ g[v] = CountOf(new[v][b], t, d)
  OBVIOUS
<1> HIDE DEF f, g
<1>4. IsFiniteSet(Voter)
  BY ConstantsAssumption
<1>5. SumFunctionOnSet(g, Voter) = SumFunctionOnSet(f, Voter) + g[v] - f[v]
  BY <1>1, <1>2, <1>4, SumChange
<1>6. SumFunctionOnSet(f, Voter) \in Int
  BY <1>1, <1>4, SumInt
<1>7. QED
  BY <1>1, <1>3, <1>5, <1>6 DEF VotesIn, f, g

\* A step that leaves the counts and the window of a proposal, and takes only
\* receipts that have expired, keeps its counts fitting.
LEMMA CountsFrame ==
  ASSUME Inv, TypeOK', NEW b \in ProposalBallots, CountsFit(b), ballots'[b] = ballots[b],
         proposals'[ReferenceOf(b)].counts = proposals[ReferenceOf(b)].counts,
         proposals'[ReferenceOf(b)].end_time = proposals[ReferenceOf(b)].end_time,
         now <= now',
         \A v \in Voter : \/ receipts'[v][b] = receipts[v][b]
                          \/ Expired(receipts[v][b]) /\ receipts'[v][b] = Nil
  PROVE  CountsFit(b)'
<1> DEFINE prop == proposals[ReferenceOf(b)]
           next == proposals'[ReferenceOf(b)]
<1>1. /\ prop.end_time \in Int /\ now \in Int /\ now' \in Int
      /\ b \in BallotId /\ ReferenceOf(b)' = ReferenceOf(b)
  BY RowTypes, FieldTypes DEF Inv, BallotsOwnRows, TypeOK, ReferenceOf, ProposalBallots
<1>2. ASSUME now' <= prop.end_time, NEW d \in Direction
      PROVE  next.counts[d] = VotesIn(receipts', b, prop.end_time, d)
  <2>1. now <= prop.end_time
    BY <1>1, <1>2
  <2>2. \A v \in Voter : CountOf(receipts'[v][b], prop.end_time, d)
                           = CountOf(receipts[v][b], prop.end_time, d)
    BY <1>1, <2>1 DEF CountOf, IsOfCycle, Expired
  <2>3. VotesIn(receipts', b, prop.end_time, d) = VotesIn(receipts, b, prop.end_time, d)
    BY <2>2, VotesSame
  <2>4. QED
    BY <2>1, <2>3 DEF CountsFit
<1>3. QED
  BY <1>1, <1>2 DEF CountsFit

\* A proposal without counts fits if no receipt is of its cycle.
LEMMA CountsFresh ==
  ASSUME NEW b, proposals'[ReferenceOf(b)'].counts = [d \in Direction |-> 0],
         now' <= proposals'[ReferenceOf(b)'].end_time =>
           \A v \in Voter : ~ IsOfCycle(receipts'[v][b], proposals'[ReferenceOf(b)'].end_time)
  PROVE  CountsFit(b)'
<1> DEFINE end == proposals'[ReferenceOf(b)'].end_time
<1>1. ASSUME now' <= end, NEW d \in Direction
      PROVE  proposals'[ReferenceOf(b)'].counts[d] = VotesIn(receipts', b, end, d)
  BY <1>1, VotesNone
<1>2. QED
  BY <1>1 DEF CountsFit

\* A vote that is not cast again adds its weight to the count of its direction.
LEMMA VoteCounted ==
  ASSUME Inv, NEW v \in Voter, NEW b \in BallotId, NEW k \in Direction, VoteForProposal(v, b, k),
         ~ IsOfCycle(receipts[v][b], proposals[ReferenceOf(b)].end_time), CountsFit(b)
  PROVE  CountsFit(b)'
<1> DEFINE prop == proposals[ReferenceOf(b)]
           end == prop.end_time
           next == proposals'[ReferenceOf(b)]
           w == weight[v]
<1>1. /\ b \in ProposalBallots /\ ReferenceOf(b) \in BallotId
      /\ prop \in Proposal /\ end \in Time /\ now <= end
      /\ ballots' = ballots /\ now' = now
      /\ w \in Nat
      /\ receipts[v][b] = Nil \/ receipts[v][b] \in Receipt
      /\ receipts[v][b] # Nil => receipts[v][b].expiration <= end
  BY ProposalVoteGuards DEF listVars
<1>2. PICK rec \in Receipt, counts \in [Direction -> Int], n \in Nat :
        ProposalVoted(v, b, k, rec, counts, n)
  BY ProposalVote
<1> DEFINE row == [prop EXCEPT !.counts = counts, !.unique_voters = n]
<1>3. /\ rec = ProposalReceipt(receipts[v][b], k, w, end)
      /\ counts = [prop.counts EXCEPT ![k] = @ + w]
      /\ receipts'[v][b] = rec
      /\ \A u \in Voter, e \in BallotId : u # v \/ e # b => receipts'[u][e] = receipts[u][e]
      /\ proposals' = [proposals EXCEPT ![ReferenceOf(b)] = row]
  BY <1>2 DEF ProposalVoted, Recounted
<1>4. row.counts = counts /\ row.end_time = end
  BY <1>1 DEF Proposal
<1> HIDE DEF row
<1>5. next = row /\ ReferenceOf(b)' = ReferenceOf(b)
  BY <1>1, <1>3 DEF Inv, TypeOK, ReferenceOf
<1>6. rec.expiration = end /\ rec.directions[1] = k /\ rec.weight = w /\ rec # Nil
  <2>1. rec = ProposalReceipt(receipts[v][b], k, w, end)
    BY <1>3
  <2>2. /\ end \in Time /\ w \in Nat /\ (receipts[v][b] = Nil \/ receipts[v][b] \in Receipt)
        /\ receipts[v][b] # Nil => receipts[v][b].expiration <= end
        /\ ~ IsOfCycle(receipts[v][b], end)
    BY <1>1
  <2>3. rec # Nil
    BY <1>2, ConstantsAssumption
  <2> HIDE DEF prop, end, w
  <2>4. QED
    BY <2>1, <2>2, <2>3, VotedReceipt
<1>7. \A u \in Voter : receipts[u][b] = Nil \/ receipts[u][b] \in Receipt
  BY RowTypes DEF Inv
<1>8. prop.counts \in [Direction -> Int]
  BY <1>1 DEF Proposal
<1>9. ASSUME NEW d \in Direction
      PROVE  counts[d] = VotesIn(receipts', b, end, d)
  <2> DEFINE Of(u) == CountOf(receipts[u][b], end, d)
             New(u) == CountOf(receipts'[u][b], end, d)
  <2>1. \A u \in Voter : Of(u) \in Nat
    BY <1>7, CountOfType
  <2>2. New(v) = (IF d = k THEN w ELSE 0)
    BY <1>3, <1>6 DEF CountOf, IsOfCycle
  <2>3. \A u \in Voter \ {v} : New(u) = Of(u)
    BY <1>3
  <2>4. Of(v) = 0
    BY DEF CountOf
  <2>5. \A u \in Voter : New(u) \in Nat
    <3>1. New(v) \in Nat
      BY <1>1, <2>2
    <3> HIDE DEF New, Of
    <3>2. QED
      BY <2>1, <2>3, <3>1
  <2>6. VotesIn(receipts', b, end, d) = VotesIn(receipts, b, end, d) + New(v)
    BY <2>1, <2>3, <2>4, <2>5, VotesOne
  <2>7. prop.counts[d] = VotesIn(receipts, b, end, d)
    BY <1>1 DEF CountsFit
  <2>8. counts[d] = prop.counts[d] + New(v)
    BY <1>1, <1>3, <1>8, <2>2
  <2>9. QED
    BY <2>6, <2>7, <2>8
<1>10. QED
  BY <1>4, <1>5, <1>9 DEF CountsFit

\* What a step that lists no proposal and counts no vote leaves of proposal b.
Left(b) ==
  /\ ballots'[b] = ballots[b]
  /\ proposals'[ReferenceOf(b)].counts = proposals[ReferenceOf(b)].counts
  /\ proposals'[ReferenceOf(b)].end_time = proposals[ReferenceOf(b)].end_time
  /\ now <= now'
  /\ \A v \in Voter : \/ receipts'[v][b] = receipts[v][b]
                      \/ Expired(receipts[v][b]) /\ receipts'[v][b] = Nil

\* The counts keep fitting if no vote is cast again.
LEMMA CountsNext ==
  ASSUME Inv, TypeOK', StepKind, ~ recastable, \A b \in ProposalBallots : CountsFit(b),
         NEW b \in ProposalBallots'
  PROVE  CountsFit(b)'
<1> DEFINE r == ReferenceOf(b)
<1>1. b \in BallotId
  BY RowTypes DEF ProposalBallots, Rows, TypeOK
<1>2. b \in Rows(ballots') /\ ballots'[b].table_id = PROPOSAL
  BY DEF ProposalBallots
<1>3. /\ proposals \in [BallotId -> Proposal \cup {Nil}]
      /\ ballots \in [BallotId -> Ballot \cup {Nil}]
      /\ now \in Int /\ now <= now
  BY FieldTypes DEF Inv, TypeOK
<1>4. ASSUME ballots'[b] = ballots[b]
      PROVE  b \in ProposalBallots /\ r \in Rows(proposals) /\ r \in BallotId /\ ReferenceOf(b)' = r
  BY <1>1, <1>2, <1>3, <1>4, RowTypes DEF Inv, BallotsOwnRows, ProposalBallots, Rows, ReferenceOf
<1>5. ASSUME Left(b)
      PROVE  CountsFit(b)'
  BY <1>4, <1>5, CountsFrame DEF Left
<1>6. ASSUME Passing \/ BoardChanged
      PROVE  Left(b)
  BY <1>3, <1>6 DEF Left, Passing, BoardChanged, BoardChange, listVars, voterVars
<1>7. ASSUME ProposalClosed
      PROVE  Left(b)
  <2>1. PICK s \in Rows(proposals), row \in Proposal :
          /\ proposals' = [proposals EXCEPT ![s] = row]
          /\ row.counts = proposals[s].counts /\ SameWindow(row, proposals[s])
          /\ ballots' = ballots /\ receipts' = receipts /\ now' = now
    BY <1>7 DEF ProposalClosed, listVars, voterVars
  <2>2. r \in BallotId
    BY <1>4, <2>1
  <2>3. QED
    BY <1>3, <2>1, <2>2 DEF Left, SameWindow
<1>8. ASSUME NEW p \in Publisher, NEW begin \in Time, NEW end \in Time, RegProposal(p, begin, end)
      PROVE  CountsFit(b)'
  <2>1. PICK s \in BallotId : /\ IsNextKey(s, Rows(proposals))
                              /\ proposals' = [proposals EXCEPT ![s] = NewProposal(p, begin, end)]
                              /\ ListBallot(PROPOSAL, s)
    BY <1>8 DEF RegProposal
  <2>2. PICK e \in BallotId :
          /\ e \notin Rows(ballots)
          /\ ballots'[e] = [table_id |-> PROPOSAL, reference_id |-> s]
          /\ \A d \in BallotId : d # e => ballots'[d] = ballots[d]
    BY <2>1, Listed DEF Inv
  <2>3. now' = now /\ receipts' = receipts
    BY <1>8 DEF RegProposal, voterVars
  <2>4. CASE b = e
    <3>1. ReferenceOf(b)' = s
      BY <2>2, <2>4 DEF ReferenceOf
    <3>2. proposals'[s].counts = [d \in Direction |-> 0]
      BY <1>3, <2>1 DEF NewProposal
    <3>3. \A v \in Voter : ~ IsOfCycle(receipts'[v][b], proposals'[s].end_time)
      BY <1>1, <2>2, <2>3, <2>4 DEF Inv, Fits, IsOfCycle
    <3>4. QED
      BY <3>1, <3>2, <3>3, CountsFresh
  <2>5. CASE b # e
    <3>1. ballots'[b] = ballots[b]
      BY <1>1, <2>2, <2>5
    <3>2. s # r
      BY <1>4, <2>1, <3>1, RowTypes, NextKeyIsNew DEF Inv
    <3>3. QED
      BY <1>3, <1>4, <1>5, <2>1, <2>3, <3>1, <3>2 DEF Left
  <2>6. QED
    BY <2>4, <2>5
<1>9. ASSUME NEW p \in Publisher, NEW begin \in Time, NEW end \in Time, RegLeaderboard(p, begin, end)
      PROVE  Left(b)
  <2>1. PICK s \in BallotId : ListBallot(LEADERBOARD, s)
    BY <1>9 DEF RegLeaderboard
  <2>2. PICK e \in BallotId :
          /\ ballots'[e] = [table_id |-> LEADERBOARD, reference_id |-> s]
          /\ \A d \in BallotId : d # e => ballots'[d] = ballots[d]
    BY <2>1, Listed DEF Inv
  <2>3. b # e
    BY <1>2, <2>2 DEF PROPOSAL, LEADERBOARD
  <2>4. QED
    BY <1>1, <1>3, <1>9, <2>2, <2>3 DEF Left, RegLeaderboard, voterVars
<1>10. ASSUME NEW p \in Publisher, NEW d \in BallotId, UnregProposal(p, d)
       PROVE  Left(b)
  <2>1. /\ d \in ProposalBallots
        /\ proposals' = [proposals EXCEPT ![ReferenceOf(d)] = Nil]
        /\ ballots' = [ballots EXCEPT ![d] = Nil]
        /\ now' = now /\ receipts' = receipts
    BY <1>10 DEF UnregProposal, UnlistBallot, IsBallot, ProposalBallots, voterVars
  <2>2. b # d
    BY <1>1, <1>2, <1>3, <2>1 DEF Rows
  <2>3. ballots'[b] = ballots[b]
    BY <1>1, <1>3, <2>1, <2>2
  <2>4. ReferenceOf(d) # r
    BY <1>4, <2>1, <2>2, <2>3, BallotTables DEF Inv
  <2>5. QED
    BY <1>3, <1>4, <2>1, <2>3, <2>4 DEF Left
<1>11. ASSUME NEW p \in Publisher, NEW d \in BallotId, UnregLeaderboard(p, d)
       PROVE  Left(b)
  <2>1. /\ proposals' = proposals
        /\ ballots' = [ballots EXCEPT ![d] = Nil]
        /\ now' = now /\ receipts' = receipts
    BY <1>11 DEF UnregLeaderboard, UnlistBallot, voterVars
  <2>2. b # d
    BY <1>1, <1>2, <1>3, <2>1 DEF Rows
  <2>3. QED
    BY <1>1, <1>3, <2>1, <2>2 DEF Left
<1>12. ASSUME NEW v \in Voter, NEW n \in NumDeletes, DelOldVotes(v, n)
       PROVE  Left(b)
  <2>1. \A w \in Voter : \/ receipts'[w][b] = receipts[w][b]
                         \/ Expired(receipts[w][b]) /\ receipts'[w][b] = Nil
    BY <1>1, <1>12 DEF DelOldVotes, Inv, TypeOK
  <2>2. QED
    BY <1>3, <1>12, <2>1 DEF Left, DelOldVotes, listVars
<1>13. ASSUME NEW v \in Voter, NEW d \in BallotId, NEW k \in Direction, VoteForProposal(v, d, k)
       PROVE  CountsFit(b)'
  <2>1. /\ ballots' = ballots /\ now' = now /\ d \in ProposalBallots
        /\ ~ IsOfCycle(receipts[v][d], proposals[ReferenceOf(d)].end_time)
    BY <1>13, ProposalVoteGuards DEF listVars
  <2>2. CASE b = d
    BY <1>4, <1>13, <2>1, <2>2, VoteCounted
  <2>3. CASE b # d
    <3>1. PICK rec \in Receipt, counts \in [Direction -> Int], n \in Nat :
            ProposalVoted(v, d, k, rec, counts, n)
      BY <1>13, ProposalVote
    <3>2. /\ \E row : proposals' = [proposals EXCEPT ![ReferenceOf(d)] = row]
          /\ \A w \in Voter : receipts'[w][b] = receipts[w][b]
      BY <1>1, <2>3, <3>1 DEF ProposalVoted
    <3>3. ReferenceOf(d) # r
      BY <1>4, <2>1, <2>3, BallotTables DEF Inv
    <3>4. QED
      BY <1>3, <1>4, <1>5, <2>1, <3>2, <3>3 DEF Left
  <2>4. QED
    BY <2>2, <2>3
<1>14. ASSUME NEW v \in Voter, NEW d \in BallotId, NEW k \in Nat, VoteForLeaderboard(v, d, k)
       PROVE  Left(b)
  <2>1. /\ ballots' = ballots /\ now' = now /\ proposals' = proposals /\ d \in BoardBallots
    BY <1>14, BoardVoteGuards DEF listVars
  <2>2. b # d
    BY <1>4, <2>1 DEF BoardBallots
  <2>3. PICK rec \in Receipt, list \in Seq(Candidate), n \in Nat :
          BoardVoted(v, d, k, rec, list, n)
    BY <1>14, BoardVote
  <2>4. \A w \in Voter : receipts'[w][b] = receipts[w][b]
    BY <1>1, <2>2, <2>3 DEF BoardVoted
  <2>5. QED
    BY <1>3, <2>1, <2>4 DEF Left
<1>15. ASSUME NEW d \in BallotId, NEW begin \in Time, NEW end \in Time, NextCycle(d, begin, end)
       PROVE  CountsFit(b)'
  <2> DEFINE s == ReferenceOf(d)
             row == Cycled(proposals[s], begin, end)
  <2>1. /\ d \in ProposalBallots /\ s \in Rows(proposals)
        /\ ~ VotingOpen(proposals[s]) /\ proposals[s].cycle_count < MaxCycle
        /\ proposals' = [proposals EXCEPT ![s] = row]
        /\ ballots' = ballots /\ now' = now /\ receipts' = receipts
    BY <1>15 DEF NextCycle, IsBallot, ProposalBallots, listVars, voterVars
  <2>2. proposals[s] \in Proposal /\ s \in BallotId
    BY <2>1, RowTypes DEF Inv
  <2>3. row.end_time = end /\ row.counts = [e \in Direction |-> 0]
    BY <2>1, <2>2, CycledRow
  <2> HIDE DEF row
  <2>4. CASE b = d
    <3>1. proposals'[s] = row /\ ReferenceOf(b)' = s
      BY <1>3, <2>1, <2>2, <2>4 DEF ReferenceOf
    <3>2. \A v \in Voter : receipts[v][b] # Nil =>
            receipts[v][b].expiration < now /\ receipts[v][b].expiration \in Int
      BY <1>1, <2>1, <2>4, OldReceipts, RowTypes, FieldTypes DEF Inv
    <3>3. end \in Int
      BY FieldTypes
    <3>4. now <= end => \A v \in Voter : ~ IsOfCycle(receipts[v][b], end)
      BY <1>3, <3>2, <3>3 DEF IsOfCycle
    <3>5. QED
      BY <2>1, <2>3, <3>1, <3>4, CountsFresh
  <2>5. CASE b # d
    <3>1. s # r
      BY <1>4, <2>1, <2>5, BallotTables DEF Inv
    <3>2. QED
      BY <1>3, <1>4, <1>5, <2>1, <3>1 DEF Left
  <2>6. QED
    BY <2>4, <2>5
<1>16. QED
  BY <1>5, <1>6, <1>7, <1>8, <1>9, <1>10, <1>11, <1>12, <1>13, <1>14, <1>15, Zenon DEF StepKind

\* Where the registries do not allow votes to be cast again, the counts of a
\* proposal are the weights of its receipts (castvote, deloldvotes, nextcycle).
\* Where they do, a second vote in the same direction breaks this.
THEOREM CountsAreTheReceipts ==
  ASSUME TRUE \notin Recastable
  PROVE  Spec => []CountsAreReceipts
<1> DEFINE Fit == Inv /\ \A b \in ProposalBallots : CountsFit(b)
<1>1. Init => Fit
  <2> SUFFICES ASSUME Init
               PROVE  Fit
    OBVIOUS
  <2>1. ProposalBallots = {}
    BY DEF Init, ProposalBallots, Rows
  <2>2. QED
    BY <2>1, InitInv
<1>2. Fit /\ [Next]_vars => Fit'
  <2> SUFFICES ASSUME Fit, [Next]_vars
               PROVE  Fit'
    OBVIOUS
  <2>1. Inv' /\ StepKind
    BY NextInv, StepKinds
  <2>2. ~ recastable
    BY ConstantsAssumption DEF Inv, TypeOK
  <2>3. ASSUME NEW b \in ProposalBallots'
        PROVE  CountsFit(b)'
    BY <2>1, <2>2, CountsNext DEF Inv
  <2>4. QED
    BY <2>1, <2>3
<1>3. Fit => CountsAreReceipts
  <2> SUFFICES ASSUME NEW b \in ProposalBallots, CountsFit(b), now <= proposals[ReferenceOf(b)].end_time,
                      NEW d \in Direction
               PROVE  proposals[ReferenceOf(b)].counts[d] =
                        SumFunctionOnSet(
                          [v \in Voter |-> Counted(v, b, proposals[ReferenceOf(b)].end_time, d)], Voter)
    BY DEF CountsAreReceipts
  <2> DEFINE t == proposals[ReferenceOf(b)].end_time
  <2>1. [v \in Voter |-> Counted(v, b, t, d)] = [v \in Voter |-> CountOf(receipts[v][b], t, d)]
    BY DEF Counted, CountOf, VotersOf
  <2>2. QED
    BY <2>1 DEF CountsFit, VotesIn
<1>4. QED
  BY <1>1, <1>2, <1>3, PTL DEF Spec
=============================================================================
