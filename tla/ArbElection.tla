------------------------------ MODULE ArbElection ------------------------------
(***************************************************************************)
(* The election side of contracts/eosio.arbitration: nominees, seats and   *)
(* the elections held on leaderboards of contracts/eosio.trail.            *)
(*                                                                         *)
(* The trail contract is the module TrailVoting.  An inline action runs in *)
(* the transaction of its sender: with one of them the action of           *)
(* TrailVoting is a conjunct of the sender's; endelection sends several,   *)
(* whose effects follow one another on the same tables.  The contract acts *)
(* on trail as the publisher Self.                                         *)
(***************************************************************************)
EXTENDS Integers, SequencesExt

CONSTANTS Account,     \* accounts that can stand for election
          Self,        \* the arbitration contract
          Configs,     \* what setconfig can be given
          Windows,     \* bound: begin and end times of other publishers' ballots
          Publisher, Voter, Member, Nil, MaxBallotId, MaxTime, MaxCycle, Weight,
          Recastable, CandidateLists, NumDeletes, NumSeats, Status  \* of TrailVoting

VARIABLES config,              \* set by setconfig
          current_ballot_id, auto_start_election,  \* of the configuration, too
          nominees,            \* table of nominees
          arbitrators,         \* table of arbitrators
          major,               \* actors of the permission eosio.arb@major
          now, ballots, proposals, leaderboards, totals, receipts, weight, recastable,
          cast                 \* history: who voted on which ballot for whom

\* The contract is one of trail's publishers.
Trail == INSTANCE TrailVoting WITH Publisher <- Publisher \cup {Self}

trailVars == <<now, ballots, proposals, leaderboards, totals, receipts, weight, recastable>>
electionVars == <<config, current_ballot_id, auto_start_election>>
seatVars == <<nominees, arbitrators, major>>
vars == <<electionVars, seatVars, trailVars, cast>>

\* The side of the case files, of which an election sees the arbitrators only.
Cases == INSTANCE ArbCases WITH
  Account <- {}, Arb <- Account, Hash <- {}, Link <- {}, MaxCaseId <- 0, MaxClaimId <- 0,
  MAX_UNREAD_CLAIMS <- 21, Fees <- {0}, Deposits <- {}, MaxTreasury <- 0,
  casefiles <- [c \in {0} |-> Nil],
  claims <- [k \in {0} |-> Nil],
  arbitrators <- [a \in Account |->
                    IF arbitrators[a] = Nil THEN Nil
                    ELSE [arb_status |-> arbitrators[a].arb_status, open_case_ids |-> {}]],
  accounts <- [o \in {} |-> Nil],
  fee <- 0, treasury <- 0

\* board status
CLOSED == 3

\* Mutant: whoever is on the list passes.
ZERO_VOTE_THRESHOLD == 0

MIN_VOTE_THRESHOLD == 1

UINT16_MAX == 65535

\* election_start and election_duration are lengths of time.
Config == [max_elected_arbs : 1..UINT16_MAX, election_start : Nat, election_duration : Nat,
           arb_term_length : Nat]

Arbitrator == [arb_status : Cases!ArbStatus, term_expiration : Nat]

\* Names are 64-bit numbers, so there are finitely many accounts.
ASSUME ConstantsAssumption ==
  /\ Trail!ConstantsAssumption /\ Cases!ConstantsAssumption
  /\ IsFiniteSet(Account)
  /\ Nil \notin Arbitrator
  /\ Configs \subseteq Config /\ Configs # {}
  /\ Windows \subseteq Trail!Time \X Trail!Time
  /\ Self \notin Publisher
  /\ Account \subseteq Member
  /\ {0, CLOSED} \subseteq Status

Rows(table) == {k \in DOMAIN table : table[k] # Nil}

TypeOK ==
  /\ config \in Configs
  /\ current_ballot_id \in Trail!BallotId
  /\ auto_start_election \in BOOLEAN
  /\ nominees \subseteq Account
  /\ arbitrators \in [Account -> Arbitrator \cup {Nil}]
  /\ \A a \in Rows(arbitrators) :
       \E c \in Configs : arbitrators[a].term_expiration <= now + c.arb_term_length
  /\ major \subseteq Account
  /\ Trail!TypeOK
  /\ cast \subseteq Voter \X Trail!BallotId \X Member

Init == /\ config \in Configs
        /\ current_ballot_id = 0
        /\ auto_start_election = FALSE
        /\ nominees = {}
        /\ arbitrators = [a \in Account |-> Nil]
        /\ major = {}
        /\ Trail!Init
        /\ cast = {}

SetConfig == /\ config' \in Configs
             /\ UNCHANGED <<current_ballot_id, auto_start_election, seatVars, trailVars, cast>>

-----------------------------------------------------------------------------
(* Seats *)

\* What has_available_seats does to the table: terms that are over end.
Lapsed(table) ==
  [a \in Account |-> IF table[a] # Nil /\ now > table[a].term_expiration
                     THEN [table[a] EXCEPT !.arb_status = Cases!SEAT_EXPIRED]
                     ELSE table[a]]

\* The seat of a dismissed arbitrator counts until the term is over.
Occupied(table) == {a \in Rows(table) : table[a].arb_status # Cases!SEAT_EXPIRED}

\* In uint8_t.
AvailableSeats(table) == (config.max_elected_arbs - Cardinality(Occupied(table))) % 256

Seated(a) == [arb_status |-> Cases!UNAVAILABLE,
              term_expiration |-> now + config.arb_term_length]

\* Mutant: only those who take cases.
PermissionsOfAvailable(table) ==
  {a \in Rows(table) : table[a].arb_status = Cases!AVAILABLE}

\* The filter of endelection lets every row pass, as get_arb_permissions' does.
Permissions(table) ==
  {a \in Rows(table) : \/ table[a].arb_status # Cases!SEAT_EXPIRED
                       \/ table[a].arb_status # Cases!REMOVED}

\* Left as it is when there is nobody to give it to.
SetPermissions(perms) == major' = IF perms = {} THEN major ELSE perms

NewArbStatus(a, new_status) ==
  /\ a \in Rows(arbitrators)
  /\ arbitrators' = [arbitrators EXCEPT ![a].arb_status = new_status]
  /\ UNCHANGED <<electionVars, nominees, major, trailVars, cast>>

DismissArb(a) ==
  /\ a \in Rows(arbitrators)
  /\ arbitrators[a].arb_status \notin {Cases!SEAT_EXPIRED, Cases!REMOVED}
  /\ arbitrators' = [arbitrators EXCEPT ![a].arb_status = Cases!REMOVED]
  /\ SetPermissions(Permissions(arbitrators'))
  /\ UNCHANGED <<electionVars, nominees, trailVars, cast>>

-----------------------------------------------------------------------------
(* Nominees *)

RegArb(nominee) ==
  /\ nominee \notin nominees
  /\ nominee \in Rows(arbitrators) => now > arbitrators[nominee].term_expiration
  /\ nominees' = nominees \cup {nominee}
  /\ arbitrators' = [arbitrators EXCEPT ![nominee] =
       IF @ = Nil THEN Nil ELSE [@ EXCEPT !.arb_status = Cases!SEAT_EXPIRED]]
  /\ UNCHANGED <<electionVars, major, trailVars, cast>>

\* The ballot current_ballot_id leads to a leaderboard; its type and its
\* publisher are not looked at.
HasBoard == /\ current_ballot_id \in Rows(ballots)
            /\ Trail!ReferenceOf(current_ballot_id) \in Rows(leaderboards)

Board == leaderboards[Trail!ReferenceOf(current_ballot_id)]

\* A candidate who is no longer a nominee stays on the board.
UnregNominee(nominee) ==
  /\ nominee \in nominees
  /\ HasBoard
  /\ auto_start_election => now < Board.begin_time
  /\ nominees' = nominees \ {nominee}
  /\ UNCHANGED <<electionVars, arbitrators, major, trailVars, cast>>

CandAddLead(nominee) ==
  /\ auto_start_election
  /\ nominee \in nominees
  /\ HasBoard
  /\ Board.status # CLOSED
  /\ Trail!AddCandidate(Self, current_ballot_id, nominee)
  /\ UNCHANGED <<electionVars, seatVars, cast>>

CandRmvLead(nominee) ==
  /\ nominee \in nominees
  /\ Trail!RmvCandidate(Self, current_ballot_id, nominee)
  /\ UNCHANGED <<electionVars, seatVars, cast>>

-----------------------------------------------------------------------------
(* Elections *)

\* Mutant: the new election is held on the board of the last one.
SameBoardKey(r) ==
  IF HasBoard THEN r = Trail!ReferenceOf(current_ballot_id)
  ELSE Trail!IsNextKey(r, Rows(leaderboards))

NewBoardKey(r) == Trail!IsNextKey(r, Rows(leaderboards))

\* regballot and setseats for the next ballot id, then addcandidate for the
\* members one after the other, on the boards as they are by then.
StartNewElection(boards, seats, members) ==
  /\ config.election_duration > 0
  /\ config.election_start > 0
  /\ seats > 0
  /\ \E r, b \in Trail!BallotId : \E begin_time, end_time \in Trail!Time :
       /\ begin_time = now + config.election_start
       /\ end_time = begin_time + config.election_duration
       /\ NewBoardKey(r)
       /\ Trail!IsNextKey(b, Rows(ballots))
       /\ current_ballot_id' = b
       /\ Trail!ListBallot(Trail!LEADERBOARD, r)
       /\ leaderboards' = [boards EXCEPT ![r] =
            [Trail!NewLeaderboard(Self, begin_time, end_time) EXCEPT
               !.available_seats = seats,
               !.candidates = [i \in DOMAIN members |->
                                 [member |-> members[i], votes |-> 0, status |-> 0]]]]
  /\ UNCHANGED <<now, proposals, receipts, weight, recastable>>

\* With no seat left the id is set all the same, and there is no ballot.
InitElection ==
  /\ ~ auto_start_election
  /\ auto_start_election' = TRUE
  /\ arbitrators' = Lapsed(arbitrators)
  /\ IF AvailableSeats(arbitrators') > 0
     THEN StartNewElection(leaderboards, AvailableSeats(arbitrators'), <<>>)
     ELSE /\ \E b \in Trail!BallotId :
               Trail!IsNextKey(b, Rows(ballots)) /\ current_ballot_id' = b
          /\ UNCHANGED trailVars
  /\ UNCHANGED <<config, nominees, major, cast>>

\* The candidates by votes; std::sort leaves the order of equals open.
Ranked(candidates) ==
  {ranking \in SetToSeqs(ToSet(candidates)) :
     \A i, j \in DOMAIN ranking : i < j => ranking[i].votes >= ranking[j].votes}

\* Mutant: the last seat is not compared.
ContendersButLast(ranking, seats) ==
  IF Len(ranking) > seats
  THEN SubSeq(ranking, 1, seats -
         Cardinality({i \in 1..(seats - 1) : ranking[i].votes = ranking[seats + 1].votes}))
  ELSE ranking

\* Those with a seat, but none that is tied with the first one without.
Contenders(ranking, seats) ==
  IF Len(ranking) > seats
  THEN SubSeq(ranking, 1, seats -
         Cardinality({i \in 1..seats : ranking[i].votes = ranking[seats + 1].votes}))
  ELSE ranking

\* Candidates that are nominees no more are passed over, their seats stay free.
Winners(contenders) ==
  {a \in nominees : \E i \in DOMAIN contenders :
     contenders[i].member = a /\ contenders[i].votes >= MIN_VOTE_THRESHOLD}

\* Mutant: winners stay nominees.
RemainingWithWinners(won) == nominees

Remaining(won) == nominees \ won

Closed(boards, r) == [boards EXCEPT ![r].status = CLOSED]

\* Mutant: whoever published the board.
BoardEnded == now > Board.end_time

OwnBoardEnded == Board.publisher = Self /\ now > Board.end_time

\* Any nominee can end an election, and end it again: the board's status is
\* not looked at.  A new election takes over the remaining nominees; without
\* one they all have to register again.
EndElection(nominee) ==
  /\ HasBoard
  /\ Trail!IsBallot(current_ballot_id, Trail!LEADERBOARD)
  /\ OwnBoardEnded
  /\ nominee \in nominees
  /\ \E ranking \in Ranked(Board.candidates) :
       LET contenders == Contenders(ranking, Board.available_seats)
           won == Winners(contenders)
           remaining == Remaining(won)
           seated == [a \in Account |-> IF a \in won THEN Seated(a) ELSE arbitrators[a]]
           boards == Closed(leaderboards, Trail!ReferenceOf(current_ballot_id))
       IN  /\ SetPermissions(IF contenders = <<>> THEN {} ELSE Permissions(seated))
           /\ arbitrators' = IF remaining = {} THEN seated ELSE Lapsed(seated)
           /\ IF remaining # {} /\ AvailableSeats(arbitrators') > 0
              THEN /\ nominees' = remaining
                   /\ \E members \in SetToSeqs(remaining) :
                        StartNewElection(boards, AvailableSeats(arbitrators'), members)
                   /\ UNCHANGED auto_start_election
              ELSE /\ nominees' = {}
                   /\ auto_start_election' = FALSE
                   /\ leaderboards' = boards
                   /\ UNCHANGED <<current_ballot_id, now, ballots, proposals, totals,
                                  receipts, weight, recastable>>
  /\ UNCHANGED <<config, cast>>

-----------------------------------------------------------------------------
\* A vote for a candidate of whichever board.
VoteForCandidate ==
  /\ \E v \in Voter, b \in Trail!BallotId :
       /\ Trail!IsBallot(b, Trail!LEADERBOARD)
       /\ LET candidates == leaderboards[Trail!ReferenceOf(b)].candidates
          IN  \E i \in DOMAIN candidates :
                /\ Trail!VoteForLeaderboard(v, b, i - 1)
                /\ cast' = cast \cup {<<v, b, candidates[i].member>>}
  /\ UNCHANGED <<electionVars, seatVars>>

\* What else others do with trail meanwhile: voters vote on proposals and
\* delete receipts, publishers register ballots and do with them what they
\* can, and anybody cycles a proposal.
TrailNext ==
  /\ \/ Trail!Tick
     \/ Trail!InitSettings
     \/ \E v \in Voter : \/ Trail!WeightChanges(v)
                         \/ \E n \in NumDeletes : Trail!DelOldVotes(v, n)
                         \/ \E b \in Trail!BallotId, d \in Trail!Direction :
                              Trail!VoteForProposal(v, b, d)
     \/ \E w \in Windows :
          \/ \E p \in Publisher : \/ Trail!RegProposal(p, w[1], w[2])
                                  \/ Trail!RegLeaderboard(p, w[1], w[2])
          \/ \E b \in Trail!BallotId : Trail!NextCycle(b, w[1], w[2])
     \/ \E p \in Publisher : Trail!BallotNext(p)
  /\ UNCHANGED <<electionVars, seatVars, cast>>

Next == \/ SetConfig
        \/ InitElection
        \/ \E a \in Account : \/ RegArb(a)
                              \/ UnregNominee(a)
                              \/ CandAddLead(a)
                              \/ CandRmvLead(a)
                              \/ EndElection(a)
                              \/ \E s \in Cases!AVAILABLE..Cases!REMOVED : NewArbStatus(a, s)
                              \/ DismissArb(a)
        \/ VoteForCandidate
        \/ TrailNext

Spec == Init /\ [][Next]_vars
-----------------------------------------------------------------------------
(* Properties *)

OwnBallots == {b \in Rows(ballots) : /\ ballots[b].table_id = Trail!LEADERBOARD
                                     /\ leaderboards[ballots[b].reference_id].publisher = Self}

\* Nobody stands for election during a term of his own: winners leave the
\* nominees, and regarb lets an arbitrator in only when the term is over.
NomineesHaveNoTerm ==
  \A a \in nominees : a \in Rows(arbitrators) => now > arbitrators[a].term_expiration

\* Those who get a new term in this step.
NewTerms ==
  {a \in Account :
     /\ arbitrators'[a] # Nil
     /\ arbitrators[a] # Nil =>
          arbitrators'[a].term_expiration # arbitrators[a].term_expiration}

\* An election is decided by the votes alone, not by how equals were sorted:
\* a nominee wins who has votes and no more candidates with as many votes, or
\* more, than there are seats.
MostVotesWin ==
  [][\A n \in Account : EndElection(n) =>
       NewTerms = {a \in nominees : \E i \in DOMAIN Board.candidates :
         /\ Board.candidates[i].member = a
         /\ Board.candidates[i].votes >= MIN_VOTE_THRESHOLD
         /\ Cardinality({j \in DOMAIN Board.candidates :
              Board.candidates[j].votes >= Board.candidates[i].votes})
              <= Board.available_seats}]_vars

\* Every new term is owed to a voter: the current ballot is a board of the
\* contract's own, although initelection may set an id that others get, and
\* somebody has voted on it for the candidate who is seated, whether the receipt
\* is still there or deloldvotes has taken it.
SeatedByVoters ==
  [][\A a \in NewTerms :
       /\ current_ballot_id \in OwnBallots
       /\ \E v \in Voter : <<v, current_ballot_id, a>> \in cast]_vars

\* Seen from the case files, an election is what ArbCases takes it for: its
\* action ElectionOutcome, for some winners and some ended terms.
CasesSpec == Cases!Spec

\* The results of all boards are final, in spite of everything the contract
\* does to boards inside one transaction.
ResultsKept == Trail!ResultsFinal
=============================================================================
