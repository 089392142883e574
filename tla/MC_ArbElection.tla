---------------------------- MODULE MC_ArbElection ----------------------------
(* Small instances of ArbElection for TLC. *)
EXTENDS ArbElection

CONSTANTS Seats, Term

\* Elections start a second after they are called and last a second.
ShortElections == {[max_elected_arbs |-> s, election_start |-> 1, election_duration |-> 1,
                    arb_term_length |-> Term] : s \in Seats}

\* Other publishers' ballots are open from the first to the second second.
FirstSeconds == {<<1, 2>>}

\* Bound: what comes of a vote on a proposal, of a proposal's next cycle and of
\* the codes publishers give is not followed further.
QuietOthers ==
  /\ \A r \in Rows(proposals) :
       /\ proposals[r].unique_voters = 0 /\ proposals[r].cycle_count = 0
       /\ proposals[r].status = 0
  /\ \A r \in Rows(leaderboards) : leaderboards[r].publisher # Self =>
       /\ leaderboards[r].status = 0
       /\ \A i \in DOMAIN leaderboards[r].candidates : leaderboards[r].candidates[i].status = 0

\* Bounds of the run about the count: what comes of states outside is not
\* followed further.  Only elections change the status of arbitrators, a voter
\* has a balance while there is a board to vote on, the first election is called
\* at once, and each is ended as soon as it can be.  A second one is followed to
\* its end if the number of its seats has wrapped.
Prompt ==
  /\ \A a \in Rows(arbitrators) :
       arbitrators[a].arb_status \in {Cases!UNAVAILABLE, Cases!SEAT_EXPIRED}
  /\ (\E v \in Voter : weight[v] > 0) =>
       \E r \in Rows(leaderboards) : Trail!VotingOpen(leaderboards[r])
  /\ now > 0 => HasBoard
  /\ HasBoard /\ auto_start_election => now <= Board.end_time + 1
  /\ now > 3 => Board.available_seats > Cardinality(Account)

Symmetries == Permutations(Account) \cup Permutations(Voter)
=============================================================================
