---------------------------- MODULE MC_TrailVoting ----------------------------
(* Small instances of TrailVoting for TLC. *)
EXTENDS TrailVoting

\* Voters are interchangeable, and so are publishers.
Symmetries == Permutations(Voter) \cup Permutations(Publisher)

CONSTANTS m1, m2

NoLists == {}

\* What a publisher can bring along: two candidates, or one who has a vote.
Lists == {<<[member |-> m1, votes |-> 0, status |-> 0], [member |-> m2, votes |-> 0, status |-> 0]>>,
          <<[member |-> m2, votes |-> 1, status |-> 0]>>}
=============================================================================
