------------------------------- MODULE MC_Stake -------------------------------
(***************************************************************************)
(* Small instances of Bandwidth for TLC.  Refunds, votes and limits have   *)
(* only the stake in common: each behaviour is about one of them, its      *)
(* focus.  Time passes and refunds are paid in all.                        *)
(***************************************************************************)
EXTENDS Bandwidth

VARIABLE focus

CONSTANTS alice, bob, bp2

REFUNDS == "refunds"
VOTES == "votes"
LIMITS == "limits"

VoteWeights == [n \in 0..Cardinality(Producer) |-> n * n]

\* Alice has two tokens where refunds are the focus, one otherwise.
MCInit ==
  /\ BandwidthInit
  /\ focus \in {REFUNDS, VOTES, LIMITS}
  /\ stat = [supply |-> 3, max_supply |-> 3, issuer |-> alice]
  /\ accounts = [a \in Account \cup SystemAccounts |->
       IF a = alice /\ focus = REFUNDS THEN 2
       ELSE IF a = alice \/ (a = bob /\ focus # LIMITS) THEN 1
       ELSE IF a = bob THEN 0 ELSE Nil]

\* Refunds: no producer, no limit set.  Votes: accounts stake for
\* themselves and as NET, no limit set, one producer is not voted out.  Limits: no producer,
\* only Bob's are managed.
MCNext ==
  /\ Next
  /\ focus # VOTES => UNCHANGED producers
  /\ focus = VOTES => \A a, b \in Account : /\ del_bandwidth'[a][b].cpu = 0
                                            /\ a # b => del_bandwidth'[a][b] = Zero
  /\ producers'[bp2] # Nil => producers'[bp2].times_kicked = 0
  /\ focus # LIMITS => \A a \in Account : limits'[a].ram = 0
  /\ \A a \in Account : voters'[a] # Nil /\ (focus # LIMITS \/ a # bob) => voters'[a].flags1 = {}
  /\ UNCHANGED focus

MCSpec == /\ MCInit
          /\ [][MCNext]_<<vars, focus>>
          /\ Fairness
=============================================================================
