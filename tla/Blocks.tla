-------------------------------- MODULE Blocks --------------------------------
(***************************************************************************)
(* contracts/eosio.system: what the system contract does at every block    *)
(* (onblock): blocks missed are counted and producers kicked for them      *)
(* (system_kick.cpp), the schedule is elected and its standby rotated in   *)
(* (system_rotation.cpp, voting.cpp), and the pay of producers shared out  *)
(* (producer_pay.cpp).  Around it, the chain: slots, of which some are     *)
(* missed, and schedules that are proposed, pending and active.  Name      *)
(* auctions, which onblock closes too, are in NameBids; recalculate_votes  *)
(* does nothing while Voting's VotesCounted holds.                         *)
(***************************************************************************)
EXTENDS Voting

CONSTANTS EOSIO,                      \* produces before the first schedule
          tedp_account, works_account, bpay_account,
          block_num_network_activation,
          TOP_PRODUCERS, MAX_PRODUCERS,
          MAX_BLOCK_PER_CYCLE,
          KICK_SHARE,                 \* one in so many may be kicked, 7
          SCHEDULE_SLOTS,             \* between elections, 120
          ROTATION_SLOTS,             \* 12 hours
          SNAPSHOT_SLOTS,             \* between payments, 3600
          ToProducers, ToWorkers,     \* tokens per slot
          unissued,                   \* holds the maximum supply less the supply
          Saved, Issuable,            \* at first in tedp_account, and unissued
          TedpAmounts,                \* amounts transferred to tedp_account
          Restakes,                   \* changes of an account's stake
          Width                       \* unsigned integers wrap at, 2^32

VARIABLES gstate,          \* eosio_global_state
          rotation,        \* rotation_state
          metrics,         \* schedule_metrics_state
          payments,        \* producer -> pay
          balances,        \* eosio.token
          saving_since,    \* when tedp_account got its row of balances, Nil without one
          head,            \* the last block: slot and producer
          schedules,       \* of the chain
          idle,            \* history: producers that missed a block or were not active in theirs
          hurried,         \* history: a schedule was proposed while the last one waited
          failed           \* history: how onblock has failed; how many were elected, or when

blockVars == <<gstate, rotation, metrics, payments, balances, saving_since,
               head, schedules, idle, hurried, failed>>
allVars == <<votingVars, blockVars>>

Holder == Producer \cup {EOSIO, tedp_account, works_account, bpay_account, unissued}

ASSUME BlocksAssumption ==
  /\ {EOSIO, tedp_account, works_account, bpay_account} \cap Producer = {}
  /\ Cardinality({EOSIO, tedp_account, works_account, bpay_account}) = 4
  /\ block_num_network_activation \in Nat
  /\ TOP_PRODUCERS \in 1..76 /\ MAX_PRODUCERS \in Nat /\ TOP_PRODUCERS <= MAX_PRODUCERS
  /\ \A n \in {MAX_BLOCK_PER_CYCLE, KICK_SHARE, SCHEDULE_SLOTS, ROTATION_SLOTS,
               SNAPSHOT_SLOTS} : n \in Nat \ {0}
  /\ unissued \notin Producer \cup {EOSIO, tedp_account, works_account, bpay_account}
  /\ ToProducers \in Nat /\ ToWorkers \in Nat /\ Restakes \subseteq Int
  /\ Saved \in Nat /\ Issuable \in Nat /\ TedpAmounts \subseteq Nat
  /\ Width \in Nat /\ Width > MaxTime /\ Width > MAX_BLOCK_PER_CYCLE
  /\ Nil \notin Producer \cup {EOSIO} /\ Nil \notin Int

\* Times are Nil before they are set; a schedule is a sequence of producers.
eosio_global_state ==
  [block_num : Nat, thresh_activated_stake_time : Nat \cup {Nil},
   last_pervote_bucket_fill : Nat \cup {Nil}, perblock_bucket : Int,
   total_unpaid_blocks : Nat, last_claimrewards : Nat, last_producer_schedule_update : Nat,
   last_producer_schedule_size : Nat]

rotation_state ==
  [bp_currently_out : Producer \cup {Nil}, sbp_currently_in : Producer \cup {Nil},
   bp_out_index : Nat, sbp_in_index : Nat, next_rotation_time : Nat, last_rotation_time : Nat]

\* missed has the producers of the schedule as its domain.
IsMetrics(m) ==
  /\ m.last_onblock_caller \in Producer \cup {EOSIO, Nil}
  /\ m.block_counter_correction \in Int
  /\ DOMAIN m.missed \subseteq Producer
  /\ \A p \in DOMAIN m.missed : m.missed[p] \in 0..(Width - 1)

Schedule == Seq(Producer \cup {EOSIO})

BlocksTypeOK ==
  /\ VotingTypeOK
  /\ gstate \in eosio_global_state
  /\ rotation \in rotation_state
  /\ IsMetrics(metrics)
  /\ payments \in [Producer -> Int \cup {Nil}]
  /\ balances \in [Holder -> Nat]
  /\ head \in [slot : Nat, producer : Producer \cup {EOSIO}]
  /\ schedules \in [active : Schedule, pending : Schedule \cup {Nil},
                    proposed : Schedule \cup {Nil}, since : Nat]
  /\ idle \subseteq Producer
  /\ hurried \in BOOLEAN
  /\ saving_since \in Time \cup {Nil}
  /\ failed \subseteq {"schedule", "shares", "saving", "supply"} \X Nat

BlocksInit ==
  /\ gstate = [block_num |-> 0, thresh_activated_stake_time |-> Nil,
               last_pervote_bucket_fill |-> Nil, perblock_bucket |-> 0,
               total_unpaid_blocks |-> 0, last_claimrewards |-> 0,
               last_producer_schedule_update |-> 0, last_producer_schedule_size |-> 0]
  /\ rotation = [bp_currently_out |-> Nil, sbp_currently_in |-> Nil, bp_out_index |-> TOP_PRODUCERS,
                 sbp_in_index |-> 75, next_rotation_time |-> 0, last_rotation_time |-> 0]
  /\ metrics = [last_onblock_caller |-> Nil, block_counter_correction |-> 0, missed |-> <<>>]
  /\ payments = [p \in Producer |-> Nil]
  /\ saving_since \in {Nil, 0}
  /\ balances = [h \in Holder |-> IF h = unissued THEN Issuable
                                  ELSE IF h = tedp_account /\ saving_since # Nil THEN Saved ELSE 0]
  /\ head = [slot |-> 0, producer |-> EOSIO]
  /\ schedules = [active |-> <<EOSIO>>, pending |-> Nil, proposed |-> Nil,
                  since |-> 0]
  /\ idle = {}
  /\ hurried = FALSE
  /\ failed = {}

-----------------------------------------------------------------------------
(* The tables in the course of onblock, which changes nothing once it failed *)

Work == [producers |-> producers, g |-> gstate, rot |-> rotation, met |-> metrics,
         pay |-> payments, bal |-> balances, sch |-> schedules, failed |-> {}]

\* Orders are relations: a smaller key comes first, and of equals the one before by R.
ByKey(key, R) ==
  {r \in (DOMAIN key) \X (DOMAIN key) :
     key[r[1]] < key[r[2]] \/ (key[r[1]] = key[r[2]] /\ r \in R)}

ByName == LET names == SetToSeq(Producer)
          IN {r \in Producer \X Producer :
                \E i, j \in DOMAIN names : i < j /\ r = <<names[i], names[j]>>}

\* S in the order of R: everybody has as many before him as his place says.
InOrder(S, R) ==
  [i \in 1..Cardinality(S) |-> CHOOSE p \in S : Cardinality({q \in S : <<q, p>> \in R}) = i - 1]

Registered(w) == {p \in Producer : w.producers[p] # Nil}

IsActive(w, p) == IF p \notin Registered(w) THEN FALSE ELSE w.producers[p].is_active

\* The index prototalvote: whoever is active by votes, then whoever is not.
ByVotes(w) ==
  ByKey([p \in Registered(w) |-> IF IsActive(w, p) THEN -w.producers[p].total_votes
                                 ELSE w.producers[p].total_votes], ByName)

FirstOf(seq, n) == SubSeq(seq, 1, IF Len(seq) < n THEN Len(seq) ELSE n)

-----------------------------------------------------------------------------
(* Rotation *)

Elected(w) ==
  LET Electable == {p \in Registered(w) : IsActive(w, p) /\ w.producers[p].total_votes > 0}
  IN FirstOf(InOrder(Electable, ByVotes(w)), MAX_PRODUCERS)

Position(prods, p) ==
  IF \E i \in DOMAIN prods : prods[i] = p THEN (CHOOSE i \in DOMAIN prods : prods[i] = p) - 1
  ELSE Len(prods)

\* restart_missed_blocks_per_rotation
Restarted(producerTable, prods) ==
  [p \in Producer |->
     IF p \notin Range(prods) THEN producerTable[p]
     ELSE [producerTable[p] EXCEPT
             !.times_kicked = IF @ > 0 /\ producerTable[p].missed_blocks_per_rotation = 0
                              THEN @ - 1 ELSE @,
             !.missed_blocks_per_rotation = 0]]

\* The next pair is chosen, if anybody stands by.
Rotated(w, prods, block_time) ==
  LET out == IF w.rot.bp_out_index >= TOP_PRODUCERS - 1 THEN 0 ELSE w.rot.bp_out_index + 1
      in == IF w.rot.sbp_in_index >= Len(prods) - 1 THEN TOP_PRODUCERS ELSE w.rot.sbp_in_index + 1
      timed == [w.rot EXCEPT !.last_rotation_time = block_time,
                             !.next_rotation_time = block_time + ROTATION_SLOTS]
  IN [w EXCEPT !.producers = Restarted(w.producers, prods),
               !.rot = IF Len(prods) > TOP_PRODUCERS
                       THEN [timed EXCEPT !.bp_out_index = out, !.sbp_in_index = in,
                                          !.bp_currently_out = prods[out + 1],
                                          !.sbp_currently_in = prods[in + 1]]
                       ELSE timed]

\* Mutant: the pair may stand wherever it is elected.
StillApartAnywhere(prods, out, in) == TRUE

\* The pair is still on its sides of the line.
StillApart(prods, out, in) ==
  Len(prods) > TOP_PRODUCERS =>
    /\ Position(prods, out) < TOP_PRODUCERS
    /\ Position(prods, in) \in TOP_PRODUCERS..(MAX_PRODUCERS - 1)

HasPair(rot) == rot.bp_currently_out # Nil /\ rot.sbp_currently_in # Nil

BothElected(rot, prods) ==
  HasPair(rot) /\ {rot.bp_currently_out, rot.sbp_currently_in} \subseteq Range(prods)

\* Between rotations, a pair that votes or kicks have moved is forgotten.
PairKept(rot, prods) ==
  LET none == [rot EXCEPT !.bp_currently_out = Nil, !.sbp_currently_in = Nil]
  IN IF ~HasPair(rot) THEN rot
     ELSE IF ~BothElected(rot, prods)
     THEN IF Len(prods) < TOP_PRODUCERS
          THEN [none EXCEPT !.bp_out_index = TOP_PRODUCERS, !.sbp_in_index = MAX_PRODUCERS + 1]
          ELSE none
     ELSE IF StillApart(prods, rot.bp_currently_out, rot.sbp_currently_in) THEN rot ELSE none

\* check_rotation_state: the work it leaves, and whom the pair concerns.
RotationDue(w, block_time) == w.rot.next_rotation_time <= block_time

check_rotation_state(w, prods, block_time) ==
  IF RotationDue(w, block_time) THEN Rotated(w, prods, block_time)
  ELSE [w EXCEPT !.rot = PairKept(w.rot, prods)]

\* The producers at the top, with the standby of the pair for the producer.  A
\* rotation with nobody standing by leaves the old pair unused in this election.
TopProducers(w, prods, rot, block_time) ==
  LET Swaps == IF RotationDue(w, block_time) THEN Len(prods) > TOP_PRODUCERS
               ELSE BothElected(rot, prods)
  IN [i \in DOMAIN FirstOf(prods, TOP_PRODUCERS) |->
        IF Swaps /\ prods[i] = rot.bp_currently_out THEN rot.sbp_currently_in ELSE prods[i]]

\* set_proposed_producers, by the chain: nothing to be done while a proposal
\* waits or when the schedule is the one there is.
Accepted(sch, schedule) ==
  /\ sch.proposed = Nil
  /\ schedule # <<>>
  /\ schedule # (IF sch.pending # Nil THEN sch.pending ELSE sch.active)

update_elected_producers(w, block_time) ==
  LET prods == Elected(w)
      checked == check_rotation_state(w, prods, block_time)
      top == TopProducers(w, prods, checked.rot, block_time)
      schedule == InOrder(Range(top), ByName)
      timed == [checked EXCEPT !.g.last_producer_schedule_update = block_time]
  IN IF Len(schedule) # Len(top) THEN [timed EXCEPT !.failed = @ \cup {<<"schedule", Len(prods)>>}]
     ELSE IF ~Accepted(w.sch, schedule) THEN timed
     ELSE [timed EXCEPT !.sch = [w.sch EXCEPT !.proposed = schedule, !.since = now],
                        !.met.missed = [p \in Range(schedule) |-> MAX_BLOCK_PER_CYCLE],
                        !.g.last_producer_schedule_size = Len(schedule)]

-----------------------------------------------------------------------------
(* Missed blocks *)

\* Seconds of a rotation; slots are half seconds.
crossed_missed_blocks_threshold(rot, missed, size) ==
  LET timeframe == (rot.next_rotation_time - rot.last_rotation_time) \div 2
      maxBlocksPerCycle == (size - 1) * MAX_BLOCK_PER_CYCLE
      totalBlocks == (maxBlocksPerCycle * timeframe) \div (maxBlocksPerCycle \div 2)
      maxBlocksPerProducer == (totalBlocks * MAX_BLOCK_PER_CYCLE) \div maxBlocksPerCycle
  IN IF size <= 1 THEN FALSE ELSE missed * 100 > maxBlocksPerProducer * 15

\* The block that ends a cycle counts for the next.
reset_schedule_metrics(w, producer) ==
  [w EXCEPT !.met.missed = [p \in DOMAIN w.met.missed |->
     IF p = producer THEN MAX_BLOCK_PER_CYCLE - 1 ELSE MAX_BLOCK_PER_CYCLE]]

\* update_producer_missed_blocks, and what corrects it.
WithMissed(w, producer, n) ==
  [w EXCEPT !.met.missed = [p \in DOMAIN w.met.missed |->
     IF p = producer THEN n ELSE w.met.missed[p]]]

Charged(w) ==
  [w EXCEPT !.producers = [p \in Producer |->
     IF p \in DOMAIN w.met.missed /\ IsActive(w, p)
     THEN [w.producers[p] EXCEPT !.missed_blocks_per_rotation = @ + w.met.missed[p]]
     ELSE w.producers[p]]]

\* Those that missed most are kicked, of equals the one with fewer votes.
Kickable(w) ==
  LET Missed(p) == w.producers[p].missed_blocks_per_rotation
      Candidates == {p \in DOMAIN w.met.missed :
        /\ IsActive(w, p) /\ Missed(p) > 0
        /\ crossed_missed_blocks_threshold(w.rot, Missed(p), Cardinality(DOMAIN w.met.missed))}
  IN InOrder(Candidates, ByKey([p \in Candidates |-> -Missed(p)],
                               ByKey([p \in Candidates |-> w.producers[p].total_votes], ByName)))

update_missed_blocks_per_rotation(w) ==
  LET charged == Charged(w)
      Out == Range(FirstOf(Kickable(charged), Cardinality(DOMAIN w.met.missed) \div KICK_SHARE))
  IN [charged EXCEPT !.producers =
        [p \in Producer |-> IF p \in Out THEN Kicked(charged.producers[p], 0)
                            ELSE charged.producers[p]]]

\* The active schedule is the one the metrics are about.
IsNewScheduleActivated(w) ==
  /\ w.g.last_producer_schedule_size = Len(w.sch.active)
  /\ Range(w.sch.active) = DOMAIN w.met.missed

CalledBy(w, producer) == [w EXCEPT !.met.last_onblock_caller = producer]

\* A schedule newly activated: what was missed before does not count.
Corrected(w, producer) ==
  LET correction == w.met.block_counter_correction
  IN IF correction <= 0 THEN w
     ELSE CalledBy(
       IF w.met.last_onblock_caller # EOSIO
       THEN [reset_schedule_metrics(w, Nil) EXCEPT !.met.block_counter_correction = -3]
       ELSE IF producer \notin DOMAIN w.met.missed THEN w
       ELSE WithMissed(w, producer, (w.met.missed[producer] + Width - correction) % Width),
       producer)

\* Mutant: counting starts in the middle of a turn.
WaitedNot(w, producer) ==
  IF w.met.block_counter_correction >= 0 THEN w
  ELSE CalledBy([w EXCEPT !.met.block_counter_correction = 0], producer)

\* Counting waits until the third turn from then begins.
Waited(w, producer) ==
  IF w.met.block_counter_correction >= 0 THEN w
  ELSE CalledBy([w EXCEPT !.met.block_counter_correction =
                            IF w.met.last_onblock_caller # producer THEN @ + 1 ELSE @],
                producer)

NotActivated(w, producer) ==
  CalledBy([w EXCEPT !.met.block_counter_correction =
              IF producer = EOSIO \/ w.met.last_onblock_caller = producer THEN @ + 1 ELSE 1],
           producer)

\* The block of producer, which begins a turn other than the first of its cycle,
\* or is one more of its turn.
Counted(w, producer) ==
  LET Counts == producer \in DOMAIN w.met.missed
      over == /\ w.met.last_onblock_caller # producer
              /\ Counts /\ w.met.missed[producer] # MAX_BLOCK_PER_CYCLE
      called == CalledBy(w, producer)
  IN IF over THEN reset_schedule_metrics(update_missed_blocks_per_rotation(called), producer)
     ELSE IF ~Counts \/ w.met.missed[producer] = 0 THEN called
     ELSE WithMissed(called, producer, w.met.missed[producer] - 1)

\* check_missed_blocks, and what onblock does when it returns true.
CheckMissedBlocks(w, block) ==
  LET p == block.producer
      waited == Waited(Corrected(w, p), p)
  IN IF p = EOSIO \/ ~IsNewScheduleActivated(w) THEN NotActivated(w, p)
     ELSE IF waited.met.block_counter_correction < 0 THEN waited
     ELSE IF p \in Registered(waited) /\ ~IsActive(waited, p)
     THEN update_elected_producers(reset_schedule_metrics(waited, Nil), block.slot)
     ELSE Counted(waited, p)
-----------------------------------------------------------------------------
(* Pay *)

Smaller(m, n) == IF m < n THEN m ELSE n

\* Division as the code does it, towards zero.
Quotient(m, n) == IF m < 0 THEN -((-m) \div n) ELSE m \div n

\* new_tokens.  The rate does not follow the supply here.
NewTokens(w) == (ToWorkers + ToProducers) * (now - w.g.last_pervote_bucket_fill)

\* get_balance finds no row of tedp_account when tokens are due.
NoSaving(w) == now > w.g.last_pervote_bucket_fill /\ saving_since = Nil

\* issue would exceed the maximum supply.
SupplyShort(w) == NewTokens(w) > w.bal[tedp_account] + w.bal[unissued]

\* Tokens of the saving account first, the rest is issued.
BucketFilled(w) ==
  LET slots == now - w.g.last_pervote_bucket_fill
      to_workers == ToWorkers * slots
      to_producers == ToProducers * slots
      transfer_tokens == Smaller(w.bal[tedp_account], NewTokens(w))
  IN IF slots <= 0 THEN w
     ELSE [w EXCEPT
       !.bal = [w.bal EXCEPT ![tedp_account] = @ - transfer_tokens,
                             ![unissued] = @ - (NewTokens(w) - transfer_tokens),
                             ![works_account] = @ + to_workers,
                             ![bpay_account] = @ + to_producers],
       !.g.perblock_bucket = @ + to_producers,
       !.g.last_pervote_bucket_fill = now]

\* Those before the first that is not active.
ActiveCount(w) ==
  LET order == FirstOf(InOrder(Registered(w), ByVotes(w)), MAX_PRODUCERS)
      Idle == {i \in DOMAIN order : ~IsActive(w, order[i])}
  IN IF Idle = {} THEN Len(order) ELSE (CHOOSE i \in Idle : \A j \in Idle : i <= j) - 1

ShareCount(w) ==
  LET n == ActiveCount(w)
  IN IF n <= TOP_PRODUCERS THEN 2 * n ELSE 2 * TOP_PRODUCERS + (n - TOP_PRODUCERS)

\* Mutant: a payment not claimed is replaced.
AddedLast(pay, amount) == amount

Added(pay, amount) == IF pay = Nil THEN amount ELSE pay + amount

\* All that are active are paid, two shares each at the top.
Shared(w, share) ==
  LET paid == FirstOf(InOrder({p \in Registered(w) : IsActive(w, p)}, ByVotes(w)), MAX_PRODUCERS)
      Paid == Range(paid)
      amount == [p \in Paid |-> IF Position(paid, p) < TOP_PRODUCERS THEN 2 * share ELSE share]
      unpaid == [p \in Paid |-> w.producers[p].unpaid_blocks]
  IN [w EXCEPT
       !.g.perblock_bucket = @ - SumFunctionOnSet(amount, Paid),
       !.g.total_unpaid_blocks = @ - SumFunctionOnSet(unpaid, Paid),
       !.producers = [p \in Producer |->
         IF p \in Paid THEN [w.producers[p] EXCEPT !.unpaid_blocks = 0] ELSE w.producers[p]],
       !.pay = [p \in Producer |-> IF p \in Paid THEN Added(w.pay[p], amount[p]) ELSE w.pay[p]]]

\* Tokens are moved and issued by inline actions, after the shares were counted.
claimrewards_snapshot(w) ==
  LET filled == BucketFilled(w)
      Failing(cause, n) == [w EXCEPT !.failed = @ \cup {<<cause, n>>}]
  IN IF w.g.total_unpaid_blocks = 0 THEN w
     ELSE IF NoSaving(w) THEN Failing("saving", now)
     ELSE IF ShareCount(w) = 0 THEN Failing("shares", Len(Elected(w)))
     ELSE IF SupplyShort(w) THEN Failing("supply", now)
     ELSE Shared(filled, Quotient(filled.g.perblock_bucket, ShareCount(w)))

ClaimRewards(owner) ==
  /\ gstate.thresh_activated_stake_time # Nil
  /\ IsActive(Work, owner)
  /\ payments[owner] # Nil
  /\ 0 < payments[owner] /\ payments[owner] <= balances[bpay_account]
  /\ balances' = [balances EXCEPT ![bpay_account] = @ - payments[owner],
                                  ![owner] = @ + payments[owner]]
  /\ payments' = [payments EXCEPT ![owner] = Nil]
  /\ UNCHANGED <<votingVars, gstate, rotation, metrics, saving_since, head, schedules, idle,
                 hurried, failed>>

-----------------------------------------------------------------------------
(* onblock *)

\* The chain is activated by blocks and votes; blocks are counted until then.
NotYetActivated(w, block) ==
  LET n == w.g.block_num + 1
      counted == [w EXCEPT !.g.block_num = n]
  IN IF n < block_num_network_activation \/ total_producer_vote_weight <= 0 THEN counted
     ELSE [counted EXCEPT !.g.thresh_activated_stake_time = now, !.g.last_claimrewards = block.slot]

BucketStarted(w) == [w EXCEPT !.g.last_pervote_bucket_fill = IF @ = Nil THEN now ELSE @]

UnpaidBlock(w, producer) ==
  IF producer \notin Registered(w) THEN w
  ELSE [w EXCEPT !.g.total_unpaid_blocks = @ + 1,
                 !.producers = [p \in Producer |->
                   IF p = producer THEN [w.producers[p] EXCEPT !.unpaid_blocks = @ + 1]
                   ELSE w.producers[p]]]

Scheduling(w, block) ==
  IF block.slot - w.g.last_producer_schedule_update > SCHEDULE_SLOTS
  THEN update_elected_producers(w, block.slot) ELSE w

Paying(w, block) ==
  IF w.g.last_claimrewards + SNAPSHOT_SLOTS <= block.slot
  THEN [claimrewards_snapshot(w) EXCEPT !.g.last_claimrewards = block.slot] ELSE w

\* block is the one before, now the time of the one being produced.
onblock(w, block) ==
  IF w.g.thresh_activated_stake_time = Nil THEN NotYetActivated(w, block)
  ELSE LET checked == CheckMissedBlocks(BucketStarted(w), block)
       IN Paying(Scheduling(UnpaidBlock(checked, block.producer), block), block)

-----------------------------------------------------------------------------
(* The chain *)

\* Producers take turns of MAX_BLOCK_PER_CYCLE slots.
Scheduled ==
  schedules.active[((now \div MAX_BLOCK_PER_CYCLE) % Len(schedules.active)) + 1]

\* The block is one of a schedule not active yet, while another still waited.
CutsWait(w, block) ==
  /\ w.g.thresh_activated_stake_time # Nil
  /\ w.met.block_counter_correction < 0
  /\ block.producer = EOSIO \/ ~IsNewScheduleActivated(w)

\* A block is produced even when onblock fails.
Produce ==
  LET w == onblock(Work, head)
  IN /\ now < MaxTime
     /\ now' = now + 1
     /\ head' = [slot |-> now, producer |-> Scheduled]
     /\ failed' = failed \cup w.failed
     /\ hurried' = (hurried \/ CutsWait(Work, head))
     /\ idle' = idle \cup {p \in Registered(Work) : p = head.producer /\ ~IsActive(Work, p)}
     /\ \/ /\ w.failed = {}
           /\ producers' = w.producers /\ gstate' = w.g /\ rotation' = w.rot /\ metrics' = w.met
           /\ payments' = w.pay /\ balances' = w.bal /\ schedules' = w.sch
        \/ /\ w.failed # {}
           /\ UNCHANGED <<producers, gstate, rotation, metrics, payments, balances, schedules>>
     /\ UNCHANGED <<voters, tallies, rexVars, saving_since>>

Miss ==
  /\ now < MaxTime
  /\ now' = now + 1
  /\ idle' = idle \cup ({Scheduled} \cap Producer)
  /\ UNCHANGED <<voters, producers, tallies, rexVars, gstate, rotation, metrics, payments,
                 balances, saving_since, head, schedules, hurried, failed>>

\* A schedule moves on when a later block has confirmed the one that moved it.
Confirmed == head.slot > schedules.since

BecomePending ==
  /\ schedules.proposed # Nil
  /\ schedules.pending = Nil
  /\ Confirmed
  /\ schedules' = [schedules EXCEPT !.pending = schedules.proposed, !.proposed = Nil,
                                    !.since = now]
  /\ UNCHANGED <<votingVars, gstate, rotation, metrics, payments, balances, saving_since, head,
                 idle, hurried, failed>>

BecomeActive ==
  /\ schedules.pending # Nil
  /\ Confirmed
  /\ schedules' = [schedules EXCEPT !.active = schedules.pending, !.pending = Nil, !.since = now]
  /\ UNCHANGED <<votingVars, gstate, rotation, metrics, payments, balances, saving_since, head,
                 idle, hurried, failed>>

\* Stake changes by calls that are in Bandwidth and Rex.
Restake(account) ==
  /\ \E change \in Restakes : UpdateVotingPower(voters, account, change)
  /\ UNCHANGED <<now, rexVars, blockVars>>

\* eosio.token: a transfer to tedp_account, or open with an amount of zero, gives
\* it a row; close, once it holds nothing, takes it away.
Save(amount) ==
  /\ balances' = [balances EXCEPT ![tedp_account] = @ + amount]
  /\ saving_since' = IF saving_since = Nil THEN now ELSE saving_since
  /\ UNCHANGED <<votingVars, gstate, rotation, metrics, payments, head, schedules, idle, hurried,
                 failed>>

CloseSaving ==
  /\ saving_since # Nil
  /\ balances[tedp_account] = 0
  /\ saving_since' = Nil
  /\ UNCHANGED <<votingVars, gstate, rotation, metrics, payments, balances, head, schedules, idle,
                 hurried, failed>>

BlocksNext ==
  \/ Produce \/ Miss \/ BecomePending \/ BecomeActive
  \/ \E a \in Account : Restake(a)
  \/ \E p \in Producer : ClaimRewards(p)
  \/ \E n \in TedpAmounts : Save(n)
  \/ CloseSaving
  \/ VotingNext /\ UNCHANGED blockVars

BlocksSpec == VotingInit /\ BlocksInit /\ [][BlocksNext]_allVars

-----------------------------------------------------------------------------
(* Properties *)

\* What a producer has to claim, and its blocks not paid for yet.
ToClaim(pay) == IF pay = Nil THEN 0 ELSE pay
Unpaid(row) == IF row = Nil THEN 0 ELSE row.unpaid_blocks

\* What lies in eosio.bpay is what producers may claim and what is still to be
\* shared, though shares are counted over other producers than are paid and
\* payments wait for days; and the blocks to be paid are those of the producers.
PayHeld ==
  /\ balances[bpay_account] = gstate.perblock_bucket +
       SumFunctionOnSet([p \in Producer |-> ToClaim(payments[p])], Producer)
  /\ gstate.total_unpaid_blocks =
       SumFunctionOnSet([p \in Producer |-> Unpaid(producers[p])], Producer)

\* A producer that misses no block is charged with none and so not kicked for it,
\* over schedules proposed, pending and activated in the middle of turns, other
\* producers' misses and kicks and the resets of the counters.  Not so once onblock
\* failed, which leaves blocks uncounted; nor when a schedule was proposed while
\* the one before still waited: its blocks end that wait, and the next begins to be
\* counted in the middle of a turn.
ChargedForOwnMisses ==
  failed = {} /\ ~hurried =>
    \A p \in Registered(Work) \ idle : producers[p].missed_blocks_per_rotation = 0

\* What producers and workers can be given: unissued, and saved from the first.
Reserve == Issuable + (IF saving_since = 0 THEN Saved ELSE 0)

\* When onblock fails, and with it all it does, it is of one of four causes: a
\* schedule that names a producer twice, only while nobody stands by; shares for
\* nobody, only when nobody is elected; a saving account without its row of
\* balances; a supply that is short, only when what was saved and could be issued
\* does not pay for all slots so far.  Votes, kicks and rotations in any other
\* order keep the schedule sound, no slot is paid for twice, and the tokens saved
\* go before the supply.
OnblockRuns ==
  /\ \A n \in 0..MAX_PRODUCERS : <<"schedule", n>> \in failed => n <= TOP_PRODUCERS
  /\ \A n \in 0..MAX_PRODUCERS : <<"shares", n>> \in failed => n = 0
  /\ \A t \in Time : <<"saving", t>> \in failed => saving_since = Nil \/ t < saving_since
  /\ \A t \in Time : <<"supply", t>> \in failed => Reserve < (ToWorkers + ToProducers) * t
=============================================================================
