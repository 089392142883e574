-------------------------------- MODULE Msig --------------------------------
(***************************************************************************)
(* contracts/eosio.msig: proposals of transactions, the approvals of the   *)
(* permission levels asked for, invalidations, and the execution, which    *)
(* hands the transaction to the chain as a deferred one.  Every action is  *)
(* one transaction; now counts blocks, of half a second.  A proposal is    *)
(* identified by its proposer, the scope of its rows, and its name.        *)
(***************************************************************************)
EXTENDS Integers, Sequences

CONSTANTS Proposer, ProposalName,
          Account,      \* accounts that cancel and execute
          Level,        \* permission levels
          ActorOf,      \* Level -> the actor of the level
          Trx,          \* transactions
          Quorums,      \* Trx -> the sets of levels that authorize it
          Delay,        \* Trx -> its delay_sec, in blocks
          Window,       \* blocks a deferred transaction can be run for
          RequestLists, \* arguments of propose: how often a level is listed
          MaxTime,      \* bound on the clock, in blocks
          Nil           \* no row

VARIABLES now,
          proposals,      \* <<proposer, name>> -> [trx, expiration]
          approvals,      \* approvals2: <<proposer, name>> -> lists by level
          old_approvals,  \* rows written by the first version of the contract
          invalidations,  \* actor -> last_invalidation_time
          deferred,       \* the chain: sender id -> transaction to be run
          behind          \* history: levels that approved and did not take it back

vars == <<now, proposals, approvals, old_approvals, invalidations, deferred, behind>>
rows == <<proposals, approvals, old_approvals>>

Id == Proposer \X ProposalName
Time == 0..MaxTime
Actors == {ActorOf[l] : l \in Level}

\* time_point_sec of a block
Seconds(time) == time \div 2

Proposal == [trx : Trx, expiration : 0..Seconds(MaxTime)]

\* A level is listed by itself: the order between levels is never used.  The
\* time of a requested approval is never read.
Approvals == [requested : [Level -> Nat], provided : [Level -> Seq(Time)]]
OldApprovals == [requested : [Level -> Nat], provided : [Level -> Nat]]

Deferred == [trx : Trx, delay_until : Nat]

ASSUME ConstantsAssumption ==
  /\ MaxTime \in Nat /\ Window \in Nat
  /\ ActorOf \in [Level -> Account]
  /\ Quorums \in [Trx -> SUBSET SUBSET Level]
  /\ Delay \in [Trx -> Nat]
  /\ RequestLists \subseteq [Level -> Nat]
  /\ Nil \notin Proposal /\ Nil \notin Approvals /\ Nil \notin OldApprovals
  /\ Nil \notin Deferred /\ Nil \notin Time /\ Nil \notin Trx
  /\ Nil \notin [trx : Trx, support : SUBSET Level]

TypeOK == /\ now \in Time
          /\ proposals \in [Id -> Proposal \cup {Nil}]
          /\ approvals \in [Id -> Approvals \cup {Nil}]
          /\ old_approvals \in [Id -> OldApprovals \cup {Nil}]
          /\ invalidations \in [Actors -> Time \cup {Nil}]
          /\ deferred \in [Id -> Deferred \cup {Nil}]
          /\ behind \in [Id -> SUBSET Level]

\* check_transaction_authorization
Authorized(trx, levels) == \E quorum \in Quorums[trx] : quorum \subseteq levels

Listed(list) == {l \in Level : list[l] > 0}

\* A proposal of the first version, each level of which may have approved.
Legacy(id, trx, list, approved) ==
  /\ proposals = [i \in Id |-> IF i = id THEN [trx |-> trx, expiration |-> Seconds(MaxTime)]
                               ELSE Nil]
  /\ old_approvals =
       [i \in Id |-> IF i = id
                     THEN [requested |-> [l \in Level |-> IF l \in approved THEN 0 ELSE list[l]],
                           provided |-> [l \in Level |-> IF l \in approved THEN list[l] ELSE 0]]
                     ELSE Nil]
  /\ behind = [i \in Id |-> IF i = id THEN approved ELSE {}]

Init == /\ now = 0
        /\ \/ /\ proposals = [id \in Id |-> Nil]
              /\ old_approvals = [id \in Id |-> Nil]
              /\ behind = [id \in Id |-> {}]
           \/ \E id \in Id, trx \in Trx, list \in RequestLists : \E approved \in SUBSET Listed(list) :
                Authorized(trx, Listed(list)) /\ Legacy(id, trx, list, approved)
        /\ approvals = [id \in Id |-> Nil]
        /\ invalidations = [a \in Actors |-> Nil]
        /\ deferred = [id \in Id |-> Nil]

-----------------------------------------------------------------------------
(* The clock and the deferred transactions of the chain *)

Tick == /\ now < MaxTime
        /\ now' = now + 1
        /\ UNCHANGED <<rows, invalidations, deferred, behind>>

\* Run once its delay is over, and not after its window.
RunDeferred(id) ==
  /\ deferred[id] # Nil
  /\ deferred[id].delay_until <= now
  /\ now <= deferred[id].delay_until + Window
  /\ deferred' = [deferred EXCEPT ![id] = Nil]
  /\ UNCHANGED <<now, rows, invalidations, behind>>

ExpireDeferred(id) ==
  /\ deferred[id] # Nil
  /\ deferred[id].delay_until + Window < now
  /\ deferred' = [deferred EXCEPT ![id] = Nil]
  /\ UNCHANGED <<now, rows, invalidations, behind>>

-----------------------------------------------------------------------------
(* Proposals and approvals *)

Propose(id, trx, list, expiration) ==
  /\ Seconds(now) <= expiration
  /\ proposals[id] = Nil
  /\ Authorized(trx, Listed(list))
  /\ approvals[id] = Nil           \* emplace of a row that is there fails
  /\ proposals' = [proposals EXCEPT ![id] = [trx |-> trx, expiration |-> expiration]]
  /\ approvals' = [approvals EXCEPT ![id] = [requested |-> list,
                                             provided |-> [l \in Level |-> <<>>]]]
  /\ behind' = [behind EXCEPT ![id] = {}]
  /\ UNCHANGED <<now, old_approvals, invalidations, deferred>>

\* proposal_hash: the transaction the caller means, or Nil when left out.
HashFits(id, proposal_hash) ==
  proposal_hash = Nil \/ (proposals[id] # Nil /\ proposals[id].trx = proposal_hash)

Given(row, level) ==
  [row EXCEPT !.requested[level] = @ - 1, !.provided[level] = Append(@, now)]

Approve(id, level, proposal_hash) ==
  /\ HashFits(id, proposal_hash)
  /\ \/ /\ approvals[id] # Nil
        /\ approvals[id].requested[level] > 0
        /\ approvals' = [approvals EXCEPT ![id] = Given(@, level)]
        /\ UNCHANGED old_approvals
     \/ /\ approvals[id] = Nil
        /\ old_approvals[id] # Nil
        /\ old_approvals[id].requested[level] > 0
        /\ old_approvals' = [old_approvals EXCEPT ![id].requested[level] = @ - 1,
                                                  ![id].provided[level] = @ + 1]
        /\ UNCHANGED approvals
  /\ behind' = [behind EXCEPT ![id] = @ \cup {level}]
  /\ UNCHANGED <<now, proposals, invalidations, deferred>>

\* The first of the level's approvals is taken back.
TakenBack(row, level) ==
  [row EXCEPT !.requested[level] = @ + 1, !.provided[level] = Tail(@)]

Unapprove(id, level) ==
  /\ \/ /\ approvals[id] # Nil
        /\ approvals[id].provided[level] # <<>>
        /\ approvals' = [approvals EXCEPT ![id] = TakenBack(@, level)]
        /\ UNCHANGED old_approvals
     \/ /\ approvals[id] = Nil
        /\ old_approvals[id] # Nil
        /\ old_approvals[id].provided[level] > 0
        /\ old_approvals' = [old_approvals EXCEPT ![id].requested[level] = @ + 1,
                                                  ![id].provided[level] = @ - 1]
        /\ UNCHANGED approvals
  /\ behind' = [behind EXCEPT ![id] = @ \ {level}]
  /\ UNCHANGED <<now, proposals, invalidations, deferred>>

Invalidate(account) ==
  /\ invalidations' = [invalidations EXCEPT ![account] = now]
  /\ behind' = [id \in Id |-> {l \in behind[id] : ActorOf[l] # account}]
  /\ UNCHANGED <<now, rows, deferred>>

-----------------------------------------------------------------------------
(* The end of a proposal *)

\* Mutant: the row of the approvals stays behind.
ProposalErased(id) ==
  /\ proposals' = [proposals EXCEPT ![id] = Nil]
  /\ UNCHANGED <<approvals, old_approvals, behind>>

\* The proposal and its row of approvals, which is in one of the two tables.
Erased(id) ==
  /\ proposals' = [proposals EXCEPT ![id] = Nil]
  /\ \/ /\ approvals[id] # Nil
        /\ approvals' = [approvals EXCEPT ![id] = Nil]
        /\ UNCHANGED old_approvals
     \/ /\ approvals[id] = Nil
        /\ old_approvals[id] # Nil
        /\ old_approvals' = [old_approvals EXCEPT ![id] = Nil]
        /\ UNCHANGED approvals
  /\ behind' = [behind EXCEPT ![id] = {}]

Cancel(id, canceler) ==
  /\ proposals[id] # Nil
  /\ canceler # id[1] => proposals[id].expiration < Seconds(now)
  /\ Erased(id)
  /\ UNCHANGED <<now, invalidations, deferred>>

\* Mutant: an approval as old as the invalidation counts.
StandsAtTheTime(level, time) ==
  \/ invalidations[ActorOf[level]] = Nil
  \/ invalidations[ActorOf[level]] <= time

Stands(level, time) ==
  \/ invalidations[ActorOf[level]] = Nil
  \/ invalidations[ActorOf[level]] < time

\* The levels exec counts.
Standing(id) ==
  IF approvals[id] # Nil
  THEN {l \in Level : \E i \in DOMAIN approvals[id].provided[l] :
                        Stands(l, approvals[id].provided[l][i])}
  ELSE {l \in Listed(old_approvals[id].provided) : invalidations[ActorOf[l]] = Nil}

\* send_deferred fails while a transaction with the same sender id waits.
Exec(id) ==
  /\ proposals[id] # Nil
  /\ Seconds(now) <= proposals[id].expiration
  /\ approvals[id] # Nil \/ old_approvals[id] # Nil
  /\ Authorized(proposals[id].trx, Standing(id))
  /\ deferred[id] = Nil
  /\ deferred' = [deferred EXCEPT ![id] = [trx |-> proposals[id].trx,
                                           delay_until |-> now + Delay[proposals[id].trx]]]
  /\ Erased(id)
  /\ UNCHANGED <<now, invalidations>>

Next ==
  \/ Tick
  \/ \E id \in Id :
       \/ \E trx \in Trx, list \in RequestLists, expiration \in 0..Seconds(MaxTime) :
            Propose(id, trx, list, expiration)
       \/ \E level \in Level, hash \in Trx \cup {Nil} : Approve(id, level, hash)
       \/ \E level \in Level : Unapprove(id, level)
       \/ \E canceler \in Account : Cancel(id, canceler)
       \/ Exec(id)
       \/ RunDeferred(id)
       \/ ExpireDeferred(id)
  \/ \E account \in Actors : Invalidate(account)

Spec == Init /\ [][Next]_vars

-----------------------------------------------------------------------------
(* Properties *)

\* A proposal has its approvals in exactly one of the two tables, and no row of
\* approvals is left without its proposal, where the next proposal of the same
\* name would find it (cancel and exec erase in two tables, propose writes two).
ApprovalsFollowProposals ==
  \A id \in Id : /\ approvals[id] = Nil \/ old_approvals[id] = Nil
                 /\ (proposals[id] # Nil) = (approvals[id] # Nil \/ old_approvals[id] # Nil)

Promise == INSTANCE MsigPromise WITH
  open <- [id \in Id |-> IF proposals[id] = Nil THEN Nil
                         ELSE [trx |-> proposals[id].trx, support |-> behind[id]]],
  pending <- [id \in Id |-> IF deferred[id] = Nil THEN Nil ELSE deferred[id].trx]

\* What is executed has, by approvals given to this proposal and not taken back
\* by unapprove or invalidate in the meantime, a quorum; it is executed once,
\* and a new proposal of the same name starts without approvals.
PromiseSpec == Promise!Spec
=============================================================================
