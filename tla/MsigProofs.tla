------------------------------ MODULE MsigProofs ------------------------------
(***************************************************************************)
(* Proofs about Msig, for all accounts, levels, transactions and quorums:  *)
(* the types, the two tables of a proposal, and that the contract          *)
(* implements MsigPromise when no proposal lists a level twice.            *)
(***************************************************************************)
EXTENDS Msig, SequenceTheorems, TLAPS

-----------------------------------------------------------------------------
(* Rows *)

\* Dates are kept in the range of a proposal's expiration.
LEMMA SecondsType == Seconds(MaxTime) \in 0..Seconds(MaxTime)
BY ConstantsAssumption DEF Seconds

\* One approval more.
LEMMA GivenType ==
  ASSUME NEW row \in Approvals, NEW level \in Level, row.requested[level] > 0, now \in Time
  PROVE  /\ Given(row, level) \in Approvals
         /\ \A l \in Level \ {level} :
              /\ Given(row, level).requested[l] = row.requested[l]
              /\ Given(row, level).provided[l] = row.provided[l]
         /\ Given(row, level).requested[level] = row.requested[level] - 1
         /\ Given(row, level).provided[level] = Append(row.provided[level], now)
<1>1. Append(row.provided[level], now) \in Seq(Time)
  BY DEF Approvals
<1>2. row.requested[level] - 1 \in Nat
  BY DEF Approvals
<1>3. QED
  BY <1>1, <1>2 DEF Given, Approvals

\* The first approval less.
LEMMA TakenBackType ==
  ASSUME NEW row \in Approvals, NEW level \in Level, row.provided[level] # <<>>
  PROVE  /\ TakenBack(row, level) \in Approvals
         /\ \A l \in Level \ {level} :
              /\ TakenBack(row, level).requested[l] = row.requested[l]
              /\ TakenBack(row, level).provided[l] = row.provided[l]
         /\ TakenBack(row, level).requested[level] = row.requested[level] + 1
         /\ TakenBack(row, level).provided[level] = Tail(row.provided[level])
<1>1. Tail(row.provided[level]) \in Seq(Time)
  BY DEF Approvals
<1>2. row.requested[level] + 1 \in Nat
  BY DEF Approvals
<1>3. QED
  BY <1>1, <1>2 DEF TakenBack, Approvals

-----------------------------------------------------------------------------
(* Types *)

\* A proposal, one or none, made by the contract's first version.
LEMMA InitTypes ==
  ASSUME Init
  PROVE  TypeOK
<1>1. /\ now \in Time
      /\ approvals \in [Id -> Approvals \cup {Nil}]
      /\ invalidations \in [Actors -> Time \cup {Nil}]
      /\ deferred \in [Id -> Deferred \cup {Nil}]
  BY ConstantsAssumption DEF Init, Time
<1>2. ASSUME proposals = [id \in Id |-> Nil], old_approvals = [id \in Id |-> Nil],
             behind = [id \in Id |-> {}]
      PROVE  TypeOK
  BY <1>1, <1>2 DEF TypeOK
<1>3. ASSUME NEW id \in Id, NEW trx \in Trx, NEW list \in RequestLists,
             NEW approved \in SUBSET Listed(list), Legacy(id, trx, list, approved)
      PROVE  TypeOK
  <2>1. list \in [Level -> Nat] /\ approved \subseteq Level
    BY ConstantsAssumption DEF Listed
  <2>2. [trx |-> trx, expiration |-> Seconds(MaxTime)] \in Proposal
    BY SecondsType DEF Proposal
  <2>3. [requested |-> [l \in Level |-> IF l \in approved THEN 0 ELSE list[l]],
         provided |-> [l \in Level |-> IF l \in approved THEN list[l] ELSE 0]] \in OldApprovals
    BY <2>1 DEF OldApprovals
  <2>4. proposals \in [Id -> Proposal \cup {Nil}]
    BY <1>3, <2>2 DEF Legacy
  <2>5. old_approvals \in [Id -> OldApprovals \cup {Nil}]
    BY <1>3, <2>3 DEF Legacy
  <2>6. behind \in [Id -> SUBSET Level]
    BY <1>3, <2>1 DEF Legacy
  <2>7. QED
    BY <1>1, <2>4, <2>5, <2>6 DEF TypeOK
<1>4. QED
  BY <1>2, <1>3 DEF Init

\* Erasing a proposal and its approvals.
LEMMA ErasedTypes ==
  ASSUME TypeOK, NEW id \in Id, Erased(id)
  PROVE  /\ proposals' \in [Id -> Proposal \cup {Nil}]
         /\ approvals' \in [Id -> Approvals \cup {Nil}]
         /\ old_approvals' \in [Id -> OldApprovals \cup {Nil}]
         /\ behind' \in [Id -> SUBSET Level]
BY DEF Erased, TypeOK

\* Every action keeps the types.
LEMMA NextTypes ==
  ASSUME TypeOK, [Next]_vars
  PROVE  TypeOK'
<1> USE DEF TypeOK, rows
<1>1. CASE UNCHANGED vars
  BY <1>1 DEF vars
<1>2. CASE Tick
  BY <1>2, ConstantsAssumption DEF Tick, Time
<1>3. ASSUME NEW id \in Id, NEW trx \in Trx, NEW list \in RequestLists,
             NEW expiration \in 0..Seconds(MaxTime), Propose(id, trx, list, expiration)
      PROVE  TypeOK'
  <2>1. [trx |-> trx, expiration |-> expiration] \in Proposal
    BY DEF Proposal
  <2>2. [requested |-> list, provided |-> [l \in Level |-> <<>>]] \in Approvals
    BY ConstantsAssumption DEF Approvals
  <2>3. QED
    BY <1>3, <2>1, <2>2 DEF Propose
<1>4. ASSUME NEW id \in Id, NEW level \in Level, NEW hash \in Trx \cup {Nil},
             Approve(id, level, hash)
      PROVE  TypeOK'
  <2>1. approvals' \in [Id -> Approvals \cup {Nil}]
    BY <1>4, GivenType DEF Approve
  <2>2. old_approvals' \in [Id -> OldApprovals \cup {Nil}]
    BY <1>4 DEF Approve, OldApprovals
  <2>3. QED
    BY <1>4, <2>1, <2>2 DEF Approve
<1>5. ASSUME NEW id \in Id, NEW level \in Level, Unapprove(id, level)
      PROVE  TypeOK'
  <2>1. approvals' \in [Id -> Approvals \cup {Nil}]
    BY <1>5, TakenBackType DEF Unapprove
  <2>2. old_approvals' \in [Id -> OldApprovals \cup {Nil}]
    <3>1. CASE UNCHANGED old_approvals
      BY <3>1
    <3>2. CASE /\ old_approvals[id] # Nil
               /\ old_approvals[id].provided[level] > 0
               /\ old_approvals' = [old_approvals EXCEPT
                    ![id].requested[level] = @ + 1, ![id].provided[level] = @ - 1]
      <4> DEFINE row == old_approvals[id]
                 r == [row.requested EXCEPT ![level] = @ + 1]
                 p == [row.provided EXCEPT ![level] = @ - 1]
      <4>1. row \in OldApprovals
        BY <3>2
      <4>2. r \in [Level -> Nat] /\ p \in [Level -> Nat]
        BY <3>2, <4>1 DEF OldApprovals
      <4>3. [requested |-> r, provided |-> p] \in OldApprovals
        BY <4>2 DEF OldApprovals
      <4>4. old_approvals' = [old_approvals EXCEPT ![id] = [requested |-> r, provided |-> p]]
        BY <3>2, <4>1 DEF OldApprovals
      <4>5. QED
        BY <4>3, <4>4
    <3>3. QED
      BY <1>5, <3>1, <3>2 DEF Unapprove
  <2>3. QED
    BY <1>5, <2>1, <2>2 DEF Unapprove
<1>6. ASSUME NEW id \in Id, NEW canceler \in Account, Cancel(id, canceler)
      PROVE  TypeOK'
  BY <1>6, ErasedTypes DEF Cancel
<1>7. ASSUME NEW id \in Id, Exec(id)
      PROVE  TypeOK'
  <2>1. proposals[id].trx \in Trx
    BY <1>7 DEF Exec, Proposal
  <2>2. [trx |-> proposals[id].trx, delay_until |-> now + Delay[proposals[id].trx]] \in Deferred
    BY <2>1, ConstantsAssumption DEF Deferred, Time
  <2>3. QED
    BY <1>7, <2>2, ErasedTypes DEF Exec
<1>8. ASSUME NEW id \in Id, RunDeferred(id) \/ ExpireDeferred(id)
      PROVE  TypeOK'
  BY <1>8 DEF RunDeferred, ExpireDeferred
<1>9. ASSUME NEW account \in Actors, Invalidate(account)
      PROVE  TypeOK'
  BY <1>9 DEF Invalidate
<1>10. QED
  BY <1>1, <1>2, <1>3, <1>4, <1>5, <1>6, <1>7, <1>8, <1>9 DEF Next

\* The tables of eosio.msig keep their types.
THEOREM MsigTypes == Spec => []TypeOK
<1>1. Init => TypeOK
  BY InitTypes
<1>2. TypeOK /\ [Next]_vars => TypeOK'
  BY NextTypes
<1>3. QED
  BY <1>1, <1>2, PTL DEF Spec

-----------------------------------------------------------------------------
(* The two tables of a proposal *)

\* Rows are not taken for Nil.
LEMMA RowsAreThere ==
  ASSUME TypeOK
  PROVE  /\ Nil \notin Proposal /\ Nil \notin Approvals /\ Nil \notin OldApprovals
         /\ \A id \in Id : approvals[id] # Nil => approvals[id] \in Approvals
         /\ \A id \in Id : old_approvals[id] # Nil => old_approvals[id] \in OldApprovals
         /\ \A id \in Id : proposals[id] # Nil => proposals[id] \in Proposal
BY ConstantsAssumption DEF TypeOK

\* What is erased is gone from the three tables, and nothing else.
LEMMA ErasedAll ==
  ASSUME TypeOK, ApprovalsFollowProposals, NEW id \in Id, Erased(id)
  PROVE  /\ proposals'[id] = Nil /\ approvals'[id] = Nil /\ old_approvals'[id] = Nil
         /\ \A i \in Id \ {id} : /\ proposals'[i] = proposals[i]
                                /\ approvals'[i] = approvals[i]
                                /\ old_approvals'[i] = old_approvals[i]
BY DEF Erased, TypeOK, ApprovalsFollowProposals

\* At first no table has a row.
LEMMA InitFollow ==
  ASSUME Init
  PROVE  ApprovalsFollowProposals
<1>1. ASSUME proposals = [id \in Id |-> Nil], old_approvals = [id \in Id |-> Nil],
             approvals = [id \in Id |-> Nil]
      PROVE  ApprovalsFollowProposals
  BY <1>1 DEF ApprovalsFollowProposals
<1>2. ASSUME NEW id \in Id, NEW trx \in Trx, NEW list \in RequestLists,
             NEW approved \in SUBSET Listed(list), Legacy(id, trx, list, approved),
             approvals = [i \in Id |-> Nil]
      PROVE  ApprovalsFollowProposals
  <2>1. TypeOK
    BY InitTypes
  <2>2. \A i \in Id : (proposals[i] # Nil) = (i = id) /\ (old_approvals[i] # Nil) = (i = id)
    <3>1. proposals[id] \in Proposal /\ old_approvals[id] \in OldApprovals
      <4>1. [trx |-> trx, expiration |-> Seconds(MaxTime)] \in Proposal
        BY SecondsType DEF Proposal
      <4>2. list \in [Level -> Nat]
        BY ConstantsAssumption
      <4>3. [requested |-> [l \in Level |-> IF l \in approved THEN 0 ELSE list[l]],
             provided |-> [l \in Level |-> IF l \in approved THEN list[l] ELSE 0]]
              \in OldApprovals
        BY <4>2 DEF OldApprovals
      <4>4. QED
        BY <1>2, <4>1, <4>3 DEF Legacy
    <3>2. \A i \in Id \ {id} : proposals[i] = Nil /\ old_approvals[i] = Nil
      BY <1>2 DEF Legacy
    <3>3. QED
      BY <3>1, <3>2, ConstantsAssumption
  <2>3. QED
    BY <1>2, <2>2 DEF ApprovalsFollowProposals
<1>3. QED
  BY <1>1, <1>2 DEF Init

\* Every step changes the tables together.
LEMMA NextFollow ==
  ASSUME TypeOK, ApprovalsFollowProposals, [Next]_vars
  PROVE  ApprovalsFollowProposals'
<1> USE DEF ApprovalsFollowProposals, rows
<1>1. CASE UNCHANGED rows
  BY <1>1
<1>2. ASSUME NEW id \in Id, NEW trx \in Trx, NEW list \in RequestLists,
             NEW expiration \in 0..Seconds(MaxTime), Propose(id, trx, list, expiration)
      PROVE  ApprovalsFollowProposals'
  <2>1. [trx |-> trx, expiration |-> expiration] # Nil
    BY ConstantsAssumption DEF Proposal
  <2>2. [requested |-> list, provided |-> [l \in Level |-> <<>>]] # Nil
    <3>1. list \in [Level -> Nat] /\ [l \in Level |-> <<>>] \in [Level -> Seq(Time)]
      BY ConstantsAssumption
    <3>2. [requested |-> list, provided |-> [l \in Level |-> <<>>]] \in Approvals
      BY <3>1 DEF Approvals
    <3>3. QED
      BY <3>2, RowsAreThere
  <2>3. QED
    BY <1>2, <2>1, <2>2 DEF Propose, TypeOK
<1>3. ASSUME NEW id \in Id, NEW level \in Level, NEW hash \in Trx \cup {Nil},
             Approve(id, level, hash)
      PROVE  ApprovalsFollowProposals'
  <2>1. approvals[id] # Nil /\ approvals[id].requested[level] > 0
          => Given(approvals[id], level) # Nil
    BY RowsAreThere, GivenType DEF TypeOK
  <2>2. /\ old_approvals'[id] # Nil <=> old_approvals[id] # Nil
        /\ \A i \in Id \ {id} : old_approvals'[i] = old_approvals[i]
    <3>1. CASE UNCHANGED old_approvals
      BY <3>1
    <3>2. CASE /\ old_approvals[id] # Nil
               /\ old_approvals[id].requested[level] > 0
               /\ old_approvals' = [old_approvals EXCEPT
                    ![id].requested[level] = @ - 1, ![id].provided[level] = @ + 1]
      <4> DEFINE row == old_approvals[id]
                 r == [row.requested EXCEPT ![level] = @ - 1]
                 p == [row.provided EXCEPT ![level] = @ + 1]
      <4>1. row \in OldApprovals /\ old_approvals \in [Id -> OldApprovals \cup {Nil}]
        BY <3>2 DEF TypeOK
      <4>2. old_approvals' = [old_approvals EXCEPT ![id] = [requested |-> r, provided |-> p]]
        BY <3>2, <4>1 DEF OldApprovals
      <4>3. r \in [Level -> Nat] /\ p \in [Level -> Nat]
        BY <3>2, <4>1 DEF OldApprovals
      <4>4. [requested |-> r, provided |-> p] \in OldApprovals
        BY <4>3 DEF OldApprovals
      <4>5. QED
        BY <3>2, <4>1, <4>2, <4>4, RowsAreThere
    <3>3. QED
      BY <1>3, <3>1, <3>2 DEF Approve
  <2>3. QED
    BY <1>3, <2>1, <2>2 DEF Approve, TypeOK
<1>4. ASSUME NEW id \in Id, NEW level \in Level, Unapprove(id, level)
      PROVE  ApprovalsFollowProposals'
  <2>1. approvals[id] # Nil /\ approvals[id].provided[level] # <<>>
          => TakenBack(approvals[id], level) # Nil
    BY RowsAreThere, TakenBackType DEF TypeOK
  <2>2. /\ old_approvals'[id] # Nil <=> old_approvals[id] # Nil
        /\ \A i \in Id \ {id} : old_approvals'[i] = old_approvals[i]
    <3>1. CASE UNCHANGED old_approvals
      BY <3>1
    <3>2. CASE /\ old_approvals[id] # Nil
               /\ old_approvals[id].provided[level] > 0
               /\ old_approvals' = [old_approvals EXCEPT
                    ![id].requested[level] = @ + 1, ![id].provided[level] = @ - 1]
      <4> DEFINE row == old_approvals[id]
                 r == [row.requested EXCEPT ![level] = @ + 1]
                 p == [row.provided EXCEPT ![level] = @ - 1]
      <4>1. row \in OldApprovals /\ old_approvals \in [Id -> OldApprovals \cup {Nil}]
        BY <3>2 DEF TypeOK
      <4>2. old_approvals' = [old_approvals EXCEPT ![id] = [requested |-> r, provided |-> p]]
        BY <3>2, <4>1 DEF OldApprovals
      <4>3. r \in [Level -> Nat] /\ p \in [Level -> Nat]
        BY <3>2, <4>1 DEF OldApprovals
      <4>4. [requested |-> r, provided |-> p] \in OldApprovals
        BY <4>3 DEF OldApprovals
      <4>5. QED
        BY <3>2, <4>1, <4>2, <4>4, RowsAreThere
    <3>3. QED
      BY <1>4, <3>1, <3>2 DEF Unapprove
  <2>3. QED
    BY <1>4, <2>1, <2>2 DEF Unapprove, TypeOK
<1>5. ASSUME NEW id \in Id, Erased(id)
      PROVE  ApprovalsFollowProposals'
  <2>1. /\ proposals'[id] = Nil /\ approvals'[id] = Nil /\ old_approvals'[id] = Nil
        /\ \A i \in Id \ {id} : /\ proposals'[i] = proposals[i]
                               /\ approvals'[i] = approvals[i]
                               /\ old_approvals'[i] = old_approvals[i]
    BY <1>5, ErasedAll
  <2>2. QED
    BY <2>1
<1>6. QED
  BY <1>1, <1>2, <1>3, <1>4, <1>5
     DEF Next, vars, Tick, Cancel, Exec, RunDeferred, ExpireDeferred, Invalidate

\* No approval of a proposal ever lies in both tables or without its proposal.
THEOREM TablesFollow == Spec => []ApprovalsFollowProposals
<1>1. Init => TypeOK /\ ApprovalsFollowProposals
  BY InitTypes, InitFollow
<1>2. TypeOK /\ ApprovalsFollowProposals /\ [Next]_vars
        => TypeOK' /\ ApprovalsFollowProposals'
  BY NextTypes, NextFollow
<1>3. QED
  BY <1>1, <1>2, PTL DEF Spec

-----------------------------------------------------------------------------
(* Msig implements MsigPromise when no proposal lists a level twice: what   *)
(* exec counts is what nobody has taken back.                               *)

\* propose takes any list; unapprove takes back one approval of a level.
ListedOnce == \A list \in RequestLists : \A level \in Level : list[level] <= 1

\* A level is asked once, and is asked or has approved.
CountedOnce(id, level) ==
  /\ approvals[id] # Nil =>
       approvals[id].requested[level] + Len(approvals[id].provided[level]) <= 1
  /\ old_approvals[id] # Nil =>
       old_approvals[id].requested[level] + old_approvals[id].provided[level] <= 1

\* An approval that still stands was not taken back, and none is of the future,
\* so that an invalidation is later than all the approvals that are there.
BackedByTime(id, level) ==
  approvals[id] # Nil =>
    \A i \in DOMAIN approvals[id].provided[level] :
      /\ approvals[id].provided[level][i] <= now
      /\ Stands(level, approvals[id].provided[level][i]) => level \in behind[id]

BackedByRow(id, level) ==
  old_approvals[id] # Nil =>
    (old_approvals[id].provided[level] > 0 /\ invalidations[ActorOf[level]] = Nil
       => level \in behind[id])

Backed(id, level) ==
  CountedOnce(id, level) /\ BackedByTime(id, level) /\ BackedByRow(id, level)

AllBacked == \A id \in Id, level \in Level : Backed(id, level)

IInv == TypeOK /\ ApprovalsFollowProposals /\ AllBacked

-----------------------------------------------------------------------------
(* The invariant *)

\* A row nobody touches stays backed while time passes.
LEMMA UntouchedBacked ==
  ASSUME TypeOK, TypeOK', NEW id \in Id, NEW level \in Level, Backed(id, level),
         approvals'[id] = approvals[id], old_approvals'[id] = old_approvals[id],
         level \in behind[id] => level \in behind'[id],
         invalidations' = invalidations, now <= now'
  PROVE  Backed(id, level)'
<1>1. CountedOnce(id, level)'
  BY DEF Backed, CountedOnce
<1>2. BackedByRow(id, level)'
  BY DEF Backed, BackedByRow
<1>3. BackedByTime(id, level)'
  <2>1. SUFFICES ASSUME approvals[id] # Nil, NEW i \in DOMAIN approvals[id].provided[level]
                 PROVE  /\ approvals[id].provided[level][i] <= now'
                        /\ Stands(level, approvals[id].provided[level][i])' => level \in behind'[id]
    BY DEF BackedByTime
  <2>2. approvals[id].provided[level] \in Seq(Time)
    BY <2>1, RowsAreThere DEF Approvals
  <2>3. approvals[id].provided[level][i] \in Int /\ now \in Int /\ now' \in Int
    BY <2>1, <2>2, ConstantsAssumption DEF Time, TypeOK
  <2>4. QED
    BY <2>1, <2>3 DEF Backed, BackedByTime, Stands
<1>4. QED
  BY <1>1, <1>2, <1>3 DEF Backed

\* A row without an approval has nothing to back.
LEMMA NoRowBacked ==
  ASSUME NEW id \in Id, NEW level \in Level,
         approvals'[id] = Nil, old_approvals'[id] = Nil
  PROVE  Backed(id, level)'
BY DEF Backed, CountedOnce, BackedByTime, BackedByRow

\* The first proposals, made by the contract's first version.
LEMMA InitBacked ==
  ASSUME ListedOnce, Init
  PROVE  AllBacked
<1>1. TypeOK /\ \A id \in Id : approvals[id] = Nil /\ \A l \in Level : invalidations[ActorOf[l]] = Nil
  BY InitTypes DEF Init, Actors
<1>2. ASSUME NEW id \in Id, old_approvals[id] = Nil, NEW level \in Level
      PROVE  Backed(id, level)
  BY <1>1, <1>2 DEF Backed, CountedOnce, BackedByTime, BackedByRow
<1>3. ASSUME NEW id \in Id, NEW trx \in Trx, NEW list \in RequestLists,
             NEW approved \in SUBSET Listed(list), Legacy(id, trx, list, approved),
             NEW i \in Id, NEW level \in Level
      PROVE  Backed(i, level)
  <2>1. CASE i # id
    <3>1. old_approvals[i] = Nil
      BY <1>3, <2>1 DEF Legacy
    <3>2. QED
      BY <1>2, <3>1
  <2>2. CASE i = id
    <3>1. list[level] \in Nat /\ list[level] <= 1
      BY ConstantsAssumption DEF ListedOnce
    <3>2. /\ old_approvals[i].requested[level] = (IF level \in approved THEN 0 ELSE list[level])
          /\ old_approvals[i].provided[level] = (IF level \in approved THEN list[level] ELSE 0)
          /\ behind[i] = approved
      BY <1>3, <2>2 DEF Legacy
    <3>3. CountedOnce(i, level)
      BY <1>1, <3>1, <3>2 DEF CountedOnce
    <3>4. BackedByTime(i, level) /\ BackedByRow(i, level)
      BY <1>1, <3>1, <3>2 DEF BackedByTime, BackedByRow
    <3>5. QED
      BY <3>3, <3>4 DEF Backed
  <2>3. QED
    BY <2>1, <2>2
<1>4. CASE old_approvals = [id \in Id |-> Nil]
  BY <1>2, <1>4 DEF AllBacked
<1>5. QED
  BY <1>3, <1>4 DEF Init, AllBacked

\* A new proposal starts without approvals.
LEMMA ProposeBacked ==
  ASSUME ListedOnce, IInv, TypeOK', NEW id \in Id, NEW trx \in Trx, NEW list \in RequestLists,
         NEW expiration \in 0..Seconds(MaxTime), Propose(id, trx, list, expiration)
  PROVE  AllBacked'
<1> SUFFICES ASSUME NEW i \in Id, NEW level \in Level
             PROVE  Backed(i, level)'
  BY DEF AllBacked
<1>0. now \in Int
  BY ConstantsAssumption DEF IInv, TypeOK, Time
<1>1. CASE i # id
  <2>1. /\ approvals'[i] = approvals[i] /\ old_approvals'[i] = old_approvals[i]
        /\ behind'[i] = behind[i] /\ invalidations' = invalidations /\ now' = now
    BY <1>1 DEF Propose, IInv, TypeOK
  <2>2. QED
    BY <1>0, <2>1, UntouchedBacked DEF IInv, AllBacked
<1>2. CASE i = id
  <2>1. /\ approvals'[i].requested = list
        /\ approvals'[i].provided = [l \in Level |-> <<>>]
        /\ old_approvals'[i] = Nil
    BY <1>2 DEF Propose, IInv, TypeOK, ApprovalsFollowProposals
  <2>2. list[level] \in Nat /\ list[level] <= 1 /\ approvals'[i].provided[level] = <<>>
    BY <2>1, ConstantsAssumption DEF ListedOnce
  <2>3. QED
    BY <2>1, <2>2 DEF Backed, CountedOnce, BackedByTime, BackedByRow
<1>3. QED
  BY <1>1, <1>2

\* The level that approves is backed by this approval, its only one.
LEMMA ApproveBacked ==
  ASSUME IInv, TypeOK', NEW id \in Id, NEW level \in Level, NEW hash \in Trx \cup {Nil},
         Approve(id, level, hash)
  PROVE  AllBacked'
<1> SUFFICES ASSUME NEW i \in Id, NEW l \in Level
             PROVE  Backed(i, l)'
  BY DEF AllBacked
<1>0. now \in Int /\ now \in Time /\ TypeOK /\ Backed(i, l) /\ Backed(id, level)
  BY ConstantsAssumption DEF IInv, TypeOK, Time, AllBacked
<1>1. /\ invalidations' = invalidations /\ now' = now
      /\ behind'[id] = behind[id] \cup {level}
      /\ \A j \in Id \ {id} : behind'[j] = behind[j]
  BY DEF Approve, IInv, TypeOK
<1>2. CASE i # id
  <2>1. approvals'[i] = approvals[i] /\ old_approvals'[i] = old_approvals[i]
    BY <1>0, <1>2 DEF Approve, TypeOK
  <2>2. QED
    BY <1>0, <1>1, <1>2, <2>1, UntouchedBacked
<1>3. CASE /\ i = id
           /\ approvals[id] # Nil
           /\ approvals[id].requested[level] > 0
           /\ approvals' = [approvals EXCEPT ![id] = Given(@, level)]
           /\ UNCHANGED old_approvals
  <2> DEFINE row == Given(approvals[id], level)
  <2>1. /\ approvals[id] \in Approvals /\ approvals'[i] = row /\ old_approvals'[i] = old_approvals[i]
        /\ old_approvals[i] = Nil
    BY <1>0, <1>3, RowsAreThere DEF TypeOK, IInv, ApprovalsFollowProposals
  <2>2. /\ \A k \in Level \ {level} : /\ row.requested[k] = approvals[id].requested[k]
                                     /\ row.provided[k] = approvals[id].provided[k]
        /\ row.requested[level] = approvals[id].requested[level] - 1
        /\ row.provided[level] = Append(approvals[id].provided[level], now)
    BY <1>0, <1>3, <2>1, GivenType
  <2> HIDE DEF row
  <2>3. CASE l # level
    <3>1. row.requested[l] = approvals[id].requested[l] /\ row.provided[l] = approvals[id].provided[l]
      BY <2>2, <2>3
    <3>2. BackedByTime(i, l)' /\ CountedOnce(i, l)'
      BY <1>0, <1>1, <1>3, <2>1, <3>1 DEF Backed, CountedOnce, BackedByTime, Stands
    <3>3. QED
      BY <2>1, <3>2 DEF Backed, BackedByRow
  <2>4. CASE l = level
    <3>1. /\ approvals[id].provided[level] \in Seq(Time)
          /\ approvals[id].requested[level] \in Nat
      BY <2>1 DEF Approvals
    <3>2. approvals[id].requested[level] + Len(approvals[id].provided[level]) <= 1
      BY <1>0, <1>3 DEF Backed, CountedOnce
    <3>3. approvals[id].requested[level] = 1 /\ approvals[id].provided[level] = <<>>
      BY <1>3, <3>1, <3>2
    <3>4. row.requested[level] = 0 /\ row.provided[level] = <<now>>
      BY <2>2, <3>3
    <3>5. CountedOnce(i, l)'
      BY <2>1, <2>4, <3>4 DEF CountedOnce
    <3>6. BackedByTime(i, l)'
      BY <1>0, <1>1, <1>3, <2>1, <2>4, <3>4 DEF BackedByTime
    <3>7. QED
      BY <2>1, <3>5, <3>6 DEF Backed, BackedByRow
  <2>5. QED
    BY <2>3, <2>4
<1>4. CASE /\ i = id
           /\ approvals[id] = Nil
           /\ old_approvals[id] # Nil
           /\ old_approvals[id].requested[level] > 0
           /\ old_approvals' = [old_approvals EXCEPT ![id].requested[level] = @ - 1,
                                                     ![id].provided[level] = @ + 1]
           /\ UNCHANGED approvals
  <2> DEFINE row == old_approvals[id]
             r == [row.requested EXCEPT ![level] = @ - 1]
             p == [row.provided EXCEPT ![level] = @ + 1]
  <2>1. row \in OldApprovals /\ old_approvals \in [Id -> OldApprovals \cup {Nil}]
    BY <1>0, <1>4 DEF TypeOK
  <2>2. old_approvals' = [old_approvals EXCEPT ![id] = [requested |-> r, provided |-> p]]
    BY <1>4, <2>1 DEF OldApprovals
  <2>3. /\ old_approvals'[i].requested = r /\ old_approvals'[i].provided = p
        /\ row.requested \in [Level -> Nat] /\ row.provided \in [Level -> Nat]
        /\ approvals'[i] = Nil
    BY <1>4, <2>1, <2>2 DEF OldApprovals
  <2>4. row.requested[l] + row.provided[l] <= 1
    BY <1>0, <1>4 DEF Backed, CountedOnce
  <2>5. r[l] + p[l] <= 1
    BY <2>3, <2>4
  <2>6. CountedOnce(i, l)' /\ BackedByTime(i, l)'
    BY <2>3, <2>5 DEF CountedOnce, BackedByTime
  <2>7. BackedByRow(i, l)'
    BY <1>0, <1>1, <1>4, <2>3 DEF Backed, BackedByRow
  <2>8. QED
    BY <2>6, <2>7 DEF Backed
<1>5. QED
  BY <1>2, <1>3, <1>4 DEF Approve

\* The level that unapproves takes back its only approval.
LEMMA UnapproveBacked ==
  ASSUME IInv, TypeOK', NEW id \in Id, NEW level \in Level, Unapprove(id, level)
  PROVE  AllBacked'
<1> SUFFICES ASSUME NEW i \in Id, NEW l \in Level
             PROVE  Backed(i, l)'
  BY DEF AllBacked
<1>0. now \in Int /\ now \in Time /\ TypeOK /\ Backed(i, l) /\ Backed(id, level)
  BY ConstantsAssumption DEF IInv, TypeOK, Time, AllBacked
<1>1. /\ invalidations' = invalidations /\ now' = now
      /\ behind'[id] = behind[id] \ {level}
      /\ \A j \in Id \ {id} : behind'[j] = behind[j]
  BY DEF Unapprove, IInv, TypeOK
<1>2. CASE i # id
  <2>1. approvals'[i] = approvals[i] /\ old_approvals'[i] = old_approvals[i]
    BY <1>0, <1>2 DEF Unapprove, TypeOK
  <2>2. QED
    BY <1>0, <1>1, <1>2, <2>1, UntouchedBacked
<1>3. CASE /\ i = id
           /\ approvals[id] # Nil
           /\ approvals[id].provided[level] # <<>>
           /\ approvals' = [approvals EXCEPT ![id] = TakenBack(@, level)]
           /\ UNCHANGED old_approvals
  <2> DEFINE row == TakenBack(approvals[id], level)
  <2>1. /\ approvals[id] \in Approvals /\ approvals'[i] = row /\ old_approvals'[i] = old_approvals[i]
        /\ old_approvals[i] = Nil
    BY <1>0, <1>3, RowsAreThere DEF TypeOK, IInv, ApprovalsFollowProposals
  <2>2. /\ \A k \in Level \ {level} : /\ row.requested[k] = approvals[id].requested[k]
                                     /\ row.provided[k] = approvals[id].provided[k]
        /\ row.requested[level] = approvals[id].requested[level] + 1
        /\ row.provided[level] = Tail(approvals[id].provided[level])
    BY <1>0, <1>3, <2>1, TakenBackType
  <2> HIDE DEF row
  <2>3. CASE l # level
    <3>1. row.requested[l] = approvals[id].requested[l] /\ row.provided[l] = approvals[id].provided[l]
      BY <2>2, <2>3
    <3>2. BackedByTime(i, l)' /\ CountedOnce(i, l)'
      BY <1>0, <1>1, <1>3, <2>1, <2>3, <3>1 DEF Backed, CountedOnce, BackedByTime, Stands
    <3>3. QED
      BY <2>1, <3>2 DEF Backed, BackedByRow
  <2>4. CASE l = level
    <3>1. /\ approvals[id].provided[level] \in Seq(Time)
          /\ approvals[id].requested[level] \in Nat
      BY <2>1 DEF Approvals
    <3>2. approvals[id].requested[level] + Len(approvals[id].provided[level]) <= 1
      BY <1>0, <1>3 DEF Backed, CountedOnce
    <3>3. Len(approvals[id].provided[level]) \in Nat \ {0}
      BY <1>3, <3>1, EmptySeq
    <3>4. approvals[id].requested[level] = 0 /\ Len(approvals[id].provided[level]) = 1
      <4> DEFINE asked == approvals[id].requested[level]
                 given == Len(approvals[id].provided[level])
      <4>1. asked \in Nat /\ given \in Nat \ {0} /\ asked + given <= 1
        BY <3>1, <3>2, <3>3
      <4> HIDE DEF asked, given
      <4>2. asked = 0 /\ given = 1
        BY <4>1
      <4>3. QED
        BY <4>2 DEF asked, given
    <3>5. row.requested[level] = 1 /\ row.provided[level] \in Seq(Time) /\ Len(row.provided[level]) = 0
      BY <1>3, <2>2, <3>1, <3>4, HeadTailProperties
    <3>6. row.provided[level] = <<>>
      BY <3>5, EmptySeq
    <3>7. CountedOnce(i, l)'
      BY <2>1, <2>4, <3>5, <3>6 DEF CountedOnce
    <3>8. BackedByTime(i, l)'
      BY <2>1, <2>4, <3>6 DEF BackedByTime
    <3>9. QED
      BY <2>1, <3>7, <3>8 DEF Backed, BackedByRow
  <2>5. QED
    BY <2>3, <2>4
<1>4. CASE /\ i = id
           /\ approvals[id] = Nil
           /\ old_approvals[id] # Nil
           /\ old_approvals[id].provided[level] > 0
           /\ old_approvals' = [old_approvals EXCEPT ![id].requested[level] = @ + 1,
                                                     ![id].provided[level] = @ - 1]
           /\ UNCHANGED approvals
  <2> DEFINE row == old_approvals[id]
             r == [row.requested EXCEPT ![level] = @ + 1]
             p == [row.provided EXCEPT ![level] = @ - 1]
  <2>1. row \in OldApprovals /\ old_approvals \in [Id -> OldApprovals \cup {Nil}]
    BY <1>0, <1>4 DEF TypeOK
  <2>2. old_approvals' = [old_approvals EXCEPT ![id] = [requested |-> r, provided |-> p]]
    BY <1>4, <2>1 DEF OldApprovals
  <2>3. /\ old_approvals'[i].requested = r /\ old_approvals'[i].provided = p
        /\ row.requested \in [Level -> Nat] /\ row.provided \in [Level -> Nat]
        /\ approvals'[i] = Nil
    BY <1>4, <2>1, <2>2 DEF OldApprovals
  <2>4. row.requested[l] + row.provided[l] <= 1 /\ row.requested[level] + row.provided[level] <= 1
    BY <1>0, <1>4 DEF Backed, CountedOnce
  <2>5. r[l] + p[l] <= 1 /\ (p[l] > 0 => l # level /\ row.provided[l] > 0)
    BY <1>4, <2>3, <2>4
  <2>6. CountedOnce(i, l)' /\ BackedByTime(i, l)'
    BY <2>3, <2>5 DEF CountedOnce, BackedByTime
  <2>7. BackedByRow(i, l)'
    BY <1>0, <1>1, <1>4, <2>3, <2>5 DEF Backed, BackedByRow
  <2>8. QED
    BY <2>6, <2>7 DEF Backed
<1>5. QED
  BY <1>2, <1>3, <1>4 DEF Unapprove

\* invalidate comes after every approval of the account that is there.
LEMMA InvalidateBacked ==
  ASSUME IInv, TypeOK', NEW account \in Actors, Invalidate(account)
  PROVE  AllBacked'
<1> SUFFICES ASSUME NEW i \in Id, NEW l \in Level
             PROVE  Backed(i, l)'
  BY DEF AllBacked
<1>0. /\ now \in Int /\ now \in Time /\ TypeOK /\ Backed(i, l)
      /\ ActorOf[l] \in Actors /\ Nil \notin Time
  BY ConstantsAssumption DEF IInv, TypeOK, Time, AllBacked, Actors
<1>1. /\ approvals' = approvals /\ old_approvals' = old_approvals /\ now' = now
      /\ invalidations'[account] = now
      /\ \A a \in Actors \ {account} : invalidations'[a] = invalidations[a]
      /\ l \in behind'[i] <=> l \in behind[i] /\ ActorOf[l] # account
  BY <1>0 DEF Invalidate, rows, TypeOK
<1>2. CountedOnce(i, l)'
  BY <1>0, <1>1 DEF Backed, CountedOnce
<1>3. BackedByRow(i, l)'
  BY <1>0, <1>1 DEF Backed, BackedByRow
<1>4. BackedByTime(i, l)'
  <2>1. SUFFICES ASSUME approvals[i] # Nil, NEW k \in DOMAIN approvals[i].provided[l]
                 PROVE  /\ approvals[i].provided[l][k] <= now
                        /\ Stands(l, approvals[i].provided[l][k])' => l \in behind'[i]
    BY <1>1 DEF BackedByTime
  <2>2. approvals[i].provided[l] \in Seq(Time)
    BY <1>0, <2>1, RowsAreThere DEF Approvals
  <2>3. approvals[i].provided[l][k] \in Int
    BY <2>1, <2>2, ConstantsAssumption DEF Time
  <2>4. /\ approvals[i].provided[l][k] <= now
        /\ Stands(l, approvals[i].provided[l][k]) => l \in behind[i]
    BY <1>0, <2>1 DEF Backed, BackedByTime
  <2>5. CASE ActorOf[l] = account
    BY <1>0, <1>1, <2>3, <2>4, <2>5 DEF Stands
  <2>6. CASE ActorOf[l] # account
    BY <1>0, <1>1, <2>4, <2>6 DEF Stands
  <2>7. QED
    BY <2>5, <2>6
<1>5. QED
  BY <1>2, <1>3, <1>4 DEF Backed

\* Every action keeps the invariant.
LEMMA NextBacked ==
  ASSUME ListedOnce, IInv, [Next]_vars
  PROVE  IInv'
<1>1. TypeOK' /\ ApprovalsFollowProposals' /\ now \in Int
  BY NextTypes, NextFollow, ConstantsAssumption DEF IInv, TypeOK, Time
<1>2. ASSUME UNCHANGED <<rows, invalidations, behind>>, now <= now'
      PROVE  AllBacked'
  <2>1. SUFFICES ASSUME NEW id \in Id, NEW level \in Level
                 PROVE  Backed(id, level)'
    BY DEF AllBacked
  <2>2. QED
    BY <1>1, <1>2, UntouchedBacked DEF IInv, AllBacked, rows
<1>3. ASSUME NEW id \in Id, Erased(id), invalidations' = invalidations, now' = now
      PROVE  AllBacked'
  <2>1. /\ approvals'[id] = Nil /\ old_approvals'[id] = Nil
        /\ \A i \in Id \ {id} : /\ approvals'[i] = approvals[i]
                               /\ old_approvals'[i] = old_approvals[i]
                               /\ behind'[i] = behind[i]
    BY <1>3, ErasedAll DEF IInv, Erased, TypeOK
  <2>2. SUFFICES ASSUME NEW i \in Id, NEW level \in Level
                 PROVE  Backed(i, level)'
    BY DEF AllBacked
  <2>3. CASE i = id
    BY <2>1, <2>3, NoRowBacked
  <2>4. CASE i # id
    BY <1>1, <1>3, <2>1, <2>4, UntouchedBacked DEF IInv, AllBacked
  <2>5. QED
    BY <2>3, <2>4
<1>4. ASSUME Tick \/ UNCHANGED vars
      PROVE  AllBacked'
  BY <1>1, <1>2, <1>4 DEF Tick, vars, rows
<1>5. ASSUME NEW id \in Id, RunDeferred(id) \/ ExpireDeferred(id)
      PROVE  AllBacked'
  BY <1>1, <1>2, <1>5 DEF RunDeferred, ExpireDeferred
<1>6. ASSUME NEW id \in Id, Exec(id) \/ \E canceler \in Account : Cancel(id, canceler)
      PROVE  AllBacked'
  BY <1>3, <1>6 DEF Exec, Cancel
<1>7. AllBacked'
  BY <1>1, <1>4, <1>5, <1>6, ProposeBacked, ApproveBacked, UnapproveBacked, InvalidateBacked DEF Next
<1>8. QED
  BY <1>1, <1>7 DEF IInv

-----------------------------------------------------------------------------
(* The steps *)

Open(id) == IF proposals[id] = Nil THEN Nil
            ELSE [trx |-> proposals[id].trx, support |-> behind[id]]

Pending(id) == IF deferred[id] = Nil THEN Nil ELSE deferred[id].trx

\* The levels that exec counts are behind the proposal.
LEMMA StandingAreBehind ==
  ASSUME IInv, NEW id \in Id, approvals[id] # Nil \/ old_approvals[id] # Nil
  PROVE  Standing(id) \subseteq behind[id]
<1>1. SUFFICES ASSUME NEW level \in Standing(id)
               PROVE  level \in behind[id]
  OBVIOUS
<1>2. level \in Level
  BY <1>1 DEF Standing, Listed
<1>3. Backed(id, level)
  BY <1>2 DEF IInv, AllBacked
<1>4. CASE approvals[id] # Nil
  BY <1>1, <1>3, <1>4 DEF Standing, Backed, BackedByTime
<1>5. CASE approvals[id] = Nil
  BY <1>1, <1>3, <1>5 DEF Standing, Backed, BackedByRow, Listed
<1>6. QED
  BY <1>4, <1>5

\* What is shown of a proposal that is there.
LEMMA OpenRow ==
  ASSUME TypeOK, NEW id \in Id, proposals[id] # Nil
  PROVE  /\ Open(id) = [trx |-> proposals[id].trx, support |-> behind[id]]
         /\ Open(id) # Nil
         /\ proposals[id].trx \in Trx
<1>1. proposals[id] \in Proposal /\ behind[id] \in SUBSET Level
  BY RowsAreThere DEF TypeOK
<1>2. proposals[id].trx \in Trx
  BY <1>1 DEF Proposal
<1>3. [trx |-> proposals[id].trx, support |-> behind[id]] \in [trx : Trx, support : SUBSET Level]
  BY <1>1, <1>2
<1>4. QED
  BY <1>2, <1>3, ConstantsAssumption DEF Open

\* What is shown when one proposal and its approvals are erased.
LEMMA ErasedShown ==
  ASSUME TypeOK, NEW id \in Id, Erased(id)
  PROVE  [i \in Id |-> Open(i)]' = [[i \in Id |-> Open(i)] EXCEPT ![id] = Nil]
BY DEF Erased, Open, TypeOK

\* Every action is a step of MsigPromise, or a stutter.
LEMMA StepMapped ==
  ASSUME IInv, IInv', [Next]_vars
  PROVE  [Promise!Next]_(Promise!vars)
<1> DEFINE open == [i \in Id |-> Open(i)]
           pending == [i \in Id |-> Pending(i)]
<1>0. TypeOK /\ TypeOK' /\ ApprovalsFollowProposals
  BY DEF IInv
<1>1. ASSUME UNCHANGED <<rows, deferred, behind>>
      PROVE  UNCHANGED Promise!vars
  BY <1>1 DEF Promise!vars, rows
<1>2. ASSUME NEW id \in Id, NEW trx \in Trx, NEW list \in RequestLists,
             NEW expiration \in 0..Seconds(MaxTime), Propose(id, trx, list, expiration)
      PROVE  Promise!Propose(id)
  <2>1. proposals[id] = Nil /\ [trx |-> trx, expiration |-> expiration] # Nil
    BY <1>2, ConstantsAssumption DEF Propose, Proposal
  <2>2. open' = [open EXCEPT ![id] = [trx |-> trx, support |-> {}]]
    BY <1>0, <1>2, <2>1 DEF Propose, Open, TypeOK
  <2>3. open[id] = Nil /\ pending' = pending
    BY <1>2, <2>1 DEF Propose, Open, Pending
  <2>4. QED
    BY <2>2, <2>3 DEF Promise!Propose, Open, Pending
<1>3. ASSUME NEW id \in Id, NEW level \in Level, NEW hash \in Trx \cup {Nil},
             Approve(id, level, hash)
      PROVE  Promise!Approve(id, level)
  <2>1. proposals[id] # Nil
    BY <1>0, <1>3 DEF Approve, ApprovalsFollowProposals
  <2>2. open[id] # Nil /\ open[id].support = behind[id] /\ open[id].trx = proposals[id].trx
    BY <1>0, <2>1, OpenRow
  <2>3. open' = [open EXCEPT ![id] = [trx |-> proposals[id].trx, support |-> behind[id] \cup {level}]]
    BY <1>0, <1>3, <2>1 DEF Approve, Open, TypeOK
  <2>4. open' = [open EXCEPT ![id].support = @ \cup {level}]
    <3>1. open[id] = [trx |-> proposals[id].trx, support |-> behind[id]]
      BY <1>0, <2>1, OpenRow
    <3>2. [open[id] EXCEPT !.support = @ \cup {level}]
            = [trx |-> proposals[id].trx, support |-> behind[id] \cup {level}]
      BY <3>1
    <3> HIDE DEF open
    <3>3. open' = [open EXCEPT ![id] = [open[id] EXCEPT !.support = @ \cup {level}]]
      BY <2>3, <3>2
    <3>4. QED
      BY <3>3
  <2>5. pending' = pending
    BY <1>3 DEF Approve, Pending
  <2>6. QED
    BY <2>2, <2>4, <2>5 DEF Promise!Approve, Open, Pending
<1>4. ASSUME NEW id \in Id, NEW level \in Level, Unapprove(id, level)
      PROVE  Promise!Withdraw(id, level)
  <2>1. proposals[id] # Nil
    BY <1>0, <1>4 DEF Unapprove, ApprovalsFollowProposals
  <2>2. open[id] # Nil /\ open[id].support = behind[id] /\ open[id].trx = proposals[id].trx
    BY <1>0, <2>1, OpenRow
  <2>3. open' = [open EXCEPT ![id] = [trx |-> proposals[id].trx, support |-> behind[id] \ {level}]]
    BY <1>0, <1>4, <2>1 DEF Unapprove, Open, TypeOK
  <2>4. open' = [open EXCEPT ![id].support = @ \ {level}]
    <3>1. open[id] = [trx |-> proposals[id].trx, support |-> behind[id]]
      BY <1>0, <2>1, OpenRow
    <3>2. [open[id] EXCEPT !.support = @ \ {level}]
            = [trx |-> proposals[id].trx, support |-> behind[id] \ {level}]
      BY <3>1
    <3> HIDE DEF open
    <3>3. open' = [open EXCEPT ![id] = [open[id] EXCEPT !.support = @ \ {level}]]
      BY <2>3, <3>2
    <3>4. QED
      BY <3>3
  <2>5. pending' = pending
    BY <1>4 DEF Unapprove, Pending
  <2>6. QED
    BY <2>2, <2>4, <2>5 DEF Promise!Withdraw, Open, Pending
<1>5. ASSUME NEW account \in Actors, Invalidate(account)
      PROVE  \E level \in Level : Promise!WithdrawAll(ActorOf[level])
  <2>1. PICK level \in Level : ActorOf[level] = account
    BY DEF Actors
  <2>2. ASSUME NEW id \in Id
        PROVE  Open(id)' = Promise!WithoutActor(Open(id), account)
    <3>1. /\ proposals' = proposals
          /\ behind'[id] = {l \in behind[id] : ActorOf[l] # account}
      BY <1>5 DEF Invalidate, rows
    <3>2. CASE proposals[id] = Nil
      BY <3>1, <3>2 DEF Open, Promise!WithoutActor
    <3>3. CASE proposals[id] # Nil
      BY <1>0, <3>1, <3>3, OpenRow DEF Open, Promise!WithoutActor
    <3>4. QED
      BY <3>2, <3>3
  <2>3. open' = [id \in Id |-> Promise!WithoutActor(open[id], account)] /\ pending' = pending
    BY <1>5, <2>2 DEF Invalidate, Pending
  <2>4. Promise!WithdrawAll(account)
    BY <2>3 DEF Promise!WithdrawAll, Open, Pending, Promise!WithoutActor
  <2>5. QED
    BY <2>1, <2>4
<1>6. ASSUME NEW id \in Id, NEW canceler \in Account, Cancel(id, canceler)
      PROVE  Promise!Cancel(id)
  <2>1. open[id] # Nil /\ open' = [open EXCEPT ![id] = Nil] /\ pending' = pending
    BY <1>0, <1>6, OpenRow, ErasedShown DEF Cancel, Pending
  <2>2. QED
    BY <2>1 DEF Promise!Cancel, Open, Pending
<1>7. ASSUME NEW id \in Id, Exec(id)
      PROVE  Promise!Execute(id)
  <2>1. /\ open[id] # Nil /\ open[id].trx = proposals[id].trx /\ open[id].support = behind[id]
        /\ proposals[id].trx \in Trx
        /\ open' = [open EXCEPT ![id] = Nil]
    BY <1>0, <1>7, OpenRow, ErasedShown DEF Exec
  <2>2. PICK quorum \in Quorums[open[id].trx] : quorum \subseteq open[id].support
    BY <1>7, <2>1, StandingAreBehind DEF Exec, Authorized
  <2>3. [trx |-> proposals[id].trx, delay_until |-> now + Delay[proposals[id].trx]] # Nil
    <3>1. now + Delay[proposals[id].trx] \in Nat
      BY <1>0, <2>1, ConstantsAssumption DEF TypeOK, Time
    <3>2. [trx |-> proposals[id].trx, delay_until |-> now + Delay[proposals[id].trx]] \in Deferred
      BY <2>1, <3>1 DEF Deferred
    <3>3. QED
      BY <3>2, ConstantsAssumption
  <2>4. pending[id] = Nil /\ pending' = [pending EXCEPT ![id] = open[id].trx]
    BY <1>0, <1>7, <2>1, <2>3 DEF Exec, Pending, TypeOK
  <2>5. QED
    BY <2>1, <2>2, <2>4 DEF Promise!Execute, Open, Pending
<1>8. ASSUME NEW id \in Id, RunDeferred(id) \/ ExpireDeferred(id)
      PROVE  Promise!Settle(id)
  <2>1. deferred[id] \in Deferred /\ deferred[id].trx # Nil
    BY <1>0, <1>8, ConstantsAssumption DEF RunDeferred, ExpireDeferred, TypeOK, Deferred
  <2>2. pending[id] # Nil /\ pending' = [pending EXCEPT ![id] = Nil] /\ open' = open
    BY <1>0, <1>8, <2>1 DEF RunDeferred, ExpireDeferred, Pending, Open, TypeOK, rows
  <2>3. QED
    BY <2>2 DEF Promise!Settle, Open, Pending
<1>9. CASE Tick \/ UNCHANGED vars
  BY <1>1, <1>9 DEF Tick, vars, rows
<1>10. QED
  BY <1>2, <1>3, <1>4, <1>5, <1>6, <1>7, <1>8, <1>9 DEF Next, Promise!Next

\* The contract may start from proposals of its first version.
LEMMA InitMapped ==
  ASSUME Init
  PROVE  Promise!Init
<1>1. TypeOK /\ deferred = [id \in Id |-> Nil]
  BY InitTypes DEF Init
<1>2. ASSUME NEW id \in Id
      PROVE  Open(id) \in Promise!Proposal \cup {Nil}
  <2>1. CASE proposals[id] = Nil
    BY <2>1 DEF Open
  <2>2. CASE proposals[id] # Nil
    BY <1>1, <2>2, OpenRow DEF TypeOK, Promise!Proposal
  <2>3. QED
    BY <2>1, <2>2
<1>3. QED
  BY <1>1, <1>2 DEF Promise!Init, Open

\* exec hands over a transaction only with a quorum of approvals of this very
\* proposal that neither unapprove nor invalidate took back, and only once.
THEOREM ImplementsPromise ==
  ASSUME ListedOnce
  PROVE  Spec => PromiseSpec
<1>1. Init => IInv /\ Promise!Init
  BY InitTypes, InitFollow, InitBacked, InitMapped DEF IInv
<1>2. IInv /\ [Next]_vars => IInv'
  BY NextBacked
<1>3. IInv /\ IInv' /\ [Next]_vars => [Promise!Next]_(Promise!vars)
  BY StepMapped
<1>4. QED
  BY <1>1, <1>2, <1>3, PTL DEF Spec, PromiseSpec, Promise!Spec
=============================================================================
