--------------------------- MODULE ArbCasesProofs ---------------------------
(***************************************************************************)
(* Proofs about ArbCases, for every number of accounts, arbitrators,       *)
(* cases and claims.                                                       *)
(***************************************************************************)
EXTENDS ArbCases, Collections

-----------------------------------------------------------------------------
(* Lemmas about the operators of ArbCases *)

\* A table maps its keys to rows, and the keys of its rows are keys of it.
LEMMA RowTypes ==
  ASSUME TypeOK
  PROVE  /\ Rows(casefiles) \subseteq CaseId
         /\ \A c \in Rows(casefiles) : casefiles[c] \in Casefile
         /\ Rows(claims) \subseteq ClaimId
         /\ \A k \in Rows(claims) : claims[k] \in Claim
         /\ Rows(arbitrators) \subseteq Arb
         /\ \A a \in Rows(arbitrators) : arbitrators[a] \in Arbitrator
         /\ \A o \in Rows(accounts) : accounts[o] \in Nat
BY DEF TypeOK, Rows

\* The row of a new claim.
LEMMA NewClaimType ==
  ASSUME NEW h \in Hash
  PROVE  NewClaim(h) \in Claim
BY DEF NewClaim, Claim

-----------------------------------------------------------------------------
(* Type correctness *)

\* Deposits and the configuration keep the types.
LEMMA MoneyTypes ==
  ASSUME TypeOK, MoneyNext
  PROVE  TypeOK'
<1> USE ConstantsAssumption DEF TypeOK, caseVars, seatVars
<1>1. ASSUME NEW o \in Account, NEW n \in Deposits, Deposit(o, n)
      PROVE  TypeOK'
  BY <1>1 DEF Deposit
<1>2. ASSUME NEW o \in Account, Withdraw(o)
      PROVE  TypeOK'
  BY <1>2 DEF Withdraw
<1>3. ASSUME SetConfig
      PROVE  TypeOK'
  BY <1>3 DEF SetConfig
<1>4. QED
  BY <1>1, <1>2, <1>3 DEF MoneyNext

\* A row written into the table of case files keeps its type.
LEMMA CaseRowWritten ==
  ASSUME TypeOK, NEW c \in CaseId, NEW row \in Casefile \cup {Nil},
         casefiles' = [casefiles EXCEPT ![c] = row]
  PROVE  casefiles' \in [CaseId -> Casefile \cup {Nil}]
BY DEF TypeOK

\* So does a row of which one field was assigned a value of its type.
LEMMA CasefileFields ==
  ASSUME NEW row \in Casefile
  PROVE  /\ \A x \in Seq(Claim) : [row EXCEPT !.unread_claims = x] \in Casefile
         /\ \A x \in CaseStatus : [row EXCEPT !.case_status = x] \in Casefile
         /\ \A x \in SUBSET Arb : [row EXCEPT !.arbitrators = x] \in Casefile
         /\ \A x \in SUBSET Arb : [row EXCEPT !.approvals = x] \in Casefile
         /\ \A x \in SUBSET ClaimId : [row EXCEPT !.accepted_claims = x] \in Casefile
         /\ \A x \in Link \cup {Nil} : [row EXCEPT !.case_ruling = x] \in Casefile
BY DEF Casefile

\* The fields of a row are of their types.
LEMMA FieldTypes ==
  ASSUME NEW row \in Casefile
  PROVE  /\ row.case_status \in CaseStatus
         /\ row.arbitrators \in SUBSET Arb
         /\ row.approvals \in SUBSET Arb
         /\ row.unread_claims \in Seq(Claim)
         /\ row.accepted_claims \in SUBSET ClaimId
         /\ row.case_ruling \in Link \cup {Nil}
BY DEF Casefile

\* Setting up a case keeps the types.
LEMMA SetupTypes ==
  ASSUME TypeOK, SetupNext
  PROVE  TypeOK'
<1> USE ConstantsAssumption DEF moneyVars, seatVars
<1>1. ASSUME NEW o \in Account, NEW h \in Hash, NEW r \in Account \cup {Nil},
             FileCase(o, h, r)
      PROVE  TypeOK'
  <2>1. <<NewClaim(h)>> \in Seq(Claim)
    BY NewClaimType
  <2> DEFINE row == [case_status |-> CASE_SETUP,
                     claimant |-> o,
                     respondant |-> r,
                     arbitrators |-> {},
                     approvals |-> {},
                     unread_claims |-> <<NewClaim(h)>>,
                     accepted_claims |-> {},
                     case_ruling |-> Nil]
  <2>2. row \in Casefile
    BY <2>1 DEF Casefile, CaseStatus, CASE_SETUP, DISMISSED
  <2>3. PICK c \in CaseId : casefiles' = [casefiles EXCEPT ![c] = row]
    BY <1>1 DEF FileCase
  <2>4. casefiles' \in [CaseId -> Casefile \cup {Nil}]
    BY <2>2, <2>3, CaseRowWritten
  <2>5. QED
    BY <1>1, <2>4 DEF FileCase, TypeOK
<1>2. ASSUME NEW o \in Account, NEW h \in Hash, NEW c \in CaseId, AddClaim(c, h, o)
      PROVE  TypeOK'
  <2>1. casefiles[c] \in Casefile
    BY <1>2, RowTypes DEF AddClaim, OwnCaseInSetup
  <2>2. Append(casefiles[c].unread_claims, NewClaim(h)) \in Seq(Claim)
    BY <2>1, NewClaimType DEF Casefile
  <2>3. casefiles' \in [CaseId -> Casefile \cup {Nil}]
    BY <1>2, <2>1, <2>2 DEF AddClaim, Casefile, TypeOK
  <2>4. QED
    BY <1>2, <2>3 DEF AddClaim, TypeOK
<1>3. ASSUME NEW o \in Account, NEW h \in Hash, NEW c \in CaseId, RemoveClaim(c, h, o)
      PROVE  TypeOK'
  <2>1. casefiles[c] \in Casefile
    BY <1>3, RowTypes DEF RemoveClaim, OwnCaseInSetup
  <2>2. PICK i \in DOMAIN casefiles[c].unread_claims :
          casefiles' = [casefiles EXCEPT ![c].unread_claims = RemoveAt(@, i)]
    BY <1>3 DEF RemoveClaim
  <2>3. RemoveAt(casefiles[c].unread_claims, i) \in Seq(Claim)
    BY <2>1, RemoveAtElements DEF Casefile
  <2>4. casefiles' \in [CaseId -> Casefile \cup {Nil}]
    BY <2>1, <2>2, <2>3, CasefileFields, CaseRowWritten
  <2>5. QED
    BY <1>3, <2>4 DEF RemoveClaim, TypeOK
<1>4. ASSUME NEW o \in Account, NEW c \in CaseId, ShredCase(c, o)
      PROVE  TypeOK'
  BY <1>4 DEF ShredCase, TypeOK
<1>5. ASSUME NEW o \in Account, NEW c \in CaseId, ReadyCase(c, o)
      PROVE  TypeOK'
  <2>1. casefiles[c] \in Casefile
    BY <1>5, RowTypes DEF ReadyCase, OwnCaseInSetup
  <2>2. casefiles' \in [CaseId -> Casefile \cup {Nil}]
    <3>1. casefiles' = [casefiles EXCEPT ![c] = [casefiles[c] EXCEPT !.case_status = AWAITING_ARBS]]
      BY <1>5 DEF ReadyCase
    <3>2. AWAITING_ARBS \in CaseStatus
      BY DEF CaseStatus, CASE_SETUP, AWAITING_ARBS, DISMISSED
    <3>3. QED
      BY <2>1, <3>1, <3>2, CasefileFields, CaseRowWritten
  <2>3. accounts' \in [Account -> Nat \cup {Nil}]
    BY <1>5 DEF ReadyCase, SubBalance, TypeOK
  <2>4. QED
    BY <1>5, <2>2, <2>3 DEF ReadyCase, TypeOK
<1>6. QED
  BY <1>1, <1>2, <1>3, <1>4, <1>5 DEF SetupNext

\* The progression of a case keeps the types.
LEMMA ProgressTypes ==
  ASSUME TypeOK, ProgressNext
  PROVE  TypeOK'
<1> USE ConstantsAssumption DEF moneyVars, seatVars
<1>1. ASSUME NEW c \in CaseId, NEW h \in Hash, NEW o \in Account, NEW l \in Link,
             Respond(c, h, o, l)
      PROVE  TypeOK'
  <2>1. casefiles[c] \in Casefile
    BY <1>1, RowTypes DEF Respond
  <2>2. PICK i \in DOMAIN casefiles[c].unread_claims :
          casefiles' = [casefiles EXCEPT ![c].unread_claims[i].response_link = l]
    BY <1>1 DEF Respond
  <2> DEFINE answered == [casefiles[c].unread_claims EXCEPT ![i].response_link = l]
  <2>3. casefiles[c].unread_claims \in Seq(Claim)
    BY <2>1 DEF Casefile
  <2>4. casefiles[c].unread_claims[i] \in Claim
    BY <2>3
  <2>5. [casefiles[c].unread_claims[i] EXCEPT !.response_link = l] \in Claim
    BY <2>4 DEF Claim
  <2>6. answered \in Seq(Claim)
    BY <2>3, <2>5
  <2>7. casefiles' = [casefiles EXCEPT ![c] =
                        [casefiles[c] EXCEPT !.unread_claims = answered]]
    BY <2>2
  <2>8. casefiles' \in [CaseId -> Casefile \cup {Nil}]
    BY <2>1, <2>6, <2>7, CasefileFields, CaseRowWritten
  <2>9. QED
    BY <1>1, <2>8 DEF Respond, TypeOK
<1>2. ASSUME NEW c \in CaseId, NEW a \in Arb, AssignToCase(c, a)
      PROVE  TypeOK'
  <2>1. casefiles[c] \in Casefile /\ arbitrators[a] \in Arbitrator
    BY <1>2, RowTypes DEF AssignToCase
  <2>2. StatusOnAssignment(casefiles[c].case_status) \in CaseStatus
    BY <2>1 DEF Casefile, StatusOnAssignment, CaseStatus, CASE_SETUP, DISMISSED,
                CASE_INVESTIGATION
  <2> DEFINE joined == [casefiles[c] EXCEPT !.arbitrators = @ \cup {a}]
  <2>3. joined \in Casefile
    BY <2>1, CasefileFields, FieldTypes
  <2>4. [joined EXCEPT !.case_status = StatusOnAssignment(casefiles[c].case_status)] \in Casefile
    BY <2>2, <2>3, CasefileFields
  <2>5. casefiles' = [casefiles EXCEPT ![c] =
          [joined EXCEPT !.case_status = StatusOnAssignment(casefiles[c].case_status)]]
    BY <1>2, <2>1 DEF AssignToCase, Casefile, TypeOK
  <2>6. casefiles' \in [CaseId -> Casefile \cup {Nil}]
    BY <2>4, <2>5, CaseRowWritten
  <2>7. arbitrators' \in [Arb -> Arbitrator \cup {Nil}]
    BY <1>2, <2>1 DEF AssignToCase, Arbitrator, TypeOK
  <2>8. QED
    BY <1>2, <2>6, <2>7 DEF AssignToCase, TypeOK
<1>3. ASSUME NEW c \in CaseId, NEW a \in Arb, NEW h \in Hash, DismissClaim(c, a, h)
      PROVE  TypeOK'
  <2>1. casefiles[c] \in Casefile
    BY <1>3, RowTypes DEF DismissClaim, IsAssigned
  <2>2. PICK i \in DOMAIN casefiles[c].unread_claims :
          casefiles' = [casefiles EXCEPT ![c].unread_claims = RemoveAt(@, i)]
    BY <1>3 DEF DismissClaim
  <2>3. RemoveAt(casefiles[c].unread_claims, i) \in Seq(Claim)
    BY <2>1, RemoveAtElements DEF Casefile
  <2>4. casefiles' \in [CaseId -> Casefile \cup {Nil}]
    BY <2>1, <2>2, <2>3, CasefileFields, CaseRowWritten
  <2>5. QED
    BY <1>3, <2>4 DEF DismissClaim, TypeOK
<1>4. ASSUME NEW c \in CaseId, NEW a \in Arb, NEW h \in Hash, AcceptClaim(c, a, h)
      PROVE  TypeOK'
  <2>1. casefiles[c] \in Casefile
    BY <1>4, RowTypes DEF AcceptClaim, IsAssigned
  <2>2. PICK i \in DOMAIN casefiles[c].unread_claims, k \in ClaimId :
          /\ casefiles' = [casefiles EXCEPT
                             ![c].unread_claims = RemoveAt(@, i),
                             ![c].accepted_claims = @ \cup {k}]
          /\ claims' = [claims EXCEPT ![k] = casefiles[c].unread_claims[i]]
    BY <1>4 DEF AcceptClaim
  <2>3. /\ RemoveAt(casefiles[c].unread_claims, i) \in Seq(Claim)
        /\ casefiles[c].unread_claims[i] \in Claim
    BY <2>1, RemoveAtElements DEF Casefile
  <2> DEFINE read == [casefiles[c] EXCEPT
                        !.unread_claims = RemoveAt(casefiles[c].unread_claims, i)]
  <2>4. read \in Casefile
    BY <2>1, <2>3, CasefileFields
  <2>5. [read EXCEPT !.accepted_claims = casefiles[c].accepted_claims \cup {k}] \in Casefile
    BY <2>1, <2>4, CasefileFields, FieldTypes
  <2>6. casefiles' = [casefiles EXCEPT ![c] =
          [read EXCEPT !.accepted_claims = casefiles[c].accepted_claims \cup {k}]]
    BY <2>1, <2>2 DEF Casefile, TypeOK
  <2>7. casefiles' \in [CaseId -> Casefile \cup {Nil}]
    BY <2>5, <2>6, CaseRowWritten
  <2>8. claims' \in [ClaimId -> Claim \cup {Nil}]
    BY <2>2, <2>3 DEF TypeOK
  <2>9. QED
    BY <1>4, <2>7, <2>8 DEF AcceptClaim, TypeOK
<1>5. ASSUME NEW c \in CaseId, NEW a \in Arb, NEW l \in Link, SetRuling(c, a, l)
      PROVE  TypeOK'
  <2>1. casefiles[c] \in Casefile
    BY <1>5, RowTypes DEF SetRuling, IsAssigned
  <2>2. casefiles' \in [CaseId -> Casefile \cup {Nil}]
    BY <1>5, <2>1, CasefileFields, CaseRowWritten DEF SetRuling
  <2>3. QED
    BY <1>5, <2>2 DEF SetRuling, TypeOK
<1>6. ASSUME NEW c \in CaseId, NEW a \in Arb, NEW l \in Link, DismissCase(c, a, l)
      PROVE  TypeOK'
  <2>1. casefiles[c] \in Casefile
    BY <1>6, RowTypes DEF DismissCase, IsAssigned
  <2> DEFINE dismissed == [casefiles[c] EXCEPT !.case_status = DISMISSED]
  <2>2. dismissed \in Casefile
    <3>1. DISMISSED \in CaseStatus
      BY DEF CaseStatus, CASE_SETUP, DISMISSED
    <3>2. QED
      BY <2>1, <3>1, CasefileFields
  <2>3. [dismissed EXCEPT !.case_ruling = l] \in Casefile
    BY <2>2, CasefileFields
  <2>4. casefiles' = [casefiles EXCEPT ![c] = [dismissed EXCEPT !.case_ruling = l]]
    BY <1>6, <2>1 DEF DismissCase, Casefile, TypeOK
  <2>5. casefiles' \in [CaseId -> Casefile \cup {Nil}]
    BY <2>3, <2>4, CaseRowWritten
  <2>6. QED
    BY <1>6, <2>5 DEF DismissCase, TypeOK
<1>7. ASSUME NEW c \in CaseId, NEW a \in Arb, AdvanceCase(c, a)
      PROVE  TypeOK'
  <2>1. casefiles[c] \in Casefile
    BY <1>7, RowTypes DEF AdvanceCase, IsAssigned
  <2>2. casefiles[c].case_status + 1 \in CaseStatus
    BY <1>7, <2>1 DEF AdvanceCase, InProgress, Casefile, CaseStatus, CASE_SETUP, DISMISSED,
                      AWAITING_ARBS, RESOLVED
  <2> DEFINE counted == [casefiles[c] EXCEPT !.approvals = {}]
  <2>3. counted \in Casefile
    BY <2>1, CasefileFields
  <2>4. [counted EXCEPT !.case_status = casefiles[c].case_status + 1] \in Casefile
    BY <2>2, <2>3, CasefileFields
  <2>5. [casefiles[c] EXCEPT !.approvals = @ \cup {a}] \in Casefile
    BY <2>1, CasefileFields, FieldTypes
  <2>6. \/ casefiles' = [casefiles EXCEPT ![c] = [casefiles[c] EXCEPT !.approvals = @ \cup {a}]]
        \/ casefiles' = [casefiles EXCEPT ![c] =
                           [counted EXCEPT !.case_status = casefiles[c].case_status + 1]]
    BY <1>7, <2>1 DEF AdvanceCase, Casefile, TypeOK
  <2>7. casefiles' \in [CaseId -> Casefile \cup {Nil}]
    BY <2>4, <2>5, <2>6, CaseRowWritten
  <2>8. QED
    BY <1>7, <2>7 DEF AdvanceCase, TypeOK
<1>8. ASSUME NEW c \in CaseId, NEW a \in Arb, Recuse(c, a)
      PROVE  TypeOK'
  <2>1. casefiles[c] \in Casefile
    BY <1>8, RowTypes DEF Recuse, IsAssigned
  <2>2. [casefiles[c] EXCEPT !.arbitrators = @ \ {a}] \in Casefile
    BY <2>1, CasefileFields, FieldTypes
  <2>3. casefiles' \in [CaseId -> Casefile \cup {Nil}]
    BY <1>8, <2>2, CaseRowWritten DEF Recuse
  <2>4. QED
    BY <1>8, <2>3 DEF Recuse, TypeOK
<1>9. ASSUME NEW c \in CaseId, DeleteCase(c)
      PROVE  TypeOK'
  BY <1>9 DEF DeleteCase, TypeOK
<1>10. QED
  BY <1>1, <1>2, <1>3, <1>4, <1>5, <1>6, <1>7, <1>8, <1>9 DEF ProgressNext

\* What happens to arbitrators keeps the types.
LEMMA ArbTypes ==
  ASSUME TypeOK, ArbNext
  PROVE  TypeOK'
<1> USE ConstantsAssumption DEF moneyVars, caseVars
<1> USE DEF ArbStatus, AVAILABLE, UNAVAILABLE, REMOVED, SEAT_EXPIRED
<1>1. ASSUME NEW a \in Arb, NEW s \in AVAILABLE..REMOVED, NewArbStatus(a, s)
      PROVE  TypeOK'
  <2>1. arbitrators[a] \in Arbitrator
    BY <1>1, RowTypes DEF NewArbStatus
  <2>2. arbitrators' \in [Arb -> Arbitrator \cup {Nil}]
    BY <1>1, <2>1 DEF NewArbStatus, Arbitrator, TypeOK
  <2>3. QED
    BY <1>1, <2>2 DEF NewArbStatus, TypeOK
<1>2. ASSUME NEW a \in Arb, NEW remove \in BOOLEAN, DismissArb(a, remove)
      PROVE  TypeOK'
  <2>1. arbitrators[a] \in Arbitrator
    BY <1>2, RowTypes DEF DismissArb
  <2>2. arbitrators' \in [Arb -> Arbitrator \cup {Nil}]
    BY <1>2, <2>1 DEF DismissArb, Arbitrator, TypeOK
  <2>3. major' \subseteq Arb
    BY <1>2, <2>2 DEF DismissArb, ArbPermissions, Rows
  <2>4. \A c \in CaseId : WithoutArb(a, c) \in Casefile \cup {Nil}
    <3>1. ASSUME NEW c \in CaseId, c \in Rows(casefiles)
          PROVE  WithoutArb(a, c) \in Casefile \cup {Nil}
      <4>1. casefiles[c] \in Casefile
        BY <3>1, RowTypes
      <4>2. [casefiles[c] EXCEPT !.arbitrators = @ \ {a}] \in Casefile
        BY <4>1, CasefileFields, FieldTypes
      <4>3. QED
        BY <4>1, <4>2 DEF WithoutArb
    <3>2. ASSUME NEW c \in CaseId, c \notin Rows(casefiles)
          PROVE  WithoutArb(a, c) \in Casefile \cup {Nil}
      BY <3>2 DEF WithoutArb, IsAssigned, Rows, TypeOK
    <3>3. QED
      BY <3>1, <3>2
  <2>5. casefiles' \in [CaseId -> Casefile \cup {Nil}]
    BY <1>2, <2>4 DEF DismissArb, TypeOK
  <2>6. QED
    BY <1>2, <2>2, <2>3, <2>5 DEF DismissArb, TypeOK
<1>3. ASSUME NEW won \in SUBSET Arb, NEW lapsed \in SUBSET Arb, ElectionOutcome(won, lapsed)
      PROVE  TypeOK'
  <2>1. \A a \in lapsed : [arbitrators[a] EXCEPT !.arb_status = SEAT_EXPIRED] \in Arbitrator
    BY <1>3, RowTypes DEF ElectionOutcome, Arbitrator
  <2>2. \A a \in won : SeatedRow(a) \in Arbitrator
    BY RowTypes DEF SeatedRow, Arbitrator
  <2>3. arbitrators' \in [Arb -> Arbitrator \cup {Nil}]
    BY <1>3, <2>1, <2>2 DEF ElectionOutcome, TypeOK
  <2>4. major' \subseteq Arb
    BY <1>3, <2>3 DEF ElectionOutcome, ArbPermissions, Rows, TypeOK
  <2>5. QED
    BY <1>3, <2>3, <2>4 DEF ElectionOutcome, TypeOK
<1>4. QED
  BY <1>1, <1>2, <1>3 DEF ArbNext

\* Every step keeps the types.
LEMMA NextTypes ==
  ASSUME TypeOK, [Next]_vars
  PROVE  TypeOK'
<1>1. ASSUME UNCHANGED vars
      PROVE  TypeOK'
  BY <1>1 DEF vars, TypeOK
<1>2. QED
  BY <1>1, MoneyTypes, SetupTypes, ProgressTypes, ArbTypes DEF Next

\* Every reachable state is of the types the tables declare.
THEOREM TypeCorrect == Spec => []TypeOK
<1>1. Init => TypeOK
  BY ConstantsAssumption DEF Init, TypeOK
<1>2. TypeOK /\ [Next]_vars => TypeOK'
  BY NextTypes
<1>3. QED
  BY <1>1, <1>2, PTL DEF Spec

-----------------------------------------------------------------------------
(* The claims table and the case files agree *)

\* It is enough that the claims stay and every case file keeps its accepted
\* claims or has none.
LEMMA ClaimsFrame ==
  ASSUME TypeOK, ClaimsOwnedOnce, claims' = claims,
         \A c \in Rows(casefiles') :
            \/ casefiles'[c].accepted_claims = {}
            \/ /\ c \in Rows(casefiles)
               /\ casefiles'[c].accepted_claims = casefiles[c].accepted_claims
  PROVE  ClaimsOwnedOnce'
<1>1. \A c \in Rows(casefiles') : casefiles'[c].accepted_claims \subseteq Rows(claims')
  BY DEF ClaimsOwnedOnce
<1>2. \A c, d \in Rows(casefiles') :
        c # d => casefiles'[c].accepted_claims \cap casefiles'[d].accepted_claims = {}
  BY DEF ClaimsOwnedOnce
<1>3. QED
  BY <1>1, <1>2 DEF ClaimsOwnedOnce

\* The setup of a case accepts nothing.
LEMMA SetupOwned ==
  ASSUME TypeOK, ClaimsOwnedOnce, SetupNext
  PROVE  ClaimsOwnedOnce'
<1>1. ASSUME NEW o \in Account, NEW h \in Hash, NEW r \in Account \cup {Nil},
             FileCase(o, h, r)
      PROVE  ClaimsOwnedOnce'
  BY <1>1, ClaimsFrame DEF FileCase, Rows, TypeOK
<1>2. ASSUME NEW o \in Account, NEW h \in Hash, NEW c \in CaseId, AddClaim(c, h, o)
      PROVE  ClaimsOwnedOnce'
  BY <1>2, RowTypes, ClaimsFrame DEF AddClaim, OwnCaseInSetup, Rows, TypeOK, Casefile
<1>3. ASSUME NEW o \in Account, NEW h \in Hash, NEW c \in CaseId, RemoveClaim(c, h, o)
      PROVE  ClaimsOwnedOnce'
  BY <1>3, RowTypes, ClaimsFrame DEF RemoveClaim, OwnCaseInSetup, Rows, TypeOK, Casefile
<1>4. ASSUME NEW o \in Account, NEW c \in CaseId, ShredCase(c, o)
      PROVE  ClaimsOwnedOnce'
  BY <1>4, ClaimsFrame DEF ShredCase, Rows, TypeOK
<1>5. ASSUME NEW o \in Account, NEW c \in CaseId, ReadyCase(c, o)
      PROVE  ClaimsOwnedOnce'
  BY <1>5, RowTypes, ClaimsFrame DEF ReadyCase, OwnCaseInSetup, Rows, TypeOK, Casefile
<1>6. QED
  BY <1>1, <1>2, <1>3, <1>4, <1>5 DEF SetupNext

\* acceptclaim takes a key that no case can hold, because the key is not in
\* the table; deletecase takes only the keys of the case it erases.
LEMMA ProgressOwned ==
  ASSUME TypeOK, ClaimsOwnedOnce, ProgressNext
  PROVE  ClaimsOwnedOnce'
<1>1. ASSUME NEW c \in CaseId, NEW h \in Hash, NEW o \in Account, NEW l \in Link,
             Respond(c, h, o, l)
      PROVE  ClaimsOwnedOnce'
  BY <1>1, RowTypes, ClaimsFrame DEF Respond, Rows, TypeOK, Casefile
<1>2. ASSUME NEW c \in CaseId, NEW a \in Arb, AssignToCase(c, a)
      PROVE  ClaimsOwnedOnce'
  BY <1>2, RowTypes, ClaimsFrame DEF AssignToCase, Rows, TypeOK, Casefile
<1>3. ASSUME NEW c \in CaseId, NEW a \in Arb, NEW h \in Hash, DismissClaim(c, a, h)
      PROVE  ClaimsOwnedOnce'
  BY <1>3, RowTypes, ClaimsFrame DEF DismissClaim, IsAssigned, Rows, TypeOK, Casefile
<1>4. ASSUME NEW c \in CaseId, NEW a \in Arb, NEW h \in Hash, AcceptClaim(c, a, h)
      PROVE  ClaimsOwnedOnce'
  <2>1. c \in Rows(casefiles) /\ casefiles[c] \in Casefile
    BY <1>4, RowTypes DEF AcceptClaim, IsAssigned
  <2>2. PICK i \in DOMAIN casefiles[c].unread_claims, k \in ClaimId :
          /\ IsNextKey(k, Rows(claims))
          /\ casefiles' = [casefiles EXCEPT
                             ![c].unread_claims = RemoveAt(@, i),
                             ![c].accepted_claims = @ \cup {k}]
          /\ claims' = [claims EXCEPT ![k] = casefiles[c].unread_claims[i]]
    BY <1>4 DEF AcceptClaim
  <2>3. k \notin Rows(claims)
    BY <2>2, RowTypes DEF IsNextKey, ClaimId
  <2>4. casefiles[c].unread_claims[i] \in Claim
    BY <2>1, <2>2 DEF Casefile
  <2>5. Rows(claims') = Rows(claims) \cup {k}
    BY <2>2, <2>3, <2>4, ConstantsAssumption DEF Rows, TypeOK
  <2>6. /\ Rows(casefiles') = Rows(casefiles)
        /\ casefiles'[c].accepted_claims = casefiles[c].accepted_claims \cup {k}
        /\ \A d \in Rows(casefiles) : d # c => casefiles'[d] = casefiles[d]
    <3>1. casefiles'[c].accepted_claims = casefiles[c].accepted_claims \cup {k}
      BY <2>1, <2>2 DEF TypeOK, Casefile
    <3>2. casefiles'[c] # Nil
      <4>1. RemoveAt(casefiles[c].unread_claims, i) \in Seq(Claim)
        BY <2>1, <2>2, RemoveAtElements DEF Casefile
      <4>2. casefiles'[c] = [case_status |-> casefiles[c].case_status,
                             claimant |-> casefiles[c].claimant,
                             respondant |-> casefiles[c].respondant,
                             arbitrators |-> casefiles[c].arbitrators,
                             approvals |-> casefiles[c].approvals,
                             unread_claims |-> RemoveAt(casefiles[c].unread_claims, i),
                             accepted_claims |-> casefiles[c].accepted_claims \cup {k},
                             case_ruling |-> casefiles[c].case_ruling]
        BY <2>1, <2>2 DEF TypeOK, Casefile
      <4>3. casefiles'[c] \in Casefile
        BY <2>1, <4>1, <4>2 DEF Casefile
      <4>4. QED
        BY <4>3, ConstantsAssumption
    <3>3. \A d \in CaseId : d # c => casefiles'[d] = casefiles[d]
      BY <2>2 DEF TypeOK
    <3>4. DOMAIN casefiles' = CaseId /\ DOMAIN casefiles = CaseId
      BY <2>2 DEF TypeOK
    <3>5. Rows(casefiles') = Rows(casefiles)
      BY <2>1, <3>2, <3>3, <3>4 DEF Rows
    <3>6. QED
      BY <2>1, <3>1, <3>3, <3>5, RowTypes
  <2>7. QED
    BY <2>1, <2>3, <2>5, <2>6 DEF ClaimsOwnedOnce
<1>5. ASSUME NEW c \in CaseId, NEW a \in Arb, NEW l \in Link, SetRuling(c, a, l)
      PROVE  ClaimsOwnedOnce'
  BY <1>5, RowTypes, ClaimsFrame DEF SetRuling, IsAssigned, Rows, TypeOK, Casefile
<1>6. ASSUME NEW c \in CaseId, NEW a \in Arb, NEW l \in Link, DismissCase(c, a, l)
      PROVE  ClaimsOwnedOnce'
  BY <1>6, RowTypes, ClaimsFrame DEF DismissCase, IsAssigned, Rows, TypeOK, Casefile
<1>7. ASSUME NEW c \in CaseId, NEW a \in Arb, AdvanceCase(c, a)
      PROVE  ClaimsOwnedOnce'
  BY <1>7, RowTypes, ClaimsFrame DEF AdvanceCase, IsAssigned, Rows, TypeOK, Casefile
<1>8. ASSUME NEW c \in CaseId, NEW a \in Arb, Recuse(c, a)
      PROVE  ClaimsOwnedOnce'
  BY <1>8, RowTypes, ClaimsFrame DEF Recuse, IsAssigned, Rows, TypeOK, Casefile
<1>9. ASSUME NEW c \in CaseId, DeleteCase(c)
      PROVE  ClaimsOwnedOnce'
  <2>1. PICK swept \in {casefiles[c].accepted_claims, {}} :
          claims' = [k \in ClaimId |-> IF k \in swept THEN Nil ELSE claims[k]]
    BY <1>9 DEF DeleteCase, SweptClaims
  <2>2. \A d \in Rows(casefiles') : d # c /\ d \in Rows(casefiles) /\ casefiles'[d] = casefiles[d]
    BY <1>9 DEF DeleteCase, Rows, TypeOK
  <2>3. \A d \in Rows(casefiles') : casefiles[d].accepted_claims \cap swept = {}
    BY <1>9, <2>1, <2>2 DEF ClaimsOwnedOnce, DeleteCase
  <2>4. \A d \in Rows(casefiles') : casefiles[d].accepted_claims \subseteq Rows(claims')
    BY <2>1, <2>2, <2>3 DEF ClaimsOwnedOnce, Rows, TypeOK
  <2>5. QED
    BY <2>2, <2>4 DEF ClaimsOwnedOnce
<1>10. QED
  BY <1>1, <1>2, <1>3, <1>4, <1>5, <1>6, <1>7, <1>8, <1>9 DEF ProgressNext

\* Money and the arbitrators' table have no part in it; dismissarb changes
\* case files, but only their arbitrators.
LEMMA OthersOwned ==
  ASSUME TypeOK, ClaimsOwnedOnce, MoneyNext \/ ArbNext \/ UNCHANGED vars
  PROVE  ClaimsOwnedOnce'
<1>1. ASSUME casefiles' = casefiles, claims' = claims
      PROVE  ClaimsOwnedOnce'
  BY <1>1 DEF ClaimsOwnedOnce
<1>2. ASSUME NEW a \in Arb, NEW remove \in BOOLEAN, DismissArb(a, remove)
      PROVE  ClaimsOwnedOnce'
  <2>1. \A c \in Rows(casefiles') :
          /\ c \in Rows(casefiles)
          /\ casefiles'[c].accepted_claims = casefiles[c].accepted_claims
    BY <1>2, RowTypes DEF DismissArb, WithoutArb, IsAssigned, Rows, TypeOK, Casefile
  <2>2. QED
    BY <1>2, <2>1, ClaimsFrame DEF DismissArb
<1>3. ASSUME MoneyNext
      PROVE  ClaimsOwnedOnce'
  BY <1>1, <1>3 DEF MoneyNext, Deposit, Withdraw, SetConfig, caseVars
<1>4. ASSUME ArbNext
      PROVE  ClaimsOwnedOnce'
  BY <1>1, <1>2, <1>4 DEF ArbNext, NewArbStatus, ElectionOutcome, caseVars
<1>5. QED
  BY <1>1, <1>3, <1>4 DEF vars

\* In every reachable state each accepted claim has its row, and its case
\* alone holds it, so a case can always be deleted with its claims.
THEOREM ClaimsAgree == Spec => []ClaimsOwnedOnce
<1>1. Init => ClaimsOwnedOnce
  BY DEF Init, ClaimsOwnedOnce, Rows
<1>2. TypeOK /\ ClaimsOwnedOnce /\ [Next]_vars => ClaimsOwnedOnce'
  BY SetupOwned, ProgressOwned, OthersOwned DEF Next
<1>3. QED
  BY <1>1, <1>2, TypeCorrect, PTL DEF Spec

-----------------------------------------------------------------------------
(* The open cases of an arbitrator cover the panels the arbitrator is on *)

\* It is enough that open cases stay and that the unresolved cases are old
\* ones, unresolved before, whose panel did not grow.
LEMMA OpenFrame ==
  ASSUME TypeOK, OpenCasesKnown,
         \A a \in Rows(arbitrators) :
            /\ a \in Rows(arbitrators')
            /\ arbitrators[a].open_case_ids \subseteq arbitrators'[a].open_case_ids,
         \A c \in Rows(casefiles') :
            \/ casefiles'[c].arbitrators = {}
            \/ ~ (casefiles'[c].case_status < RESOLVED)
            \/ /\ c \in Rows(casefiles)
               /\ casefiles[c].case_status < RESOLVED
               /\ casefiles'[c].arbitrators \subseteq casefiles[c].arbitrators
  PROVE  OpenCasesKnown'
BY DEF OpenCasesKnown

\* Setting up a case puts nobody on a panel and reopens no case.
LEMMA SetupOpen ==
  ASSUME TypeOK, OpenCasesKnown, SetupNext
  PROVE  OpenCasesKnown'
<1> USE DEF seatVars, CASE_SETUP, AWAITING_ARBS, RESOLVED
<1>1. ASSUME NEW o \in Account, NEW h \in Hash, NEW r \in Account \cup {Nil},
             FileCase(o, h, r)
      PROVE  OpenCasesKnown'
  BY <1>1, OpenFrame DEF FileCase, Rows, TypeOK
<1>2. ASSUME NEW o \in Account, NEW h \in Hash, NEW c \in CaseId, AddClaim(c, h, o)
      PROVE  OpenCasesKnown'
  BY <1>2, RowTypes, OpenFrame DEF AddClaim, OwnCaseInSetup, Rows, TypeOK, Casefile
<1>3. ASSUME NEW o \in Account, NEW h \in Hash, NEW c \in CaseId, RemoveClaim(c, h, o)
      PROVE  OpenCasesKnown'
  BY <1>3, RowTypes, OpenFrame DEF RemoveClaim, OwnCaseInSetup, Rows, TypeOK, Casefile
<1>4. ASSUME NEW o \in Account, NEW c \in CaseId, ShredCase(c, o)
      PROVE  OpenCasesKnown'
  BY <1>4, OpenFrame DEF ShredCase, Rows, TypeOK
<1>5. ASSUME NEW o \in Account, NEW c \in CaseId, ReadyCase(c, o)
      PROVE  OpenCasesKnown'
  BY <1>5, RowTypes, OpenFrame DEF ReadyCase, OwnCaseInSetup, Rows, TypeOK, Casefile
<1>6. QED
  BY <1>1, <1>2, <1>3, <1>4, <1>5 DEF SetupNext

\* assigntocase writes both sides; nothing else makes a panel larger, and no
\* closed case is opened again.
LEMMA ProgressOpen ==
  ASSUME TypeOK, OpenCasesKnown, ProgressNext
  PROVE  OpenCasesKnown'
<1> USE DEF seatVars, InProgress, CASE_SETUP, AWAITING_ARBS, CASE_INVESTIGATION, ENFORCEMENT,
            RESOLVED, DISMISSED
<1>1. ASSUME NEW c \in CaseId, NEW h \in Hash, NEW o \in Account, NEW l \in Link,
             Respond(c, h, o, l)
      PROVE  OpenCasesKnown'
  BY <1>1, RowTypes, OpenFrame DEF Respond, Rows, TypeOK, Casefile
<1>2. ASSUME NEW c \in CaseId, NEW a \in Arb, AssignToCase(c, a)
      PROVE  OpenCasesKnown'
  <2>1. /\ c \in Rows(casefiles) /\ casefiles[c] \in Casefile
        /\ a \in Rows(arbitrators) /\ arbitrators[a] \in Arbitrator
        /\ casefiles[c].case_status < RESOLVED
    BY <1>2, RowTypes DEF AssignToCase
  <2>2. /\ a \in Rows(arbitrators')
        /\ arbitrators'[a].open_case_ids = arbitrators[a].open_case_ids \cup {c}
        /\ \A b \in Arb : b # a => arbitrators'[b] = arbitrators[b]
    BY <1>2, <2>1, ConstantsAssumption DEF AssignToCase, Arbitrator, Rows, TypeOK
  <2>3. /\ casefiles'[c].arbitrators = casefiles[c].arbitrators \cup {a}
        /\ \A d \in CaseId : d # c => casefiles'[d] = casefiles[d]
        /\ DOMAIN casefiles' = CaseId /\ DOMAIN casefiles = CaseId
    BY <1>2, <2>1 DEF AssignToCase, Casefile, TypeOK
  <2>4. DOMAIN arbitrators' = Arb /\ DOMAIN arbitrators = Arb
    BY <1>2 DEF AssignToCase, TypeOK
  <2>5. ASSUME NEW d \in Rows(casefiles'), NEW b \in casefiles'[d].arbitrators,
               casefiles'[d].case_status < RESOLVED
        PROVE  b \in Rows(arbitrators') /\ d \in arbitrators'[b].open_case_ids
    <3>1. CASE d = c /\ b = a
      BY <2>2, <3>1
    <3>2. CASE d = c /\ b # a
      <4>1. b \in Rows(arbitrators) /\ d \in arbitrators[b].open_case_ids
        BY <2>1, <2>3, <3>2 DEF OpenCasesKnown
      <4>2. QED
        BY <2>2, <2>4, <3>2, <4>1 DEF Rows
    <3>3. CASE d # c
      <4>1. b \in Rows(arbitrators) /\ d \in arbitrators[b].open_case_ids
        BY <2>3, <2>5, <3>3 DEF OpenCasesKnown, Rows
      <4>2. QED
        BY <2>2, <2>4, <4>1 DEF Rows
    <3>4. QED
      BY <3>1, <3>2, <3>3
  <2>6. QED
    BY <2>5 DEF OpenCasesKnown
<1>3. ASSUME NEW c \in CaseId, NEW a \in Arb, NEW h \in Hash, DismissClaim(c, a, h)
      PROVE  OpenCasesKnown'
  BY <1>3, RowTypes, OpenFrame DEF DismissClaim, IsAssigned, Rows, TypeOK, Casefile
<1>4. ASSUME NEW c \in CaseId, NEW a \in Arb, NEW h \in Hash, AcceptClaim(c, a, h)
      PROVE  OpenCasesKnown'
  BY <1>4, RowTypes, OpenFrame DEF AcceptClaim, IsAssigned, Rows, TypeOK, Casefile
<1>5. ASSUME NEW c \in CaseId, NEW a \in Arb, NEW l \in Link, SetRuling(c, a, l)
      PROVE  OpenCasesKnown'
  BY <1>5, RowTypes, OpenFrame DEF SetRuling, IsAssigned, Rows, TypeOK, Casefile
<1>6. ASSUME NEW c \in CaseId, NEW a \in Arb, NEW l \in Link, DismissCase(c, a, l)
      PROVE  OpenCasesKnown'
  BY <1>6, RowTypes, OpenFrame DEF DismissCase, IsAssigned, Rows, TypeOK, Casefile
<1>7. ASSUME NEW c \in CaseId, NEW a \in Arb, AdvanceCase(c, a)
      PROVE  OpenCasesKnown'
  BY <1>7, RowTypes, OpenFrame DEF AdvanceCase, IsAssigned, Rows, TypeOK, Casefile
<1>8. ASSUME NEW c \in CaseId, NEW a \in Arb, Recuse(c, a)
      PROVE  OpenCasesKnown'
  BY <1>8, RowTypes, OpenFrame DEF Recuse, IsAssigned, Rows, TypeOK, Casefile
<1>9. ASSUME NEW c \in CaseId, DeleteCase(c)
      PROVE  OpenCasesKnown'
  BY <1>9, OpenFrame DEF DeleteCase, Rows, TypeOK
<1>10. QED
  BY <1>1, <1>2, <1>3, <1>4, <1>5, <1>6, <1>7, <1>8, <1>9 DEF ProgressNext

\* What dismissarb(arb, true) leaves: arb is on no unresolved case.  The loop
\* only looks at the arbitrator's open cases, and by OpenCasesKnown those are
\* all that matter.
LEMMA DismissArbClears ==
  ASSUME TypeOK, OpenCasesKnown, NEW a \in Arb, DismissArb(a, TRUE),
         NEW c \in CaseId, casefiles'[c] # Nil, casefiles'[c].case_status < RESOLVED
  PROVE  a \notin casefiles'[c].arbitrators
<1>1. casefiles'[c] = WithoutArb(a, c)
  BY DEF DismissArb
<1>2. c \in Rows(casefiles) /\ casefiles[c] \in Casefile
  BY <1>1, RowTypes DEF WithoutArb, IsAssigned, Rows, TypeOK
<1>3. casefiles'[c].case_status = casefiles[c].case_status
  BY <1>1, <1>2 DEF WithoutArb, Casefile
<1>4. CASE a \in casefiles[c].arbitrators
  <2>1. c \in arbitrators[a].open_case_ids
    BY <1>2, <1>3, <1>4 DEF OpenCasesKnown
  <2>2. casefiles'[c].arbitrators = casefiles[c].arbitrators \ {a}
    BY <1>1, <1>2, <1>3, <1>4, <2>1 DEF WithoutArb, IsAssigned, Casefile
  <2>3. QED
    BY <2>2
<1>5. CASE a \notin casefiles[c].arbitrators
  BY <1>1, <1>2, <1>5 DEF WithoutArb, Casefile
<1>6. QED
  BY <1>4, <1>5

\* A change of status, a dismissal and a new term keep the open cases of every
\* panel member: a dismissal that empties the list also empties the panels.
LEMMA ArbOpen ==
  ASSUME TypeOK, OpenCasesKnown, ArbNext
  PROVE  OpenCasesKnown'
<1> USE DEF caseVars
<1>1. ASSUME NEW a \in Arb, NEW s \in AVAILABLE..REMOVED, NewArbStatus(a, s)
      PROVE  OpenCasesKnown'
  <2>1. \A b \in Rows(arbitrators) :
          /\ b \in Rows(arbitrators')
          /\ arbitrators[b].open_case_ids \subseteq arbitrators'[b].open_case_ids
    <3>1. [arbitrators[a] EXCEPT !.arb_status = s] \in Arbitrator
      BY <1>1, RowTypes
         DEF NewArbStatus, Arbitrator, ArbStatus, AVAILABLE, REMOVED, SEAT_EXPIRED
    <3>2. QED
      BY <1>1, <3>1, RowTypes, ConstantsAssumption DEF NewArbStatus, Rows, TypeOK, Arbitrator
  <2>2. QED
    BY <1>1, <2>1 DEF NewArbStatus, OpenCasesKnown
<1>2. ASSUME NEW a \in Arb, NEW remove \in BOOLEAN, DismissArb(a, remove)
      PROVE  OpenCasesKnown'
  <2>1. arbitrators[a] \in Arbitrator
    BY <1>2, RowTypes DEF DismissArb
  <2>2. /\ \A b \in Arb : b # a => arbitrators'[b] = arbitrators[b]
        /\ arbitrators'[a] = [arb_status |-> REMOVED,
                              open_case_ids |-> IF remove THEN {}
                                                ELSE arbitrators[a].open_case_ids]
        /\ DOMAIN arbitrators' = Arb /\ DOMAIN arbitrators = Arb
    BY <1>2, <2>1 DEF DismissArb, Arbitrator, TypeOK
  <2>3. arbitrators'[a] # Nil
    <3>1. arbitrators'[a] \in Arbitrator
      BY <2>1, <2>2 DEF Arbitrator, ArbStatus, AVAILABLE, REMOVED, SEAT_EXPIRED
    <3>2. QED
      BY <3>1, ConstantsAssumption
  <2>4. \A c \in Rows(casefiles') :
          /\ c \in Rows(casefiles)
          /\ casefiles'[c].case_status = casefiles[c].case_status
          /\ casefiles'[c].arbitrators \subseteq casefiles[c].arbitrators
    BY <1>2, RowTypes DEF DismissArb, WithoutArb, IsAssigned, Rows, TypeOK, Casefile
  <2>5. ASSUME NEW c \in Rows(casefiles'), NEW b \in casefiles'[c].arbitrators,
               casefiles'[c].case_status < RESOLVED
        PROVE  b \in Rows(arbitrators') /\ c \in arbitrators'[b].open_case_ids
    <3>1. b \in Rows(arbitrators) /\ c \in arbitrators[b].open_case_ids
      BY <2>4, <2>5 DEF OpenCasesKnown
    <3>2. CASE b # a
      BY <2>2, <3>1, <3>2 DEF Rows
    <3>3. CASE b = a /\ ~ remove
      BY <2>2, <2>3, <3>1, <3>3 DEF Rows
    <3>4. CASE b = a /\ remove
      <4>1. c \in CaseId /\ casefiles'[c] # Nil
        BY <1>2, <2>4 DEF Rows, TypeOK
      <4>2. b \notin casefiles'[c].arbitrators
        BY <1>2, <2>5, <3>4, <4>1, DismissArbClears
      <4>3. QED
        BY <4>2
    <3>5. QED
      BY <3>2, <3>3, <3>4
  <2>6. QED
    BY <2>5 DEF OpenCasesKnown
<1>3. ASSUME NEW won \in SUBSET Arb, NEW lapsed \in SUBSET Arb, ElectionOutcome(won, lapsed)
      PROVE  OpenCasesKnown'
  <2>1. \A b \in Rows(arbitrators) :
          /\ arbitrators'[b] \in Arbitrator
          /\ arbitrators'[b].open_case_ids = arbitrators[b].open_case_ids
    BY <1>3, RowTypes DEF ElectionOutcome, SeatedRow, Arbitrator, ArbStatus, AVAILABLE,
                          UNAVAILABLE, SEAT_EXPIRED
  <2>2. \A b \in Rows(arbitrators) : b \in Rows(arbitrators')
    BY <1>3, <2>1, RowTypes, ConstantsAssumption DEF ElectionOutcome, Rows
  <2>3. QED
    BY <1>3, <2>1, <2>2 DEF ElectionOutcome, OpenCasesKnown
<1>4. QED
  BY <1>1, <1>2, <1>3 DEF ArbNext

\* In every reachable state the open cases of an arbitrator cover the panels.
THEOREM PanelsKnown == Spec => []OpenCasesKnown
<1>1. Init => OpenCasesKnown
  BY DEF Init, OpenCasesKnown, Rows
<1>2. TypeOK /\ OpenCasesKnown /\ [Next]_vars => OpenCasesKnown'
  <2>1. ASSUME OpenCasesKnown, UNCHANGED <<caseVars, arbitrators>>
        PROVE  OpenCasesKnown'
    BY <2>1 DEF OpenCasesKnown, caseVars
  <2>2. ASSUME MoneyNext
        PROVE  UNCHANGED <<caseVars, arbitrators>>
    BY <2>2 DEF MoneyNext, Deposit, Withdraw, SetConfig, seatVars
  <2>3. QED
    BY <2>1, <2>2, SetupOpen, ProgressOpen, ArbOpen DEF Next, vars, caseVars
<1>3. QED
  BY <1>1, <1>2, TypeCorrect, PTL DEF Spec

\* dismissarb(arb, true) always takes the arbitrator off every unresolved case.
THEOREM DismissalComplete == Spec => DismissalIsComplete
<1>1. ASSUME TypeOK, OpenCasesKnown, [Next]_vars
      PROVE  [\A a \in Arb : DismissArb(a, TRUE) =>
                \A c \in CaseId : casefiles'[c] # Nil /\ casefiles'[c].case_status < RESOLVED =>
                  a \notin casefiles'[c].arbitrators]_vars
  BY <1>1, DismissArbClears
<1>2. QED
  BY <1>1, TypeCorrect, PanelsKnown, PTL DEF Spec, DismissalIsComplete

-----------------------------------------------------------------------------
(* Every depositor can withdraw *)

\* The sum of the deposits is a natural number.
LEMMA DepositSum ==
  ASSUME TypeOK
  PROVE  /\ IsFiniteSet(Rows(accounts))
         /\ SumFunctionOnSet(accounts, Rows(accounts)) \in Nat
         /\ \A o \in Rows(accounts) :
              accounts[o] <= SumFunctionOnSet(accounts, Rows(accounts))
<1>1. IsFiniteSet(Rows(accounts))
  BY ConstantsAssumption, FS_Subset DEF Rows, TypeOK
<1>2. QED
  BY <1>1, SumNat, RowTypes

\* A deposit into a row that exists.
LEMMA DepositRaised ==
  ASSUME TypeOK, DepositsCovered, NEW o \in Rows(accounts), NEW n \in Int,
         accounts[o] + n > 0, accounts' = [accounts EXCEPT ![o] = @ + n]
  PROVE  /\ \A x \in Rows(accounts)' : accounts'[x] > 0
         /\ SumFunctionOnSet(accounts, Rows(accounts))'
              = SumFunctionOnSet(accounts, Rows(accounts)) + n
<1>1. o \in Account /\ accounts[o] \in Nat
  BY RowTypes DEF Rows, TypeOK
<1>2. accounts'[o] = accounts[o] + n /\ accounts'[o] \in Nat
  BY <1>1 DEF TypeOK
<1>3. \A x \in Account : x # o => accounts'[x] = accounts[x]
  BY DEF TypeOK
<1>4. Rows(accounts)' = Rows(accounts)
  BY <1>1, <1>2, <1>3, ConstantsAssumption DEF Rows, TypeOK
<1>5. \A x \in Rows(accounts) : x \in Account
  BY DEF Rows, TypeOK
<1>6. \A x \in Rows(accounts) : accounts[x] \in Int /\ accounts'[x] \in Int
  BY <1>2, <1>3, <1>5, RowTypes
<1>7. \A x \in Rows(accounts) \ {o} : accounts'[x] = accounts[x]
  BY <1>3, <1>5
<1> DEFINE R == Rows(accounts)
           new == accounts'
<1>8. SumFunctionOnSet(new, R) = SumFunctionOnSet(accounts, R) + new[o] - accounts[o]
  <2> HIDE DEF new
  <2>1. IsFiniteSet(R)
    BY DepositSum
  <2>2. /\ \A x \in R : accounts[x] \in Int /\ new[x] \in Int
        /\ \A x \in R \ {o} : new[x] = accounts[x]
    BY <1>6, <1>7 DEF new
  <2>3. o \in R
    OBVIOUS
  <2> HIDE DEF R
  <2>4. QED
    BY <2>1, <2>2, <2>3, SumChange
<1>9. SumFunctionOnSet(accounts, R) \in Nat
  BY DepositSum
<1>10. QED
  BY <1>1, <1>2, <1>3, <1>4, <1>5, <1>8, <1>9 DEF DepositsCovered

\* A row with n in it is added where there was none, or taken away.
LEMMA DepositRow ==
  ASSUME TypeOK, DepositsCovered, NEW o \in Account, NEW n \in Nat, n > 0,
         \/ accounts[o] = Nil /\ accounts' = [accounts EXCEPT ![o] = n]
         \/ accounts[o] = n /\ accounts' = [accounts EXCEPT ![o] = Nil]
  PROVE  /\ \A x \in Rows(accounts)' : accounts'[x] > 0
         /\ SumFunctionOnSet(accounts, Rows(accounts))'
              = SumFunctionOnSet(accounts, Rows(accounts)) + (IF accounts[o] = Nil THEN n ELSE -n)
<1> DEFINE R == Rows(accounts)
           new == accounts'
<1>1. n # Nil /\ \A x \in Account : x # o => new[x] = accounts[x]
  BY ConstantsAssumption DEF TypeOK
<1>2. \A x \in R : x \in Account /\ accounts[x] \in Int /\ accounts[x] > 0
  BY RowTypes DEF Rows, TypeOK, DepositsCovered
<1>3. IsFiniteSet(R) /\ SumFunctionOnSet(accounts, R) \in Nat
  BY DepositSum
<1>4. CASE accounts[o] = Nil
  <2>1. o \notin R /\ Rows(accounts)' = R \cup {o} /\ new[o] = n
    BY <1>1, <1>4 DEF Rows, TypeOK
  <2>2. \A x \in R : new[x] = accounts[x]
    BY <1>1, <1>2, <2>1
  <2>3. SumFunctionOnSet(new, R) = SumFunctionOnSet(accounts, R)
    <3> HIDE DEF R, new
    <3>1. QED
      BY <1>3, <2>2, SumEqual
  <2>4. SumFunctionOnSet(new, R \cup {o}) = SumFunctionOnSet(new, R) + n
    <3> HIDE DEF R, new
    <3>1. \A x \in R : new[x] \in Int
      BY <1>2, <2>2
    <3>2. SumFunctionOnSet(new, R \cup {o}) = SumFunctionOnSet(new, R) + new[o]
      BY <1>3, <2>1, <3>1, SumInsert
    <3>3. QED
      BY <2>1, <3>2
  <2>5. \A x \in R \cup {o} : new[x] > 0
    BY <1>2, <2>1, <2>2
  <2>6. QED
    BY <1>4, <2>1, <2>3, <2>4, <2>5
<1>5. CASE accounts[o] = n
  <2>1. o \in R /\ Rows(accounts)' = R \ {o}
    BY <1>1, <1>5 DEF Rows, TypeOK
  <2>2. \A x \in R \ {o} : new[x] = accounts[x]
    BY <1>1, <1>2
  <2>3. SumFunctionOnSet(new, R \ {o}) = SumFunctionOnSet(accounts, R \ {o})
    <3> HIDE DEF R, new
    <3>1. IsFiniteSet(R \ {o})
      BY <1>3, FS_Subset
    <3>2. QED
      BY <2>2, <3>1, SumEqual
  <2>4. /\ SumFunctionOnSet(accounts, R) = n + SumFunctionOnSet(accounts, R \ {o})
        /\ SumFunctionOnSet(accounts, R \ {o}) \in Int
    <3> HIDE DEF R, new
    <3>1. IsFiniteSet(R \ {o})
      BY <1>3, FS_Subset
    <3>2. QED
      BY <1>2, <1>3, <1>5, <2>1, <3>1, SumRemove, SumInt
  <2>5. \A x \in R \ {o} : new[x] > 0
    BY <1>2, <2>2
  <2>6. QED
    BY <1>1, <1>5, <2>1, <2>3, <2>4, <2>5
<1>6. QED
  BY <1>4, <1>5

\* As long as no fee configured is negative, which setconfig does not check, the
\* contract can pay all deposits back: only the transfers change what it holds,
\* and a fee only lowers a deposit.
THEOREM DepositsSafe == Spec /\ [](fee >= 0) => []DepositsCovered
<1>1. Init => DepositsCovered
  <2>1. ASSUME Init
        PROVE  Rows(accounts) = {} /\ treasury = 0
    BY <2>1 DEF Init, Rows
  <2>2. QED
    BY <2>1, SumEmpty DEF DepositsCovered
<1>2. TypeOK /\ fee >= 0 /\ DepositsCovered /\ [Next]_vars => DepositsCovered'
  <2> SUFFICES ASSUME TypeOK, fee >= 0, DepositsCovered, [Next]_vars
               PROVE  DepositsCovered'
    OBVIOUS
  <2> DEFINE Sum == SumFunctionOnSet(accounts, Rows(accounts))
  <2>1. Sum \in Nat /\ treasury \in Nat /\ Sum <= treasury
    BY DepositSum DEF DepositsCovered, TypeOK
  <2>2. ASSUME UNCHANGED <<accounts, treasury>>
        PROVE  DepositsCovered'
    BY <2>2 DEF DepositsCovered, Rows
  <2>3. ASSUME NEW o \in Account, NEW n \in Deposits, Deposit(o, n)
        PROVE  DepositsCovered'
    <3>1. n \in Nat /\ n > 0 /\ treasury' = treasury + n
      BY <2>3, ConstantsAssumption DEF Deposit
    <3>2. (\A x \in Rows(accounts)' : accounts'[x] > 0) /\ Sum' = Sum + n
      <4>1. CASE accounts[o] = Nil
        <5>1. accounts' = [accounts EXCEPT ![o] = n]
          BY <2>3, <4>1 DEF Deposit
        <5> HIDE DEF Sum
        <5>2. QED
          BY <3>1, <4>1, <5>1, DepositRow DEF Sum
      <4>2. CASE accounts[o] # Nil
        <5>1. accounts' = [accounts EXCEPT ![o] = @ + n] /\ o \in Rows(accounts)
          BY <2>3, <4>2 DEF Deposit, Rows, TypeOK
        <5>2. accounts[o] + n > 0 /\ n \in Int
          BY <3>1, <5>1, RowTypes
        <5> HIDE DEF Sum
        <5>3. QED
          BY <5>1, <5>2, DepositRaised DEF Sum
      <4>3. QED
        BY <4>1, <4>2
    <3> HIDE DEF Sum
    <3>3. Sum' <= treasury'
      BY <2>1, <3>1, <3>2
    <3>4. QED
      BY <3>2, <3>3 DEF DepositsCovered, Sum
  <2>4. ASSUME NEW o \in Account, Withdraw(o)
        PROVE  DepositsCovered'
    <3>1. /\ accounts[o] \in Nat /\ accounts[o] > 0 /\ accounts[o] # Nil
          /\ treasury' = treasury - accounts[o]
          /\ accounts' = [accounts EXCEPT ![o] = Nil]
      BY <2>4, RowTypes DEF Withdraw, Rows, TypeOK
    <3> DEFINE n == accounts[o]
    <3>2. (\A x \in Rows(accounts)' : accounts'[x] > 0) /\ Sum' = Sum + (-n)
      <4>1. accounts[o] = n
        OBVIOUS
      <4> HIDE DEF n, Sum
      <4>2. QED
        BY <3>1, <4>1, DepositRow DEF Sum
    <3> HIDE DEF Sum
    <3>3. Sum' <= treasury'
      BY <2>1, <3>1, <3>2
    <3>4. QED
      BY <3>2, <3>3 DEF DepositsCovered, Sum
  <2>5. ASSUME NEW o \in Account, SubBalance(o, fee), UNCHANGED treasury
        PROVE  DepositsCovered'
    <3>1. accounts[o] \in Nat /\ fee \in Nat /\ accounts[o] >= fee /\ o \in Rows(accounts)
      BY <2>5, RowTypes, ConstantsAssumption DEF SubBalance, Rows, TypeOK
    <3>2. accounts[o] > 0 /\ accounts[o] # Nil
      BY <3>1 DEF DepositsCovered, Rows
    <3>3. (\A x \in Rows(accounts)' : accounts'[x] > 0) /\ Sum' = Sum + (-fee)
      <4>1. CASE accounts[o] = fee
        <5>1. accounts' = [accounts EXCEPT ![o] = Nil]
          BY <2>5, <4>1 DEF SubBalance
        <5> HIDE DEF Sum
        <5>2. QED
          BY <3>1, <3>2, <4>1, <5>1, DepositRow DEF Sum
      <4>2. CASE accounts[o] # fee
        <5> DEFINE m == -fee
        <5>1. m \in Int /\ accounts[o] + m > 0 /\ accounts[o] - fee = accounts[o] + m
          BY <3>1, <4>2
        <5>2. accounts' = [accounts EXCEPT ![o] = @ + m]
          BY <2>5, <4>2, <5>1 DEF SubBalance
        <5> HIDE DEF Sum, m
        <5>3. (\A x \in Rows(accounts)' : accounts'[x] > 0) /\ Sum' = Sum + m
          BY <3>1, <5>1, <5>2, DepositRaised DEF Sum
        <5>4. QED
          BY <5>3 DEF m
      <4>3. QED
        BY <4>1, <4>2
    <3> HIDE DEF Sum
    <3>4. Sum' <= treasury'
      BY <2>1, <2>5, <3>1, <3>3
    <3>5. QED
      BY <3>3, <3>4 DEF DepositsCovered, Sum
  <2>6. ASSUME MoneyNext
        PROVE  DepositsCovered'
    BY <2>2, <2>3, <2>4, <2>6 DEF MoneyNext, SetConfig
  <2>7. ASSUME SetupNext
        PROVE  DepositsCovered'
    BY <2>2, <2>5, <2>7 DEF SetupNext, FileCase, AddClaim, RemoveClaim, ShredCase, ReadyCase,
                            moneyVars
  <2>8. ASSUME ProgressNext \/ ArbNext
        PROVE  UNCHANGED moneyVars
    <3>1. ASSUME ProgressNext
          PROVE  UNCHANGED moneyVars
      BY <3>1, ZenonT(60) DEF ProgressNext, Respond, AssignToCase, DismissClaim, AcceptClaim, SetRuling,
                  DismissCase, AdvanceCase, Recuse, DeleteCase
    <3>2. ASSUME ArbNext
          PROVE  UNCHANGED moneyVars
      BY <3>2 DEF ArbNext, NewArbStatus, DismissArb, ElectionOutcome
    <3>3. QED
      BY <2>8, <3>1, <3>2
  <2>9. QED
    BY <2>2, <2>6, <2>7, <2>8 DEF Next, vars, moneyVars
<1>3. QED
  BY <1>1, <1>2, TypeCorrect, PTL DEF Spec

-----------------------------------------------------------------------------
(* No claim is decided twice *)

\* get_claim_at finds the claim when any has that summary.
LEMMA ClaimFound ==
  ASSUME NEW h, NEW s \in Seq(Claim), NEW i \in DOMAIN s, s[i].claim_summary = h
  PROVE  HasClaim(h, s)
<1> DEFINE I == {m \in DOMAIN s : s[m].claim_summary = h}
<1>1. I \subseteq Nat /\ I # {}
  OBVIOUS
<1> HIDE DEF I
<1>2. PICK j \in I : \A m \in I : j <= m
  BY <1>1, LeastNat
<1>3. j \in DOMAIN s /\ s[j].claim_summary = h /\ DOMAIN s = 1..Len(s)
  BY <1>2 DEF I
<1>4. \A m \in 1..(j - 1) : s[m].claim_summary # h
  BY <1>2, <1>3 DEF I
<1>5. QED
  BY <1>3, <1>4 DEF HasClaim, IsClaimAt

\* DecidedOnce, of one case.
RowDecidedOnce(row, table) ==
  /\ \A i, j \in DOMAIN row.unread_claims :
       row.unread_claims[i].claim_summary = row.unread_claims[j].claim_summary => i = j
  /\ \A k \in row.accepted_claims, i \in DOMAIN row.unread_claims :
       table[k].claim_summary # row.unread_claims[i].claim_summary
  /\ \A k, m \in row.accepted_claims :
       table[k].claim_summary = table[m].claim_summary => k = m

\* addclaim looks for duplicates among the unread claims only: it may, because
\* nothing has been accepted while the case is being set up.
SetupUndecided ==
  \A c \in Rows(casefiles) :
    casefiles[c].case_status = CASE_SETUP => casefiles[c].accepted_claims = {}

\* The inductive invariant.
DecidedInv == /\ \A c \in Rows(casefiles) : RowDecidedOnce(casefiles[c], claims)
              /\ SetupUndecided

\* The unread claims after a step are some of those before it, each from a
\* place of its own.
Thinned(new, old) ==
  \E from \in [DOMAIN new -> DOMAIN old] :
    \A i, j \in DOMAIN new : /\ from[i] = from[j] => i = j
                             /\ new[i].claim_summary = old[from[i]].claim_summary

\* Thinning the unread claims of a case decides nothing twice.
LEMMA ThinnedRow ==
  ASSUME NEW row, NEW row2, NEW table, NEW table2, RowDecidedOnce(row, table),
         Thinned(row2.unread_claims, row.unread_claims),
         row2.accepted_claims = row.accepted_claims,
         \A k \in row.accepted_claims : table2[k] = table[k]
  PROVE  RowDecidedOnce(row2, table2)
<1> DEFINE new == row2.unread_claims
           old == row.unread_claims
<1>1. PICK from \in [DOMAIN new -> DOMAIN old] :
        \A i, j \in DOMAIN new : /\ from[i] = from[j] => i = j
                                 /\ new[i].claim_summary = old[from[i]].claim_summary
  BY DEF Thinned
<1>2. \A i, j \in DOMAIN new : new[i].claim_summary = new[j].claim_summary => i = j
  BY <1>1 DEF RowDecidedOnce
<1>3. \A k \in row2.accepted_claims, i \in DOMAIN new :
        table2[k].claim_summary # new[i].claim_summary
  BY <1>1 DEF RowDecidedOnce
<1>4. QED
  BY <1>2, <1>3 DEF RowDecidedOnce

\* A list is itself thinned by nothing.
LEMMA SameThinned ==
  ASSUME NEW s
  PROVE  Thinned(s, s)
<1> DEFINE id == [i \in DOMAIN s |-> i]
<1>1. /\ id \in [DOMAIN s -> DOMAIN s]
      /\ \A i, j \in DOMAIN s : /\ id[i] = id[j] => i = j
                                /\ s[i].claim_summary = s[id[i]].claim_summary
  OBVIOUS
<1> HIDE DEF id
<1>2. QED
  BY <1>1 DEF Thinned

\* A list without one of its elements is thinned.
LEMMA RemovedThinned ==
  ASSUME NEW s \in Seq(Claim), NEW i \in DOMAIN s
  PROVE  Thinned(RemoveAt(s, i), s)
<1> DEFINE new == RemoveAt(s, i)
           from == [j \in DOMAIN new |-> IF j < i THEN j ELSE j + 1]
<1>1. /\ DOMAIN new = 1..(Len(s) - 1)
      /\ \A j \in DOMAIN new : new[j] = s[IF j < i THEN j ELSE j + 1]
  BY RemoveAtElements
<1> HIDE DEF new
<1>2. i \in 1..Len(s) /\ Len(s) \in Nat /\ DOMAIN s = 1..Len(s)
  OBVIOUS
<1>3. /\ from \in [DOMAIN new -> DOMAIN s]
      /\ \A j, m \in DOMAIN new : from[j] = from[m] => j = m
      /\ \A j \in DOMAIN new : new[j] = s[from[j]]
  BY <1>1, <1>2
<1> HIDE DEF from
<1>4. QED
  BY <1>3 DEF Thinned, new

\* It is enough that every case file is an old one with its unread claims
\* thinned and its accepted claims kept, and no case is set up anew.
LEMMA DecidedFrame ==
  ASSUME DecidedInv,
         \A c \in Rows(casefiles)' :
            /\ c \in Rows(casefiles)
            /\ Thinned(casefiles'[c].unread_claims, casefiles[c].unread_claims)
            /\ casefiles'[c].accepted_claims = casefiles[c].accepted_claims
            /\ \A k \in casefiles[c].accepted_claims : claims'[k] = claims[k]
            /\ casefiles'[c].case_status = CASE_SETUP => casefiles[c].case_status = CASE_SETUP
  PROVE  DecidedInv'
<1>1. \A c \in Rows(casefiles)' : RowDecidedOnce(casefiles'[c], claims')
  BY ThinnedRow DEF DecidedInv
<1>2. SetupUndecided'
  BY DEF DecidedInv, SetupUndecided
<1>3. QED
  BY <1>1, <1>2 DEF DecidedInv

\* The actions that concern no claim.
Unconcerned ==
  \/ MoneyNext \/ ArbNext \/ UNCHANGED vars
  \/ \E c \in CaseId :
       \/ \E o \in Account : ShredCase(c, o) \/ ReadyCase(c, o)
       \/ \E a \in Arb : \/ AssignToCase(c, a) \/ AdvanceCase(c, a) \/ Recuse(c, a)
                         \/ \E l \in Link : SetRuling(c, a, l) \/ DismissCase(c, a, l)

\* The case files keep their claims, and none goes back to its setup.
ClaimsKept ==
  \A c \in Rows(casefiles)' :
    /\ c \in Rows(casefiles)
    /\ casefiles'[c].unread_claims = casefiles[c].unread_claims
    /\ casefiles'[c].accepted_claims = casefiles[c].accepted_claims
    /\ casefiles'[c].case_status = CASE_SETUP => casefiles[c].case_status = CASE_SETUP

\* Those actions do keep the claims.
LEMMA UnconcernedKeeps ==
  ASSUME TypeOK, Unconcerned
  PROVE  ClaimsKept /\ claims' = claims
<1> USE DEF seatVars, CASE_SETUP, AWAITING_ARBS, CASE_INVESTIGATION, ENFORCEMENT, RESOLVED,
            DISMISSED
<1>1. ASSUME UNCHANGED caseVars
      PROVE  ClaimsKept /\ claims' = claims
  BY <1>1 DEF ClaimsKept, caseVars, Rows
<1>2. ASSUME MoneyNext
      PROVE  UNCHANGED caseVars
  BY <1>2 DEF MoneyNext, Deposit, Withdraw, SetConfig, caseVars
<1>3. ASSUME NEW a \in Arb, NEW remove \in BOOLEAN, DismissArb(a, remove)
      PROVE  ClaimsKept /\ claims' = claims
  BY <1>3, RowTypes DEF DismissArb, WithoutArb, IsAssigned, Rows, TypeOK, Casefile, ClaimsKept
<1>4. ASSUME ArbNext
      PROVE  ClaimsKept /\ claims' = claims
  BY <1>1, <1>3, <1>4 DEF ArbNext, NewArbStatus, ElectionOutcome
<1>5. ASSUME NEW c \in CaseId, NEW o \in Account, ShredCase(c, o)
      PROVE  ClaimsKept /\ claims' = claims
  BY <1>5 DEF ShredCase, ClaimsKept, Rows, TypeOK
<1>6. ASSUME NEW c \in CaseId, NEW o \in Account, ReadyCase(c, o)
      PROVE  ClaimsKept /\ claims' = claims
  BY <1>6, RowTypes DEF ReadyCase, OwnCaseInSetup, ClaimsKept, Rows, TypeOK, Casefile
<1>7. ASSUME NEW c \in CaseId, NEW a \in Arb, AssignToCase(c, a)
      PROVE  ClaimsKept /\ claims' = claims
  BY <1>7, RowTypes DEF AssignToCase, StatusOnAssignment, ClaimsKept, Rows, TypeOK, Casefile
<1>8. ASSUME NEW c \in CaseId, NEW a \in Arb, AdvanceCase(c, a)
      PROVE  ClaimsKept /\ claims' = claims
  <2>1. /\ c \in Rows(casefiles) /\ casefiles[c] \in Casefile /\ claims' = claims
        /\ casefiles[c].case_status > AWAITING_ARBS /\ casefiles[c].case_status \in Nat
    BY <1>8, RowTypes, FieldTypes DEF AdvanceCase, InProgress, IsAssigned, CaseStatus
  <2>2. \A d \in CaseId : d # c => casefiles'[d] = casefiles[d]
    BY <1>8 DEF AdvanceCase, TypeOK
  <2>3. /\ casefiles'[c].unread_claims = casefiles[c].unread_claims
        /\ casefiles'[c].accepted_claims = casefiles[c].accepted_claims
        /\ casefiles'[c].case_status \in {casefiles[c].case_status, casefiles[c].case_status + 1}
    BY <1>8, <2>1 DEF AdvanceCase, TypeOK, Casefile
  <2>4. DOMAIN casefiles' = CaseId
    BY <1>8 DEF AdvanceCase, TypeOK
  <2>5. \A d \in Rows(casefiles)' : d # c => d \in Rows(casefiles)
    BY <2>2, <2>4 DEF Rows, TypeOK
  <2>6. casefiles'[c].case_status # CASE_SETUP
    BY <2>1, <2>3
  <2>7. QED
    BY <2>1, <2>2, <2>3, <2>4, <2>5, <2>6 DEF ClaimsKept, Rows
<1>9. ASSUME NEW c \in CaseId, NEW a \in Arb, Recuse(c, a)
      PROVE  ClaimsKept /\ claims' = claims
  BY <1>9, RowTypes DEF Recuse, IsAssigned, ClaimsKept, Rows, TypeOK, Casefile
<1>10. ASSUME NEW c \in CaseId, NEW a \in Arb, NEW l \in Link, SetRuling(c, a, l)
       PROVE  ClaimsKept /\ claims' = claims
  BY <1>10, RowTypes DEF SetRuling, IsAssigned, ClaimsKept, Rows, TypeOK, Casefile
<1>11. ASSUME NEW c \in CaseId, NEW a \in Arb, NEW l \in Link, DismissCase(c, a, l)
       PROVE  ClaimsKept /\ claims' = claims
  BY <1>11, RowTypes DEF DismissCase, IsAssigned, ClaimsKept, Rows, TypeOK, Casefile
<1>12. QED
  BY <1>1, <1>2, <1>3, <1>4, <1>5, <1>6, <1>7, <1>8, <1>9, <1>10, <1>11
     DEF Unconcerned, vars, caseVars

\* The unread claims of one case file are assigned: the rest stays.
LEMMA ListWritten ==
  ASSUME TypeOK, NEW c \in Rows(casefiles), NEW list \in Seq(Claim),
         casefiles' = [casefiles EXCEPT ![c] = [casefiles[c] EXCEPT !.unread_claims = list]]
  PROVE  /\ Rows(casefiles)' = Rows(casefiles)
         /\ \A d \in Rows(casefiles) : d # c => casefiles'[d] = casefiles[d]
         /\ casefiles'[c] \in Casefile
         /\ casefiles'[c].unread_claims = list
         /\ casefiles'[c].accepted_claims = casefiles[c].accepted_claims
         /\ casefiles'[c].case_status = casefiles[c].case_status
<1>1. c \in CaseId /\ casefiles[c] \in Casefile
  BY RowTypes
<1> DEFINE row == [casefiles[c] EXCEPT !.unread_claims = list]
<1>2. /\ row \in Casefile /\ row # Nil
      /\ row.unread_claims = list
      /\ row.accepted_claims = casefiles[c].accepted_claims
      /\ row.case_status = casefiles[c].case_status
  <2>1. row \in Casefile
    BY <1>1, CasefileFields
  <2>2. /\ row.unread_claims = list
        /\ row.accepted_claims = casefiles[c].accepted_claims
        /\ row.case_status = casefiles[c].case_status
    BY <1>1 DEF Casefile
  <2> HIDE DEF row
  <2>3. QED
    BY <2>1, <2>2, ConstantsAssumption
<1> HIDE DEF row
<1>3. casefiles' = [casefiles EXCEPT ![c] = row]
  BY DEF row
<1>4. casefiles'[c] = row /\ \A d \in CaseId : d # c => casefiles'[d] = casefiles[d]
  BY <1>1, <1>3 DEF TypeOK
<1>5. DOMAIN casefiles' = CaseId /\ DOMAIN casefiles = CaseId
  BY <1>3 DEF TypeOK
<1>6. QED
  BY <1>1, <1>2, <1>4, <1>5 DEF Rows

\* So they decide nothing twice.
LEMMA UnconcernedDecided ==
  ASSUME TypeOK, DecidedInv, Unconcerned
  PROVE  DecidedInv'
BY UnconcernedKeeps, SameThinned, DecidedFrame DEF ClaimsKept

\* Nor does an unread claim that is removed or dismissed.
LEMMA RemovalDecided ==
  ASSUME TypeOK, DecidedInv, NEW c \in Rows(casefiles),
         NEW i \in DOMAIN casefiles[c].unread_claims,
         casefiles' = [casefiles EXCEPT ![c].unread_claims = RemoveAt(@, i)],
         claims' = claims
  PROVE  DecidedInv'
<1> DEFINE old == casefiles[c].unread_claims
           list == RemoveAt(old, i)
<1>1. old \in Seq(Claim)
  BY RowTypes, FieldTypes
<1>2. Thinned(list, old) /\ list \in Seq(Claim)
  BY <1>1, RemovedThinned, RemoveAtElements
<1>3. casefiles' = [casefiles EXCEPT ![c] = [casefiles[c] EXCEPT !.unread_claims = list]]
  OBVIOUS
<1> HIDE DEF list
<1>4. /\ Rows(casefiles)' = Rows(casefiles)
      /\ \A d \in Rows(casefiles) : d # c => casefiles'[d] = casefiles[d]
      /\ casefiles'[c].unread_claims = list
      /\ casefiles'[c].accepted_claims = casefiles[c].accepted_claims
      /\ casefiles'[c].case_status = casefiles[c].case_status
  BY <1>2, <1>3, ListWritten
<1>5. \A d \in Rows(casefiles) :
        /\ Thinned(casefiles'[d].unread_claims, casefiles[d].unread_claims)
        /\ casefiles'[d].accepted_claims = casefiles[d].accepted_claims
        /\ casefiles'[d].case_status = casefiles[d].case_status
  BY <1>2, <1>4, SameThinned
<1>6. QED
  BY <1>4, <1>5, DecidedFrame

\* The setup of a case: addclaim adds no second copy.
LEMMA SetupDecided ==
  ASSUME TypeOK, DecidedInv, SetupNext
  PROVE  DecidedInv'
<1>1. ASSUME NEW o \in Account, NEW h \in Hash, NEW r \in Account \cup {Nil}, FileCase(o, h, r)
      PROVE  DecidedInv'
  <2>1. PICK c \in CaseId :
          /\ c \notin Rows(casefiles)
          /\ casefiles'[c].unread_claims = <<NewClaim(h)>>
          /\ casefiles'[c].accepted_claims = {}
          /\ \A d \in CaseId : d # c => casefiles'[d] = casefiles[d]
          /\ DOMAIN casefiles' = CaseId
    BY <1>1, RowTypes DEF FileCase, IsNextKey, CaseId, TypeOK
  <2>2. RowDecidedOnce(casefiles'[c], claims')
    BY <2>1 DEF RowDecidedOnce
  <2>3. \A d \in Rows(casefiles)' : d # c => d \in Rows(casefiles) /\ casefiles'[d] = casefiles[d]
    BY <2>1 DEF Rows, TypeOK
  <2>4. claims' = claims
    BY <1>1 DEF FileCase
  <2>5. QED
    BY <2>1, <2>2, <2>3, <2>4 DEF DecidedInv, SetupUndecided
<1>2. ASSUME NEW o \in Account, NEW h \in Hash, NEW c \in CaseId, AddClaim(c, h, o)
      PROVE  DecidedInv'
  <2> DEFINE old == casefiles[c].unread_claims
             list == Append(old, NewClaim(h))
  <2>1. /\ c \in Rows(casefiles) /\ casefiles[c] \in Casefile
        /\ casefiles[c].case_status = CASE_SETUP
        /\ ~ HasClaim(h, old)
        /\ casefiles' = [casefiles EXCEPT ![c] = [casefiles[c] EXCEPT !.unread_claims = list]]
        /\ claims' = claims
    BY <1>2, RowTypes DEF AddClaim, OwnCaseInSetup
  <2>2. old \in Seq(Claim) /\ NewClaim(h) \in Claim /\ NewClaim(h).claim_summary = h
    BY <2>1, NewClaimType DEF Casefile, NewClaim
  <2>3. list \in Seq(Claim)
    BY <2>2
  <2>4. /\ Rows(casefiles)' = Rows(casefiles)
        /\ \A d \in Rows(casefiles) : d # c => casefiles'[d] = casefiles[d]
        /\ casefiles'[c].unread_claims = list
        /\ casefiles'[c].accepted_claims = casefiles[c].accepted_claims
    <3> HIDE DEF list
    <3>1. QED
      BY <2>1, <2>3, ListWritten
  <2>5. casefiles[c].accepted_claims = {}
    BY <2>1 DEF DecidedInv, SetupUndecided
  <2>6. \A i \in DOMAIN old : old[i].claim_summary # h
    BY <2>1, <2>2, ClaimFound
  <2>7. \A i, j \in DOMAIN list : list[i].claim_summary = list[j].claim_summary => i = j
    <3>1. \A i, j \in DOMAIN old : old[i].claim_summary = old[j].claim_summary => i = j
      BY <2>1 DEF DecidedInv, RowDecidedOnce
    <3>2. \A i \in DOMAIN list :
            \/ i \in DOMAIN old /\ list[i] = old[i]
            \/ i = Len(old) + 1 /\ list[i] = NewClaim(h)
      BY <2>2
    <3> HIDE DEF old, list
    <3>3. QED
      BY <2>2, <2>6, <3>1, <3>2
  <2>8. RowDecidedOnce(casefiles'[c], claims')
    BY <2>4, <2>5, <2>7 DEF RowDecidedOnce
  <2>9. \A d \in Rows(casefiles)' : RowDecidedOnce(casefiles'[d], claims')
    <3>1. ASSUME NEW d \in Rows(casefiles)', d # c
          PROVE  RowDecidedOnce(casefiles'[d], claims')
      BY <2>1, <2>4, <3>1 DEF DecidedInv
    <3>2. QED
      BY <2>8, <3>1
  <2>10. SetupUndecided'
    BY <2>4, <2>5 DEF DecidedInv, SetupUndecided
  <2>11. QED
    BY <2>9, <2>10 DEF DecidedInv
<1>3. ASSUME NEW o \in Account, NEW h \in Hash, NEW c \in CaseId, RemoveClaim(c, h, o)
      PROVE  DecidedInv'
  BY <1>3, RemovalDecided DEF RemoveClaim, OwnCaseInSetup
<1>4. ASSUME Unconcerned
      PROVE  DecidedInv'
  BY <1>4, UnconcernedDecided
<1>5. QED
  BY <1>1, <1>2, <1>3, <1>4 DEF SetupNext, Unconcerned

\* acceptclaim moves a claim to a row of its own.
LEMMA AcceptDecided ==
  ASSUME TypeOK, ClaimsOwnedOnce, DecidedInv, NEW c \in CaseId, NEW a \in Arb, NEW h \in Hash,
         AcceptClaim(c, a, h)
  PROVE  DecidedInv'
<1> DEFINE old == casefiles[c].unread_claims
           accepted == casefiles[c].accepted_claims
<1>1. /\ c \in Rows(casefiles) /\ casefiles[c] \in Casefile
      /\ casefiles[c].case_status # CASE_SETUP
  BY RowTypes DEF AcceptClaim, IsAssigned, DecidingClaims, CASE_SETUP, AWAITING_ARBS
<1>2. PICK i \in DOMAIN old, k \in ClaimId :
        /\ IsNextKey(k, Rows(claims))
        /\ casefiles' = [casefiles EXCEPT ![c].unread_claims = RemoveAt(@, i),
                                          ![c].accepted_claims = @ \cup {k}]
        /\ claims' = [claims EXCEPT ![k] = old[i]]
  BY DEF AcceptClaim
<1>3. old \in Seq(Claim) /\ accepted \in SUBSET ClaimId
  BY <1>1, FieldTypes
<1> DEFINE list == RemoveAt(old, i)
           row == [[casefiles[c] EXCEPT !.unread_claims = list]
                     EXCEPT !.accepted_claims = accepted \cup {k}]
<1>4. /\ list \in Seq(Claim)
      /\ DOMAIN list = 1..(Len(old) - 1)
      /\ \A j \in 1..(Len(old) - 1) : list[j] = old[IF j < i THEN j ELSE j + 1]
  BY <1>3, RemoveAtElements
<1>5. casefiles' = [casefiles EXCEPT ![c] = row]
  BY <1>1, <1>2 DEF TypeOK, Casefile
<1> HIDE DEF list
<1>6. /\ row \in Casefile /\ row # Nil
      /\ row.unread_claims = list
      /\ row.accepted_claims = accepted \cup {k}
      /\ row.case_status = casefiles[c].case_status
  <2>1. row \in Casefile
    <3>1. [casefiles[c] EXCEPT !.unread_claims = list] \in Casefile
      BY <1>1, <1>4, CasefileFields
    <3>2. accepted \cup {k} \in SUBSET ClaimId
      BY <1>3
    <3>3. QED
      BY <3>1, <3>2, CasefileFields
  <2>2. /\ row.unread_claims = list
        /\ row.accepted_claims = accepted \cup {k}
        /\ row.case_status = casefiles[c].case_status
    BY <1>1 DEF Casefile
  <2> HIDE DEF row
  <2>3. QED
    BY <2>1, <2>2, ConstantsAssumption
<1> HIDE DEF row
<1>7. /\ casefiles'[c] = row
      /\ \A d \in Rows(casefiles)' : d # c => d \in Rows(casefiles) /\ casefiles'[d] = casefiles[d]
  BY <1>1, <1>5 DEF Rows, TypeOK
<1>8. k \notin Rows(claims)
  BY <1>2, RowTypes DEF IsNextKey, ClaimId
<1>9. claims'[k] = old[i] /\ \A m \in ClaimId : m # k => claims'[m] = claims[m]
  BY <1>2 DEF TypeOK
<1>10. \A d \in Rows(casefiles) : \A m \in casefiles[d].accepted_claims :
         m # k /\ claims'[m] = claims[m]
  BY <1>8, <1>9, RowTypes DEF ClaimsOwnedOnce
<1>11. RowDecidedOnce(casefiles[c], claims)
  BY <1>1 DEF DecidedInv
<1>12. \A j \in DOMAIN list : \E m \in DOMAIN old : m # i /\ list[j] = old[m]
  <2>1. i \in 1..Len(old) /\ Len(old) \in Nat /\ DOMAIN old = 1..Len(old)
    BY <1>3
  <2> HIDE DEF old
  <2>2. QED
    BY <1>4, <2>1
<1>13. RowDecidedOnce(row, claims')
  <2>1. \A j, m \in DOMAIN list : list[j].claim_summary = list[m].claim_summary => j = m
    <3>1. RowDecidedOnce([casefiles[c] EXCEPT !.unread_claims = list], claims)
      <4>1. Thinned(list, old)
        BY <1>3, RemovedThinned DEF list
      <4>2. /\ [casefiles[c] EXCEPT !.unread_claims = list].unread_claims = list
            /\ [casefiles[c] EXCEPT !.unread_claims = list].accepted_claims = accepted
        BY <1>1 DEF Casefile
      <4>3. QED
        BY <1>11, <4>1, <4>2, ThinnedRow
    <3>2. [casefiles[c] EXCEPT !.unread_claims = list].unread_claims = list
      BY <1>1 DEF Casefile
    <3>3. QED
      BY <3>1, <3>2 DEF RowDecidedOnce
  <2>2. \A m \in accepted \cup {k}, j \in DOMAIN list :
          claims'[m].claim_summary # list[j].claim_summary
    BY <1>1, <1>9, <1>10, <1>11, <1>12 DEF RowDecidedOnce
  <2>3. \A m, n \in accepted \cup {k} :
          claims'[m].claim_summary = claims'[n].claim_summary => m = n
    BY <1>1, <1>9, <1>10, <1>11 DEF RowDecidedOnce
  <2>4. QED
    BY <1>6, <2>1, <2>2, <2>3 DEF RowDecidedOnce
<1>14. ASSUME NEW d \in Rows(casefiles)', d # c
       PROVE  RowDecidedOnce(casefiles'[d], claims')
  <2>1. RowDecidedOnce(casefiles[d], claims)
    BY <1>7, <1>14 DEF DecidedInv
  <2>2. QED
    BY <1>7, <1>10, <1>14, <2>1, SameThinned, ThinnedRow
<1>15. SetupUndecided'
  BY <1>1, <1>6, <1>7 DEF DecidedInv, SetupUndecided
<1>16. QED
  BY <1>7, <1>13, <1>14, <1>15 DEF DecidedInv

\* respond answers a claim and leaves what it is about.
LEMMA RespondDecided ==
  ASSUME TypeOK, DecidedInv, NEW c \in CaseId, NEW h \in Hash, NEW o \in Account, NEW l \in Link,
         Respond(c, h, o, l)
  PROVE  DecidedInv'
<1> DEFINE old == casefiles[c].unread_claims
<1>1. c \in Rows(casefiles) /\ casefiles[c] \in Casefile /\ claims' = claims
  BY RowTypes DEF Respond
<1>2. old \in Seq(Claim)
  BY <1>1, FieldTypes
<1>3. PICK i \in DOMAIN old :
        casefiles' = [casefiles EXCEPT ![c].unread_claims[i].response_link = l]
  BY DEF Respond
<1> DEFINE answered == [old[i] EXCEPT !.response_link = l]
           list == [old EXCEPT ![i] = answered]
<1>4. old[i] \in Claim
  BY <1>2
<1>5. answered \in Claim /\ answered.claim_summary = old[i].claim_summary
  BY <1>4 DEF Claim
<1>6. casefiles' = [casefiles EXCEPT ![c] = [casefiles[c] EXCEPT !.unread_claims = list]]
  BY <1>3
<1>7. /\ list \in Seq(Claim) /\ DOMAIN list = DOMAIN old
      /\ \A j \in DOMAIN old : list[j].claim_summary = old[j].claim_summary
  <2> HIDE DEF answered, old
  <2>1. QED
    BY <1>2, <1>5
<1>8. Thinned(list, old)
  <2> DEFINE id == [j \in DOMAIN old |-> j]
  <2>1. /\ id \in [DOMAIN list -> DOMAIN old]
        /\ \A j \in DOMAIN list : id[j] = j
    BY <1>7
  <2> HIDE DEF id, list
  <2>2. QED
    BY <1>7, <2>1 DEF Thinned
<1> HIDE DEF list
<1>9. /\ Rows(casefiles)' = Rows(casefiles)
      /\ \A d \in Rows(casefiles) : d # c => casefiles'[d] = casefiles[d]
      /\ casefiles'[c].unread_claims = list
      /\ casefiles'[c].accepted_claims = casefiles[c].accepted_claims
      /\ casefiles'[c].case_status = casefiles[c].case_status
  BY <1>1, <1>6, <1>7, ListWritten
<1>10. \A d \in Rows(casefiles) :
        /\ Thinned(casefiles'[d].unread_claims, casefiles[d].unread_claims)
        /\ casefiles'[d].accepted_claims = casefiles[d].accepted_claims
        /\ casefiles'[d].case_status = casefiles[d].case_status
  BY <1>8, <1>9, SameThinned
<1>11. QED
  BY <1>1, <1>9, <1>10, DecidedFrame

\* deletecase erases rows of no case but its own.
LEMMA DeleteDecided ==
  ASSUME TypeOK, ClaimsOwnedOnce, DecidedInv, NEW c \in CaseId, DeleteCase(c)
  PROVE  DecidedInv'
<1>1. PICK swept \in {casefiles[c].accepted_claims, {}} :
        claims' = [k \in ClaimId |-> IF k \in swept THEN Nil ELSE claims[k]]
  BY DEF DeleteCase, SweptClaims
<1>2. \A d \in Rows(casefiles)' : d # c /\ d \in Rows(casefiles) /\ casefiles'[d] = casefiles[d]
  BY DEF DeleteCase, Rows, TypeOK
<1>3. \A d \in Rows(casefiles)' : \A k \in casefiles[d].accepted_claims : claims'[k] = claims[k]
  <2>1. \A d \in Rows(casefiles)' : \A k \in casefiles[d].accepted_claims :
          k \notin swept /\ k \in ClaimId
    BY <1>1, <1>2, RowTypes DEF ClaimsOwnedOnce, DeleteCase
  <2>2. QED
    BY <1>1, <2>1
<1>4. QED
  BY <1>2, <1>3, SameThinned, DecidedFrame

\* In every reachable state the claims of a case are decided at most once.
THEOREM ClaimsDecidedOnce == Spec => []DecidedOnce
<1>1. Init => DecidedInv
  BY DEF Init, DecidedInv, SetupUndecided, Rows
<1>2. TypeOK /\ ClaimsOwnedOnce /\ DecidedInv /\ [Next]_vars => DecidedInv'
  <2> SUFFICES ASSUME TypeOK, ClaimsOwnedOnce, DecidedInv, [Next]_vars
               PROVE  DecidedInv'
    OBVIOUS
  <2>1. ASSUME NEW c \in CaseId, NEW a \in Arb, NEW h \in Hash, DismissClaim(c, a, h)
        PROVE  DecidedInv'
    BY <2>1, RemovalDecided DEF DismissClaim, IsAssigned
  <2>2. ASSUME ProgressNext
        PROVE  DecidedInv'
    BY <2>1, <2>2, RespondDecided, AcceptDecided, DeleteDecided, UnconcernedDecided
       DEF ProgressNext, Unconcerned
  <2>3. QED
    BY <2>2, SetupDecided, UnconcernedDecided DEF Next, Unconcerned
<1>3. DecidedInv => DecidedOnce
  BY DEF DecidedInv, RowDecidedOnce, DecidedOnce
<1>4. QED
  BY <1>1, <1>2, <1>3, TypeCorrect, ClaimsAgree, PTL DEF Spec

-----------------------------------------------------------------------------
(* The claims of a case that is being decided are settled *)

\* From DECISION on, no step changes the claims of a case.
THEOREM Settled == Spec => ClaimsSettled
<1> DEFINE Kept == \A c \in Rows(casefiles) :
                     casefiles[c].case_status >= DECISION /\ casefiles'[c] # Nil =>
                       /\ casefiles'[c].unread_claims = casefiles[c].unread_claims
                       /\ casefiles'[c].accepted_claims = casefiles[c].accepted_claims
<1>1. ASSUME TypeOK, [Next]_vars
      PROVE  Kept
  <2> USE DEF CASE_SETUP, AWAITING_ARBS, CASE_INVESTIGATION, DECISION
  <2>1. ASSUME Unconcerned
        PROVE  Kept
    <3>1. ASSUME NEW c \in Rows(casefiles), casefiles'[c] # Nil
          PROVE  c \in Rows(casefiles)'
      <4>1. TypeOK'
        BY <1>1, NextTypes
      <4>2. QED
        BY <1>1, <3>1, <4>1 DEF Rows, TypeOK
    <3>2. QED
      BY <1>1, <2>1, <3>1, UnconcernedKeeps DEF ClaimsKept
  <2>2. ASSUME NEW d \in CaseId, d \notin Rows(casefiles) \/ ~ (casefiles[d].case_status >= DECISION),
               \A c \in CaseId : c # d => casefiles'[c] = casefiles[c]
        PROVE  Kept
    BY <1>1, <2>2, RowTypes
  <2>3. ASSUME SetupNext
        PROVE  Kept
    <3>1. ASSUME NEW o \in Account, NEW h \in Hash, NEW r \in Account \cup {Nil}, FileCase(o, h, r)
          PROVE  Kept
      <4>1. PICK d \in CaseId : /\ IsNextKey(d, Rows(casefiles))
                                /\ \A c \in CaseId : c # d => casefiles'[c] = casefiles[c]
        BY <1>1, <3>1 DEF FileCase, TypeOK
      <4>2. d \notin Rows(casefiles)
        BY <4>1 DEF IsNextKey, CaseId
      <4>3. QED
        BY <2>2, <4>1, <4>2
    <3>2. ASSUME NEW o \in Account, NEW d \in CaseId, NEW h \in Hash,
                 AddClaim(d, h, o) \/ RemoveClaim(d, h, o)
          PROVE  Kept
      BY <1>1, <2>2, <3>2 DEF AddClaim, RemoveClaim, OwnCaseInSetup, TypeOK
    <3>3. QED
      BY <2>1, <2>3, <3>1, <3>2 DEF SetupNext, Unconcerned
  <2>4. ASSUME NEW d \in CaseId, NEW h \in Hash, NEW o \in Account, NEW l \in Link,
               Respond(d, h, o, l)
        PROVE  Kept
    BY <1>1, <2>2, <2>4 DEF Respond, TypeOK
  <2>5. ASSUME NEW d \in CaseId, NEW a \in Arb, NEW h \in Hash,
               DismissClaim(d, a, h) \/ AcceptClaim(d, a, h)
        PROVE  Kept
    <3>1. ~ (casefiles[d].case_status >= DECISION)
      BY <1>1, <2>5, RowTypes, FieldTypes
         DEF DismissClaim, AcceptClaim, DecidingClaims, IsAssigned, CaseStatus, DISMISSED
    <3>2. \A c \in CaseId : c # d => casefiles'[c] = casefiles[c]
      BY <1>1, <2>5 DEF DismissClaim, AcceptClaim, TypeOK
    <3>3. QED
      BY <2>2, <3>1, <3>2
  <2>6. ASSUME NEW d \in CaseId, DeleteCase(d)
        PROVE  Kept
    BY <1>1, <2>6, RowTypes DEF DeleteCase, TypeOK
  <2>7. QED
    BY <1>1, <2>1, <2>3, <2>4, <2>5, <2>6 DEF Next, ProgressNext, Unconcerned
<1>2. QED
  BY <1>1, TypeCorrect, PTL DEF Spec, ClaimsSettled

-----------------------------------------------------------------------------
(* ArbCases implements CaseLifecycle: each action of the contract is one    *)
(* step of the life cycle, or a stutter.                                    *)

\* A row that is there is not Nil and shows its own fields.
LEMMA RowMapped ==
  ASSUME NEW row \in Casefile
  PROVE  /\ row # Nil
         /\ StageOf(row) = row.case_status
         /\ PanelOf(row) = row.arbitrators
         /\ RulingOf(row) = row.case_ruling
         /\ row.case_status \in CaseStatus
BY ConstantsAssumption DEF StageOf, PanelOf, RulingOf, Casefile

\* Writing a row that shows the same stage, panel and ruling is a stutter.
LEMMA SameView ==
  ASSUME casefiles \in [CaseId -> Casefile \cup {Nil}],
         NEW c \in CaseId, NEW row,
         casefiles' = [casefiles EXCEPT ![c] = row],
         StageOf(row) = StageOf(casefiles[c]),
         PanelOf(row) = PanelOf(casefiles[c]),
         RulingOf(row) = RulingOf(casefiles[c])
  PROVE  UNCHANGED Lifecycle!caseStateVars
BY DEF Lifecycle!caseStateVars

\* A change of the unread claims is not seen.
LEMMA UnreadIsHidden ==
  ASSUME TypeOK, NEW c \in CaseId, NEW unread \in Seq(Claim),
         casefiles[c] \in Casefile,
         casefiles' = [casefiles EXCEPT ![c] = [casefiles[c] EXCEPT !.unread_claims = unread]]
  PROVE  UNCHANGED Lifecycle!caseStateVars
<1> DEFINE row == [casefiles[c] EXCEPT !.unread_claims = unread]
<1>1. row \in Casefile
  BY CasefileFields
<1>2. /\ StageOf(row) = StageOf(casefiles[c])
      /\ PanelOf(row) = PanelOf(casefiles[c])
      /\ RulingOf(row) = RulingOf(casefiles[c])
  BY <1>1, RowMapped DEF Casefile
<1> HIDE DEF row
<1>3. casefiles' = [casefiles EXCEPT ![c] = row]
  BY DEF row
<1>4. QED
  BY <1>2, <1>3, SameView DEF TypeOK

\* Erasing a case file is seen as such.
LEMMA ErasedMapped ==
  ASSUME TypeOK, NEW c \in CaseId, c \in Rows(casefiles),
         casefiles' = [casefiles EXCEPT ![c] = Nil]
  PROVE  Lifecycle!Next
<1>1. casefiles[c] \in Casefile
  BY RowTypes
<1>2. StageOf(casefiles[c]) # Nil
  BY <1>1, RowMapped, ConstantsAssumption DEF CaseStatus, CASE_SETUP, DISMISSED
<1>3. StageOf(Nil) = Nil /\ PanelOf(Nil) = {} /\ RulingOf(Nil) = Nil
  BY DEF StageOf, PanelOf, RulingOf
<1>4. Lifecycle!Erase(c)
  BY <1>2, <1>3 DEF Lifecycle!Erase, TypeOK
<1>5. QED
  BY <1>4 DEF Lifecycle!Next

\* The setup of a case.
LEMMA SetupMapped ==
  ASSUME TypeOK, SetupNext
  PROVE  Lifecycle!Next \/ UNCHANGED Lifecycle!caseStateVars
<1> USE ConstantsAssumption
<1>1. ASSUME NEW o \in Account, NEW h \in Hash, NEW r \in Account \cup {Nil},
             FileCase(o, h, r)
      PROVE  Lifecycle!Next
  <2> DEFINE row == [case_status |-> CASE_SETUP,
                     claimant |-> o,
                     respondant |-> r,
                     arbitrators |-> {},
                     approvals |-> {},
                     unread_claims |-> <<NewClaim(h)>>,
                     accepted_claims |-> {},
                     case_ruling |-> Nil]
  <2>1. row \in Casefile
    BY NewClaimType DEF Casefile, CaseStatus, CASE_SETUP, DISMISSED
  <2>2. PICK c \in CaseId : /\ IsNextKey(c, Rows(casefiles))
                            /\ casefiles' = [casefiles EXCEPT ![c] = row]
    BY <1>1 DEF FileCase
  <2>3. casefiles[c] = Nil
    BY <2>2 DEF IsNextKey, Rows, TypeOK, CaseId
  <2>4. StageOf(row) = CASE_SETUP /\ PanelOf(row) = {} /\ RulingOf(row) = Nil
    BY <2>1, RowMapped
  <2>5. StageOf(casefiles[c]) = Nil /\ PanelOf(casefiles[c]) = {} /\ RulingOf(casefiles[c]) = Nil
    BY <2>3 DEF StageOf, PanelOf, RulingOf
  <2>6. Lifecycle!File(c)
    BY <2>2, <2>4, <2>5 DEF Lifecycle!File, Lifecycle!SETUP, CASE_SETUP, TypeOK
  <2>7. QED
    BY <2>6 DEF Lifecycle!Next
<1>2. ASSUME NEW o \in Account, NEW h \in Hash, NEW c \in CaseId, AddClaim(c, h, o)
      PROVE  UNCHANGED Lifecycle!caseStateVars
  <2>1. casefiles[c] \in Casefile
    BY <1>2, RowTypes DEF AddClaim, OwnCaseInSetup
  <2>2. Append(casefiles[c].unread_claims, NewClaim(h)) \in Seq(Claim)
    BY <2>1, NewClaimType, FieldTypes
  <2>3. casefiles' = [casefiles EXCEPT ![c] = [casefiles[c] EXCEPT
                        !.unread_claims = Append(casefiles[c].unread_claims, NewClaim(h))]]
    BY <1>2 DEF AddClaim
  <2>4. QED
    BY <2>1, <2>2, <2>3, UnreadIsHidden
<1>3. ASSUME NEW o \in Account, NEW h \in Hash, NEW c \in CaseId, RemoveClaim(c, h, o)
      PROVE  UNCHANGED Lifecycle!caseStateVars
  <2>1. casefiles[c] \in Casefile
    BY <1>3, RowTypes DEF RemoveClaim, OwnCaseInSetup
  <2>2. PICK i \in DOMAIN casefiles[c].unread_claims :
          casefiles' = [casefiles EXCEPT ![c] = [casefiles[c] EXCEPT
                          !.unread_claims = RemoveAt(casefiles[c].unread_claims, i)]]
    BY <1>3 DEF RemoveClaim
  <2>3. RemoveAt(casefiles[c].unread_claims, i) \in Seq(Claim)
    BY <2>1, RemoveAtElements, FieldTypes
  <2>4. QED
    BY <2>1, <2>2, <2>3, UnreadIsHidden
<1>4. ASSUME NEW o \in Account, NEW c \in CaseId, ShredCase(c, o)
      PROVE  Lifecycle!Next
  BY <1>4, ErasedMapped DEF ShredCase, OwnCaseInSetup
<1>5. ASSUME NEW o \in Account, NEW c \in CaseId, ReadyCase(c, o)
      PROVE  Lifecycle!Next
  <2>1. casefiles[c] \in Casefile /\ casefiles[c].case_status = CASE_SETUP
    BY <1>5, RowTypes DEF ReadyCase, OwnCaseInSetup
  <2> DEFINE row == [casefiles[c] EXCEPT !.case_status = AWAITING_ARBS]
  <2>2. AWAITING_ARBS \in CaseStatus
    BY DEF AWAITING_ARBS, CaseStatus, CASE_SETUP, DISMISSED
  <2>3. row \in Casefile /\ casefiles' = [casefiles EXCEPT ![c] = row]
    BY <1>5, <2>1, <2>2, CasefileFields DEF ReadyCase
  <2>4. /\ StageOf(row) = AWAITING_ARBS
        /\ PanelOf(row) = PanelOf(casefiles[c])
        /\ RulingOf(row) = RulingOf(casefiles[c])
        /\ StageOf(casefiles[c]) = CASE_SETUP
    BY <2>1, <2>3, RowMapped DEF Casefile
  <2> HIDE DEF row
  <2>5. Lifecycle!Queue(c)
    BY <2>3, <2>4
       DEF Lifecycle!Queue, Lifecycle!SETUP, Lifecycle!QUEUED, CASE_SETUP, AWAITING_ARBS, TypeOK
  <2>6. QED
    BY <2>5 DEF Lifecycle!Next
<1>6. QED
  BY <1>1, <1>2, <1>3, <1>4, <1>5 DEF SetupNext

\* The progression of a case, one action at a time.
LEMMA ProgressMapped ==
  ASSUME TypeOK, ProgressNext
  PROVE  Lifecycle!Next \/ UNCHANGED Lifecycle!caseStateVars
<1> USE ConstantsAssumption
<1> USE DEF InProgress, AWAITING_ARBS, CASE_INVESTIGATION, ENFORCEMENT, RESOLVED, DISMISSED,
            Lifecycle!QUEUED, Lifecycle!INVESTIGATING, Lifecycle!ENFORCING,
            Lifecycle!InProgress, Lifecycle!CLOSED_DISMISSED
<1>1. ASSUME NEW c \in CaseId, NEW h \in Hash, NEW o \in Account, NEW l \in Link,
             Respond(c, h, o, l)
      PROVE  UNCHANGED Lifecycle!caseStateVars
  <2>1. casefiles[c] \in Casefile
    BY <1>1, RowTypes DEF Respond
  <2>2. PICK i \in DOMAIN casefiles[c].unread_claims :
          casefiles' = [casefiles EXCEPT ![c].unread_claims[i].response_link = l]
    BY <1>1 DEF Respond
  <2> DEFINE answered == [casefiles[c].unread_claims EXCEPT ![i].response_link = l]
  <2>3. casefiles[c].unread_claims \in Seq(Claim)
    BY <2>1, FieldTypes
  <2>4. casefiles[c].unread_claims[i] \in Claim
    BY <2>3
  <2>5. [casefiles[c].unread_claims[i] EXCEPT !.response_link = l] \in Claim
    BY <2>4 DEF Claim
  <2>6. answered \in Seq(Claim)
    BY <2>3, <2>5
  <2>7. casefiles' = [casefiles EXCEPT ![c] =
                        [casefiles[c] EXCEPT !.unread_claims = answered]]
    BY <2>2
  <2>8. QED
    BY <2>1, <2>6, <2>7, UnreadIsHidden
<1>2. ASSUME NEW c \in CaseId, NEW a \in Arb, AssignToCase(c, a)
      PROVE  Lifecycle!Next
  <2>1. casefiles[c] \in Casefile /\ casefiles[c].case_status \in AWAITING_ARBS..ENFORCEMENT
    BY <1>2, RowTypes DEF AssignToCase
  <2> DEFINE row == casefiles'[c]
  <2>2. row = [case_status |-> StatusOnAssignment(casefiles[c].case_status),
               claimant |-> casefiles[c].claimant,
               respondant |-> casefiles[c].respondant,
               arbitrators |-> casefiles[c].arbitrators \cup {a},
               approvals |-> casefiles[c].approvals,
               unread_claims |-> casefiles[c].unread_claims,
               accepted_claims |-> casefiles[c].accepted_claims,
               case_ruling |-> casefiles[c].case_ruling]
    BY <1>2, <2>1 DEF AssignToCase, Casefile, TypeOK
  <2>3. row \in Casefile
    BY <2>1, <2>2 DEF Casefile, StatusOnAssignment, CaseStatus, CASE_SETUP
  <2>4. casefiles' = [casefiles EXCEPT ![c] = row]
    BY <1>2 DEF AssignToCase, TypeOK
  <2>5. /\ StageOf(row) = StatusOnAssignment(casefiles[c].case_status)
        /\ PanelOf(row) = PanelOf(casefiles[c]) \cup {a}
        /\ RulingOf(row) = RulingOf(casefiles[c])
        /\ StageOf(casefiles[c]) = casefiles[c].case_status
    BY <2>1, <2>2, <2>3, RowMapped
  <2> HIDE DEF row
  <2>6. StageOf(casefiles[c]) \in {1} \cup 2..6
    BY <2>1, <2>5
  <2>7. StageOf(row) = IF StageOf(casefiles[c]) = 1 THEN 2 ELSE StageOf(casefiles[c])
    BY <2>5 DEF StatusOnAssignment
  <2>8. casefiles \in [CaseId -> Casefile \cup {Nil}]
    BY DEF TypeOK
  <2>9. Lifecycle!Seat(c, a)
    BY <2>4, <2>5, <2>6, <2>7, <2>8 DEF Lifecycle!Seat, Lifecycle!INVESTIGATING
  <2>10. QED
    BY <2>9 DEF Lifecycle!Next
<1>3. ASSUME NEW c \in CaseId, NEW a \in Arb, NEW h \in Hash, DismissClaim(c, a, h)
      PROVE  UNCHANGED Lifecycle!caseStateVars
  <2>1. casefiles[c] \in Casefile
    BY <1>3, RowTypes DEF DismissClaim, IsAssigned
  <2>2. PICK i \in DOMAIN casefiles[c].unread_claims :
          casefiles' = [casefiles EXCEPT ![c] = [casefiles[c] EXCEPT
                          !.unread_claims = RemoveAt(casefiles[c].unread_claims, i)]]
    BY <1>3 DEF DismissClaim
  <2>3. RemoveAt(casefiles[c].unread_claims, i) \in Seq(Claim)
    BY <2>1, RemoveAtElements, FieldTypes
  <2>4. QED
    BY <2>1, <2>2, <2>3, UnreadIsHidden
<1>4. ASSUME NEW c \in CaseId, NEW a \in Arb, NEW h \in Hash, AcceptClaim(c, a, h)
      PROVE  UNCHANGED Lifecycle!caseStateVars
  <2>1. casefiles[c] \in Casefile
    BY <1>4, RowTypes DEF AcceptClaim, IsAssigned
  <2>2. PICK i \in DOMAIN casefiles[c].unread_claims, k \in ClaimId :
          casefiles' = [casefiles EXCEPT ![c].unread_claims = RemoveAt(@, i),
                                         ![c].accepted_claims = @ \cup {k}]
    BY <1>4 DEF AcceptClaim
  <2> DEFINE row == casefiles'[c]
  <2>3. row = [case_status |-> casefiles[c].case_status,
               claimant |-> casefiles[c].claimant,
               respondant |-> casefiles[c].respondant,
               arbitrators |-> casefiles[c].arbitrators,
               approvals |-> casefiles[c].approvals,
               unread_claims |-> RemoveAt(casefiles[c].unread_claims, i),
               accepted_claims |-> casefiles[c].accepted_claims \cup {k},
               case_ruling |-> casefiles[c].case_ruling]
    BY <2>1, <2>2 DEF Casefile, TypeOK
  <2>4. RemoveAt(casefiles[c].unread_claims, i) \in Seq(Claim)
    BY <2>1, RemoveAtElements, FieldTypes
  <2>5. row \in Casefile
    BY <2>1, <2>3, <2>4 DEF Casefile
  <2>6. casefiles' = [casefiles EXCEPT ![c] = row]
    BY <2>2 DEF TypeOK
  <2>7. /\ StageOf(row) = StageOf(casefiles[c])
        /\ PanelOf(row) = PanelOf(casefiles[c])
        /\ RulingOf(row) = RulingOf(casefiles[c])
    BY <2>1, <2>3, <2>5, RowMapped
  <2> HIDE DEF row
  <2>8. QED
    BY <2>6, <2>7, SameView DEF TypeOK
<1>5. ASSUME NEW c \in CaseId, NEW a \in Arb, NEW l \in Link, SetRuling(c, a, l)
      PROVE  Lifecycle!Next
  <2>1. /\ casefiles[c] \in Casefile
        /\ casefiles[c].case_status = ENFORCEMENT
        /\ casefiles[c].arbitrators # {}
    BY <1>5, RowTypes DEF SetRuling, IsAssigned
  <2> DEFINE row == [casefiles[c] EXCEPT !.case_ruling = l]
  <2>2. row \in Casefile /\ casefiles' = [casefiles EXCEPT ![c] = row]
    BY <1>5, <2>1, CasefileFields DEF SetRuling
  <2>3. /\ StageOf(row) = StageOf(casefiles[c])
        /\ PanelOf(row) = PanelOf(casefiles[c])
        /\ RulingOf(row) = l
        /\ StageOf(casefiles[c]) = ENFORCEMENT
        /\ PanelOf(casefiles[c]) # {}
    BY <2>1, <2>2, RowMapped DEF Casefile
  <2>4. Lifecycle!Rule(c, l)
    BY <2>2, <2>3 DEF Lifecycle!Rule, TypeOK
  <2>5. QED
    BY <2>4 DEF Lifecycle!Next
<1>6. ASSUME NEW c \in CaseId, NEW a \in Arb, NEW l \in Link, DismissCase(c, a, l)
      PROVE  Lifecycle!Next
  <2>1. /\ casefiles[c] \in Casefile
        /\ casefiles[c].case_status = CASE_INVESTIGATION
        /\ casefiles[c].arbitrators # {}
    BY <1>6, RowTypes DEF DismissCase, IsAssigned
  <2> DEFINE row == casefiles'[c]
  <2>2. row = [case_status |-> DISMISSED,
               claimant |-> casefiles[c].claimant,
               respondant |-> casefiles[c].respondant,
               arbitrators |-> casefiles[c].arbitrators,
               approvals |-> casefiles[c].approvals,
               unread_claims |-> casefiles[c].unread_claims,
               accepted_claims |-> casefiles[c].accepted_claims,
               case_ruling |-> l]
    BY <1>6, <2>1 DEF DismissCase, Casefile, TypeOK
  <2>3. row \in Casefile
    BY <2>1, <2>2 DEF Casefile, CaseStatus, CASE_SETUP
  <2>4. casefiles' = [casefiles EXCEPT ![c] = row]
    BY <1>6 DEF DismissCase, TypeOK
  <2>5. /\ StageOf(row) = DISMISSED
        /\ PanelOf(row) = PanelOf(casefiles[c])
        /\ RulingOf(row) = l
        /\ StageOf(casefiles[c]) = CASE_INVESTIGATION
        /\ PanelOf(casefiles[c]) # {}
    BY <2>1, <2>2, <2>3, RowMapped
  <2> HIDE DEF row
  <2>6. Lifecycle!Dismiss(c, l)
    BY <2>4, <2>5 DEF Lifecycle!Dismiss, TypeOK
  <2>7. QED
    BY <2>6 DEF Lifecycle!Next
<1>7. ASSUME NEW c \in CaseId, NEW a \in Arb, AdvanceCase(c, a)
      PROVE  Lifecycle!Next \/ UNCHANGED Lifecycle!caseStateVars
  <2>1. /\ casefiles[c] \in Casefile
        /\ casefiles[c].case_status \in CASE_INVESTIGATION..ENFORCEMENT
        /\ casefiles[c].arbitrators # {}
        /\ casefiles[c].case_status = ENFORCEMENT => casefiles[c].case_ruling # Nil
    BY <1>7, RowTypes
       DEF AdvanceCase, IsAssigned, RuledInTime, Casefile, CaseStatus, CASE_SETUP
  <2>2. CASE casefiles' = [casefiles EXCEPT ![c].approvals = @ \cup {a}]
    <3> DEFINE row == [casefiles[c] EXCEPT !.approvals = casefiles[c].approvals \cup {a}]
    <3>1. row \in Casefile
      BY <2>1, CasefileFields, FieldTypes
    <3>2. /\ StageOf(row) = StageOf(casefiles[c])
          /\ PanelOf(row) = PanelOf(casefiles[c])
          /\ RulingOf(row) = RulingOf(casefiles[c])
      BY <2>1, <3>1, RowMapped DEF Casefile
    <3>3. casefiles' = [casefiles EXCEPT ![c] = row]
      BY <2>2
    <3> HIDE DEF row
    <3>4. QED
      BY <3>2, <3>3, SameView DEF TypeOK
  <2>3. CASE casefiles' = [casefiles EXCEPT ![c].approvals = {}, ![c].case_status = @ + 1]
    <3> DEFINE row == casefiles'[c]
    <3>1. row = [case_status |-> casefiles[c].case_status + 1,
                 claimant |-> casefiles[c].claimant,
                 respondant |-> casefiles[c].respondant,
                 arbitrators |-> casefiles[c].arbitrators,
                 approvals |-> {},
                 unread_claims |-> casefiles[c].unread_claims,
                 accepted_claims |-> casefiles[c].accepted_claims,
                 case_ruling |-> casefiles[c].case_ruling]
      BY <2>1, <2>3 DEF Casefile, TypeOK
    <3>2. row \in Casefile
      BY <2>1, <3>1 DEF Casefile, CaseStatus, CASE_SETUP
    <3>3. casefiles' = [casefiles EXCEPT ![c] = row]
      BY <2>3 DEF TypeOK
    <3>4. /\ StageOf(row) = StageOf(casefiles[c]) + 1
          /\ PanelOf(row) = PanelOf(casefiles[c])
          /\ RulingOf(row) = RulingOf(casefiles[c])
          /\ StageOf(casefiles[c]) \in CASE_INVESTIGATION..ENFORCEMENT
          /\ PanelOf(casefiles[c]) # {}
          /\ StageOf(casefiles[c]) = ENFORCEMENT => RulingOf(casefiles[c]) # Nil
      BY <2>1, <3>1, <3>2, RowMapped
    <3> HIDE DEF row
    <3>5. Lifecycle!Advance(c)
      BY <3>3, <3>4 DEF Lifecycle!Advance, TypeOK
    <3>6. QED
      BY <3>5 DEF Lifecycle!Next
  <2>4. QED
    BY <1>7, <2>2, <2>3 DEF AdvanceCase
<1>8. ASSUME NEW c \in CaseId, NEW a \in Arb, Recuse(c, a)
      PROVE  Lifecycle!Next
  <2>1. /\ casefiles[c] \in Casefile
        /\ casefiles[c].case_status \in CASE_INVESTIGATION..ENFORCEMENT
    BY <1>8, RowTypes DEF Recuse, IsAssigned, Casefile, CaseStatus, CASE_SETUP
  <2> DEFINE row == [casefiles[c] EXCEPT !.arbitrators = casefiles[c].arbitrators \ {a}]
  <2>2. row \in Casefile /\ casefiles' = [casefiles EXCEPT ![c] = row]
    BY <1>8, <2>1, CasefileFields, FieldTypes DEF Recuse
  <2>3. /\ StageOf(row) = StageOf(casefiles[c])
        /\ PanelOf(row) = PanelOf(casefiles[c]) \ {a}
        /\ RulingOf(row) = RulingOf(casefiles[c])
        /\ StageOf(casefiles[c]) \in CASE_INVESTIGATION..ENFORCEMENT
    BY <2>1, <2>2, RowMapped DEF Casefile
  <2> HIDE DEF row
  <2>4. Lifecycle!Unseat(a, {c})
    BY <2>2, <2>3 DEF Lifecycle!Unseat, TypeOK
  <2>5. QED
    BY <2>4 DEF Lifecycle!Next
<1>9. ASSUME NEW c \in CaseId, DeleteCase(c)
      PROVE  Lifecycle!Next
  BY <1>9, ErasedMapped DEF DeleteCase
<1>10. QED
  BY <1>1, <1>2, <1>3, <1>4, <1>5, <1>6, <1>7, <1>8, <1>9 DEF ProgressNext

\* An arbitrator taken off a panel by dismissarb leaves stage and ruling alone,
\* and is taken off the panel only of a case in progress: an assigned case has
\* left the queue (ClosedRuled).
LEMMA WithoutArbMapped ==
  ASSUME TypeOK, Lifecycle!ClosedRuled, NEW a \in Arb, NEW c \in CaseId
  PROVE  /\ StageOf(WithoutArb(a, c)) = StageOf(casefiles[c])
         /\ RulingOf(WithoutArb(a, c)) = RulingOf(casefiles[c])
         /\ \/ PanelOf(WithoutArb(a, c)) = PanelOf(casefiles[c])
            \/ /\ StageOf(casefiles[c]) \in Lifecycle!InProgress
               /\ PanelOf(WithoutArb(a, c)) = PanelOf(casefiles[c]) \ {a}
<1>1. CASE WithoutArb(a, c) = casefiles[c]
  BY <1>1
<1>2. CASE /\ IsAssigned(a, c)
           /\ casefiles[c].case_status < RESOLVED
           /\ WithoutArb(a, c) = [casefiles[c] EXCEPT !.arbitrators = casefiles[c].arbitrators \ {a}]
  <2>1. casefiles[c] \in Casefile
    BY <1>2, RowTypes DEF IsAssigned
  <2> DEFINE row == [casefiles[c] EXCEPT !.arbitrators = casefiles[c].arbitrators \ {a}]
  <2>2. row \in Casefile
    BY <2>1, CasefileFields, FieldTypes
  <2>3. /\ StageOf(row) = StageOf(casefiles[c])
        /\ PanelOf(row) = PanelOf(casefiles[c]) \ {a}
        /\ RulingOf(row) = RulingOf(casefiles[c])
        /\ StageOf(casefiles[c]) = casefiles[c].case_status
        /\ PanelOf(casefiles[c]) = casefiles[c].arbitrators
    BY <2>1, <2>2, RowMapped DEF Casefile
  <2>4. casefiles[c].case_status \notin {CASE_SETUP, AWAITING_ARBS}
    BY <1>2, <2>3 DEF Lifecycle!ClosedRuled, IsAssigned, CASE_SETUP, AWAITING_ARBS,
                      Lifecycle!SETUP, Lifecycle!QUEUED
  <2>5. casefiles[c].case_status \in Lifecycle!InProgress
    BY <1>2, <2>1, <2>4, FieldTypes
       DEF CaseStatus, CASE_SETUP, AWAITING_ARBS, RESOLVED, DISMISSED,
           Lifecycle!InProgress, Lifecycle!INVESTIGATING, Lifecycle!ENFORCING
  <2> HIDE DEF row
  <2>6. WithoutArb(a, c) = row
    BY <1>2 DEF row
  <2>7. QED
    BY <2>3, <2>5, <2>6
<1>3. QED
  BY <1>1, <1>2 DEF WithoutArb

\* Of the rest, dismissarb alone touches case files: it unseats one arbitrator.
LEMMA OthersMapped ==
  ASSUME TypeOK, Lifecycle!ClosedRuled, MoneyNext \/ ArbNext \/ UNCHANGED vars
  PROVE  Lifecycle!Next \/ UNCHANGED Lifecycle!caseStateVars
<1>1. ASSUME casefiles' = casefiles
      PROVE  UNCHANGED Lifecycle!caseStateVars
  BY <1>1 DEF Lifecycle!caseStateVars
<1>2. ASSUME NEW a \in Arb, DismissArb(a, TRUE)
      PROVE  Lifecycle!Next
  <2> DEFINE left == {c \in CaseId : PanelOf(WithoutArb(a, c)) # PanelOf(casefiles[c])}
  <2>1. casefiles' = [c \in CaseId |-> WithoutArb(a, c)]
    BY <1>2 DEF DismissArb
  <2>2. \A c \in CaseId :
          /\ StageOf(casefiles'[c]) = StageOf(casefiles[c])
          /\ RulingOf(casefiles'[c]) = RulingOf(casefiles[c])
          /\ c \in left => /\ StageOf(casefiles[c]) \in Lifecycle!InProgress
                           /\ PanelOf(casefiles'[c]) = PanelOf(casefiles[c]) \ {a}
          /\ c \notin left => PanelOf(casefiles'[c]) = PanelOf(casefiles[c])
    BY <2>1, WithoutArbMapped
  <2>3. left \in SUBSET CaseId
    OBVIOUS
  <2> HIDE DEF left
  <2>4. Lifecycle!Unseat(a, left)
    BY <2>2, <2>3 DEF Lifecycle!Unseat
  <2>5. QED
    BY <2>3, <2>4 DEF Lifecycle!Next
<1>3. CASE MoneyNext \/ UNCHANGED vars
  BY <1>1, <1>3 DEF MoneyNext, Deposit, Withdraw, SetConfig, caseVars, vars
<1>4. CASE ArbNext
  <2>1. CASE \E a \in Arb : DismissArb(a, TRUE)
    BY <1>2, <2>1
  <2>2. CASE \E a \in Arb : DismissArb(a, FALSE)
    BY <1>1, <2>2 DEF DismissArb
  <2>3. CASE \E a \in Arb, s \in AVAILABLE..REMOVED : NewArbStatus(a, s)
    BY <1>1, <2>3 DEF NewArbStatus, caseVars
  <2>4. CASE \E won, lapsed \in SUBSET Arb : ElectionOutcome(won, lapsed)
    BY <1>1, <2>4 DEF ElectionOutcome, caseVars
  <2>5. QED
    BY <1>4, <2>1, <2>2, <2>3, <2>4 DEF ArbNext
<1>5. QED
  BY <1>3, <1>4

\* What the life cycle sees is of its types.
LEMMA ViewTypes ==
  ASSUME TypeOK
  PROVE  Lifecycle!StateOK
<1>1. ASSUME NEW c \in CaseId
      PROVE  /\ StageOf(casefiles[c]) \in CaseStatus \cup {Nil}
             /\ PanelOf(casefiles[c]) \in SUBSET Arb
             /\ RulingOf(casefiles[c]) \in Link \cup {Nil}
  <2>1. CASE casefiles[c] = Nil
    BY <2>1 DEF StageOf, PanelOf, RulingOf
  <2>2. CASE casefiles[c] \in Casefile
    BY <2>2, RowMapped, FieldTypes
  <2>3. QED
    BY <2>1, <2>2 DEF TypeOK
<1>2. QED
  BY <1>1 DEF Lifecycle!StateOK, Lifecycle!SETUP, Lifecycle!CLOSED_DISMISSED,
              CaseStatus, CASE_SETUP, DISMISSED

\* The life cycle keeps its own invariant: panels and rulings come after the
\* queue, and the stages that close a case are entered with a ruling.
LEMMA LifecycleKeepsRulings ==
  ASSUME Lifecycle!StateOK, Lifecycle!ClosedRuled,
         Lifecycle!Next \/ UNCHANGED Lifecycle!caseStateVars
  PROVE  Lifecycle!ClosedRuled'
<1> DEFINE stage == [c \in CaseId |-> StageOf(casefiles[c])]
           panel == [c \in CaseId |-> PanelOf(casefiles[c])]
           ruling == [c \in CaseId |-> RulingOf(casefiles[c])]
           Ruled(c) == /\ stage[c] \in {7, 8} => ruling[c] # Nil
                       /\ stage[c] \in {Nil, 0, 1} => panel[c] = {} /\ ruling[c] = Nil
<1> USE DEF Lifecycle!SETUP, Lifecycle!QUEUED, Lifecycle!INVESTIGATING, Lifecycle!ENFORCING,
            Lifecycle!CLOSED_RESOLVED, Lifecycle!CLOSED_DISMISSED, Lifecycle!InProgress
<1>1. Nil \notin Nat /\ Nil \notin Link
  BY ConstantsAssumption
<1>2. /\ stage \in [CaseId -> 0..8 \cup {Nil}]
      /\ panel \in [CaseId -> SUBSET Arb]
      /\ ruling \in [CaseId -> Link \cup {Nil}]
  BY DEF Lifecycle!StateOK
<1>3. \A c \in CaseId : Ruled(c)
  BY DEF Lifecycle!ClosedRuled
<1>4. ASSUME \A c \in CaseId : Ruled(c)'
      PROVE  Lifecycle!ClosedRuled'
  BY <1>4 DEF Lifecycle!ClosedRuled
<1>5. ASSUME NEW c \in CaseId, Lifecycle!File(c)
      PROVE  \A d \in CaseId : Ruled(d)'
  <2>1. stage[c] = Nil /\ stage' = [stage EXCEPT ![c] = 0] /\ panel' = panel /\ ruling' = ruling
    BY <1>5 DEF Lifecycle!File
  <2> HIDE DEF stage, panel, ruling
  <2>2. QED
    BY <1>1, <1>2, <1>3, <2>1
<1>6. ASSUME NEW c \in CaseId, Lifecycle!Queue(c)
      PROVE  \A d \in CaseId : Ruled(d)'
  <2>1. stage[c] = 0 /\ stage' = [stage EXCEPT ![c] = 1] /\ panel' = panel /\ ruling' = ruling
    BY <1>6 DEF Lifecycle!Queue
  <2> HIDE DEF stage, panel, ruling
  <2>2. QED
    BY <1>1, <1>2, <1>3, <2>1
<1>7. ASSUME NEW c \in CaseId, NEW a \in Arb, Lifecycle!Seat(c, a)
      PROVE  \A d \in CaseId : Ruled(d)'
  <2>1. /\ stage[c] \in 1..6
        /\ panel' = [panel EXCEPT ![c] = @ \cup {a}]
        /\ stage' = [stage EXCEPT ![c] = IF @ = 1 THEN 2 ELSE @]
        /\ ruling' = ruling
    BY <1>7 DEF Lifecycle!Seat
  <2> HIDE DEF stage, panel, ruling
  <2>2. QED
    BY <1>1, <1>2, <1>3, <2>1
<1>8. ASSUME NEW a \in Arb, NEW cases \in SUBSET CaseId, Lifecycle!Unseat(a, cases)
      PROVE  \A d \in CaseId : Ruled(d)'
  <2>1. /\ panel' = [c \in CaseId |-> IF c \in cases THEN panel[c] \ {a} ELSE panel[c]]
        /\ stage' = stage /\ ruling' = ruling
    BY <1>8 DEF Lifecycle!Unseat
  <2> HIDE DEF stage, panel, ruling
  <2>2. QED
    BY <1>1, <1>2, <1>3, <2>1
<1>9. ASSUME NEW c \in CaseId, Lifecycle!Advance(c)
      PROVE  \A d \in CaseId : Ruled(d)'
  <2>1. /\ stage[c] \in 2..6
        /\ stage[c] = 6 => ruling[c] # Nil
        /\ stage' = [stage EXCEPT ![c] = @ + 1]
        /\ panel' = panel /\ ruling' = ruling
    BY <1>9 DEF Lifecycle!Advance
  <2> HIDE DEF stage, panel, ruling
  <2>2. QED
    BY <1>1, <1>2, <1>3, <2>1
<1>10. ASSUME NEW c \in CaseId, NEW l \in Link, Lifecycle!Rule(c, l)
      PROVE  \A d \in CaseId : Ruled(d)'
  <2>1. /\ stage[c] = 6
        /\ ruling' = [ruling EXCEPT ![c] = l]
        /\ stage' = stage /\ panel' = panel
    BY <1>10 DEF Lifecycle!Rule
  <2> HIDE DEF stage, panel, ruling
  <2>2. QED
    BY <1>1, <1>2, <1>3, <2>1
<1>11. ASSUME NEW c \in CaseId, NEW l \in Link, Lifecycle!Dismiss(c, l)
      PROVE  \A d \in CaseId : Ruled(d)'
  <2>1. /\ stage' = [stage EXCEPT ![c] = 8]
        /\ ruling' = [ruling EXCEPT ![c] = l]
        /\ panel' = panel
    BY <1>11 DEF Lifecycle!Dismiss
  <2> HIDE DEF stage, panel, ruling
  <2>2. QED
    BY <1>1, <1>2, <1>3, <2>1
<1>12. ASSUME NEW c \in CaseId, Lifecycle!Erase(c)
      PROVE  \A d \in CaseId : Ruled(d)'
  <2>1. /\ stage' = [stage EXCEPT ![c] = Nil]
        /\ panel' = [panel EXCEPT ![c] = {}]
        /\ ruling' = [ruling EXCEPT ![c] = Nil]
    BY <1>12 DEF Lifecycle!Erase
  <2> HIDE DEF stage, panel, ruling
  <2>2. QED
    BY <1>1, <1>2, <1>3, <2>1
<1>13. ASSUME UNCHANGED Lifecycle!caseStateVars
       PROVE  \A d \in CaseId : Ruled(d)'
  <2>1. stage' = stage /\ panel' = panel /\ ruling' = ruling
    BY <1>13 DEF Lifecycle!caseStateVars
  <2> HIDE DEF stage, panel, ruling
  <2>2. QED
    BY <1>3, <2>1
<1>14. \A d \in CaseId : Ruled(d)'
  BY <1>5, <1>6, <1>7, <1>8, <1>9, <1>10, <1>11, <1>12, <1>13 DEF Lifecycle!Next
<1>15. QED
  BY <1>4, <1>14

\* One step of the contract is one step of the life cycle.
LEMMA StepMapped ==
  ASSUME TypeOK, Lifecycle!ClosedRuled, [Next]_vars
  PROVE  [Lifecycle!Next]_(Lifecycle!caseStateVars) /\ Lifecycle!ClosedRuled'
<1>1. Lifecycle!Next \/ UNCHANGED Lifecycle!caseStateVars
  BY SetupMapped, ProgressMapped, OthersMapped DEF Next
<1>2. QED
  BY <1>1, ViewTypes, LifecycleKeepsRulings

\* The life cycle starts without cases.
LEMMA InitMapped ==
  ASSUME Init
  PROVE  Lifecycle!Init /\ Lifecycle!ClosedRuled
<1>1. \A c \in CaseId : /\ StageOf(casefiles[c]) = Nil
                         /\ PanelOf(casefiles[c]) = {}
                         /\ RulingOf(casefiles[c]) = Nil
  BY DEF Init, StageOf, PanelOf, RulingOf
<1>2. Nil \notin {7, 8}
  BY ConstantsAssumption
<1>3. QED
  BY <1>1, <1>2 DEF Lifecycle!Init, Lifecycle!ClosedRuled,
                    Lifecycle!CLOSED_RESOLVED, Lifecycle!CLOSED_DISMISSED

\* A case is closed only with its ruling set.
THEOREM RuledWhenClosed == Spec => []ClosedCasesRuled
<1>1. Init => Lifecycle!ClosedRuled
  BY InitMapped
<1>2. TypeOK /\ Lifecycle!ClosedRuled /\ [Next]_vars => Lifecycle!ClosedRuled'
  BY StepMapped
<1>3. QED
  BY <1>1, <1>2, TypeCorrect, PTL DEF Spec, ClosedCasesRuled

\* The contract implements the life cycle of a case.
THEOREM Refinement == Spec => LifecycleSpec
<1>1. Init => Lifecycle!Init
  BY InitMapped
<1>2. TypeOK /\ Lifecycle!ClosedRuled /\ [Next]_vars
        => [Lifecycle!Next]_(Lifecycle!caseStateVars)
  BY StepMapped
<1>3. QED
  BY <1>1, <1>2, TypeCorrect, RuledWhenClosed, PTL
     DEF Spec, LifecycleSpec, Lifecycle!Spec, ClosedCasesRuled
=============================================================================
