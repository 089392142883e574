------------------------------ MODULE ArbCases ------------------------------
(***************************************************************************)
(* The case side of contracts/eosio.arbitration: case files, the claims    *)
(* they hold, the arbitrators assigned to them and the filing deposits.    *)
(* Every action of the contract is one transaction: its guards are the     *)
(* contract's check calls, and a failed check reverts everything, so an    *)
(* action either happens whole or not at all.                              *)
(*                                                                         *)
(* A table is a function from its keys to rows, Nil meaning that no row    *)
(* has that key.  What an election does to the arbitrators table is the    *)
(* environment's action ElectionOutcome.                                   *)
(***************************************************************************)
EXTENDS Integers, SequencesExt

CONSTANTS Account,            \* claimants and respondants
          Arb,                \* accounts that can become arbitrators
          Hash,               \* ipfs links of claim documents
          Link,               \* ipfs links of responses and rulings
          Nil,                \* no row; the empty name; the empty string
          MaxCaseId,          \* bound: case ids are 0..MaxCaseId
          MaxClaimId,         \* bound: claim ids are 0..MaxClaimId
          MAX_UNREAD_CLAIMS,  \* 21 in the contract
          Fees,               \* values setconfig gives fee_structure[0]
          Deposits,           \* amounts of a transfer to the contract
          MaxTreasury         \* bound on the TLOS the contract holds

VARIABLES casefiles,     \* table of case files
          claims,        \* table of accepted claims
          arbitrators,   \* table of arbitrators
          accounts,      \* deposits, by owner
          fee,           \* config: fee_structure[0]
          treasury,      \* eosio.token's balance of the contract
          major          \* actors of the permission eosio.arb@major

vars == <<casefiles, claims, arbitrators, accounts, fee, treasury, major>>

CaseId == 0..MaxCaseId
ClaimId == 0..MaxClaimId

\* case_state
CASE_SETUP == 0
AWAITING_ARBS == 1
CASE_INVESTIGATION == 2
HEARING == 3
DELIBERATION == 4
DECISION == 5
ENFORCEMENT == 6
RESOLVED == 7
DISMISSED == 8
CaseStatus == CASE_SETUP..DISMISSED

\* arb_status
AVAILABLE == 0
UNAVAILABLE == 1
REMOVED == 2
SEAT_EXPIRED == 3
ArbStatus == AVAILABLE..SEAT_EXPIRED

Claim == [claim_summary : Hash, response_link : Link \cup {Nil}]

Casefile == [case_status : CaseStatus,
             claimant : Account,
             respondant : Account \cup {Nil},
             arbitrators : SUBSET Arb,
             approvals : SUBSET Arb,
             unread_claims : Seq(Claim),
             accepted_claims : SUBSET ClaimId,
             case_ruling : Link \cup {Nil}]

Arbitrator == [arb_status : ArbStatus, open_case_ids : SUBSET CaseId]

\* The constants a chain can have.  setconfig does not check the fees: with a
\* negative one readycase raises a deposit.
\* Names are 64-bit numbers, so there are finitely many accounts.
ASSUME ConstantsAssumption ==
  /\ IsFiniteSet(Account)
  /\ MaxCaseId \in Nat /\ MaxClaimId \in Nat /\ MAX_UNREAD_CLAIMS \in Nat
  /\ MaxTreasury \in Nat
  /\ Fees \subseteq Int /\ Fees # {}
  /\ Deposits \subseteq Nat \ {0}
  /\ Nil \notin Account \cup Hash \cup Link \cup Nat
  /\ Nil \notin Casefile /\ Nil \notin Claim /\ Nil \notin Arbitrator

Rows(table) == {k \in DOMAIN table : table[k] # Nil}

\* available_primary_key(): one past the largest key, zero in an empty table.
\* Once the last row is erased its key is given out again.
IsNextKey(k, keys) == /\ \A key \in keys : key < k
                      /\ k = 0 \/ k - 1 \in keys

TypeOK == /\ casefiles \in [CaseId -> Casefile \cup {Nil}]
          /\ claims \in [ClaimId -> Claim \cup {Nil}]
          /\ arbitrators \in [Arb -> Arbitrator \cup {Nil}]
          /\ accounts \in [Account -> Nat \cup {Nil}]
          /\ fee \in Fees
          /\ treasury \in Nat
          /\ major \subseteq Arb

Init == /\ casefiles = [c \in CaseId |-> Nil]
        /\ claims = [k \in ClaimId |-> Nil]
        /\ arbitrators = [a \in Arb |-> Nil]
        /\ accounts = [o \in Account |-> Nil]
        /\ fee \in Fees
        /\ treasury = 0
        /\ major = {}

caseVars == <<casefiles, claims>>
moneyVars == <<accounts, fee, treasury>>
seatVars == <<arbitrators, major>>

-----------------------------------------------------------------------------
(* Deposits *)

\* eosio.token::transfer to the contract, as notified to transfer_handler.
Deposit(from, amount) ==
  /\ treasury + amount <= MaxTreasury
  /\ treasury' = treasury + amount
  /\ accounts' = [accounts EXCEPT ![from] = IF @ = Nil THEN amount ELSE @ + amount]
  /\ UNCHANGED <<caseVars, seatVars, fee>>

\* The inline transfer fails, and the withdrawal with it, when eosio.token
\* has less than the deposit or the amount is not positive.
Withdraw(owner) ==
  /\ accounts[owner] # Nil
  /\ accounts[owner] > 0 /\ accounts[owner] <= treasury
  /\ treasury' = treasury - accounts[owner]
  /\ accounts' = [accounts EXCEPT ![owner] = Nil]
  /\ UNCHANGED <<caseVars, seatVars, fee>>

\* Mutant: an emptied row is kept.
SubBalanceKeepingRow(owner, value) ==
  /\ accounts[owner] # Nil
  /\ accounts[owner] >= value
  /\ accounts' = [accounts EXCEPT ![owner] = @ - value]

SubBalance(owner, value) ==
  /\ accounts[owner] # Nil
  /\ accounts[owner] >= value
  /\ accounts' = [accounts EXCEPT ![owner] = IF @ = value THEN Nil ELSE @ - value]

SetConfig ==
  /\ fee' \in Fees
  /\ UNCHANGED <<caseVars, seatVars, accounts, treasury>>

-----------------------------------------------------------------------------
(* Case setup *)

\* The position get_claim_at finds: the first claim with that summary.
IsClaimAt(i, hash, unread) ==
  /\ i \in DOMAIN unread
  /\ unread[i].claim_summary = hash
  /\ \A j \in 1..(i - 1) : unread[j].claim_summary # hash

\* Mutant: the test for duplicates is lost.
HasClaimUntested(hash, unread) == FALSE

HasClaim(hash, unread) == \E i \in DOMAIN unread : IsClaimAt(i, hash, unread)

NewClaim(hash) == [claim_summary |-> hash, response_link |-> Nil]

\* Without a respondant the contract still reads the empty optional, and
\* whatever name is found there is stored: respondant is any name.
FileCase(claimant, hash, respondant) ==
  /\ \E c \in CaseId :
       /\ IsNextKey(c, Rows(casefiles))
       /\ casefiles' = [casefiles EXCEPT ![c] =
            [case_status |-> CASE_SETUP,
             claimant |-> claimant,
             respondant |-> respondant,
             arbitrators |-> {},
             approvals |-> {},
             unread_claims |-> <<NewClaim(hash)>>,
             accepted_claims |-> {},
             case_ruling |-> Nil]]
  /\ UNCHANGED <<claims, moneyVars, seatVars>>

OwnCaseInSetup(c, claimant) ==
  /\ c \in Rows(casefiles)
  /\ casefiles[c].case_status = CASE_SETUP
  /\ casefiles[c].claimant = claimant

AddClaim(c, hash, claimant) ==
  /\ OwnCaseInSetup(c, claimant)
  /\ Len(casefiles[c].unread_claims) < MAX_UNREAD_CLAIMS
  /\ ~ HasClaim(hash, casefiles[c].unread_claims)
  /\ casefiles' = [casefiles EXCEPT ![c].unread_claims = Append(@, NewClaim(hash))]
  /\ UNCHANGED <<claims, moneyVars, seatVars>>

RemoveClaim(c, hash, claimant) ==
  /\ OwnCaseInSetup(c, claimant)
  /\ \E i \in DOMAIN casefiles[c].unread_claims :
       /\ IsClaimAt(i, hash, casefiles[c].unread_claims)
       /\ casefiles' = [casefiles EXCEPT ![c].unread_claims = RemoveAt(@, i)]
  /\ UNCHANGED <<claims, moneyVars, seatVars>>

ShredCase(c, claimant) ==
  /\ OwnCaseInSetup(c, claimant)
  /\ casefiles' = [casefiles EXCEPT ![c] = Nil]
  /\ UNCHANGED <<claims, moneyVars, seatVars>>

ReadyCase(c, claimant) ==
  /\ OwnCaseInSetup(c, claimant)
  /\ casefiles[c].unread_claims # <<>>
  /\ SubBalance(claimant, fee)
  /\ casefiles' = [casefiles EXCEPT ![c].case_status = AWAITING_ARBS]
  /\ UNCHANGED <<claims, fee, treasury, seatVars>>

-----------------------------------------------------------------------------
(* Case progression *)

Respond(c, hash, respondant, link) ==
  /\ c \in Rows(casefiles)
  /\ casefiles[c].respondant = respondant
  /\ casefiles[c].case_status = CASE_INVESTIGATION
  /\ \E i \in DOMAIN casefiles[c].unread_claims :
       /\ IsClaimAt(i, hash, casefiles[c].unread_claims)
       /\ casefiles' = [casefiles EXCEPT ![c].unread_claims[i].response_link = link]
  /\ UNCHANGED <<claims, moneyVars, seatVars>>

\* Mutant: the case goes back to investigation whenever somebody joins.
StatusRestarted(status) == CASE_INVESTIGATION

StatusOnAssignment(status) ==
  IF status = AWAITING_ARBS THEN CASE_INVESTIGATION ELSE status

AssignToCase(c, arb) ==
  /\ arb \in Rows(arbitrators)
  /\ arbitrators[arb].arb_status = AVAILABLE
  /\ c \in Rows(casefiles)
  /\ casefiles[c].case_status \in AWAITING_ARBS..ENFORCEMENT
  /\ arb \notin casefiles[c].arbitrators
  /\ arbitrators' = [arbitrators EXCEPT ![arb].open_case_ids = @ \cup {c}]
  /\ casefiles' = [casefiles EXCEPT
                     ![c].arbitrators = @ \cup {arb},
                     ![c].case_status = StatusOnAssignment(@)]
  /\ UNCHANGED <<claims, moneyVars, major>>

IsAssigned(arb, c) == c \in Rows(casefiles) /\ arb \in casefiles[c].arbitrators

\* Mutant: still open when joinders no longer are.
DecidingClaimsLate(c) ==
  casefiles[c].case_status > AWAITING_ARBS /\ casefiles[c].case_status <= DECISION

\* Claims can be decided while the case is in investigation, hearing or
\* deliberation.
DecidingClaims(c) ==
  casefiles[c].case_status > AWAITING_ARBS /\ casefiles[c].case_status < DECISION

DismissClaim(c, arb, hash) ==
  /\ IsAssigned(arb, c)
  /\ DecidingClaims(c)
  /\ \E i \in DOMAIN casefiles[c].unread_claims :
       /\ IsClaimAt(i, hash, casefiles[c].unread_claims)
       /\ casefiles' = [casefiles EXCEPT ![c].unread_claims = RemoveAt(@, i)]
  /\ UNCHANGED <<claims, moneyVars, seatVars>>

AcceptClaim(c, arb, hash) ==
  /\ IsAssigned(arb, c)
  /\ DecidingClaims(c)
  /\ \E i \in DOMAIN casefiles[c].unread_claims, k \in ClaimId :
       /\ IsClaimAt(i, hash, casefiles[c].unread_claims)
       /\ IsNextKey(k, Rows(claims))
       /\ casefiles' = [casefiles EXCEPT
                          ![c].unread_claims = RemoveAt(@, i),
                          ![c].accepted_claims = @ \cup {k}]
       /\ claims' = [claims EXCEPT ![k] = casefiles[c].unread_claims[i]]
  /\ UNCHANGED <<moneyVars, seatVars>>

SetRuling(c, arb, link) ==
  /\ IsAssigned(arb, c)
  /\ casefiles[c].case_status = ENFORCEMENT
  /\ casefiles' = [casefiles EXCEPT ![c].case_ruling = link]
  /\ UNCHANGED <<claims, moneyVars, seatVars>>

\* Mutant: the upper bound is lost.
InProgressForever(c) == casefiles[c].case_status > AWAITING_ARBS

InProgress(c) ==
  casefiles[c].case_status > AWAITING_ARBS /\ casefiles[c].case_status < RESOLVED

\* Mutant: the status is compared before it is advanced.
RuledInTimeOffByOne(c) ==
  casefiles[c].case_status = RESOLVED => casefiles[c].case_ruling # Nil

\* The step to RESOLVED needs the ruling.
RuledInTime(c) ==
  casefiles[c].case_status + 1 = RESOLVED => casefiles[c].case_ruling # Nil

\* Every assigned arbitrator approves the next stage once; the approval that
\* makes their number reach that of the arbitrators advances the case.
AdvanceCase(c, arb) ==
  /\ IsAssigned(arb, c)
  /\ InProgress(c)
  /\ RuledInTime(c)
  /\ arb \notin casefiles[c].approvals
  /\ casefiles' =
       IF Cardinality(casefiles[c].approvals) + 1 < Cardinality(casefiles[c].arbitrators)
       THEN [casefiles EXCEPT ![c].approvals = @ \cup {arb}]
       ELSE [casefiles EXCEPT ![c].approvals = {}, ![c].case_status = @ + 1]
  /\ UNCHANGED <<claims, moneyVars, seatVars>>

DismissCase(c, arb, link) ==
  /\ IsAssigned(arb, c)
  /\ casefiles[c].case_status = CASE_INVESTIGATION
  /\ casefiles' = [casefiles EXCEPT ![c].case_status = DISMISSED,
                                    ![c].case_ruling = link]
  /\ UNCHANGED <<claims, moneyVars, seatVars>>

\* The approval of the arbitrator who leaves stays, and so does the case in
\* the list of the arbitrator's open cases.
Recuse(c, arb) ==
  /\ IsAssigned(arb, c)
  /\ InProgress(c)
  /\ casefiles' = [casefiles EXCEPT ![c].arbitrators = @ \ {arb}]
  /\ UNCHANGED <<claims, moneyVars, seatVars>>

\* Mutant: the case's id is deleted in place of the claims'.
SweptByCaseId(c) == {{c}}

\* deletecase erases the row of the case, then reads its accepted claims
\* through the reference to the erased object: either they are still there,
\* and their rows go too, or the list reads empty, and the rows stay for ever.
SweptClaims(c) == {casefiles[c].accepted_claims, {}}

DeleteCase(c) ==
  /\ c \in Rows(casefiles)
  /\ casefiles' = [casefiles EXCEPT ![c] = Nil]
  /\ \E swept \in SweptClaims(c) :
       /\ swept \subseteq Rows(claims)
       /\ claims' = [k \in ClaimId |-> IF k \in swept THEN Nil ELSE claims[k]]
  /\ UNCHANGED <<moneyVars, seatVars>>

-----------------------------------------------------------------------------
(* Arbitrators *)

NewArbStatus(arb, status) ==
  /\ arb \in Rows(arbitrators)
  /\ arbitrators' = [arbitrators EXCEPT ![arb].arb_status = status]
  /\ UNCHANGED <<caseVars, moneyVars, major>>

\* get_arb_permissions tests status # SEAT_EXPIRED \/ status # REMOVED, which
\* is true of every row.
ArbPermissions(table) ==
  {a \in Rows(table) : \/ table[a].arb_status # SEAT_EXPIRED
                       \/ table[a].arb_status # REMOVED}

\* Mutant: only cases under investigation are looked at.
WithoutArbEarly(arb, c) ==
  IF /\ c \in arbitrators[arb].open_case_ids
     /\ IsAssigned(arb, c)
     /\ casefiles[c].case_status = CASE_INVESTIGATION
  THEN [casefiles[c] EXCEPT !.arbitrators = @ \ {arb}]
  ELSE casefiles[c]

\* The case files of dismissarb's loop over the open cases.
WithoutArb(arb, c) ==
  IF /\ c \in arbitrators[arb].open_case_ids
     /\ IsAssigned(arb, c)
     /\ casefiles[c].case_status < RESOLVED
  THEN [casefiles[c] EXCEPT !.arbitrators = @ \ {arb}]
  ELSE casefiles[c]

DismissArb(arb, remove_from_cases) ==
  /\ arb \in Rows(arbitrators)
  /\ arbitrators[arb].arb_status \notin {SEAT_EXPIRED, REMOVED}
  /\ arbitrators' = [arbitrators EXCEPT
       ![arb].arb_status = REMOVED,
       ![arb].open_case_ids = IF remove_from_cases THEN {} ELSE @]
  /\ major' = ArbPermissions(arbitrators')
  /\ casefiles' = IF remove_from_cases
                  THEN [c \in CaseId |-> WithoutArb(arb, c)]
                  ELSE casefiles
  /\ UNCHANGED <<claims, moneyVars>>

\* Mutant: a new term starts with no open cases.
SeatedRowAfresh(arb) == [arb_status |-> UNAVAILABLE, open_case_ids |-> {}]

\* add_arbitrator: a new row, or a new term for a former arbitrator, whose
\* open cases stay.
SeatedRow(arb) ==
  [arb_status |-> UNAVAILABLE,
   open_case_ids |-> IF arb \in Rows(arbitrators) THEN arbitrators[arb].open_case_ids ELSE {}]

\* What one transaction of the election side does to the table: winners are
\* seated, other terms have run out (endelection, initelection, regarb).
ElectionOutcome(won, lapsed) ==
  /\ won \cap lapsed = {} /\ won \cup lapsed # {}
  /\ lapsed \subseteq Rows(arbitrators)
  /\ arbitrators' = [a \in Arb |-> CASE a \in won -> SeatedRow(a)
                     [] a \in lapsed -> [arbitrators[a] EXCEPT !.arb_status = SEAT_EXPIRED]
                     [] OTHER -> arbitrators[a]]
  /\ \/ won = {} /\ UNCHANGED major
     \/ major' = ArbPermissions(arbitrators')
  /\ UNCHANGED <<caseVars, moneyVars>>

-----------------------------------------------------------------------------
MoneyNext == \/ \E o \in Account, n \in Deposits : Deposit(o, n)
             \/ \E o \in Account : Withdraw(o)
             \/ SetConfig

SetupNext ==
  \E o \in Account :
    \/ \E h \in Hash, r \in Account \cup {Nil} : FileCase(o, h, r)
    \/ \E c \in CaseId : \/ \E h \in Hash : AddClaim(c, h, o) \/ RemoveClaim(c, h, o)
                         \/ ShredCase(c, o)
                         \/ ReadyCase(c, o)

ProgressNext ==
  \E c \in CaseId :
    \/ \E h \in Hash, o \in Account, l \in Link : Respond(c, h, o, l)
    \/ \E a \in Arb : \/ AssignToCase(c, a)
                      \/ \E h \in Hash : DismissClaim(c, a, h) \/ AcceptClaim(c, a, h)
                      \/ \E l \in Link : SetRuling(c, a, l) \/ DismissCase(c, a, l)
                      \/ AdvanceCase(c, a)
                      \/ Recuse(c, a)
    \/ DeleteCase(c)

ArbNext == \/ \E a \in Arb, s \in AVAILABLE..REMOVED : NewArbStatus(a, s)
           \/ \E a \in Arb, remove \in BOOLEAN : DismissArb(a, remove)
           \/ \E won, lapsed \in SUBSET Arb : ElectionOutcome(won, lapsed)

Next == MoneyNext \/ SetupNext \/ ProgressNext \/ ArbNext

Spec == Init /\ [][Next]_vars
-----------------------------------------------------------------------------
(* Properties *)

\* What CaseLifecycle sees of the case files.
StageOf(row) == IF row = Nil THEN Nil ELSE row.case_status
PanelOf(row) == IF row = Nil THEN {} ELSE row.arbitrators
RulingOf(row) == IF row = Nil THEN Nil ELSE row.case_ruling

Lifecycle == INSTANCE CaseLifecycle WITH
  stage <- [c \in CaseId |-> StageOf(casefiles[c])],
  panel <- [c \in CaseId |-> PanelOf(casefiles[c])],
  ruling <- [c \in CaseId |-> RulingOf(casefiles[c])]

\* Every action of the contract is a step of the case life cycle or leaves
\* stages, panels and rulings alone (advancecase, dismisscase, setruling,
\* assigntocase, recuse, dismissarb, deletecase together).
LifecycleSpec == Lifecycle!Spec

\* A case is resolved or dismissed only with its ruling set, and has neither
\* panel nor ruling before arbitrators join it.
ClosedCasesRuled == Lifecycle!ClosedRuled

\* The claims table and the case files agree although claim ids are reused:
\* an accepted claim has a row, and no two cases share one, so deletecase
\* finds every claim it deletes and takes none from another case.
ClaimsOwnedOnce ==
  \A c \in Rows(casefiles) :
    /\ casefiles[c].accepted_claims \subseteq Rows(claims)
    /\ \A d \in Rows(casefiles) :
         c # d => casefiles[c].accepted_claims \cap casefiles[d].accepted_claims = {}

\* A claim document of a case is decided at most once: it is not listed twice
\* as unread, not unread and accepted, and not accepted twice (addclaim's test
\* for duplicates together with acceptclaim's move).
DecidedOnce ==
  \A c \in Rows(casefiles) :
    LET unread == casefiles[c].unread_claims
        accepted == casefiles[c].accepted_claims
    IN  /\ \A i, j \in DOMAIN unread :
             unread[i].claim_summary = unread[j].claim_summary => i = j
        /\ \A k \in accepted, i \in DOMAIN unread :
             claims[k].claim_summary # unread[i].claim_summary
        /\ \A k, m \in accepted :
             claims[k].claim_summary = claims[m].claim_summary => k = m

\* Once a case has reached DECISION its claims are settled: none is added,
\* decided, answered or removed until the whole case is deleted.
ClaimsSettled ==
  [][\A c \in Rows(casefiles) :
       casefiles[c].case_status >= DECISION /\ casefiles'[c] # Nil =>
         /\ casefiles'[c].unread_claims = casefiles[c].unread_claims
         /\ casefiles'[c].accepted_claims = casefiles[c].accepted_claims]_vars

\* An arbitrator on the panel of an unresolved case has the case among its
\* open cases, through recusals, re-elections and reused case ids: dismissarb
\* relies on it to find the cases.
OpenCasesKnown ==
  \A c \in Rows(casefiles) : \A a \in casefiles[c].arbitrators :
    casefiles[c].case_status < RESOLVED =>
      a \in Rows(arbitrators) /\ c \in arbitrators[a].open_case_ids

\* dismissarb(arb, true) takes the arbitrator off every unresolved case.
DismissalIsComplete ==
  [][\A a \in Arb : DismissArb(a, TRUE) =>
       \A c \in CaseId : casefiles'[c] # Nil /\ casefiles'[c].case_status < RESOLVED =>
         a \notin casefiles'[c].arbitrators]_vars

\* Every depositor can withdraw at any time: the contract holds the sum of the
\* deposits, whatever fees it took (none of them negative), and no row is left with nothing in it.
DepositsCovered ==
  /\ \A o \in Rows(accounts) : accounts[o] > 0
  /\ SumFunctionOnSet(accounts, Rows(accounts)) <= treasury

\* advancecase lets only an assigned arbitrator approve ("actor is not
\* assigned to this case_id"): the approvals counted are of the panel.
ApprovalsFromPanel ==
  \A c \in Rows(casefiles) : casefiles[c].approvals \subseteq casefiles[c].arbitrators
=============================================================================
