--------------------------- MODULE CaseLifecycle ---------------------------
(***************************************************************************)
(* What the arbitration contract promises about the life of a case, with   *)
(* the claims, votes and tables left out: the stage a case is in, the      *)
(* arbitrators on its panel and its ruling.  A case moves one stage at a   *)
(* time and never back; it leaves the queue only when it gets a panel,     *)
(* every later stage is entered by a panel member's action, a case closes  *)
(* only with a ruling, and a closed case stays as it is until it is        *)
(* deleted.  ArbCases is shown to implement this.                          *)
(***************************************************************************)
EXTENDS Integers

CONSTANTS CaseId, Arb, Link, Nil

VARIABLES stage,   \* Nil: there is no such case
          panel,
          ruling   \* Nil: not ruled yet

caseStateVars == <<stage, panel, ruling>>

SETUP == 0
QUEUED == 1
INVESTIGATING == 2
ENFORCING == 6
CLOSED_RESOLVED == 7
CLOSED_DISMISSED == 8

InProgress == INVESTIGATING..ENFORCING

StateOK == /\ stage \in [CaseId -> SETUP..CLOSED_DISMISSED \cup {Nil}]
           /\ panel \in [CaseId -> SUBSET Arb]
           /\ ruling \in [CaseId -> Link \cup {Nil}]

Init == /\ stage = [c \in CaseId |-> Nil]
        /\ panel = [c \in CaseId |-> {}]
        /\ ruling = [c \in CaseId |-> Nil]

File(c) == /\ stage[c] = Nil
           /\ stage' = [stage EXCEPT ![c] = SETUP]
           /\ UNCHANGED <<panel, ruling>>

Queue(c) == /\ stage[c] = SETUP
            /\ stage' = [stage EXCEPT ![c] = QUEUED]
            /\ UNCHANGED <<panel, ruling>>

Seat(c, a) == /\ stage[c] \in {QUEUED} \cup InProgress
              /\ panel' = [panel EXCEPT ![c] = @ \cup {a}]
              /\ stage' = [stage EXCEPT ![c] = IF @ = QUEUED THEN INVESTIGATING ELSE @]
              /\ UNCHANGED ruling

\* One arbitrator leaves the panels of some cases in progress.
Unseat(a, cases) == /\ \A c \in cases : stage[c] \in InProgress
                    /\ panel' = [c \in CaseId |-> IF c \in cases THEN panel[c] \ {a}
                                                  ELSE panel[c]]
                    /\ UNCHANGED <<stage, ruling>>

Advance(c) == /\ stage[c] \in InProgress
              /\ panel[c] # {}
              /\ stage[c] = ENFORCING => ruling[c] # Nil
              /\ stage' = [stage EXCEPT ![c] = @ + 1]
              /\ UNCHANGED <<panel, ruling>>

Rule(c, l) == /\ stage[c] = ENFORCING
              /\ panel[c] # {}
              /\ ruling' = [ruling EXCEPT ![c] = l]
              /\ UNCHANGED <<stage, panel>>

Dismiss(c, l) == /\ stage[c] = INVESTIGATING
                 /\ panel[c] # {}
                 /\ stage' = [stage EXCEPT ![c] = CLOSED_DISMISSED]
                 /\ ruling' = [ruling EXCEPT ![c] = l]
                 /\ UNCHANGED panel

Erase(c) == /\ stage[c] # Nil
            /\ stage' = [stage EXCEPT ![c] = Nil]
            /\ panel' = [panel EXCEPT ![c] = {}]
            /\ ruling' = [ruling EXCEPT ![c] = Nil]

Next == \/ \E c \in CaseId : File(c) \/ Queue(c) \/ Advance(c) \/ Erase(c)
        \/ \E c \in CaseId, a \in Arb : Seat(c, a)
        \/ \E c \in CaseId, l \in Link : Rule(c, l) \/ Dismiss(c, l)
        \/ \E a \in Arb, cases \in SUBSET CaseId : Unseat(a, cases)

Spec == Init /\ [][Next]_caseStateVars

\* A closed case has a ruling, and a case without a panel so far has none.
ClosedRuled ==
  \A c \in CaseId :
    /\ stage[c] \in {CLOSED_RESOLVED, CLOSED_DISMISSED} => ruling[c] # Nil
    /\ stage[c] \in {Nil, SETUP, QUEUED} => panel[c] = {} /\ ruling[c] = Nil
=============================================================================
