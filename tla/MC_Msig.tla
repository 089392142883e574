------------------------------- MODULE MC_Msig -------------------------------
(* A small instance of Msig for TLC. *)
EXTENDS Msig

CONSTANTS alice, bob, active, owner, backup, pay, grant

\* alice has two levels, bob one.
Actor == [l \in Level |-> IF l = backup THEN bob ELSE alice]

\* Paying takes both accounts, the grant alice with her owner level alone.
QuorumsOf == [t \in Trx |-> IF t = pay THEN {{active, backup}, {owner, backup}} ELSE {{owner}}]

Delays == [t \in Trx |-> IF t = pay THEN 1 ELSE 0]

\* All three levels, or those of alice.
Lists == {[l \in Level |-> 1], [l \in Level |-> IF l = backup THEN 0 ELSE 1]}
=============================================================================
