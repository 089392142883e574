----------------------------- MODULE MC_ArbCases -----------------------------
(* Small instances of ArbCases for TLC. *)
EXTENDS ArbCases

\* Owners, arbitrators and claim documents are interchangeable.
Symmetries == Permutations(Account) \cup Permutations(Arb) \cup Permutations(Hash)
=============================================================================
