------------------------------ MODULE MC_Tokens ------------------------------
(***************************************************************************)
(* Small instances of TrailTokens for TLC.  What happens to TLOS alone, to *)
(* the registries alone and to mirrored TLOS touches few tables: each      *)
(* behaviour is about one of the three, its focus.                         *)
(***************************************************************************)
EXTENDS TrailTokens

VARIABLE focus

CONSTANTS alice, bob

Permissive ==
  [is_destructible |-> TRUE, is_burnable |-> TRUE, is_seizable |-> TRUE,
   is_max_mutable |-> TRUE, is_transferable |-> FALSE, is_initialized |-> TRUE,
   lock_after_initialize |-> TRUE, counterbal_decay_rate |-> 1]

\* Transfers, and settings that stay open.
Transferable == [Permissive EXCEPT !.is_transferable = TRUE, !.lock_after_initialize = FALSE,
                                   !.is_initialized = FALSE]

SettingsUsed == {Permissive, Transferable}

GroupsUsed == {<<bob, alice>>, <<bob, bob>>}

StakedByAll == [a \in Account |-> 1]

TLOS_ONLY == "eosio.token"
REGISTRIES == "registries"
MIRROR == "mirrored TLOS"

\* TLOS start from nothing in the first; in the last the two accounts have one
\* each.
MCInit ==
  \/ Init /\ focus \in {TLOS_ONLY, REGISTRIES}
  \/ /\ focus = MIRROR
     /\ stat = [supply |-> 2, max_supply |-> 2, issuer |-> alice]
     /\ accounts = [a \in Account \cup {Self} |-> IF a \in {alice, bob} THEN 1 ELSE Nil]
     /\ TrailInit

\* TLOS: no registry and no counterbalance.  Registries: two, without VOTE,
\* transfers and time.  Mirrored TLOS: VOTE alone, transferable in time, that
\* stays registered and
\* whose maximum leaves nothing to issue.
MCNext ==
  /\ Next
  /\ focus = TLOS_ONLY => UNCHANGED <<now, registries, counterbals>>
  /\ focus = REGISTRIES =>
       /\ UNCHANGED <<now, tlosVars, counterbals>>
       /\ registries'[VOTE] = Nil
       /\ \A s \in Symbol : registries'[s] # Nil => /\ registries'[s].max_supply < 2
                                                   /\ ~registries'[s].settings.is_transferable
  /\ focus = MIRROR =>
       /\ UNCHANGED <<stat, airgrabs>>
       /\ \A s \in Symbol \ {VOTE} : registries'[s] = Nil
       /\ registries[VOTE] # Nil => registries'[VOTE] # Nil
       /\ registries'[VOTE] # Nil => /\ registries'[VOTE].max_supply = 0
                                     /\ registries'[VOTE].settings # Permissive
  /\ UNCHANGED focus

MCSpec == MCInit /\ [][MCNext]_<<vars, focus>>
=============================================================================
