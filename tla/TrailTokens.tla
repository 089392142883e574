----------------------------- MODULE TrailTokens -----------------------------
(***************************************************************************)
(* Token registries of contracts/eosio.trail: supply, balances, airgrabs   *)
(* and counterbalances, composed with eosio.token (Token), whose TLOS are  *)
(* mirrored into VOTE tokens and whose transfers the contract is notified  *)
(* of when it takes part in them.  Amounts are in whole tokens, now in     *)
(* seconds; the contract reads the clock afresh in every action.           *)
(***************************************************************************)
EXTENDS Integers, SequencesExt

CONSTANTS Account,       \* holders
          Publisher,     \* those of them that register tokens
          Self,          \* the contract's own account in eosio.token
          Symbol, VOTE,  \* symbols of registries; the one mirrorcast credits
          Quantity,      \* amounts given to the actions
          MaxSupplies,   \* arguments of regtoken
          Settings,      \* arguments of initsettings
          Groups,        \* arguments of seizebygroup
          DECAY_RATE,    \* seconds to decay by 1 VOTE
          Staked,        \* Account -> TLOS delegated to itself, constant here
          MaxRaised,     \* bound on what raisemax raises a maximum to
          MaxStranded,   \* bound on the tokens a new registry finds
          MaxCb,         \* bound on counterbalances
          MaxVotes,      \* bound on the supply of VOTE
          COUNTER_RANGE, \* values of total_voters' uint32_t, fewer in the runs
          MaxTime,       \* bound on the clock
          Nil            \* no row

VARIABLES now,
          registries,    \* symbol -> registry
          balances,      \* symbol -> owner -> tokens
          airgrabs,      \* publisher -> recipient -> tokens
          counterbals,   \* symbol -> owner -> counter_balance
          stat, accounts, \* eosio.token: TLOS
          stranded       \* history: tokens in circulation when a registry is made

vars == <<now, registries, balances, airgrabs, counterbals, stat, accounts, stranded>>
tlosVars == <<stat, accounts>>

TLOS == INSTANCE Token WITH Account <- Account \cup {Self}

Time == 0..MaxTime

\* A row's symbol need not be that of its scope.
Tokens == [amount : Nat, symbol : Symbol]

token_settings == [is_destructible : BOOLEAN, is_burnable : BOOLEAN, is_seizable : BOOLEAN,
                   is_max_mutable : BOOLEAN, is_transferable : BOOLEAN, is_initialized : BOOLEAN,
                   lock_after_initialize : BOOLEAN, counterbal_decay_rate : Nat]

registry == [max_supply : Int, supply : Int, total_voters : 0..(COUNTER_RANGE - 1),
             publisher : Publisher, settings : token_settings]

\* persistent_cb is zero in every row.
counter_balance == [decayable_cb : Nat, last_decay : Time]

\* Names and symbol codes are 64-bit numbers, so there are finitely many.
ASSUME ConstantsAssumption ==
  /\ IsFiniteSet(Account) /\ IsFiniteSet(Symbol)
  /\ Self \notin Account /\ Publisher \subseteq Account /\ VOTE \in Symbol
  /\ Quantity \subseteq Int /\ MaxSupplies \subseteq Nat
  /\ Settings \subseteq token_settings /\ Groups \subseteq Seq(Account)
  /\ DECAY_RATE \in Nat \ {0} /\ COUNTER_RANGE \in Nat \ {0} /\ MaxTime \in Nat /\ MaxRaised \in Nat /\ MaxStranded \in Nat
  /\ MaxCb \in Nat /\ MaxVotes \in Nat
  /\ Staked \in [Account -> Nat]
  /\ Nil \notin registry /\ Nil \notin Tokens /\ Nil \notin counter_balance
  /\ Nil \notin TLOS!currency_stats /\ Nil \notin Int

TypeOK == /\ now \in Time
          /\ registries \in [Symbol -> registry \cup {Nil}]
          /\ balances \in [Symbol -> [Account -> Tokens \cup {Nil}]]
          /\ airgrabs \in [Publisher -> [Account -> Tokens \cup {Nil}]]
          /\ counterbals \in [Symbol -> [Account \cup {Self} -> counter_balance \cup {Nil}]]
          /\ stranded \in [Symbol -> Nat]
          /\ TLOS!TypeOK

TrailInit == /\ now = 0
             /\ registries = [s \in Symbol |-> Nil]
             /\ balances = [s \in Symbol |-> [a \in Account |-> Nil]]
             /\ airgrabs = [p \in Publisher |-> [a \in Account |-> Nil]]
             /\ counterbals = [s \in Symbol |-> [a \in Account \cup {Self} |-> Nil]]
             /\ stranded = [s \in Symbol |-> 0]

Init == TrailInit /\ TLOS!Init

\* What a row has of a symbol.
AmountOf(row, s) == IF row # Nil /\ row.symbol = s THEN row.amount ELSE 0

\* What a table of rows has of a symbol.
TableHolds(table, keys, s) ==
  SumFunctionOnSet([k \in keys \X Account |-> AmountOf(table[k[1]][k[2]], s)], keys \X Account)

\* Tokens of a symbol that somebody holds or can claim, wherever they are kept.
Held(s) == TableHolds(balances, Symbol, s) + TableHolds(airgrabs, Publisher, s)

Tick == /\ now < MaxTime
        /\ now' = now + 1
        /\ UNCHANGED <<registries, balances, airgrabs, counterbals, tlosVars, stranded>>

-----------------------------------------------------------------------------
(* Registries *)

DefaultSettings ==
  [is_destructible |-> FALSE, is_burnable |-> FALSE, is_seizable |-> FALSE,
   is_max_mutable |-> FALSE, is_transferable |-> FALSE, is_initialized |-> FALSE,
   lock_after_initialize |-> TRUE, counterbal_decay_rate |-> 300]

RegToken(s, max_supply, publisher) ==
  /\ registries[s] = Nil
  /\ Held(s) <= MaxStranded
  /\ registries' = [registries EXCEPT ![s] =
       [max_supply |-> max_supply, supply |-> 0, total_voters |-> 0,
        publisher |-> publisher, settings |-> DefaultSettings]]
  /\ stranded' = [stranded EXCEPT ![s] = Held(s)]
  /\ UNCHANGED <<now, balances, airgrabs, counterbals, tlosVars>>

Published(s, publisher) == registries[s] # Nil /\ registries[s].publisher = publisher

InitSettings(publisher, s, new_settings) ==
  /\ Published(s, publisher)
  /\ new_settings.counterbal_decay_rate > 0
  /\ LET settings == registries[s].settings
     IN \/ /\ settings.is_initialized
           /\ ~settings.lock_after_initialize
           /\ registries' = [registries EXCEPT ![s].settings = new_settings]
        \/ /\ ~settings.is_initialized
           /\ registries' = [registries EXCEPT ![s].settings =
                               [new_settings EXCEPT !.is_initialized = TRUE]]
  /\ UNCHANGED <<now, balances, airgrabs, counterbals, tlosVars, stranded>>

\* By any account: the publisher given is not compared with the registry's.
UnregToken(s) ==
  /\ registries[s] # Nil
  /\ registries[s].settings.is_destructible
  /\ registries' = [registries EXCEPT ![s] = Nil]
  /\ UNCHANGED <<now, balances, airgrabs, counterbals, tlosVars, stranded>>

RaiseMax(publisher, s, amount) ==
  /\ amount > 0
  /\ Published(s, publisher)
  /\ registries[s].settings.is_max_mutable
  /\ registries[s].max_supply + amount <= MaxRaised
  /\ registries' = [registries EXCEPT ![s].max_supply = @ + amount]
  /\ UNCHANGED <<now, balances, airgrabs, counterbals, tlosVars, stranded>>

CanLower(reg, amount) ==
  reg.supply <= reg.max_supply - amount /\ reg.max_supply - amount >= 0

LowerMax(publisher, s, amount) ==
  /\ amount > 0
  /\ Published(s, publisher)
  /\ registries[s].settings.is_max_mutable
  /\ CanLower(registries[s], amount)
  /\ registries' = [registries EXCEPT ![s].max_supply = @ - amount]
  /\ UNCHANGED <<now, balances, airgrabs, counterbals, tlosVars, stranded>>

-----------------------------------------------------------------------------
(* Issuing, claiming, burning and seizing.  Assets of different symbols     *)
(* cannot be added or compared: the transaction fails.                      *)

CanTake(row, symbol) == row # Nil => row.symbol = symbol

Credit(row, tokens) == IF row = Nil THEN tokens ELSE [row EXCEPT !.amount = @ + tokens.amount]

Holds(row, s, amount) == row # Nil /\ row.symbol = s /\ row.amount >= amount

IssueToken(publisher, recipient, s, amount, airgrab) ==
  /\ amount > 0
  /\ Published(s, publisher)
  /\ registries[s].supply + amount <= registries[s].max_supply
  /\ registries' = [registries EXCEPT ![s].supply = @ + amount]
  /\ LET tokens == [amount |-> amount, symbol |-> s]
     IN \/ /\ airgrab
           /\ CanTake(airgrabs[publisher][recipient], s)
           /\ airgrabs' = [airgrabs EXCEPT ![publisher][recipient] = Credit(@, tokens)]
           /\ UNCHANGED balances
        \/ /\ ~airgrab
           /\ CanTake(balances[s][recipient], s)
           /\ balances' = [balances EXCEPT ![s][recipient] = Credit(@, tokens)]
           /\ UNCHANGED airgrabs
  /\ UNCHANGED <<now, counterbals, tlosVars, stranded>>

\* Airgrabs are kept by publisher: the one claimed may be of another symbol.
ClaimAirgrab(claimant, s) ==
  /\ registries[s] # Nil
  /\ LET publisher == registries[s].publisher
         grab == airgrabs[publisher][claimant]
     IN /\ grab # Nil
        /\ CanTake(balances[s][claimant], grab.symbol)
        /\ balances' = [balances EXCEPT ![s][claimant] = Credit(@, grab)]
        /\ airgrabs' = [airgrabs EXCEPT ![publisher][claimant] = Nil]
  /\ UNCHANGED <<now, registries, counterbals, tlosVars, stranded>>

BurnToken(owner, s, amount) ==
  /\ amount > 0
  /\ registries[s] # Nil
  /\ registries[s].settings.is_burnable
  /\ Holds(balances[s][owner], s, amount)
  /\ registries' = [registries EXCEPT ![s].supply = @ - amount]
  /\ balances' = [balances EXCEPT ![s][owner].amount = @ - amount]
  /\ UNCHANGED <<now, airgrabs, counterbals, tlosVars, stranded>>

Seizable(publisher, s, amount) ==
  /\ amount > 0
  /\ Published(s, publisher)
  /\ registries[s].settings.is_seizable

\* What the balances in the token are after one seizure, Nil when it fails.
Seized(table, publisher, owner, s, amount) ==
  IF Holds(table[owner], s, amount) /\ Holds(table[publisher], s, 0)
  THEN LET lowered == [table EXCEPT ![owner].amount = @ - amount]
       IN [lowered EXCEPT ![publisher].amount = @ + amount]
  ELSE Nil

SeizeToken(publisher, owner, s, amount) ==
  /\ publisher # owner
  /\ Seizable(publisher, s, amount)
  /\ LET after == Seized(balances[s], publisher, owner, s, amount)
     IN after # Nil /\ balances' = [balances EXCEPT ![s] = after]
  /\ UNCHANGED <<now, registries, airgrabs, counterbals, tlosVars, stranded>>

\* The seizures from a group, one after the other; the publisher and an owner
\* listed twice are allowed.
SeizedInTurn(table, publisher, group, s, amount) ==
  LET Step(after, owner) ==
        IF after = Nil THEN Nil ELSE Seized(after, publisher, owner, s, amount)
  IN FoldLeft(Step, table, group)

SeizeByGroup(publisher, group, s, amount) ==
  /\ Seizable(publisher, s, amount)
  /\ LET after == SeizedInTurn(balances[s], publisher, group, s, amount)
     IN after # Nil /\ balances' = [balances EXCEPT ![s] = after]
  /\ UNCHANGED <<now, registries, airgrabs, counterbals, tlosVars, stranded>>

\* What is left of an airgrab, none when it is nothing.
LeftOf(row, amount) == IF row.amount = amount THEN Nil ELSE [row EXCEPT !.amount = @ - amount]

SeizeAirgrab(publisher, recipient, s, amount) ==
  /\ Seizable(publisher, s, amount)
  /\ Holds(airgrabs[publisher][recipient], s, amount)
  /\ Holds(balances[s][publisher], s, 0)
  /\ airgrabs' = [airgrabs EXCEPT ![publisher][recipient] = LeftOf(@, amount)]
  /\ balances' = [balances EXCEPT ![s][publisher].amount = @ + amount]
  /\ UNCHANGED <<now, registries, counterbals, tlosVars, stranded>>

-----------------------------------------------------------------------------
(* Counterbalances and transfers *)

AtLeastZero(n) == IF n < 0 THEN 0 ELSE n

\* Whole tokens decayed since last_decay, which is never moved forward.
Decay(row, rate) == IF row = Nil THEN 0 ELSE (now - row.last_decay) \div rate

Decayed(row, decay) == AtLeastZero(row.decayable_cb - decay)

SenderCb(row, decay, amount) ==
  IF row = Nil THEN [decayable_cb |-> 0, last_decay |-> now]
  ELSE [row EXCEPT !.decayable_cb = AtLeastZero(@ - decay - amount)]

RecipientCb(row, decay, amount) ==
  IF row = Nil THEN [decayable_cb |-> amount, last_decay |-> now]
  ELSE [row EXCEPT !.decayable_cb = Decayed(row, decay) + amount]

Transfer(sender, recipient, s, amount) ==
  /\ sender # recipient
  /\ amount > 0
  /\ registries[s] # Nil
  /\ registries[s].settings.is_transferable
  /\ Holds(balances[s][sender], s, amount)
  /\ Holds(balances[s][recipient], s, 0)
  /\ balances' = [balances EXCEPT ![s][sender].amount = @ - amount,
                                  ![s][recipient].amount = @ + amount]
  /\ LET rate == registries[s].settings.counterbal_decay_rate
     IN counterbals' = [counterbals EXCEPT
          ![s][sender] = SenderCb(@, Decay(@, rate), amount),
          ![s][recipient] = RecipientCb(@, Decay(@, rate), amount)]
  /\ counterbals'[s][recipient].decayable_cb <= MaxCb
  /\ UNCHANGED <<now, registries, airgrabs, tlosVars, stranded>>

-----------------------------------------------------------------------------
(* Voters *)

RegVoter(voter, s) ==
  /\ registries[s] # Nil
  /\ balances[s][voter] = Nil
  /\ balances' = [balances EXCEPT ![s][voter] = [amount |-> 0, symbol |-> s]]
  /\ registries' = [registries EXCEPT ![s].total_voters = (@ + 1) % COUNTER_RANGE]
  /\ UNCHANGED <<now, airgrabs, counterbals, tlosVars, stranded>>

\* total_voters is a uint32_t that issued and claimed balances never raised.
UnregVoter(voter, s) ==
  /\ registries[s] # Nil
  /\ registries[s].settings.is_burnable
  /\ Holds(balances[s][voter], s, 0)
  /\ registries' = [registries EXCEPT ![s].supply = @ - balances[s][voter].amount,
                                      ![s].total_voters = (@ - 1) % COUNTER_RANGE]
  /\ balances' = [balances EXCEPT ![s][voter] = Nil]
  /\ UNCHANGED <<now, airgrabs, counterbals, tlosVars, stranded>>

get_liquid_tlos(owner) == IF accounts[owner] = Nil THEN 0 ELSE accounts[owner]

\* Mutant: the new votes are added, the old balance stays in the supply.
CastSupplyAdded(supply, old, new) == supply + new

CastSupply(supply, old, new) == supply - old + new

MirrorCast(voter) ==
  LET max_votes == get_liquid_tlos(voter) + Staked[voter]
      cb == counterbals[VOTE][voter]
      new_cb == IF cb = Nil THEN 0 ELSE Decayed(cb, Decay(cb, DECAY_RATE))
      new_votes == AtLeastZero(max_votes - new_cb)
  IN /\ max_votes > 0
     /\ registries[VOTE] # Nil
     /\ Holds(balances[VOTE][voter], VOTE, 0)
     /\ balances' = [balances EXCEPT ![VOTE][voter].amount = new_votes]
     /\ registries' = [registries EXCEPT ![VOTE].supply =
                         CastSupply(@, balances[VOTE][voter].amount, new_votes)]
     /\ registries'[VOTE].supply <= MaxVotes
     /\ counterbals' = [counterbals EXCEPT ![VOTE][voter] =
                          IF @ = Nil THEN Nil ELSE [@ EXCEPT !.decayable_cb = new_cb]]
     /\ UNCHANGED <<now, airgrabs, tlosVars, stranded>>

\* transfer_handler: eosio.token notifies the two parties of a transfer only.
NotifiedOfTransfer(from, to, amount) ==
  \/ /\ Self \in {from, to}
     /\ counterbals' = [counterbals EXCEPT
          ![VOTE][from] = SenderCb(@, 0, amount),
          ![VOTE][to] = RecipientCb(@, 0, amount)]
     /\ counterbals'[VOTE][to].decayable_cb <= MaxCb
  \/ /\ Self \notin {from, to}
     /\ UNCHANGED counterbals

TlosTransfer(from, to, amount) ==
  /\ TLOS!Transfer(from, to, amount)
  /\ NotifiedOfTransfer(from, to, amount)
  /\ UNCHANGED <<now, registries, balances, airgrabs, stranded>>

TlosOther ==
  /\ \/ \E a \in Account \cup {Self}, m \in MaxSupplies : TLOS!Create(a, m)
     \/ \E a \in Account \cup {Self}, q \in Quantity : TLOS!Issue(a, q)
     \/ \E q \in Quantity : TLOS!Retire(q)
     \/ \E a \in Account \cup {Self} : TLOS!Open(a) \/ TLOS!Close(a)
  /\ UNCHANGED <<now, registries, balances, airgrabs, counterbals, stranded>>

-----------------------------------------------------------------------------

RegistryNext ==
  \E s \in Symbol :
    \/ \E publisher \in Publisher :
         \/ \E max_supply \in MaxSupplies : RegToken(s, max_supply, publisher)
         \/ \E settings \in Settings : InitSettings(publisher, s, settings)
         \/ \E q \in Quantity : RaiseMax(publisher, s, q) \/ LowerMax(publisher, s, q)
    \/ UnregToken(s)

HolderNext ==
  \E s \in Symbol :
    \/ \E publisher \in Publisher, a \in Account, q \in Quantity :
         \/ \E airgrab \in BOOLEAN : IssueToken(publisher, a, s, q, airgrab)
         \/ SeizeToken(publisher, a, s, q)
         \/ SeizeAirgrab(publisher, a, s, q)
         \/ \E group \in Groups : SeizeByGroup(publisher, group, s, q)
    \/ \E a, b \in Account, q \in Quantity : Transfer(a, b, s, q)
    \/ \E a \in Account, q \in Quantity : BurnToken(a, s, q)
    \/ \E a \in Account : ClaimAirgrab(a, s) \/ RegVoter(a, s) \/ UnregVoter(a, s)

Next == \/ Tick
        \/ RegistryNext
        \/ HolderNext
        \/ \E voter \in Account : MirrorCast(voter)
        \/ \E from, to \in Account \cup {Self}, q \in Quantity : TlosTransfer(from, to, q)
        \/ TlosOther

Spec == Init /\ [][Next]_vars

-----------------------------------------------------------------------------
(* Properties *)

\* The supply of a registry is what is held and waits to be claimed, in any
\* table, less what was there when the registry was made: for a symbol used
\* before, whose tokens unregtoken leaves behind.  Every action that moves
\* tokens keeps it, claims through another registry of the publisher and casts
\* that replace a balance included; and no order of issuing, burning, raising and
\* lowering puts it above the maximum, but for VOTE, where mirrorcast asks for none.
SupplyIsHeld ==
  \A s \in Symbol : registries[s] # Nil =>
    /\ registries[s].supply = Held(s) - stranded[s]
    /\ s # VOTE => registries[s].supply <= registries[s].max_supply

\* eosio.token, under the transfers the contract is notified of.
TlosSupplyIsHeld == TLOS!SupplyIsHeld
=============================================================================
