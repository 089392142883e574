------------------------------- MODULE RamMarket -------------------------------
(***************************************************************************)
(* contracts/eosio.system: RAM bought and sold on a Bancor market between  *)
(* bytes (base) and tokens (quote).  The tokens paid lie in eosio.ram, the *)
(* fees go from eosio.ramfee to the REX pool (Rex).                        *)
(***************************************************************************)
EXTENDS NameBids

CONSTANTS InitialRam, InitialQuote, \* the market as init makes it
          Quant,           \* tokens given for RAM
          Bytes,           \* bytes bought and sold
          Sizes, Rates     \* arguments of setram, setramrate

\* exchange_state, and of eosio_global_state what is about RAM.
VARIABLE ram

ramVars == <<systemVars, ram>>

ram_market == [base : Nat, quote : Nat, max_ram_size : Nat, total_ram_bytes_reserved : Nat,
               total_ram_stake : Nat, new_ram_per_block : Nat, last_ram_increase : 0..MaxTime]

ASSUME RamMarketAssumption ==
  /\ InitialRam \in Nat \ {0} /\ InitialQuote \in Nat \ {0}
  /\ Quant \subseteq Nat /\ Bytes \subseteq Nat /\ Sizes \subseteq Nat /\ Rates \subseteq Nat

RamTypeOK == NameBidsTypeOK /\ ram \in ram_market

RamInit ==
  /\ NameBidsInit
  /\ ram = [base |-> InitialRam, quote |-> InitialQuote, max_ram_size |-> InitialRam,
            total_ram_bytes_reserved |-> 0, total_ram_stake |-> 0,
            new_ram_per_block |-> 0, last_ram_increase |-> 0]

Enlarged(r, bytes) == [r EXCEPT !.max_ram_size = @ + bytes, !.base = @ + bytes]

update_ram_supply(r) ==
  IF now <= r.last_ram_increase THEN r
  ELSE [Enlarged(r, (now - r.last_ram_increase) * r.new_ram_per_block)
          EXCEPT !.last_ram_increase = now]

SetRam(max_ram_size) ==
  /\ ram.max_ram_size < max_ram_size
  /\ ram.total_ram_bytes_reserved < max_ram_size
  /\ ram' = Enlarged(ram, max_ram_size - ram.max_ram_size)
  /\ UNCHANGED systemVars

SetRamRate(bytes_per_block) ==
  /\ ram' = [update_ram_supply(ram) EXCEPT !.new_ram_per_block = bytes_per_block]
  /\ UNCHANGED systemVars

\* Half a percent, rounded up.
Fee(quant) == (quant + 199) \div 200

FeePaid(t, from, fee) ==
  channel_to_rex(Sent(t, from, RAMFEE_ACCOUNT, fee), RAMFEE_ACCOUNT, fee)

Held(t, account, row) ==
  [t EXCEPT !.totals[account] = row,
            !.limits[account].ram = IF "ram_managed" \in Managed(account) THEN @
                                    ELSE row.ram_bytes + ram_gift_bytes]

\* A quant of 1 is all fee: the first transfer fails.
BuyRam(payer, receiver, quant) ==
  LET r == update_ram_supply(ram)
      paid == quant - Fee(quant)
      bytes == get_bancor_output(r.quote, r.base, paid)
      row == [Resources(receiver) EXCEPT !.ram_bytes = @ + bytes]
  IN /\ quant > 0
     /\ bytes > 0
     /\ ram' = [r EXCEPT !.quote = @ + paid, !.base = @ - bytes,
                         !.total_ram_bytes_reserved = @ + bytes, !.total_ram_stake = @ + paid]
     /\ Commit(Held(FeePaid(Sent(Tables, payer, RAM_ACCOUNT, paid), payer, Fee(quant)),
                    receiver, row))
     /\ VotesKept /\ LoansCounted
     /\ UNCHANGED bidVars

\* The price is that of the market before it is enlarged.
BuyRamBytes(payer, receiver, bytes) ==
  LET cost == (ram.quote * bytes) \div (ram.base - bytes)
  IN /\ bytes < ram.base
     /\ BuyRam(payer, receiver, (cost * 1000) \div 995)

SellRam(account, bytes) ==
  LET r == update_ram_supply(ram)
      tokens_out == get_bancor_output(r.base, r.quote, bytes)
      row == [Resources(account) EXCEPT !.ram_bytes = @ - bytes]
  IN /\ bytes > 0
     /\ userres[account] # Nil
     /\ bytes <= Resources(account).ram_bytes
     /\ tokens_out > 1
     /\ tokens_out <= r.total_ram_stake
     /\ ram' = [r EXCEPT !.quote = @ - tokens_out, !.base = @ + bytes,
                         !.total_ram_bytes_reserved = @ - bytes, !.total_ram_stake = @ - tokens_out]
     /\ Commit(FeePaid(Sent(Held(Tables, account, row), RAM_ACCOUNT, account, tokens_out),
                       account, Fee(tokens_out)))
     /\ VotesKept /\ LoansCounted
     /\ UNCHANGED bidVars

-----------------------------------------------------------------------------
(* Limits of RAM set by the system account *)

SetAcctRam(account, ram_bytes) ==
  /\ ram_bytes >= 0
  /\ SetLimits(account, [limits[account] EXCEPT !.ram = ram_bytes])
  /\ voters' = Flagged(account, Managed(account) \cup {"ram_managed"})
  /\ UNCHANGED <<rexOnlyVars, bidVars, ram>>

\* Mutant: without the gift.
ReleasedRamAsBought(account) == Resources(account).ram_bytes

ReleasedRam(account) == Resources(account).ram_bytes + ram_gift_bytes

UnsetAcctRam(account) ==
  /\ "ram_managed" \in Managed(account)
  /\ SetLimits(account, [limits[account] EXCEPT !.ram = ReleasedRam(account)])
  /\ voters' = Flagged(account, Managed(account) \ {"ram_managed"})
  /\ UNCHANGED <<rexOnlyVars, bidVars, ram>>

-----------------------------------------------------------------------------

RamNext ==
  \/ \E size \in Sizes : SetRam(size)
  \/ \E rate \in Rates : SetRamRate(rate)
  \/ \E a \in Account :
       \/ \E b \in Account : \/ \E quant \in Quant : BuyRam(a, b, quant)
                             \/ \E bytes \in Bytes : BuyRamBytes(a, b, bytes)
       \/ \E bytes \in Bytes : SellRam(a, bytes)
       \/ UnsetAcctRam(a) \/ \E limit \in Limits : SetAcctRam(a, limit)

\* All that the system contract does but for its blocks (Blocks).
ContractNext == \/ RamNext
                \/ SystemNext /\ UNCHANGED ram

\* No token has come to the accounts of the contract yet.
ContractInit == /\ RamInit
                /\ TLOS!TypeOK
                /\ \A a \in SystemAccounts : accounts[a] = Nil

ContractSpec == ContractInit /\ [][ContractNext]_ramVars

-----------------------------------------------------------------------------
(* Properties *)

\* Every byte is on the market or in somebody's row, whatever stake comes and
\* goes in that row, and eosio.ram was left what was paid for those bytes, which
\* is what the market has beyond its first tokens: what of it is not there,
\* distviarex has taken to the pool.
RamBacked ==
  /\ ram.base + ram.total_ram_bytes_reserved = ram.max_ram_size
  /\ ram.total_ram_bytes_reserved = SumOver(LAMBDA a : Resources(a).ram_bytes, Account)
  /\ ram.quote = InitialQuote + ram.total_ram_stake
  /\ TLOS!Balance(RAM_ACCOUNT) + taken[RAM_ACCOUNT] = ram.total_ram_stake

\* "This shouldn't happen": never would a sale of all the RAM one holds, or all
\* that everybody does, take more tokens than were staked, however purchases,
\* sales and growth of the supply came before.
RamSellable ==
  \A bytes \in {Resources(a).ram_bytes : a \in Account} \cup {ram.total_ram_bytes_reserved} :
    LET r == update_ram_supply(ram)
    IN get_bancor_output(r.base, r.quote, bytes) <= r.total_ram_stake

\* An account that holds RAM and is not managed may use what it holds and the
\* gift, through purchases, sales, changes of stake and periods of management.
RamLimits ==
  \A a \in Account :
    Resources(a).ram_bytes > 0 /\ "ram_managed" \notin Managed(a) =>
      limits[a].ram = Resources(a).ram_bytes + ram_gift_bytes
=============================================================================
