------------------------------- MODULE NameBids -------------------------------
(***************************************************************************)
(* contracts/eosio.system: auctions of account names.  Bids lie in         *)
(* eosio.names; those outbid go back by a deferred transaction or by a     *)
(* call of anybody, the winning ones to the REX pool (Rex).                *)
(***************************************************************************)
EXTENDS Rex

CONSTANTS NewName,         \* names that are auctioned
          blocks_per_day,
          AUCTION_TIME     \* 14 days, here from the start of the clock

VARIABLES bids,            \* name -> name_bid
          bid_refunds,     \* name -> bidder -> amount
          bid_deferred,    \* name -> bidders whose refund is scheduled
          created,         \* names that are accounts
          last_name_close

bidVars == <<bids, bid_refunds, bid_deferred, created, last_name_close>>
systemVars == <<rexAllVars, bidVars>>

\* A negative high_bid is a closed auction.
name_bid == [high_bidder : Account, high_bid : Int, last_bid_time : Time]

ASSUME NameBidsAssumption ==
  /\ IsFiniteSet(NewName) /\ blocks_per_day \in Nat /\ AUCTION_TIME \in Nat
  /\ Nil \notin name_bid

NameBidsTypeOK ==
  /\ bids \in [NewName -> name_bid \cup {Nil}]
  /\ bid_refunds \in [NewName -> [Account -> Nat \cup {Nil}]]
  /\ bid_deferred \in [NewName -> SUBSET Account]
  /\ created \subseteq NewName
  /\ last_name_close \in Time

NameBidsInit == /\ RexInit
                /\ bids = [n \in NewName |-> Nil]
                /\ bid_refunds = [n \in NewName |-> [a \in Account |-> Nil]]
                /\ bid_deferred = [n \in NewName |-> {}]
                /\ created = {}
                /\ last_name_close = 0

StakeKept == UNCHANGED <<votingVars, activated, del_bandwidth, resourceVars, refundVars, rexOnlyVars>>

\* Mutant: a second refund replaces the first.
RefundOfLast(old, amount) == amount

RefundOf(old, amount) == IF old = Nil THEN amount ELSE old + amount

Outbid(newname, loser, amount) ==
  /\ bid_refunds' = [bid_refunds EXCEPT ![newname][loser] = RefundOf(@, amount)]
  /\ bid_deferred' = [bid_deferred EXCEPT ![newname] = @ \cup {loser}]

BidName(bidder, newname, bid) ==
  LET current == bids[newname]
  IN /\ newname \notin created
     /\ TLOS!Transfer(bidder, NAMES_ACCOUNT, bid)
     /\ \/ current = Nil /\ UNCHANGED <<bid_refunds, bid_deferred>>
        \/ /\ current # Nil
           /\ current.high_bid > 0
           /\ bid - current.high_bid > current.high_bid \div 10
           /\ current.high_bidder # bidder
           /\ Outbid(newname, current.high_bidder, current.high_bid)
     /\ bids' = [bids EXCEPT ![newname] =
          [high_bidder |-> bidder, high_bid |-> bid, last_bid_time |-> now]]
     /\ StakeKept
     /\ UNCHANGED <<created, last_name_close>>

PayBack(bidder, newname) ==
  /\ bid_refunds[newname][bidder] # Nil
  /\ TLOS!Transfer(NAMES_ACCOUNT, bidder, bid_refunds[newname][bidder])
  /\ bid_refunds' = [bid_refunds EXCEPT ![newname][bidder] = Nil]
  /\ StakeKept
  /\ UNCHANGED <<bids, created, last_name_close>>

BidRefund(bidder, newname) == PayBack(bidder, newname) /\ UNCHANGED bid_deferred

\* The scheduled transaction; nothing is left of it when it fails.
DeferredBidRefund(bidder, newname) ==
  /\ bidder \in bid_deferred[newname]
  /\ bid_deferred' = [bid_deferred EXCEPT ![newname] = @ \ {bidder}]
  /\ \/ PayBack(bidder, newname)
     \/ /\ bid_refunds[newname][bidder] = Nil
        /\ StakeKept
        /\ UNCHANGED <<tlosVars, bids, bid_refunds, created, last_name_close>>

OpenBids == {n \in NewName : IF bids[n] = Nil THEN FALSE ELSE bids[n].high_bid > 0}

\* The highest bid of all, when it has stood for a day; one auction a day.
CloseName(newname) ==
  /\ activated
  /\ now > AUCTION_TIME
  /\ now - last_name_close > blocks_per_day
  /\ newname \in OpenBids
  /\ \A n \in OpenBids : bids[n].high_bid <= bids[newname].high_bid
  /\ now - bids[newname].last_bid_time > blocks_per_day
  /\ last_name_close' = now
  /\ bids' = [bids EXCEPT ![newname].high_bid = -@]
  /\ rexpool' = IF rex_available(rexpool)
                THEN [rexpool EXCEPT !.namebid_proceeds = @ + bids[newname].high_bid]
                ELSE rexpool
  /\ retained' = IF rex_available(rexpool) THEN retained
                 ELSE retained + bids[newname].high_bid
  /\ UNCHANGED <<now, voters, producers, tallies, rexbalance, activated, del_bandwidth,
                 resourceVars, refundVars, rexfunds, rexorders, loans, loan_num, unweighed,
                 taken, tlosVars, bid_refunds, bid_deferred, created>>

\* newaccount by the winner.
NewAccount(creator, newname) ==
  /\ newname \notin created
  /\ bids[newname] # Nil
  /\ bids[newname].high_bidder = creator
  /\ bids[newname].high_bid < 0
  /\ bids' = [bids EXCEPT ![newname] = Nil]
  /\ created' = created \cup {newname}
  /\ StakeKept
  /\ UNCHANGED <<tlosVars, bid_refunds, bid_deferred, last_name_close>>

BidsNext ==
  \E a \in Account, n \in NewName :
    \/ \E bid \in Amount : BidName(a, n, bid)
    \/ BidRefund(a, n) \/ DeferredBidRefund(a, n) \/ CloseName(n) \/ NewAccount(a, n)

SystemNext == \/ BidsNext
              \/ RexNext /\ UNCHANGED bidVars

-----------------------------------------------------------------------------
(* Properties *)

OpenBid(n) == IF n \in OpenBids THEN bids[n].high_bid ELSE 0

ToBidders(n) ==
  SumOver(LAMBDA a : IF bid_refunds[n][a] = Nil THEN 0 ELSE bid_refunds[n][a], Account)

\* eosio.names holds what goes back to whoever was outbid, however often and on
\* whatever names, the bids that stand and the proceeds the pool counts on,
\* whenever runrex moves those; besides, only the bids of auctions closed while
\* nobody had REX.  What is missing is what distviarex has taken to the pool.
NamesBacked ==
  TLOS!Balance(NAMES_ACCOUNT) + taken[NAMES_ACCOUNT] =
    SumOver(ToBidders, NewName) + SumOver(OpenBid, NewName)
    + (IF rexpool = Nil THEN 0 ELSE rexpool.namebid_proceeds) + retained
=============================================================================
