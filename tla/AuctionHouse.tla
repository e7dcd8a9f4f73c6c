---------------------------- MODULE AuctionHouse ----------------------------
(***************************************************************************)
(* The auction house (AuctionHouse/AuctionHouseMgr.cpp,                    *)
(* Handlers/AuctionHouseHandler.cpp) and the mails it sends.  It keeps the *)
(* item and the highest bid until the auction is bought out, cancelled or  *)
(* expires; everything is paid and delivered by mail.                      *)
(***************************************************************************)
EXTENDS Mail

CONSTANTS MaxPrice,      \* bound: the highest price asked or bid
          Deposit,       \* GetAuctionDeposit
          CutPercent     \* AuctionHouseEntry::cutPercent, times the rate of the server

ASSUME AuctionAssumption ==
    MaxPrice \in Nat /\ MailPrice <= MaxPrice /\ Deposit \in Nat /\ CutPercent \in 0 .. 100

VARIABLES auction,       \* of an item: its AuctionEntry, or None
          dbAuction

vars == <<mailVars, auction, dbAuction>>

NewEntry(p, start, buyout) ==
    [owner |-> p, startbid |-> start, buyout |-> buyout, bid |-> 0, bidder |-> None]

GetAuctionCut(a) == (CutPercent * a.bid) \div 100

\* five percent of the bid, at least one
GetAuctionOutBid(a) == LET o == (a.bid \div 100) * 5 IN IF o = 0 THEN 1 ELSE o

Init ==
    /\ MailInit
    /\ auction = [i \in Items |-> None] /\ dbAuction = [i \in Items |-> None]
-----------------------------------------------------------------------------
(* The mails. *)

AuctionMail(to, item, money) == Row("auction", None, to, item, money, 0)

\* SendAuctionOutbiddedMail, SendAuctionCancelledToBidderMail: the bid goes back
Refund(a) == IF a.bidder = None THEN <<>> ELSE <<AuctionMail(a.bidder, None, a.bid)>>

\* SendAuctionSuccessfulMail
Profit(a) == <<AuctionMail(a.owner, None, a.bid + Deposit - GetAuctionCut(a))>>

\* SendAuctionWonMail
WonMail(a, i) == <<AuctionMail(a.bidder, i, 0)>>

\* SendAuctionExpiredMail, and the item of a cancelled auction
ItemBack(a, i) == <<AuctionMail(a.owner, i, 0)>>
-----------------------------------------------------------------------------
Becomes(i, a) == auction' = [auction EXCEPT ![i] = a] /\ dbAuction' = [dbAuction EXCEPT ![i] = a]

Rest == UNCHANGED <<state, loginHolder, request, returner, history>>

\* the process ends in a handler: the mails, the statement about the auction and the save
\* of p are executed, or not, one by one; which of the last two may be, parts says
StopsAt(p, i, rows, a, gold, parts) ==
    /\ Ends({i}) /\ Fits(rows)
    /\ \E sent \in SUBSET DOMAIN rows, done \in parts :
          /\ dbMail' = Inserted(rows, sent)
          /\ dbAuction' = IF "auction" \in done THEN [dbAuction EXCEPT ![i] = a] ELSE dbAuction
          /\ dbPurse' = IF "save" \in done THEN [dbPurse EXCEPT ![p] = gold] ELSE dbPurse
    /\ auction' = dbAuction' /\ UNCHANGED dbBag

HandleAuctionSellItem(p, i, bid, buyout) ==
    /\ state[p] = "online" /\ bid > 0 /\ (buyout = 0 \/ bid <= buyout)
    /\ auction[i] = None /\ i \in bag[p] /\ purse[p] >= Deposit
    /\ Len(dbMail) < MaxMails
    /\ purse' = [purse EXCEPT ![p] = @ - Deposit]
    /\ bag' = [bag EXCEPT ![p] = @ \ {i}]
    /\ Becomes(i, NewEntry(p, bid, buyout))
    /\ SaveInventoryAndGold(p)
    /\ UNCHANGED <<box, dbMail>> /\ Rest

\* the one who has the bid pays the difference
Price(p, a, price) == IF a.bidder = p THEN price - a.bid ELSE price

\* Mutant: who raises his own bid pays the difference and has the old bid back.
OldBidOfAnyone(p, a) == Refund(a)

OldBid(p, a) == IF a.bidder = p THEN <<>> ELSE Refund(a)

MayBid(p, a, price) ==
    /\ state[p] = "online" /\ a # None /\ a.owner # p
    /\ price >= a.startbid /\ price > a.bid
    /\ (a.buyout > 0 /\ price >= a.buyout) \/ price >= a.bid + GetAuctionOutBid(a)
    /\ price <= purse[p]

HandleAuctionPlaceBid(p, i, price) ==
    LET a == auction[i]
    IN  /\ MayBid(p, a, price) /\ (a.buyout = 0 \/ price < a.buyout)
        /\ purse' = [purse EXCEPT ![p] = @ - Price(p, a, price)]
        /\ SendMails(OldBid(p, a))
        /\ Becomes(i, [a EXCEPT !.bidder = p, !.bid = price])
        /\ UNCHANGED bag /\ SaveInventoryAndGold(p) /\ Rest

BiddingStops(p, i, price) ==
    LET a == auction[i]
    IN  /\ MayBid(p, a, price) /\ (a.buyout = 0 \/ price < a.buyout)
        /\ StopsAt(p, i, OldBid(p, a), [a EXCEPT !.bidder = p, !.bid = price],
                   purse[p] - Price(p, a, price), SUBSET {"auction", "save"})

BuyOutMails(p, a, i) ==
    LET sold == [a EXCEPT !.bidder = p, !.bid = a.buyout]
    IN  OldBid(p, a) \o Profit(sold) \o WonMail(sold, i)

HandleAuctionBuyOut(p, i, price) ==
    LET a == auction[i]
    IN  /\ MayBid(p, a, price) /\ a.buyout > 0 /\ price >= a.buyout
        /\ purse' = [purse EXCEPT ![p] = @ - Price(p, a, a.buyout)]
        /\ SendMails(BuyOutMails(p, a, i))
        /\ Becomes(i, None)
        /\ UNCHANGED bag /\ SaveInventoryAndGold(p) /\ Rest

BuyOutStops(p, i, price) ==
    LET a == auction[i]
    IN  /\ MayBid(p, a, price) /\ a.buyout > 0 /\ price >= a.buyout
        /\ StopsAt(p, i, BuyOutMails(p, a, i), None, purse[p] - Price(p, a, a.buyout),
                   SUBSET {"auction", "save"})

\* the owner pays the cut of a bid that is given back
CutOfBid(a) == IF a.bidder = None THEN 0 ELSE GetAuctionCut(a)

MayRemove(p, a) ==
    state[p] = "online" /\ a # None /\ a.owner = p /\ purse[p] >= CutOfBid(a)

HandleAuctionRemoveItem(p, i) ==
    LET a == auction[i]
    IN  /\ MayRemove(p, a)
        /\ purse' = [purse EXCEPT ![p] = @ - CutOfBid(a)]
        /\ SendMails(Refund(a) \o ItemBack(a, i))
        /\ Becomes(i, None)
        /\ UNCHANGED bag /\ SaveInventoryAndGold(p) /\ Rest

\* the auction is deleted in the transaction that saves the owner
RemoveStops(p, i) ==
    LET a == auction[i]
    IN  /\ MayRemove(p, a)
        /\ StopsAt(p, i, Refund(a) \o ItemBack(a, i), None, purse[p] - CutOfBid(a),
                   {{}, {"auction", "save"}})

EndMails(a, i) == IF a.bidder = None THEN ItemBack(a, i) ELSE Profit(a) \o WonMail(a, i)

\* AuctionHouseObject::Update, an auction whose time is over
Expire(i) ==
    /\ auction[i] # None
    /\ SendMails(EndMails(auction[i], i))
    /\ Becomes(i, None)
    /\ UNCHANGED <<purse, bag, dbPurse, dbBag>> /\ Rest

\* nobody is saved
ExpireStops(i) ==
    /\ auction[i] # None
    /\ StopsAt(auction[i].owner, i, EndMails(auction[i], i), None, 0, {{}, {"auction"}})

\* LoadAuctions
Crash == MailCrash /\ auction' = dbAuction /\ UNCHANGED dbAuction

\* the process ends in a handler
HandlerStops ==
    \/ \E p \in Players : PlayerStops(p) /\ auction' = dbAuction /\ UNCHANGED dbAuction
    \/ \E i \in Items :
          \/ ExpireStops(i)
          \/ \E p \in Players :
                \/ RemoveStops(p, i)
                \/ \E price \in 0 .. MaxPrice : BiddingStops(p, i, price) \/ BuyOutStops(p, i, price)

Next ==
    \/ MailNext /\ UNCHANGED <<auction, dbAuction>>
    \/ Crash \/ HandlerStops
    \/ \E i \in Items :
          \/ Expire(i)
          \/ \E p \in Players :
                \/ HandleAuctionRemoveItem(p, i)
                \/ \E price \in 0 .. MaxPrice :
                      \/ HandleAuctionPlaceBid(p, i, price) \/ HandleAuctionBuyOut(p, i, price)
                      \/ \E buyout \in 0 .. MaxPrice :
                            HandleAuctionSellItem(p, i, price, buyout)

Spec == Init /\ [][Next]_vars
-----------------------------------------------------------------------------
Entries ==
    [owner : Players, startbid : 1 .. MaxPrice, buyout : 0 .. MaxPrice, bid : 0 .. MaxPrice,
     bidder : Players \union {None}]

TypeOK ==
    MailTypeOK /\ auction \in [Items -> Entries \union {None}] /\ auction = dbAuction

\* where the database has an item
MailsWith(i) == {id \in DOMAIN dbMail : dbMail[id].item = i}

Places(i) ==
    Cardinality({p \in Players : i \in dbBag[p]}) + Cardinality(MailsWith(i))
        + IF dbAuction[i] = None THEN 0 ELSE 1

OnePlace == \A i \in Items \ exposed : Places(i) <= 1

(***************************************************************************)
(* No item is in two of the bags, mails and auctions, and what an online   *)
(* player, or one who logs in, has in memory is what the database has, so  *)
(* that nothing is doubled or undone by a logout or a crash.  When a mail  *)
(* has been returned while a login had it, this is lost for that mail and  *)
(* its item, and when the process ends within a handler, for the item that *)
(* the handler moves; for nothing else.                                    *)
(***************************************************************************)
Inv == TypeOK /\ MemoryIsSaved /\ LoginIsCurrent /\ OnePlace

E == INSTANCE Estate WITH purse <- dbPurse, bag <- dbBag, post <- dbMail, stall <- dbAuction

(***************************************************************************)
(* Property as the database has it changes only as Estate allows: whoever  *)
(* sends pays the postage and gives up what he sends, to the receiver he   *)
(* named; mails go back to their own sender, auctions pay seller, winner   *)
(* and those who were outbid.  When the process ends within a handler,     *)
(* each transaction of that handler is done or not, and none in part;      *)
(* logins and other crashes change nothing.  Nothing is promised from the  *)
(* first mail on that was returned while a login had it.                   *)
(***************************************************************************)
EstateSpec ==
    E!Init /\ [][crossed' # {} \/ E!Next \/ (stops' # stops /\ E!Torn)]_(E!vars)
=============================================================================
