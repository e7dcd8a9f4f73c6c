------------------------------- MODULE Estate -------------------------------
(***************************************************************************)
(* What mailboxes and the auction house promise about property: money and  *)
(* items are in purses and bags, in letters addressed to one player, or    *)
(* with an auction, and they move only as the two sides of each deal have  *)
(* agreed.  A deal is made of parts, some of which may be missing when the *)
(* server stops in the middle of it (Torn); otherwise it is done as a      *)
(* whole.                                                                  *)
(***************************************************************************)
EXTENDS Integers, Sequences, Holdings

CONSTANTS MaxPrice, MailPrice,    \* the highest prices of auctions and of letters
          Postage, Deposit, CutPercent

VARIABLES purse, bag,    \* of a player
          post,          \* letters, in the order in which they were sent
          stall          \* of an item: its auction, or None

vars == <<purse, bag, post, stall>>

Init ==
    /\ purse \in [Players -> Nat] /\ bag \in [Players -> SUBSET Items]
    /\ \A p, q \in Players : p # q => bag[p] \intersect bag[q] = {}
    /\ post = << >> /\ stall = [i \in Items |-> None]

(* The parts of the deals, besides the letters of auctions. *)
Written  == {"item", "mail", "save"}
Paid     == {"payment", "save"}
Returned == {"old", "new"}
Sold     == {"auction", "save"}

Put(done, part, new, old) == IF part \in done THEN new ELSE old

\* letters that are sent, but for those missing
Posted(old, letters, sent) ==
    old \o [k \in DOMAIN letters |-> IF k \in sent THEN letters[k] ELSE Gone]

Post(letters, sent) == post' = Posted(post, letters, sent)
Pays(p, m) == purse' = [purse EXCEPT ![p] = @ - m]
-----------------------------------------------------------------------------
(* Letters. *)

\* a letter costs its sender the postage and what is in it
Write(p, q, i, m, price, done) ==
    LET letter == Row("normal", p, q, i, m, IF i = None THEN 0 ELSE price)
    IN  /\ purse[p] >= m + Postage
        /\ Pays(p, Put(done, "save", m + Postage, 0))
        /\ bag' = [bag EXCEPT ![p] = Put(done, "item", @ \ {i}, @)]
        /\ Post(<<letter>>, Put(done, "mail", {1}, {}))
        /\ UNCHANGED stall

To(p) == {id \in DOMAIN post : post[id].to = p}

\* with each save a player may throw away letters to him for which he need not pay
Thrown(p) == {id \in To(p) : post[id].cod = 0}

Without(letters, ids) == [id \in DOMAIN letters |-> IF id \in ids THEN Gone ELSE letters[id]]

TakeMoney(p, id, thrown) ==
    /\ Pays(p, -post[id].money)
    /\ post' = Without([post EXCEPT ![id].money = 0], thrown)
    /\ UNCHANGED <<bag, stall>>

\* the price of an item goes to the one who sent it
TakeItem(p, id, thrown, done) ==
    LET l == post[id]
        payment == IF l.cod = 0 THEN << >> ELSE <<Row("codPayment", p, l.from, None, l.cod, 0)>>
        emptied == Without([post EXCEPT ![id].item = None, ![id].cod = 0], thrown)
    IN  /\ l.item # None /\ purse[p] >= l.cod
        /\ Pays(p, Put(done, "save", l.cod, 0))
        /\ bag' = [bag EXCEPT ![p] = Put(done, "save", @ \union {l.item}, @)]
        /\ post' = Posted(Put(done, "save", emptied, post), payment, Put(done, "payment", {1}, {}))
        /\ UNCHANGED stall

Throw(p, thrown) == post' = Without(post, thrown) /\ UNCHANGED <<purse, bag, stall>>

\* to the one who sent it, all that is in it; what an auction has sent is dropped
SendBack(p, id, done) ==
    LET l == post[id]
        back == IF l.kind = "auction" THEN << >>
                ELSE <<Row("returned", p, l.from, l.item, l.money, 0)>>
    IN  /\ post' = Posted(Put(done, "old", Without(post, {id}), post), back,
                          Put(done, "new", {1}, {}))
        /\ UNCHANGED <<purse, bag, stall>>

\* a letter that was not fetched goes back once, or is dropped with what is in it
Lapse(id) ==
    LET l == post[id]
    IN  /\ l # Gone
        /\ \E back \in BOOLEAN :
              /\ back => l.kind = "normal"
              /\ ~back => l.kind # "normal" \/ l.item = None
              /\ post' = [post EXCEPT ![id] =
                             IF back THEN Row("returned", l.to, l.from, l.item, l.money, 0)
                             ELSE Gone]
        /\ UNCHANGED <<purse, bag, stall>>
-----------------------------------------------------------------------------
(* Auctions. *)

Note(to, i, m) == Row("auction", None, to, i, m, 0)

List(p, i, start, buyout) ==
    /\ i \in bag[p] /\ stall[i] = None /\ purse[p] >= Deposit
    /\ start > 0 /\ (buyout = 0 \/ start <= buyout)
    /\ Pays(p, Deposit) /\ bag' = [bag EXCEPT ![p] = @ \ {i}]
    /\ stall' = [stall EXCEPT ![i] = [owner |-> p, startbid |-> start, buyout |-> buyout,
                                      bid |-> 0, bidder |-> None]]
    /\ UNCHANGED post

\* the one who is outbid has his money back; who raises his own bid pays the difference
Outbid(p, s) == IF s.bidder \in {None, p} THEN << >> ELSE <<Note(s.bidder, None, s.bid)>>
More(p, s, price) == IF s.bidder = p THEN price - s.bid ELSE price

Outbids(p, s, price) ==
    s # None /\ s.owner # p /\ price >= s.startbid /\ price > s.bid /\ price <= purse[p]

Bid(p, i, price, sent, done) ==
    LET s == stall[i]
    IN  /\ Outbids(p, s, price) /\ (s.buyout = 0 \/ price < s.buyout)
        /\ Pays(p, Put(done, "save", More(p, s, price), 0))
        /\ Post(Outbid(p, s), sent)
        /\ stall' = [stall EXCEPT ![i] = Put(done, "auction", [@ EXCEPT !.bid = price, !.bidder = p], @)]
        /\ UNCHANGED bag

Proceeds(s, bid) == <<Note(s.owner, None, bid + Deposit - (CutPercent * bid) \div 100)>>

Ends(i, done) == stall' = [stall EXCEPT ![i] = Put(done, "auction", None, @)]

BuyOut(p, i, sent, done) ==
    LET s == stall[i]
    IN  /\ Outbids(p, s, s.buyout) /\ s.buyout > 0
        /\ Pays(p, Put(done, "save", More(p, s, s.buyout), 0))
        /\ Post(Outbid(p, s) \o Proceeds(s, s.buyout) \o <<Note(p, i, 0)>>, sent)
        /\ Ends(i, done) /\ UNCHANGED bag

\* the owner pays the cut of a bid that is given back
Cancel(i, sent, done) ==
    LET s == stall[i]
        cut == IF s.bidder = None THEN 0 ELSE (CutPercent * s.bid) \div 100
    IN  /\ s # None /\ purse[s.owner] >= cut
        /\ Pays(s.owner, Put(done, "auction", cut, 0))
        /\ Post(Outbid(None, s) \o <<Note(s.owner, i, 0)>>, sent)
        /\ Ends(i, done) /\ UNCHANGED bag

Close(i, sent, done) ==
    LET s == stall[i]
    IN  /\ s # None
        /\ Post(IF s.bidder = None THEN <<Note(s.owner, i, 0)>>
                ELSE Proceeds(s, s.bid) \o <<Note(s.bidder, i, 0)>>, sent)
        /\ Ends(i, done) /\ UNCHANGED <<purse, bag>>
-----------------------------------------------------------------------------
Writes(p, done) ==
    \E q \in Players \ {p}, i \in bag[p] \union {None}, m, price \in 0 .. MailPrice :
        Write(p, q, i, m, price, done)

Takes(p, done) ==
    \E id \in To(p) : \E thrown \in SUBSET Thrown(p) : TakeItem(p, id, thrown, done)

Returns(p, done) == \E id \in To(p) : SendBack(p, id, done)

AuctionDone(i, sent, done) ==
    \/ Cancel(i, sent, done) \/ Close(i, sent, done)
    \/ \E p \in Players :
          BuyOut(p, i, sent, done) \/ \E price \in 0 .. MaxPrice : Bid(p, i, price, sent, done)

Next ==
    \/ \E id \in DOMAIN post : Lapse(id)
    \/ \E p \in Players :
          \/ Writes(p, Written) \/ Takes(p, Paid) \/ Returns(p, Returned)
          \/ \E thrown \in SUBSET Thrown(p) :
                Throw(p, thrown) \/ \E id \in To(p) : TakeMoney(p, id, thrown)
    \/ \E i \in Items :
          \/ AuctionDone(i, 1 .. 3, Sold)
          \/ \E p \in Players, start, buyout \in 0 .. MaxPrice : List(p, i, start, buyout)

\* the server stops in the middle of a deal
Torn ==
    \/ \E p \in Players :
          \/ \E done \in SUBSET Written : Writes(p, done)
          \/ \E done \in SUBSET Paid : Takes(p, done)
          \/ \E done \in SUBSET Returned : Returns(p, done)
    \/ \E i \in Items, sent \in SUBSET (1 .. 3), done \in SUBSET Sold : AuctionDone(i, sent, done)
=============================================================================
