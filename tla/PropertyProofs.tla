--------------------------- MODULE PropertyProofs ---------------------------
(***************************************************************************)
(* Proofs about Trade and AuctionHouse, for any number of players, items   *)
(* and slots.                                                              *)
(*                                                                         *)
(* Trade: every trader has a partner who trades with it, no item is        *)
(* offered twice, no bag is overfilled, and a trade implements Exchange.   *)
(* In between, moveItems never has to put anything back: when the items of *)
(* both fit together, they fit slot by slot.                               *)
(*                                                                         *)
(* AuctionHouse, with the mail it pays in: no item is in two places that   *)
(* would each survive a restart, and what a player has in memory is what   *)
(* the database has, but for mails returned while a login had them and the *)
(* items of handlers in which the process ended.                           *)
(***************************************************************************)
EXTENDS Trade, AuctionHouse, FiniteSetTheorems, SequenceTheorems, TLAPS

-----------------------------------------------------------------------------
(* Trade.                                                                  *)

(* The least number of a set: induction over the slots. *)
LEMMA LeastNumber ==
    ASSUME NEW T \in SUBSET Nat, T # {}
    PROVE  \E n \in T : \A m \in T : n <= m
<1> DEFINE Segments == {0 .. n : n \in T}
<1>1. Segments \subseteq FiniteSubsetsOf(Nat)
  <2>1. ASSUME NEW n \in T PROVE IsFiniteSet(0 .. n)
    BY FS_Interval
  <2> QED BY <2>1 DEF FiniteSubsetsOf
<1>2. PICK S \in Segments : \A U \in Segments : ~(<<U, S>> \in StrictSubsetOrdering(Nat))
  <2>1. IsWellFoundedOn(StrictSubsetOrdering(Nat), FiniteSubsetsOf(Nat))
    BY FS_StrictSubsetOrderingWellFounded
  <2>2. Segments # {}
    OBVIOUS
  <2> HIDE DEF Segments
  <2> QED BY <1>1, <2>1, <2>2, WFMin
<1>3. PICK n \in T : S = 0 .. n
  OBVIOUS
<1>4. ASSUME NEW m \in T, ~(n <= m) PROVE FALSE
  <2>1. 0 .. m \subseteq 0 .. n /\ 0 .. m \in SUBSET Nat /\ 0 .. n \in SUBSET Nat
    BY <1>4
  <2>2. 0 .. m # 0 .. n
    <3>1. n \in 0 .. n /\ n \notin 0 .. m
      BY <1>4
    <3> QED BY <3>1
  <2>3. <<0 .. m, 0 .. n>> \in StrictSubsetOrdering(Nat)
    BY <2>1, <2>2 DEF StrictSubsetOrdering
  <2> QED BY <1>2, <1>3, <2>3
<1> QED BY <1>4

-----------------------------------------------------------------------------
(* The swap of the items. *)

\* what p's partner has got from p when s slots have been moved
Handed(p, s) == {GetItem(p, r) : r \in 1 .. s} \ {None}

\* who has an item then
Halfway(p, s) ==
    [i \in Items |->
        IF i \in Handed(p, s) THEN Trader(p)
        ELSE IF i \in Handed(Trader(p), s) THEN p
        ELSE IF i \in Outgoing(p) \union Outgoing(Trader(p)) THEN None
        ELSE holder[i]]

\* two traders
LEMMA Partners ==
    ASSUME TradeInv, NEW p \in Players, Trading(p)
    PROVE  /\ Trader(p) \in Players /\ Trader(p) # p /\ {p, Trader(p)} \subseteq inWorld
           /\ Trading(Trader(p)) /\ Trader(Trader(p)) = p
           /\ m_trade[p] \in TradeDatas /\ m_trade[Trader(p)] \in TradeDatas
<1>1. \A x \in Players : Trading(x) => m_trade[x] \in TradeDatas
  BY DEF TradeInv, TradeTypeOK, Trading
<1>2. Trader(p) \in Players
  BY <1>1 DEF TradeDatas, Trader
<1> QED BY <1>1, <1>2 DEF TradeInv, Paired

\* An item that a slot shows is one its owner still carries, and no other slot shows it.
LEMMA ShownItem ==
    ASSUME TradeInv, NEW p \in Players, Trading(p), NEW s \in Slots
    PROVE  /\ GetItem(p, s) \in Items \union {None}
           /\ GetItem(p, s) # None =>
                 /\ GetItem(p, s) = m_trade[p].items[s] /\ holder[GetItem(p, s)] = p
                 /\ \A r \in Slots : GetItem(p, r) = GetItem(p, s) => r = s
<1>1. m_trade[p].items \in [Slots -> Items \union {None}]
  BY Partners DEF TradeDatas
<1>2. \A r \in Slots : GetItem(p, r) # None =>
         GetItem(p, r) = m_trade[p].items[r] /\ holder[GetItem(p, r)] = p
  BY DEF GetItem
<1>3. \A r \in Slots : GetItem(p, r) \in {m_trade[p].items[r], None}
  BY DEF GetItem
<1>4. \A r \in Slots : r # s /\ m_trade[p].items[r] # None =>
         m_trade[p].items[r] # m_trade[p].items[s]
  BY DEF TradeInv, OfferedOnce
<1> QED BY <1>1, <1>2, <1>3, <1>4

\* What a player has handed over after some slots is his, and part of his offer.
LEMMA HandedItems ==
    ASSUME TradeInv, NEW p \in Players, Trading(p), NEW s \in 0 .. NumTraded
    PROVE  /\ Handed(p, s) \subseteq Items /\ Handed(p, s) \subseteq Outgoing(p)
           /\ \A i \in Handed(p, s) : i \in Items /\ holder[i] = p
           /\ None \notin Handed(p, s)
           /\ s = NumTraded => Handed(p, s) = Outgoing(p)
           /\ s = 0 => Handed(p, s) = {}
<1>1. NumTraded \in Nat \ {0} /\ 1 .. s \subseteq TradedSlots /\ TradedSlots \subseteq Slots
  BY TradeAssumption DEF TradedSlots, Slots
<1>2. \A r \in 1 .. s : GetItem(p, r) # None => GetItem(p, r) \in Items /\ holder[GetItem(p, r)] = p
  BY <1>1, ShownItem
<1>3. s = NumTraded => Handed(p, s) = Outgoing(p)
  BY DEF Handed, Outgoing, TradedSlots
<1>4. s = 0 => Handed(p, s) = {}
  BY DEF Handed
<1> QED BY <1>1, <1>2, <1>3, <1>4 DEF Handed, Outgoing

\* The next slot hands over the item it shows, which no slot before did.
LEMMA HandedStep ==
    ASSUME TradeInv, NEW p \in Players, Trading(p), NEW s \in 1 .. NumTraded
    PROVE  /\ Handed(p, s) = Handed(p, s - 1) \union ({GetItem(p, s)} \ {None})
           /\ GetItem(p, s) \notin Handed(p, s - 1)
           /\ GetItem(p, s) # None => GetItem(p, s) \in Outgoing(p)
<1>1. /\ NumTraded \in Nat \ {0} /\ 1 .. s = (1 .. (s - 1)) \union {s}
      /\ s \notin 1 .. (s - 1) /\ 1 .. s \subseteq Slots /\ s \in TradedSlots
  BY TradeAssumption DEF TradedSlots, Slots
<1>2. GetItem(p, s) \notin Handed(p, s - 1)
  <2>1. \A r \in Slots : GetItem(p, s) # None /\ GetItem(p, r) = GetItem(p, s) => r = s
    BY <1>1, ShownItem
  <2> QED BY <1>1, <2>1 DEF Handed
<1>3. Handed(p, s) = Handed(p, s - 1) \union ({GetItem(p, s)} \ {None})
  BY <1>1 DEF Handed
<1> QED BY <1>1, <1>2, <1>3 DEF Outgoing

\* what the players carry when s slots have been moved
LEMMA CarriedHalfway ==
    ASSUME TradeInv, NEW p \in Players, Trading(p), NEW s \in 0 .. NumTraded,
           NEW q, q = Trader(p)
    PROVE  /\ Carried(Halfway(p, s), q) = (Carried(holder, q) \ Outgoing(q)) \union Handed(p, s)
           /\ Carried(Halfway(p, s), p) = (Carried(holder, p) \ Outgoing(p)) \union Handed(q, s)
           /\ \A r \in Players \ {p, q} : Carried(Halfway(p, s), r) = Carried(holder, r)
<1>1. /\ q \in Players /\ q # p /\ Trading(q) /\ Trader(q) = p
      /\ None \notin Players /\ NumTraded \in 0 .. NumTraded
  BY Partners, TradeAssumption
<1>2. /\ \A i \in Outgoing(p) : i \in Items /\ holder[i] = p
      /\ \A i \in Outgoing(q) : i \in Items /\ holder[i] = q
  BY <1>1, HandedItems
<1>3. Handed(p, s) \subseteq Outgoing(p) /\ Handed(q, s) \subseteq Outgoing(q)
  BY <1>1, HandedItems
<1>4. \A i \in Items : Halfway(p, s)[i] =
         IF i \in Handed(p, s) THEN q
         ELSE IF i \in Handed(q, s) THEN p
         ELSE IF i \in Outgoing(p) \union Outgoing(q) THEN None ELSE holder[i]
  BY DEF Halfway
<1> HIDE DEF Halfway
<1>5. Carried(Halfway(p, s), q) = (Carried(holder, q) \ Outgoing(q)) \union Handed(p, s)
  BY <1>1, <1>2, <1>3, <1>4 DEF Carried
<1>6. Carried(Halfway(p, s), p) = (Carried(holder, p) \ Outgoing(p)) \union Handed(q, s)
  BY <1>1, <1>2, <1>3, <1>4 DEF Carried
<1>7. \A r \in Players \ {p, q} : Carried(Halfway(p, s), r) = Carried(holder, r)
  BY <1>1, <1>2, <1>3, <1>4 DEF Carried
<1> QED BY <1>5, <1>6, <1>7

\* A part of two sets that fit leaves room, unless it is all of them.
LEMMA FreeSpace ==
    ASSUME NEW X \in SUBSET Items, NEW Y \in SUBSET Items, NEW Z \in SUBSET (X \union Y),
           NEW c \in Nat, Cardinality(X) + Cardinality(Y) <= c
    PROVE  /\ Cardinality(Z) \in Nat /\ Cardinality(Z) <= c
           /\ Z # X \union Y => Cardinality(Z) < c
<1>1. /\ IsFiniteSet(X) /\ IsFiniteSet(Y) /\ IsFiniteSet(X \union Y)
      /\ Cardinality(X) \in Nat /\ Cardinality(Y) \in Nat /\ Cardinality(X \cap Y) \in Nat
      /\ Cardinality(X \union Y) = Cardinality(X) + Cardinality(Y) - Cardinality(X \cap Y)
  <2>1. IsFiniteSet(X) /\ IsFiniteSet(Y)
    BY TradeAssumption, FS_Subset
  <2>2. IsFiniteSet(X \union Y) /\ IsFiniteSet(X \cap Y)
    BY <2>1, FS_Union, FS_Intersection
  <2> QED BY <2>1, <2>2, FS_Union, FS_CardinalityType
<1>2. /\ IsFiniteSet(Z) /\ Cardinality(Z) <= Cardinality(X \union Y)
      /\ Cardinality(Z) = Cardinality(X \union Y) => Z = X \union Y
  BY <1>1, FS_Subset
<1>3. Cardinality(Z) \in Nat
  BY <1>2, FS_CardinalityType
<1> QED BY <1>1, <1>2, <1>3

\* there is room for every item when its turn comes
LEMMA RoomForBoth ==
    ASSUME TradeInv, NEW p \in Players, Trading(p), NEW s \in 1 .. NumTraded,
           CanStoreItems(p), CanStoreItems(Trader(p))
    PROVE  /\ CanStoreItem(Halfway(p, s - 1), Trader(p), GetItem(p, s))
           /\ CanStoreItem(Halfway(p, s - 1), p, GetItem(Trader(p), s))
<1> DEFINE q == Trader(p)
           h == Halfway(p, s - 1)
<1>1. /\ q \in Players /\ q # p /\ Trading(q) /\ Trader(q) = p /\ NumTraded \in Nat
      /\ Capacity[p] \in Nat /\ Capacity[q] \in Nat /\ s - 1 \in 0 .. NumTraded
  BY Partners, TradeAssumption
<1>2. /\ Carried(h, q) = (Carried(holder, q) \ Outgoing(q)) \union Handed(p, s - 1)
      /\ Carried(h, p) = (Carried(holder, p) \ Outgoing(p)) \union Handed(q, s - 1)
  BY <1>1, CarriedHalfway
<1>3. /\ Handed(p, s - 1) \subseteq Outgoing(p) /\ Handed(q, s - 1) \subseteq Outgoing(q)
      /\ NumTraded \in 0 .. NumTraded
      /\ \A i \in Outgoing(p) : i \in Items /\ holder[i] = p
      /\ \A i \in Outgoing(q) : i \in Items /\ holder[i] = q
  BY <1>1, HandedItems
<1>4. ASSUME GetItem(p, s) # None PROVE Cardinality(Carried(h, q)) < Capacity[q]
  <2> DEFINE X == Carried(holder, q) \ Outgoing(q)
             Y == Outgoing(p)
             Z == Carried(h, q)
  <2>1. X \in SUBSET Items /\ Y \in SUBSET Items /\ Z \in SUBSET (X \union Y)
    BY <1>2, <1>3 DEF Carried
  <2>2. GetItem(p, s) \in Y /\ GetItem(p, s) \notin Z
    <3>1. GetItem(p, s) \in Outgoing(p) /\ GetItem(p, s) \notin Handed(p, s - 1)
      BY <1>4, HandedStep
    <3> QED BY <1>1, <1>2, <1>3, <3>1 DEF Carried
  <2>3. Cardinality(X) + Cardinality(Y) <= Capacity[q]
    BY <1>1 DEF CanStoreItems
  <2> HIDE DEF X, Y, Z
  <2>4. Cardinality(Z) < Capacity[q]
    BY <1>1, <2>1, <2>2, <2>3, FreeSpace
  <2> QED BY <2>4 DEF Z
<1>5. ASSUME GetItem(q, s) # None PROVE Cardinality(Carried(h, p)) < Capacity[p]
  <2> DEFINE X == Carried(holder, p) \ Outgoing(p)
             Y == Outgoing(q)
             Z == Carried(h, p)
  <2>1. X \in SUBSET Items /\ Y \in SUBSET Items /\ Z \in SUBSET (X \union Y)
    BY <1>2, <1>3 DEF Carried
  <2>2. GetItem(q, s) \in Y /\ GetItem(q, s) \notin Z
    <3>1. GetItem(q, s) \in Outgoing(q) /\ GetItem(q, s) \notin Handed(q, s - 1)
      BY <1>1, <1>5, HandedStep
    <3> QED BY <1>1, <1>2, <1>3, <3>1 DEF Carried
  <2>3. Cardinality(X) + Cardinality(Y) <= Capacity[p]
    BY <1>1 DEF CanStoreItems
  <2> HIDE DEF X, Y, Z
  <2>4. Cardinality(Z) < Capacity[p]
    BY <1>1, <2>1, <2>2, <2>3, FreeSpace
  <2> QED BY <2>4 DEF Z
<1> QED BY <1>4, <1>5 DEF CanStoreItem

\* One step of moveItems carries the holders from one slot to the next.
LEMMA HalfwayStep ==
    ASSUME TradeInv, NEW p \in Players, Trading(p), NEW s \in 1 .. NumTraded,
           CanStoreItems(p), CanStoreItems(Trader(p))
    PROVE  Halfway(p, s) =
              Moved(Halfway(p, s - 1), p, GetItem(p, s), GetItem(Trader(p), s))
<1> DEFINE q    == Trader(p)
           h    == Halfway(p, s - 1)
           mine == GetItem(p, s)
           his  == GetItem(q, s)
<1>1. q \in Players /\ q # p /\ Trading(q) /\ Trader(q) = p /\ s - 1 \in 0 .. NumTraded
  BY Partners, TradeAssumption
<1>2. Moved(h, p, mine, his) = GivenTo(GivenTo(h, q, mine), p, his)
  BY RoomForBoth DEF Moved
<1>3. /\ Handed(p, s) = Handed(p, s - 1) \union ({mine} \ {None})
      /\ Handed(q, s) = Handed(q, s - 1) \union ({his} \ {None})
  BY <1>1, HandedStep
<1>4. /\ mine # None => mine \in Items /\ holder[mine] = p
      /\ his # None => his \in Items /\ holder[his] = q
      /\ \A i \in Handed(p, s - 1) : holder[i] = p
      /\ \A i \in Handed(q, s - 1) : holder[i] = q
  <2>1. s \in Slots
    BY DEF Slots, TradedSlots
  <2> QED BY <1>1, <2>1, ShownItem, HandedItems
<1>5. DOMAIN h = Items
  BY DEF Halfway
<1>6. GivenTo(GivenTo(h, q, mine), p, his) =
         [i \in Items |-> IF i = his /\ his # None THEN p
                          ELSE IF i = mine /\ mine # None THEN q ELSE h[i]]
  <2> HIDE DEF h, mine, his, q
  <2>1. h = [i \in Items |-> h[i]]
    BY <1>5 DEF h, Halfway
  <2>2. GivenTo(h, q, mine) = [i \in Items |-> IF i = mine /\ mine # None THEN q ELSE h[i]]
    BY <2>1 DEF GivenTo
  <2> QED BY <2>1, <2>2 DEF GivenTo
<1>7. \A i \in Items :
         Halfway(p, s)[i] = IF i = his /\ his # None THEN p
                            ELSE IF i = mine /\ mine # None THEN q ELSE h[i]
  BY <1>1, <1>3, <1>4 DEF Halfway
<1>8. Halfway(p, s) = [i \in Items |-> Halfway(p, s)[i]]
  BY DEF Halfway
<1> QED BY <1>2, <1>6, <1>7, <1>8

\* moveItems for every slot, in one formula
LEMMA TradedItems ==
    ASSUME TradeInv, NEW p \in Players, Trading(p), CanStoreItems(p), CanStoreItems(Trader(p))
    PROVE  Traded(p) = Halfway(p, NumTraded)
<1> DEFINE q       == Trader(p)
           removed == [i \in Items |->
                          IF i \in Outgoing(p) \union Outgoing(q) THEN None ELSE holder[i]]
           Is(f)   == f = [s \in 0 .. NumTraded |->
                              IF s = 0 THEN removed
                              ELSE Moved(f[s - 1], p, GetItem(p, s), GetItem(q, s))]
           closed  == [s \in 0 .. NumTraded |-> Halfway(p, s)]
           after   == CHOOSE f : Is(f)
<1>1. Traded(p) = after[NumTraded]
  BY DEF Traded
<1>2. NumTraded \in Nat /\ q \in Players /\ Trading(q)
  BY Partners, TradeAssumption
<1>3. Halfway(p, 0) = removed
  <2>1. 0 \in 0 .. NumTraded
    BY <1>2
  <2>2. Handed(p, 0) = {} /\ Handed(q, 0) = {}
    BY <1>2, <2>1, HandedItems
  <2> QED BY <2>2 DEF Halfway
<1>4. ASSUME NEW s \in 0 .. NumTraded, s # 0
      PROVE  s - 1 \in 0 .. NumTraded /\ s \in 1 .. NumTraded
  BY <1>2, <1>4
<1>5. ASSUME NEW s \in 0 .. NumTraded, s # 0
      PROVE  Halfway(p, s) = Moved(Halfway(p, s - 1), p, GetItem(p, s), GetItem(q, s))
  BY <1>4, <1>5, HalfwayStep
<1> HIDE DEF removed, q
<1>6. Is(closed)
  <2>1. ASSUME NEW s \in 0 .. NumTraded
        PROVE  Halfway(p, s) = IF s = 0 THEN removed
                               ELSE Moved(closed[s - 1], p, GetItem(p, s), GetItem(q, s))
    BY <1>3, <1>4, <1>5
  <2> QED BY <2>1
<1> HIDE DEF Is
<1>7. Is(after)
  BY <1>6
<1> HIDE DEF after
<1>8. \A s \in 0 .. NumTraded :
         after[s] = IF s = 0 THEN removed
                    ELSE Moved(after[s - 1], p, GetItem(p, s), GetItem(q, s))
  BY <1>7 DEF Is
<1>9. \A s \in 0 .. NumTraded : after[s] = Halfway(p, s)
  <2> DEFINE wrong == {s \in 0 .. NumTraded : after[s] # Halfway(p, s)}
  <2>1. SUFFICES ASSUME wrong # {} PROVE FALSE
    OBVIOUS
  <2>2. wrong \in SUBSET Nat
    BY <1>2
  <2>3. PICK s \in wrong : \A r \in wrong : s <= r
    <3> HIDE DEF wrong
    <3> QED BY <2>1, <2>2, LeastNumber
  <2>4. s # 0
    BY <1>2, <1>3, <1>8
  <2>5. s - 1 \in 0 .. NumTraded /\ s - 1 \notin wrong
    BY <1>4, <2>2, <2>3, <2>4
  <2>6. after[s - 1] = Halfway(p, s - 1)
    BY <2>5
  <2> QED BY <1>5, <1>8, <2>4, <2>6
<1> QED BY <1>1, <1>2, <1>9

-----------------------------------------------------------------------------
(* What the handlers do to the two TradeData. *)
Tables == [Players -> TradeDatas \union {None}]

\* p and q trade with each other
Traders(t, p, q) ==
    /\ t \in Tables /\ p \in Players /\ q \in Players /\ p # q
    /\ t[p] \in TradeDatas /\ t[q] \in TradeDatas
    /\ t[p].trader = q /\ t[q].trader = p

\* r offers what it offered, and accepts only if it did
SameOffer(t, u, r) ==
    /\ u[r].items = t[r].items /\ u[r].money = t[r].money /\ u[r].spell = t[r].spell
    /\ u[r].accepted => t[r].accepted

\* an edit, after which the offers are the same or nobody accepts them
Edit(t, u, p, q) ==
    /\ Traders(u, p, q) /\ \A r \in Players \ {p, q} : u[r] = t[r]
    /\ \/ ~u[p].accepted /\ ~u[q].accepted
       \/ SameOffer(t, u, p) /\ SameOffer(t, u, q)

\* The sign for no trade is neither a trade nor a contract.
LEMMA NoneIsNoRecord == None \notin TradeDatas /\ None \notin Contracts
BY NoneAssumption

\* Who trades has a partner who trades with him.
LEMMA TradersNow ==
    ASSUME TradeInv, NEW p \in Players, Trading(p)
    PROVE  Traders(m_trade, p, Trader(p))
BY Partners DEF Traders, Tables, TradeInv, TradeTypeOK, Trader

\* Two changes of a trade, one after the other, are one change.
LEMMA EditTransitive ==
    ASSUME NEW t, NEW u, NEW v, NEW p, NEW q, Edit(t, u, p, q), Edit(u, v, p, q)
    PROVE  Edit(t, v, p, q)
BY DEF Edit, SameOffer

\* TradeData::SetMoney withdraws both acceptances if it changes the offer.
LEMMA SetMoneyEdit ==
    ASSUME NEW t, NEW p, NEW q, Traders(t, p, q), NEW gold \in 0 .. MaxMoney
    PROVE  /\ Edit(t, SetMoney(t, p, gold), p, q)
           /\ SetMoney(t, p, gold)[p].items = t[p].items
           /\ SetMoney(t, p, gold)[q].items = t[q].items
<1> DEFINE u == SetMoney(t, p, gold)
<1>1. CASE t[p].money = gold
  <2>1. u = t
    BY <1>1 DEF SetMoney
  <2> QED BY <2>1 DEF Edit, SameOffer
<1>2. CASE t[p].money # gold
  <2>1. u = [t EXCEPT ![p].money = gold, ![p].accepted = FALSE, ![q].accepted = FALSE]
    BY <1>2 DEF SetMoney, Traders
  <2>2. u[p] = [t[p] EXCEPT !.money = gold, !.accepted = FALSE]
    BY <2>1 DEF Traders, Tables
  <2>3. u[q] = [t[q] EXCEPT !.accepted = FALSE]
    BY <2>1 DEF Traders, Tables
  <2>4. u[p] \in TradeDatas /\ u[q] \in TradeDatas
    BY <2>2, <2>3 DEF Traders, TradeDatas
  <2>5. u \in Tables /\ \A r \in Players \ {p, q} : u[r] = t[r]
    BY <2>1, <2>4 DEF Traders, Tables
  <2> QED BY <2>2, <2>3, <2>4, <2>5 DEF Edit, Traders, TradeDatas
<1> QED BY <1>1, <1>2

\* So does TradeData::SetSpell.
LEMMA SetSpellEdit ==
    ASSUME NEW t, NEW p, NEW q, Traders(t, p, q), NEW spell \in BOOLEAN
    PROVE  /\ Edit(t, SetSpell(t, p, spell), p, q)
           /\ SetSpell(t, p, spell)[p].items = t[p].items
           /\ SetSpell(t, p, spell)[q].items = t[q].items
           /\ t[p].spell # spell =>
                 /\ ~SetSpell(t, p, spell)[p].accepted
                 /\ ~SetSpell(t, p, spell)[q].accepted
<1> DEFINE u == SetSpell(t, p, spell)
<1>1. CASE t[p].spell = spell
  <2>1. u = t
    BY <1>1 DEF SetSpell
  <2> QED BY <1>1, <2>1 DEF Edit, SameOffer
<1>2. CASE t[p].spell # spell
  <2>1. u = [t EXCEPT ![p].spell = spell, ![p].accepted = FALSE, ![q].accepted = FALSE]
    BY <1>2 DEF SetSpell, Traders
  <2>2. u[p] = [t[p] EXCEPT !.spell = spell, !.accepted = FALSE]
    BY <2>1 DEF Traders, Tables
  <2>3. u[q] = [t[q] EXCEPT !.accepted = FALSE]
    BY <2>1 DEF Traders, Tables
  <2>4. u[p] \in TradeDatas /\ u[q] \in TradeDatas
    BY <2>2, <2>3 DEF Traders, TradeDatas
  <2>5. u \in Tables /\ \A r \in Players \ {p, q} : u[r] = t[r]
    BY <2>1, <2>4 DEF Traders, Tables
  <2> QED BY <2>2, <2>3, <2>4, <2>5 DEF Edit, Traders, TradeDatas
<1> QED BY <1>1, <1>2

\* its two calls
SpellOff(t, p) == SetSpell(t, p, FALSE)
SpellOn(t, p)  == SetSpell(t, p, TRUE)

\* So does the update of a spell that is no longer, or newly, cast on the slot.
LEMMA SpellEdit ==
    ASSUME NEW t, NEW p, NEW q, Traders(t, p, q)
    PROVE  /\ /\ Edit(t, SpellOff(t, p), p, q)
              /\ SpellOff(t, p)[p].items = t[p].items /\ SpellOff(t, p)[q].items = t[q].items
           /\ /\ Edit(t, SpellOn(t, p), p, q)
              /\ SpellOn(t, p)[p].items = t[p].items /\ SpellOn(t, p)[q].items = t[q].items
<1>1. \A b \in BOOLEAN :
         /\ Edit(t, SetSpell(t, p, b), p, q)
         /\ SetSpell(t, p, b)[p].items = t[p].items
         /\ SetSpell(t, p, b)[q].items = t[q].items
  BY SetSpellEdit
<1>2. FALSE \in BOOLEAN /\ TRUE \in BOOLEAN
  OBVIOUS
<1> QED BY <1>1, <1>2, Zenon DEF SpellOff, SpellOn

\* So does TradeData::SetItem.
LEMMA SetItemEdit ==
    ASSUME NEW t, NEW p, NEW q, Traders(t, p, q), NEW s \in Slots, NEW i \in Items \union {None}
    PROVE  /\ Edit(t, SetItem(t, p, s, i), p, q)
           /\ SetItem(t, p, s, i)[p].items = [t[p].items EXCEPT ![s] = i]
           /\ SetItem(t, p, s, i)[q].items = t[q].items
<1> DEFINE u == SetItem(t, p, s, i)
<1>1. CASE t[p].items[s] = i
  <2>1. u = t
    BY <1>1 DEF SetItem
  <2>2. t[p].items = [t[p].items EXCEPT ![s] = i]
    BY <1>1 DEF Traders, TradeDatas
  <2> QED BY <2>1, <2>2 DEF Edit, SameOffer
<1>2. CASE t[p].items[s] # i
  <2> DEFINE placed == [t EXCEPT ![p].items[s] = i, ![p].accepted = FALSE, ![q].accepted = FALSE]
             spelt  == IF s = NonTraded THEN SpellOff(placed, q) ELSE placed
  <2>0. PICK offered \in [Slots -> Items \union {None}] :
           offered = [t[p].items EXCEPT ![s] = i]
    BY DEF Traders, TradeDatas
  <2>1. placed[p] = [t[p] EXCEPT !.items = offered, !.accepted = FALSE]
    BY <2>0 DEF Traders, Tables
  <2>2. placed[q] = [t[q] EXCEPT !.accepted = FALSE]
    BY DEF Traders, Tables
  <2>3. placed \in [Players -> {placed[r] : r \in Players}]
        /\ \A r \in Players \ {p, q} : placed[r] = t[r]
    BY DEF Traders, Tables
  <2> HIDE DEF placed
  <2>4. placed[p] \in TradeDatas /\ placed[q] \in TradeDatas
    BY <2>0, <2>1, <2>2 DEF Traders, TradeDatas
  <2>5. /\ placed[p].items = offered /\ placed[q].items = t[q].items
        /\ placed[p].trader = q /\ placed[q].trader = p
        /\ ~placed[p].accepted /\ ~placed[q].accepted
    BY <2>1, <2>2 DEF Traders, TradeDatas
  <2>6. /\ Edit(t, placed, p, q) /\ Traders(placed, q, p) /\ Traders(placed, p, q)
        /\ placed[p].items = [t[p].items EXCEPT ![s] = i]
        /\ placed[q].items = t[q].items
    <3>1. placed \in Tables
      BY <2>3, <2>4 DEF Traders, Tables
    <3> QED BY <2>0, <2>3, <2>4, <2>5, <3>1 DEF Edit, Traders
  <2> HIDE DEF placed
  <2>7. /\ Edit(placed, spelt, p, q) /\ Traders(spelt, p, q)
        /\ spelt[p].items = placed[p].items /\ spelt[q].items = placed[q].items
    <3>1. CASE s = NonTraded
      <4>1. spelt = SpellOff(placed, q)
        BY <3>1
      <4>2. /\ Edit(placed, SpellOff(placed, q), q, p)
            /\ SpellOff(placed, q)[p].items = placed[p].items
            /\ SpellOff(placed, q)[q].items = placed[q].items
        BY <2>6, SpellEdit
      <4> HIDE DEF spelt
      <4> QED BY <4>1, <4>2 DEF Edit, Traders
    <3>2. CASE s # NonTraded
      BY <2>6, <3>2 DEF Edit, SameOffer
    <3> QED BY <3>1, <3>2
  <2>8. u = SpellOff(spelt, p)
    BY <1>2 DEF SetItem, placed, SpellOff, Traders
  <2> HIDE DEF spelt, u
  <2>9. /\ Edit(spelt, u, p, q)
        /\ u[p].items = spelt[p].items /\ u[q].items = spelt[q].items
    BY <2>7, <2>8, SpellEdit
  <2>10. Edit(t, u, p, q)
    <3>1. Edit(t, spelt, p, q)
      BY <2>6, <2>7, EditTransitive
    <3> QED BY <2>9, <3>1, EditTransitive
  <2> QED BY <2>6, <2>7, <2>9, <2>10 DEF u
<1> QED BY <1>1, <1>2

-----------------------------------------------------------------------------
(* TradeInv is inductive. *)
LEMMA TypesOfParts ==
    ASSUME TradeInv
    PROVE  /\ m_trade \in Tables /\ inWorld \in SUBSET Players
           /\ holder \in [Items -> Players \union {None}] /\ money \in [Players -> 0 .. MaxMoney]
           /\ MaxMoney \in Nat /\ None \notin TradeDatas
           /\ \A p \in Players : Capacity[p] \in Nat
BY TradeAssumption, NoneIsNoRecord DEF TradeInv, TradeTypeOK, Tables

\* A change of one offer keeps the invariant, if no item is in two of its slots.
LEMMA EditInv ==
    ASSUME TradeInv, NEW p \in Players, Trading(p), NEW q, q = Trader(p),
           Traders(m_trade', p, q), \A r \in Players \ {p, q} : m_trade'[r] = m_trade[r],
           UNCHANGED <<inWorld, holder, money>>, m_trade'[q].items = m_trade[q].items,
           \/ m_trade'[p].items = m_trade[p].items
           \/ \E s \in Slots, i \in Items \union {None} :
                 /\ m_trade'[p].items = [m_trade[p].items EXCEPT ![s] = i]
                 /\ i # None => \A r \in Slots : m_trade[p].items[r] # i
    PROVE  TradeInv'
<1>0. /\ Traders(m_trade, p, q) /\ q \in Players /\ None \notin TradeDatas
      /\ {p, q} \subseteq inWorld
  BY TradersNow, Partners, NoneIsNoRecord
<1>1. TradeTypeOK'
  BY DEF Traders, Tables, TradeTypeOK, TradeInv
<1>2. \A r \in Players : /\ Trading(r)' <=> Trading(r)
                         /\ Trading(r) => Trader(r)' = Trader(r)
  BY <1>0 DEF Traders, Trading, Trader
<1>3. Paired'
  <2>1. \A r \in Players : Trading(r) => Trader(r) \in Players
    BY Partners
  <2> QED BY <1>2, <2>1 DEF Paired, TradeInv
<1>4. OfferedOnce'
  <2>1. ASSUME NEW r \in Players, Trading(r)', m_trade'[r].items = m_trade[r].items
        PROVE  \A x, y \in Slots : x # y /\ m_trade'[r].items[x] # None =>
                  m_trade'[r].items[x] # m_trade'[r].items[y]
    BY <2>1, <1>2 DEF TradeInv, OfferedOnce
  <2>2. \A r \in Players \ {p} : m_trade'[r].items = m_trade[r].items
    OBVIOUS
  <2>3. ASSUME NEW s \in Slots, NEW i \in Items \union {None},
               m_trade'[p].items = [m_trade[p].items EXCEPT ![s] = i],
               i # None => \A r \in Slots : m_trade[p].items[r] # i
        PROVE  \A x, y \in Slots : x # y /\ m_trade'[p].items[x] # None =>
                  m_trade'[p].items[x] # m_trade'[p].items[y]
    <3>1. \A x \in Slots : m_trade'[p].items[x] = IF x = s THEN i ELSE m_trade[p].items[x]
      BY <2>3, <1>0 DEF Traders, TradeDatas
    <3>2. \A x, y \in Slots : x # y /\ m_trade[p].items[x] # None =>
             m_trade[p].items[x] # m_trade[p].items[y]
      BY DEF TradeInv, OfferedOnce
    <3> QED BY <2>3, <3>1, <3>2
  <2>4. ASSUME NEW r \in Players, Trading(r)'
        PROVE  \A x, y \in Slots : x # y /\ m_trade'[r].items[x] # None =>
                  m_trade'[r].items[x] # m_trade'[r].items[y]
    <3>1. CASE m_trade'[r].items = m_trade[r].items
      BY <2>1, <2>4, <3>1
    <3>2. CASE m_trade'[r].items # m_trade[r].items
      <4>1. r = p
        BY <2>2, <3>2
      <4>2. PICK s \in Slots, i \in Items \union {None} :
               /\ m_trade'[p].items = [m_trade[p].items EXCEPT ![s] = i]
               /\ i # None => \A x \in Slots : m_trade[p].items[x] # i
        BY <3>2, <4>1
      <4> QED BY <2>3, <4>1, <4>2
    <3> QED BY <3>1, <3>2
  <2> QED BY <2>4 DEF OfferedOnce
<1>5. WithinCapacity'
  BY DEF TradeInv, WithinCapacity, Carried
<1> QED BY <1>1, <1>3, <1>4, <1>5 DEF TradeInv

\* When a trade is cancelled, both sides are closed and nobody else's is touched.
LEMMA ClosedTable ==
    ASSUME TradeInv, NEW p \in Players, Trading(p), m_trade' = Closed(p)
    PROVE  /\ m_trade' \in Tables
           /\ ~Trading(p)' /\ m_trade'[Trader(p)] = None
           /\ \A r \in Players \ {p, Trader(p)} :
                 /\ m_trade'[r] = m_trade[r]
                 /\ Trading(r) => Trader(r) \notin {p, Trader(p)}
<1> DEFINE q == Trader(p)
<1>1. q \in Players /\ m_trade \in Tables /\ Trading(q) /\ q # p /\ Trader(q) = p
  BY Partners, TypesOfParts
<1>2. m_trade' = [m_trade EXCEPT ![p] = None, ![q] = None]
  BY DEF Closed
<1>3. \A r \in Players \ {p, q} : Trading(r) => Trader(r) \notin {p, q}
  BY <1>1, Partners
<1> QED BY <1>1, <1>2, <1>3 DEF Tables, Trading

\* what is left of TradeInv when a trade is closed
LEMMA CloseInv ==
    ASSUME TradeInv, NEW p \in Players, Trading(p), m_trade' = Closed(p),
           inWorld' \in {inWorld, inWorld \ {p}},
           holder' \in [Items -> Players \union {None}], money' \in [Players -> 0 .. MaxMoney],
           WithinCapacity'
    PROVE  TradeInv'
<1> DEFINE q == Trader(p)
<1>1. /\ m_trade' \in Tables /\ q \in Players
      /\ m_trade'[p] = None /\ m_trade'[q] = None
      /\ \A r \in Players \ {p, q} : m_trade'[r] = m_trade[r] /\ (Trading(r) => Trader(r) \notin {p, q})
  BY ClosedTable, Partners DEF Trading
<1> HIDE DEF q
<1>2. TradeTypeOK'
  BY <1>1, TypesOfParts DEF TradeTypeOK, Tables
<1>3. ASSUME NEW r \in Players, Trading(r)'
      PROVE  /\ r \notin {p, q} /\ Trading(r) /\ m_trade'[r] = m_trade[r]
             /\ Trader(r) \in Players \ {p, q}
             /\ r \in inWorld /\ Trader(r) \in inWorld /\ Trader(r) # r
             /\ Trading(Trader(r)) /\ Trader(Trader(r)) = r
  <2>1. r \notin {p, q} /\ Trading(r) /\ m_trade'[r] = m_trade[r]
    BY <1>1, <1>3 DEF Trading
  <2> QED BY <1>1, <2>1, Partners
<1>4. Paired'
  <2>1. \A r \in Players : Trading(r)' => m_trade'[Trader(r)] = m_trade[Trader(r)]
    BY <1>1, <1>3
  <2> QED BY <1>3, <2>1 DEF Paired, Trading, Trader
<1>5. OfferedOnce'
  BY <1>3 DEF TradeInv, OfferedOnce
<1> QED BY <1>2, <1>4, <1>5 DEF TradeInv

\* what p has is not more than before, or more by one where there was room
LEMMA CapacityStep ==
    ASSUME TradeInv, NEW p \in Players, NEW i \in Items,
           \/ holder' = [holder EXCEPT ![i] = None]
           \/ holder' = [holder EXCEPT ![i] = p] /\ CanStoreItem(holder, p, i)
    PROVE  WithinCapacity'
<1>1. holder \in [Items -> Players \union {None}] /\ None \notin Players /\ i # None
  BY TypesOfParts, TradeAssumption
<1>2. ASSUME NEW r \in Players
      PROVE  Cardinality(Carried(holder', r)) <= Capacity[r]
  <2>1. /\ Carried(holder, r) \in SUBSET Items /\ IsFiniteSet(Carried(holder, r))
        /\ Cardinality(Carried(holder, r)) \in Nat /\ Cardinality(Carried(holder, r)) <= Capacity[r]
        /\ Capacity[r] \in Nat
    <3>1. Carried(holder, r) \in SUBSET Items
      BY DEF Carried
    <3>2. IsFiniteSet(Carried(holder, r))
      BY <3>1, TradeAssumption, FS_Subset
    <3> QED BY <3>1, <3>2, FS_CardinalityType, TypesOfParts DEF TradeInv, WithinCapacity
  <2>2. \/ Carried(holder', r) \in SUBSET Carried(holder, r)
        \/ /\ r = p /\ CanStoreItem(holder, p, i)
           /\ Carried(holder', r) = Carried(holder, r) \union {i}
    BY <1>1 DEF Carried
  <2>3. CASE Carried(holder', r) \in SUBSET Carried(holder, r)
    <3>1. IsFiniteSet(Carried(holder', r)) /\ Cardinality(Carried(holder', r)) <= Cardinality(Carried(holder, r))
      BY <2>1, <2>3, FS_Subset
    <3>2. Cardinality(Carried(holder', r)) \in Nat
      BY <3>1, FS_CardinalityType
    <3> QED BY <2>1, <3>1, <3>2
  <2>4. CASE /\ r = p /\ CanStoreItem(holder, p, i)
             /\ Carried(holder', r) = Carried(holder, r) \union {i}
    <3>1. Cardinality(Carried(holder, r)) < Capacity[r]
      BY <1>1, <2>4 DEF CanStoreItem
    <3>2. \/ Cardinality(Carried(holder', r)) = Cardinality(Carried(holder, r))
          \/ Cardinality(Carried(holder', r)) = Cardinality(Carried(holder, r)) + 1
      BY <2>1, <2>4, FS_AddElement
    <3> QED BY <2>1, <3>1, <3>2
  <2> QED BY <2>2, <2>3, <2>4
<1> QED BY <1>2 DEF WithinCapacity, Carried

\* a swap leaves everybody with no more than he can carry
LEMMA SwapCapacity ==
    ASSUME TradeInv, NEW p \in Players, Trading(p), CanStoreItems(p), CanStoreItems(Trader(p)),
           holder' = Traded(p)
    PROVE  WithinCapacity' /\ holder' \in [Items -> Players \union {None}]
<1> DEFINE q == Trader(p)
           h == Halfway(p, NumTraded)
<1>0. /\ q \in Players /\ q # p /\ Trading(q) /\ Trader(q) = p /\ NumTraded \in 0 .. NumTraded
      /\ holder \in [Items -> Players \union {None}]
      /\ \A r \in Players : Capacity[r] \in Nat
  BY Partners, TradeAssumption, TypesOfParts
<1>1. holder' = h
  BY TradedItems
<1>2. /\ Carried(h, q) = (Carried(holder, q) \ Outgoing(q)) \union Handed(p, NumTraded)
      /\ Carried(h, p) = (Carried(holder, p) \ Outgoing(p)) \union Handed(q, NumTraded)
      /\ \A r \in Players \ {p, q} : Carried(h, r) = Carried(holder, r)
  BY <1>0, CarriedHalfway
<1>3. /\ Handed(p, NumTraded) = Outgoing(p) /\ Outgoing(p) \subseteq Items
      /\ Handed(q, NumTraded) = Outgoing(q) /\ Outgoing(q) \subseteq Items
  BY <1>0, HandedItems
<1>4. h \in [Items -> Players \union {None}]
  BY <1>0 DEF Halfway
<1> HIDE DEF q, h
<1>5. Cardinality(Carried(h, q)) <= Capacity[q]
  <2> DEFINE X == Carried(holder, q) \ Outgoing(q)
             Y == Outgoing(p)
             Z == Carried(h, q)
  <2>1. X \in SUBSET Items /\ Y \in SUBSET Items /\ Z \in SUBSET (X \union Y)
    BY <1>2, <1>3 DEF Carried
  <2>2. Cardinality(X) + Cardinality(Y) <= Capacity[q]
    BY <1>0 DEF CanStoreItems, q
  <2> HIDE DEF X, Y, Z
  <2>3. Cardinality(Z) <= Capacity[q]
    BY <1>0, <2>1, <2>2, FreeSpace
  <2> QED BY <2>3 DEF Z
<1>6. Cardinality(Carried(h, p)) <= Capacity[p]
  <2> DEFINE X == Carried(holder, p) \ Outgoing(p)
             Y == Outgoing(q)
             Z == Carried(h, p)
  <2>1. X \in SUBSET Items /\ Y \in SUBSET Items /\ Z \in SUBSET (X \union Y)
    BY <1>2, <1>3 DEF Carried
  <2>2. Cardinality(X) + Cardinality(Y) <= Capacity[p]
    BY <1>0 DEF CanStoreItems, q
  <2> HIDE DEF X, Y, Z
  <2>3. Cardinality(Z) <= Capacity[p]
    BY <1>0, <2>1, <2>2, FreeSpace
  <2> QED BY <2>3 DEF Z
<1>7. \A r \in Players : Cardinality(Carried(h, r)) <= Capacity[r]
  BY <1>2, <1>5, <1>6 DEF TradeInv, WithinCapacity
<1> QED BY <1>1, <1>4, <1>7 DEF WithinCapacity, Carried

\* the handlers that change no offer but the sum, the spell or an acceptance
Accepts(p) ==
    \/ UnacceptTrade(p) \/ AcceptTradeRefused(p) \/ AcceptTradePoor(p) \/ AcceptTradeFirst(p)
    \/ AcceptTradeSpellFails(p) \/ AcceptTradeNoSpace(p)

Edits(p) ==
    \/ CastOnTradeSlot(p)
    \/ \E gold \in 0 .. MaxMoney : SetTradeGold(p, gold)
    \/ \E s \in Slots : ClearTradeItem(p, s)
    \/ \E i \in Items, s \in Slots : SetTradeItem(p, s, i)

\* An item that moves in the inventory is an edit of the trade it was offered in.
LEMMA TouchedEdit ==
    ASSUME TradeInv, NEW p \in Players, Trading(p)
    PROVE  /\ Edit(m_trade, Touched(p), p, Trader(p))
           /\ \A r \in Players : Touched(p)[r] # None <=> Trading(r)
           /\ Touched(p)[p] = m_trade[p]
           /\ Touched(p)[Trader(p)].items = m_trade[Trader(p)].items
<1> DEFINE q == Trader(p)
           u == Touched(p)
<1>1. Traders(m_trade, p, q) /\ None \notin TradeDatas
  BY TradersNow, NoneIsNoRecord
<1>2. u = [m_trade EXCEPT ![q].accepted = FALSE]
  BY DEF Touched
<1> HIDE DEF u, q
<1>3. u[q] = [m_trade[q] EXCEPT !.accepted = FALSE] /\ \A r \in Players \ {q} : u[r] = m_trade[r]
  BY <1>1, <1>2 DEF Traders, Tables
<1>4. u[q] \in TradeDatas /\ u[q].trader = p /\ ~u[q].accepted
      /\ u[q].items = m_trade[q].items /\ u[q].money = m_trade[q].money /\ u[q].spell = m_trade[q].spell
  BY <1>1, <1>3 DEF Traders, TradeDatas
<1>5. u \in Tables
  BY <1>1, <1>2, <1>3, <1>4 DEF Traders, Tables
<1>6. Edit(m_trade, u, p, q)
  BY <1>1, <1>3, <1>4, <1>5 DEF Edit, Traders, SameOffer
<1> QED BY <1>1, <1>3, <1>4, <1>6 DEF Trading, Traders, u, q

\* a handler that changes an offer
LEMMA EditsStep ==
    ASSUME TradeInv, NEW p \in Players, Edits(p)
    PROVE  /\ Trading(p) /\ Edit(m_trade, m_trade', p, Trader(p))
           /\ UNCHANGED <<inWorld, holder, money>>
           /\ m_trade'[Trader(p)].items = m_trade[Trader(p)].items
           /\ \/ m_trade'[p].items = m_trade[p].items
              \/ \E s \in Slots, i \in Items \union {None} :
                    /\ m_trade'[p].items = [m_trade[p].items EXCEPT ![s] = i]
                    /\ i # None => \A r \in Slots : m_trade[p].items[r] # i
<1>1. Trading(p) /\ UNCHANGED <<inWorld, holder, money>>
  BY DEF Edits, CastOnTradeSlot, SetTradeGold, ClearTradeItem, SetTradeItem
<1> DEFINE q == Trader(p)
           u == Touched(p)
<1>2. /\ Traders(m_trade, p, q) /\ Edit(m_trade, u, p, q) /\ Traders(u, p, q)
      /\ u[p].items = m_trade[p].items /\ u[q].items = m_trade[q].items
  BY <1>1, TradersNow, TouchedEdit DEF Edit
<1> HIDE DEF u, q
<1>3. CASE CastOnTradeSlot(p)
  <2>1. m_trade' = SpellOn(m_trade, p)
    BY <1>3 DEF CastOnTradeSlot, SpellOn
  <2> QED BY <1>1, <1>2, <2>1, SpellEdit DEF q
<1>4. CASE \E gold \in 0 .. MaxMoney : SetTradeGold(p, gold)
  <2>1. PICK gold \in 0 .. MaxMoney : m_trade' = SetMoney(u, p, gold)
    BY <1>4 DEF SetTradeGold, u
  <2>2. /\ Edit(u, m_trade', p, q)
        /\ m_trade'[p].items = u[p].items /\ m_trade'[q].items = u[q].items
    BY <1>2, <2>1, SetMoneyEdit
  <2> QED BY <1>1, <1>2, <2>2, EditTransitive DEF q
<1>5. ASSUME NEW s \in Slots, NEW i \in Items \union {None}, m_trade' = SetItem(u, p, s, i)
      PROVE  /\ Edit(m_trade, m_trade', p, q)
             /\ m_trade'[p].items = [m_trade[p].items EXCEPT ![s] = i]
             /\ m_trade'[q].items = m_trade[q].items
  <2>1. /\ Edit(u, m_trade', p, q)
        /\ m_trade'[p].items = [u[p].items EXCEPT ![s] = i]
        /\ m_trade'[q].items = u[q].items
    BY <1>2, <1>5, SetItemEdit
  <2> QED BY <1>2, <2>1, EditTransitive
<1>6. CASE \E s \in Slots : ClearTradeItem(p, s)
  <2>1. PICK s \in Slots : m_trade' = SetItem(u, p, s, None)
    BY <1>6 DEF ClearTradeItem, u
  <2>2. None \in Items \union {None}
    OBVIOUS
  <2> QED BY <1>1, <1>5, <2>1, <2>2 DEF q
<1>7. CASE \E i \in Items, s \in Slots : SetTradeItem(p, s, i)
  <2>1. PICK i \in Items, s \in Slots :
           m_trade' = SetItem(u, p, s, i) /\ \A r \in Slots : m_trade[p].items[r] # i
    BY <1>7 DEF SetTradeItem, u
  <2> QED BY <1>1, <1>5, <2>1 DEF q
<1> QED BY <1>3, <1>4, <1>6, <1>7 DEF Edits

\* only acceptances change
Flagged(t, u, p, q) ==
    /\ u = [r \in Players |-> u[r]]
    /\ \A r \in Players \ {p, q} : u[r] = t[r]
    /\ \A r \in {p, q} : \/ u[r] = t[r]
                         \/ u[r] = [t[r] EXCEPT !.accepted = FALSE]
                         \/ u[r] = [t[r] EXCEPT !.accepted = TRUE]

\* Steps that set flags only leave the offers as they are.
LEMMA Flags ==
    ASSUME NEW t, NEW p, NEW q, NEW u, Traders(t, p, q), Flagged(t, u, p, q)
    PROVE  /\ Traders(u, p, q)
           /\ \A r \in {p, q} :
                 u[r].items = t[r].items /\ u[r].money = t[r].money /\ u[r].spell = t[r].spell
<1>1. ASSUME NEW r \in {p, q}
      PROVE  /\ u[r] \in TradeDatas /\ u[r].trader = t[r].trader
             /\ u[r].items = t[r].items /\ u[r].money = t[r].money /\ u[r].spell = t[r].spell
  <2>1. t[r] \in TradeDatas
    BY DEF Traders
  <2>2. CASE u[r] = t[r] BY <2>1, <2>2
  <2>3. CASE u[r] = [t[r] EXCEPT !.accepted = FALSE] BY <2>1, <2>3 DEF TradeDatas
  <2>4. CASE u[r] = [t[r] EXCEPT !.accepted = TRUE] BY <2>1, <2>4 DEF TradeDatas
  <2> QED BY <2>2, <2>3, <2>4 DEF Flagged
<1>2. u \in Tables
  <2>1. \A r \in Players : u[r] \in TradeDatas \union {None}
    BY <1>1 DEF Traders, Tables, Flagged
  <2> QED BY <2>1 DEF Tables, Flagged
<1> QED BY <1>1, <1>2 DEF Traders

\* a handler that only changes acceptances, or a spell and both acceptances
LEMMA AcceptsStep ==
    ASSUME TradeInv, NEW p \in Players, Accepts(p)
    PROVE  /\ Trading(p) /\ Traders(m_trade', p, Trader(p))
           /\ \A r \in Players \ {p, Trader(p)} : m_trade'[r] = m_trade[r]
           /\ UNCHANGED <<inWorld, holder, money>>
           /\ m_trade'[p].items = m_trade[p].items
           /\ m_trade'[Trader(p)].items = m_trade[Trader(p)].items
           /\ \/ ~m_trade'[p].accepted /\ ~m_trade'[Trader(p)].accepted
              \/ /\ \A r \in {p, Trader(p)} : /\ m_trade'[r].money = m_trade[r].money
                                              /\ m_trade'[r].spell = m_trade[r].spell
                 /\ m_trade'[Trader(p)].accepted => m_trade[Trader(p)].accepted
<1>1. Trading(p) /\ UNCHANGED <<inWorld, holder, money>>
  BY DEF Accepts, UnacceptTrade, AcceptTradeRefused, AcceptTradePoor, AcceptTradeFirst,
         AcceptTradeSpellFails, AcceptTradeNoSpace, Payable, Both
<1> DEFINE q == Trader(p)
           a == Accepting(p)
<1>2. Traders(m_trade, p, q)
  BY <1>1, TradersNow
<1> HIDE DEF q
<1>3. ASSUME Flagged(m_trade, m_trade', p, q)
      PROVE  /\ Traders(m_trade', p, q)
             /\ \A r \in {p, q} :
                   /\ m_trade'[r].items = m_trade[r].items /\ m_trade'[r].money = m_trade[r].money
                   /\ m_trade'[r].spell = m_trade[r].spell
  BY <1>2, <1>3, Flags
<1>4. CASE UnacceptTrade(p) \/ AcceptTradeRefused(p) \/ AcceptTradeFirst(p)
  <2>1. /\ \A r \in Players \ {p, q} : m_trade'[r] = m_trade[r]
        /\ m_trade' = [r \in Players |-> m_trade'[r]]
        /\ \/ m_trade'[p] = [m_trade[p] EXCEPT !.accepted = FALSE]
           \/ m_trade'[p] = [m_trade[p] EXCEPT !.accepted = TRUE]
        /\ m_trade'[q] = m_trade[q]
    BY <1>2, <1>4 DEF UnacceptTrade, AcceptTradeRefused, AcceptTradeFirst, Accepting, Traders, Tables
  <2> QED BY <1>1, <1>3, <2>1 DEF Flagged, q
<1>5. CASE AcceptTradePoor(p)
  <2>1. /\ \A r \in Players \ {p, q} : m_trade'[r] = m_trade[r]
        /\ m_trade' = [r \in Players |-> m_trade'[r]]
        /\ \/ /\ m_trade'[p] = [m_trade[p] EXCEPT !.accepted = FALSE]
              /\ m_trade'[q] = m_trade[q]
           \/ /\ m_trade'[p] = [m_trade[p] EXCEPT !.accepted = TRUE]
              /\ m_trade'[q] = [m_trade[q] EXCEPT !.accepted = FALSE]
    BY <1>2, <1>5 DEF AcceptTradePoor, Accepting, Traders, Tables, q
  <2>2. m_trade'[q].accepted => m_trade[q].accepted
    BY <1>2, <2>1 DEF Traders, TradeDatas
  <2> QED BY <1>1, <1>3, <2>1, <2>2 DEF Flagged, q
<1>6. CASE AcceptTradeNoSpace(p)
  <2>1. /\ \A r \in Players \ {p, q} : m_trade'[r] = m_trade[r]
        /\ m_trade' = [r \in Players |-> m_trade'[r]]
        /\ m_trade'[p] = [m_trade[p] EXCEPT !.accepted = FALSE]
        /\ m_trade'[q] = [m_trade[q] EXCEPT !.accepted = FALSE]
    BY <1>2, <1>6 DEF AcceptTradeNoSpace, Traders, Tables, q
  <2>2. m_trade'[q].accepted => m_trade[q].accepted
    BY <1>2, <2>1 DEF Traders, TradeDatas
  <2> QED BY <1>1, <1>3, <2>1, <2>2 DEF Flagged, q
<1>7. CASE AcceptTradeSpellFails(p)
  <2>1. /\ \A r \in Players \ {p, q} : a[r] = m_trade[r]
        /\ a = [r \in Players |-> a[r]]
        /\ a[p] = [m_trade[p] EXCEPT !.accepted = TRUE] /\ a[q] = m_trade[q]
    BY <1>2 DEF Accepting, Traders, Tables
  <2> HIDE DEF a
  <2>2. /\ Traders(a, p, q)
        /\ \A r \in {p, q} : a[r].items = m_trade[r].items /\ a[r].spell = m_trade[r].spell
    <3>1. Flagged(m_trade, a, p, q)
      BY <2>1 DEF Flagged
    <3> QED BY <1>2, <3>1, Flags
  <2>3. PICK c \in {p, q} : m_trade[c].spell /\ m_trade' = SpellOff(a, c)
    BY <1>7 DEF AcceptTradeSpellFails, SpellOff, a, q
  <2>4. Traders(a, q, p) /\ a[c].spell
    BY <2>2, <2>3 DEF Traders
  <2>5. ~SpellOff(a, c)[p].accepted /\ ~SpellOff(a, c)[q].accepted
    <3>1. SpellOff(a, c) = [a EXCEPT ![c].spell = FALSE, ![c].accepted = FALSE,
                                     ![a[c].trader].accepted = FALSE]
      BY <2>4 DEF SpellOff, SetSpell
    <3> QED BY <2>2, <2>3, <3>1 DEF Traders, Tables, TradeDatas
  <2>6. /\ Traders(SpellOff(a, c), p, q)
        /\ \A r \in Players \ {p, q} : SpellOff(a, c)[r] = a[r]
        /\ SpellOff(a, c)[p].items = a[p].items /\ SpellOff(a, c)[q].items = a[q].items
    <3>1. CASE c = p BY <2>2, <3>1, SpellEdit DEF Edit
    <3>2. CASE c = q BY <2>4, <3>2, SpellEdit DEF Edit, Traders
    <3> QED BY <2>3, <3>1, <3>2
  <2> QED BY <1>1, <2>1, <2>2, <2>3, <2>5, <2>6 DEF q
<1> QED BY <1>4, <1>5, <1>6, <1>7 DEF Accepts

\* A trade begins between two players who are not trading.
LEMMA OpenStep ==
    ASSUME TradeInv, NEW p \in Players, NEW q \in Players, InitiateTrade(p, q)
    PROVE  /\ TradeInv' /\ UNCHANGED <<holder, money>> /\ ~Trading(p) /\ ~Trading(q)
           /\ \A r \in Players \ {p, q} :
                 m_trade'[r] = m_trade[r] /\ (Trading(r) => Trader(r) \notin {p, q})
           /\ ~m_trade'[p].accepted /\ ~m_trade'[q].accepted
<1>1. /\ m_trade \in Tables /\ p # q /\ None \notin TradeDatas /\ UNCHANGED <<inWorld, holder, money>>
      /\ {p, q} \subseteq inWorld /\ ~Trading(p) /\ ~Trading(q)
  BY TypesOfParts DEF InitiateTrade
<1>2. m_trade'[p] = NewTrade(q) /\ m_trade'[q] = NewTrade(p)
      /\ \A r \in Players \ {p, q} : m_trade'[r] = m_trade[r]
  BY <1>1 DEF InitiateTrade, Tables
<1>3. ASSUME NEW r \in Players
      PROVE  /\ NewTrade(r) \in TradeDatas /\ NewTrade(r).trader = r /\ ~NewTrade(r).accepted
             /\ \A s \in Slots : NewTrade(r).items[s] = None
  BY TradeAssumption DEF NewTrade, TradeDatas
<1>4. \A r \in Players \ {p, q} : Trading(r) => Trader(r) \notin {p, q}
  BY <1>1, Partners
<1>5. m_trade' \in Tables
  BY <1>1, <1>2, <1>3 DEF InitiateTrade, Tables
<1>6. ASSUME NEW r \in Players, Trading(r)'
      PROVE  \/ r = p /\ Trader(r)' = q
             \/ r = q /\ Trader(r)' = p
             \/ r \notin {p, q} /\ Trading(r) /\ Trader(r)' = Trader(r) /\ Trader(r) \in Players \ {p, q}
  <2>1. CASE r \in {p, q}
    BY <1>2, <1>3, <2>1 DEF Trader
  <2>2. CASE r \notin {p, q}
    <3>1. Trading(r) /\ m_trade'[r] = m_trade[r]
      BY <1>2, <1>6, <2>2 DEF Trading
    <3> QED BY <1>4, <2>2, <3>1, Partners DEF Trader
  <2> QED BY <2>1, <2>2
<1>7. Paired'
  <2>1. \A r \in {p, q} : m_trade'[r] # None
    BY <1>1, <1>2, <1>3
  <2>2. ASSUME NEW r \in Players, Trading(r)'
        PROVE  /\ {r, Trader(r)'} \subseteq inWorld' /\ Trader(r)' # r
               /\ m_trade'[Trader(r)'] # None /\ m_trade'[Trader(r)'].trader = r
    <3>1. CASE r \in {p, q}
      BY <1>1, <1>2, <1>3, <1>6, <2>1, <2>2, <3>1
    <3>2. CASE r \notin {p, q}
      <4>1. /\ Trading(r) /\ Trader(r)' = Trader(r) /\ Trader(r) \in Players \ {p, q}
        BY <1>6, <2>2, <3>2
      <4>2. /\ Trader(r) # r /\ {r, Trader(r)} \subseteq inWorld
            /\ Trading(Trader(r)) /\ Trader(Trader(r)) = r
        BY <4>1, Partners
      <4>3. m_trade'[Trader(r)] = m_trade[Trader(r)]
        BY <1>2, <4>1
      <4>4. m_trade[Trader(r)] # None /\ m_trade[Trader(r)].trader = r
        BY <4>2 DEF Trading, Trader
      <4> QED BY <1>1, <4>1, <4>2, <4>3, <4>4
    <3> QED BY <3>1, <3>2
  <2> QED BY <2>2 DEF Paired, Trading, Trader
<1>8. OfferedOnce'
  <2>1. ASSUME NEW r \in Players, Trading(r)'
        PROVE  \A x, y \in Slots : x # y /\ m_trade'[r].items[x] # None =>
                  m_trade'[r].items[x] # m_trade'[r].items[y]
    <3>1. CASE r \in {p, q}
      BY <1>2, <1>3, <3>1
    <3>2. CASE r \notin {p, q}
      BY <1>2, <1>6, <2>1, <3>2 DEF TradeInv, OfferedOnce
    <3> QED BY <3>1, <3>2
  <2> QED BY <2>1 DEF OfferedOnce
<1>9. TradeTypeOK' /\ WithinCapacity'
  BY <1>1, <1>5 DEF TradeInv, TradeTypeOK, Tables, WithinCapacity, Carried
<1> QED BY <1>1, <1>2, <1>3, <1>4, <1>7, <1>8, <1>9 DEF TradeInv

\* Money above the maximum is lost in the sum.
LEMMA Sums ==
    ASSUME NEW m \in 0 .. MaxMoney, NEW out \in 0 .. MaxMoney, NEW in \in 0 .. MaxMoney, out <= m
    PROVE  /\ Plus(Minus(m, out), in) = IF m - out + in > MaxMoney THEN MaxMoney ELSE m - out + in
           /\ Plus(Minus(m, out), in) \in 0 .. MaxMoney
BY TradeAssumption DEF Plus, Minus

\* An accepted trade keeps the invariant.
LEMMA SwapInv ==
    ASSUME TradeInv, NEW p \in Players, AcceptTrade(p)
    PROVE  TradeInv'
<1> DEFINE q == Trader(p)
<1>1. /\ Trading(p) /\ CanStoreItems(p) /\ CanStoreItems(q) /\ holder' = Traded(p)
      /\ m_trade' = Closed(p) /\ inWorld' = inWorld
      /\ m_trade[p].money <= money[p] /\ m_trade[q].money <= money[q]
      /\ money' = [money EXCEPT
                     ![p] = Plus(Minus(@, m_trade[p].money), m_trade[q].money),
                     ![q] = Plus(Minus(@, m_trade[q].money), m_trade[p].money)]
  BY DEF AcceptTrade, Both, Payable, CanPay
<1>2. /\ Traders(m_trade, p, q) /\ money \in [Players -> 0 .. MaxMoney]
      /\ m_trade[p].money \in 0 .. MaxMoney /\ m_trade[q].money \in 0 .. MaxMoney
  BY <1>1, TradersNow, TypesOfParts DEF Traders, TradeDatas
<1> HIDE DEF q
<1>3. money' \in [Players -> 0 .. MaxMoney]
  <2>1. /\ Plus(Minus(money[p], m_trade[p].money), m_trade[q].money) \in 0 .. MaxMoney
        /\ Plus(Minus(money[q], m_trade[q].money), m_trade[p].money) \in 0 .. MaxMoney
    BY <1>1, <1>2, Sums DEF Traders
  <2> QED BY <1>1, <1>2, <2>1 DEF Traders
<1>4. WithinCapacity' /\ holder' \in [Items -> Players \union {None}]
  BY <1>1, SwapCapacity DEF q
<1> QED BY <1>1, <1>3, <1>4, CloseInv

\* Every step of Trade keeps the invariant.
LEMMA InvStep ==
    ASSUME TradeInv, [TradeNext]_tradeVars
    PROVE  TradeInv'
<1>1. ASSUME NEW p \in Players, Edits(p) PROVE TradeInv'
  BY <1>1, EditsStep, EditInv DEF Edit
<1>2. ASSUME NEW p \in Players, Accepts(p) PROVE TradeInv'
  BY <1>2, AcceptsStep, EditInv
<1>3. ASSUME NEW p \in Players, NEW q \in Players, InitiateTrade(p, q) PROVE TradeInv'
  BY <1>3, OpenStep
<1>4. ASSUME UNCHANGED holder PROVE WithinCapacity'
  BY <1>4 DEF TradeInv, WithinCapacity, Carried
<1>5. ASSUME NEW p \in Players, TradeCancel(p) PROVE TradeInv'
  <2>1. /\ Trading(p) /\ m_trade' = Closed(p) /\ inWorld' = inWorld
        /\ UNCHANGED <<holder, money>>
    BY <1>5 DEF TradeCancel
  <2> QED BY <1>4, <2>1, CloseInv, TypesOfParts
<1>6. ASSUME NEW p \in Players, RemoveFromWorld(p) PROVE TradeInv'
  <2>1. m_trade' = Closed(p) /\ inWorld' = inWorld \ {p} /\ UNCHANGED <<holder, money>>
    BY <1>6 DEF RemoveFromWorld
  <2>2. CASE Trading(p)
    BY <1>4, <2>1, <2>2, CloseInv, TypesOfParts
  <2>3. CASE ~Trading(p)
    <3>1. m_trade' = m_trade
      BY <2>1, <2>3 DEF Closed
    <3>2. \A r \in Players : Trading(r) => r # p /\ Trader(r) # p
      BY <2>3, Partners
    <3>3. Paired'
      BY <2>1, <3>1, <3>2 DEF TradeInv, Paired, Trading, Trader
    <3> QED BY <1>4, <2>1, <3>1, <3>3 DEF TradeInv, TradeTypeOK, OfferedOnce, Trading
  <2> QED BY <2>2, <2>3
<1>7. ASSUME NEW p \in Players, AddToWorld(p) PROVE TradeInv'
  <2>1. inWorld' = inWorld \union {p} /\ UNCHANGED <<holder, money, m_trade>>
    BY <1>7 DEF AddToWorld
  <2>2. Paired'
    BY <2>1 DEF TradeInv, Paired, Trading, Trader
  <2> QED BY <1>4, <2>1, <2>2 DEF TradeInv, TradeTypeOK, OfferedOnce, Trading
<1>8. ASSUME UNCHANGED <<inWorld, m_trade>>, WithinCapacity',
             holder' \in [Items -> Players \union {None}], money' \in [Players -> 0 .. MaxMoney]
      PROVE  TradeInv'
  BY <1>8 DEF TradeInv, TradeTypeOK, Paired, OfferedOnce, Trading, Trader
<1>9. ASSUME NEW p \in Players, NEW i \in Items, ItemLeaves(p, i) \/ ItemComes(p, i) PROVE TradeInv'
  <2>1. /\ UNCHANGED <<inWorld, money, m_trade>>
        /\ \/ holder' = [holder EXCEPT ![i] = None]
           \/ holder' = [holder EXCEPT ![i] = p] /\ CanStoreItem(holder, p, i)
    BY <1>9 DEF ItemLeaves, ItemComes
  <2>2. WithinCapacity'
    BY <2>1, CapacityStep
  <2>3. holder' \in [Items -> Players \union {None}]
    BY <2>1, TypesOfParts
  <2> QED BY <1>8, <2>1, <2>2, <2>3, TypesOfParts
<1>10. ASSUME NEW p \in Players, Spend(p) PROVE TradeInv'
  <2>1. UNCHANGED <<inWorld, holder, m_trade>> /\ money' = [money EXCEPT ![p] = money[p] - 1] /\ money[p] > 0
    BY <1>10 DEF Spend
  <2>2. money' \in [Players -> 0 .. MaxMoney]
    BY <2>1, TypesOfParts
  <2> QED BY <1>4, <1>8, <2>1, <2>2, TypesOfParts
<1>11. CASE UNCHANGED tradeVars
  BY <1>4, <1>8, <1>11, TypesOfParts DEF tradeVars
<1>12. ASSUME TradeNext PROVE TradeInv'
  <2>1. PICK p \in Players :
           \/ TradeCancel(p) \/ RemoveFromWorld(p) \/ AddToWorld(p) \/ AcceptTrade(p) \/ Spend(p)
           \/ Edits(p) \/ Accepts(p)
           \/ \E q \in Players : InitiateTrade(p, q)
           \/ \E i \in Items : ItemLeaves(p, i) \/ ItemComes(p, i)
    BY <1>12 DEF TradeNext, Edits, Accepts
  <2> QED BY <1>1, <1>2, <1>3, <1>5, <1>6, <1>7, <1>9, <1>10, <2>1, SwapInv
<1> QED BY <1>11, <1>12

\* The invariant holds when nobody trades.
LEMMA InvInit == TradeInit => TradeInv
<1> SUFFICES ASSUME TradeInit PROVE TradeInv
  OBVIOUS
<1>1. TradeTypeOK
  BY TradeAssumption DEF TradeInit, TradeTypeOK
<1>2. WithinCapacity
  BY TradeAssumption DEF TradeInit, WithinCapacity, Carried
<1> QED BY <1>1, <1>2 DEF TradeInit, TradeInv, Paired, OfferedOnce, Trading

\* Whoever trades has a partner in the world who trades with it and nobody else,
\* no item is in two slots, and no swap overfills a bag, for any number of
\* players, slots and items.
THEOREM TradeInvariant == TradeSpec => []TradeInv
<1>1. TradeInv /\ [TradeNext]_tradeVars => TradeInv'
  BY InvStep
<1> QED BY <1>1, InvInit, PTL DEF TradeSpec

-----------------------------------------------------------------------------
(* A trade implements Exchange. *)

\* what r agrees to, if it does
Contract(r) == [partner |-> Trader(r), mine |-> Offer(r), theirs |-> Offer(Trader(r))]

Agreed == [r \in Players |->
              IF Trading(r) /\ m_trade[r].accepted
              THEN [partner |-> Trader(r), mine |-> Offer(r), theirs |-> Offer(Trader(r))]
              ELSE None]

\* What two traders may agree on.
LEMMA ContractType ==
    ASSUME TradeInv, NEW r \in Players, Trading(r)
    PROVE  Contract(r) # None /\ Contract(r) \in Contracts
<1>1. ASSUME NEW x \in Players, m_trade[x] \in TradeDatas
      PROVE  Offer(x) \in Offers
  <2>1. /\ m_trade[x].items \in [Slots -> Items \union {None}] /\ m_trade[x].money \in 0 .. MaxMoney
        /\ m_trade[x].spell \in BOOLEAN /\ NonTraded \in Slots /\ TradedSlots \subseteq Slots
    BY <1>1 DEF TradeDatas, Slots
  <2>2. {m_trade[x].items[s] : s \in TradedSlots} \ {None} \in SUBSET Items
    BY <2>1
  <2>3. <<m_trade[x].items[NonTraded], m_trade[x].spell>> \in (Items \union {None}) \X BOOLEAN
    BY <2>1
  <2> QED BY <2>1, <2>2, <2>3 DEF Offer, Offers
<1>2. Offer(r) \in Offers /\ Offer(Trader(r)) \in Offers /\ Trader(r) \in Players
  BY <1>1, Partners
<1>3. Contract(r) \in Contracts
  BY <1>2 DEF Contract, Contracts
<1> QED BY <1>3, NoneIsNoRecord

\* Who has accepted has agreed to both offers as they are.
LEMMA AgreedIs ==
    ASSUME NEW r \in Players
    PROVE  /\ Trading(r) /\ m_trade[r].accepted => Agreed[r] = Contract(r)
           /\ ~(Trading(r) /\ m_trade[r].accepted) => Agreed[r] = None
BY DEF Agreed, Contract

\* contracts of others do not change when p and q do something
LEMMA OthersAgree ==
    ASSUME NEW p, NEW q, NEW r \in Players \ {p, q}, m_trade'[r] = m_trade[r],
           Trading(r) => Trader(r) \in Players \ {p, q},
           \A x \in Players \ {p, q} : m_trade'[x] = m_trade[x]
    PROVE  Agreed'[r] = Agreed[r]
<1>1. Trading(r)' <=> Trading(r)
  BY DEF Trading
<1>2. ASSUME Trading(r)
      PROVE  Trader(r)' = Trader(r) /\ Offer(r)' = Offer(r) /\ Offer(Trader(r))' = Offer(Trader(r))
  <2>1. m_trade'[Trader(r)] = m_trade[Trader(r)] /\ m_trade'[r].trader = m_trade[r].trader
    BY <1>2
  <2> QED BY <2>1 DEF Offer, Trader
<1>3. /\ Agreed[r] = IF Trading(r) /\ m_trade[r].accepted
                     THEN [partner |-> Trader(r), mine |-> Offer(r), theirs |-> Offer(Trader(r))]
                     ELSE None
      /\ Agreed'[r] = IF Trading(r)' /\ m_trade'[r].accepted
                      THEN [partner |-> Trader(r)', mine |-> Offer(r)', theirs |-> Offer(Trader(r))']
                      ELSE None
  BY DEF Agreed
<1> QED BY <1>1, <1>2, <1>3

\* and p and q, who go on trading, agree to what they agreed to or to nothing
LEMMA TradersAgree ==
    ASSUME TradeInv, NEW p \in Players, NEW q \in Players, Traders(m_trade, p, q), Traders(m_trade', p, q),
           NEW r \in {p, q},
           \A x \in {p, q} : /\ m_trade'[x].items = m_trade[x].items
                             /\ m_trade'[x].money = m_trade[x].money
                             /\ m_trade'[x].spell = m_trade[x].spell,
           m_trade'[r].accepted => m_trade[r].accepted
    PROVE  Agreed'[r] \in {Agreed[r], None}
<1>1. Trading(r) /\ Trading(r)' /\ Trader(r)' = Trader(r) /\ Trader(r) \in {p, q}
  BY NoneIsNoRecord DEF Traders, Trading, Trader
<1>2. ASSUME NEW x \in {p, q} PROVE Offer(x)' = Offer(x)
  <2>1. /\ m_trade'[x].items = m_trade[x].items
        /\ m_trade'[x].money = m_trade[x].money
        /\ m_trade'[x].spell = m_trade[x].spell
    OBVIOUS
  <2>2. \A s \in TradedSlots : m_trade'[x].items[s] = m_trade[x].items[s]
    BY <2>1
  <2>3. {m_trade'[x].items[s] : s \in TradedSlots} = {m_trade[x].items[s] : s \in TradedSlots}
    BY <2>2
  <2>4. Offer(x)'.items = Offer(x).items
    BY <2>3 DEF Offer
  <2>5. Offer(x)'.money = Offer(x).money /\ Offer(x)'.other = Offer(x).other
    BY <2>1 DEF Offer
  <2> QED BY <2>4, <2>5 DEF Offer
<1>3. Offer(Trader(r))' = Offer(Trader(r))
  <2>1. PICK z \in {p, q} : z = m_trade[r].trader /\ z = m_trade'[r].trader
    BY <1>1 DEF Trader
  <2>2. Offer(Trader(r)) = Offer(z)
    BY <2>1 DEF Trader
  <2>3. Offer(Trader(r))' = Offer(z)'
    BY <2>1 DEF Trader, Offer
  <2> QED BY <1>2, <2>2, <2>3
<1>4. /\ Agreed[r] = IF Trading(r) /\ m_trade[r].accepted
                     THEN [partner |-> Trader(r), mine |-> Offer(r), theirs |-> Offer(Trader(r))]
                     ELSE None
      /\ Agreed'[r] = IF Trading(r)' /\ m_trade'[r].accepted
                      THEN [partner |-> Trader(r)', mine |-> Offer(r)', theirs |-> Offer(Trader(r))']
                      ELSE None
  BY DEF Agreed
<1> QED BY <1>1, <1>2, <1>3, <1>4

\* agreements are withdrawn, or one is made
LEMMA AgreeStep ==
    ASSUME UNCHANGED <<holder, money>>, NEW p \in Players,
           \A r \in Players \ {p} : Agreed'[r] \in {Agreed[r], None},
           Agreed[p] # None => Agreed'[p] \in {Agreed[p], None}
    PROVE  Ex!Next
<1>1. CASE Agreed[p] = None /\ Agreed'[p] # None
  <2>1. Ex!Agree(p)
    BY <1>1 DEF Ex!Agree, Agreed
  <2> QED BY <2>1 DEF Ex!Next
<1>2. CASE Agreed[p] # None \/ Agreed'[p] = None
  <2> DEFINE S == {r \in Players : Agreed'[r] = None}
  <2>1. \A r \in Players : Agreed'[r] = IF r \in S THEN None ELSE Agreed[r]
    BY <1>2
  <2>2. Agreed' = [r \in Players |-> IF r \in S THEN None ELSE Agreed[r]]
    <3>1. Agreed' = [r \in Players |-> Agreed'[r]]
      BY DEF Agreed
    <3> QED BY <2>1, <3>1
  <2>3. S \in SUBSET Players
    OBVIOUS
  <2> HIDE DEF S
  <2>4. \E T \in SUBSET Players : Ex!Withdraw(T)
    BY <2>2, <2>3 DEF Ex!Withdraw, Agreed
  <2> QED BY <2>4 DEF Ex!Next
<1> QED BY <1>1, <1>2

\* What is agreed depends on the tables alone.
LEMMA AgreedSame ==
    ASSUME m_trade' = m_trade
    PROVE  Agreed' = Agreed
BY DEF Agreed, Trading, Trader, Offer

\* what is withdrawn when a trade is closed
LEMMA ClosedAgree ==
    ASSUME TradeInv, NEW p \in Players, Trading(p), m_trade' = Closed(p)
    PROVE  /\ Agreed'[p] = None /\ Agreed'[Trader(p)] = None /\ Trader(p) \in Players
           /\ \A r \in Players \ {p, Trader(p)} : Agreed'[r] = Agreed[r]
<1> DEFINE q == Trader(p)
<1>1. /\ q \in Players /\ m_trade'[p] = None /\ m_trade'[q] = None
      /\ \A r \in Players \ {p, q} :
            m_trade'[r] = m_trade[r] /\ (Trading(r) => Trader(r) \in Players \ {p, q})
  <2>1. /\ m_trade'[p] = None /\ m_trade'[q] = None
        /\ \A r \in Players \ {p, q} : m_trade'[r] = m_trade[r] /\ (Trading(r) => Trader(r) \notin {p, q})
    BY ClosedTable DEF Trading
  <2> QED BY <2>1, Partners
<1> HIDE DEF q
<1>2. \A r \in Players \ {p, q} : Agreed'[r] = Agreed[r]
  BY <1>1, OthersAgree
<1>3. Agreed'[p] = None /\ Agreed'[q] = None
  BY <1>1 DEF Agreed, Trading
<1> QED BY <1>1, <1>2, <1>3 DEF q

\* the swap of exactly what both agreed to
LEMMA SwapStep ==
    ASSUME TradeInv, NEW p \in Players, AcceptTrade(p)
    PROVE  Ex!Next
<1>0. Trader(p) \in Players
  BY Partners DEF AcceptTrade, Both, Payable
<1>q. PICK q \in Players : q = Trader(p)
  BY <1>0
<1> DEFINE c == Contract(q)
<1>1. /\ Trading(p) /\ CanStoreItems(p) /\ CanStoreItems(q) /\ holder' = Traded(p)
      /\ m_trade' = Closed(p) /\ m_trade[q].accepted
      /\ m_trade[p].money <= money[p] /\ m_trade[q].money <= money[q]
      /\ money' = [money EXCEPT
                     ![p] = Plus(Minus(@, m_trade[p].money), m_trade[q].money),
                     ![q] = Plus(Minus(@, m_trade[q].money), m_trade[p].money)]
  BY <1>q DEF AcceptTrade, Both, Payable, CanPay
<1>2. /\ Traders(m_trade, p, q) /\ money \in [Players -> 0 .. MaxMoney]
      /\ m_trade[p].money \in 0 .. MaxMoney /\ m_trade[q].money \in 0 .. MaxMoney
      /\ Trading(q) /\ Trader(q) = p /\ q \in Players /\ q # p
  BY <1>q, <1>1, TradersNow, TypesOfParts, Partners DEF Traders, TradeDatas
<1>3. /\ Agreed[q] = c /\ c # None /\ c.partner = p /\ c.mine = Offer(q) /\ c.theirs = Offer(p)
  BY <1>1, <1>2, AgreedIs, ContractType DEF Contract
<1>4. /\ Offer(q).money = m_trade[q].money /\ Offer(p).money = m_trade[p].money
  BY DEF Offer
<1>5. /\ \A i \in Items : i \in Outgoing(q) <=> i \in Offer(q).items /\ holder[i] = q
      /\ \A i \in Items : i \in Outgoing(p) <=> i \in Offer(p).items /\ holder[i] = p
  <2>1. ASSUME NEW x \in {p, q}, NEW i \in Items
        PROVE  i \in Outgoing(x) <=> i \in Offer(x).items /\ holder[i] = x
    <3>1. i # None
      BY TradeAssumption
    <3>2. \A s \in TradedSlots : GetItem(x, s) = i <=> m_trade[x].items[s] = i /\ holder[i] = x
      BY <3>1 DEF GetItem
    <3>3. Offer(x).items = {m_trade[x].items[s] : s \in TradedSlots} \ {None}
      BY DEF Offer
    <3> QED BY <3>1, <3>2, <3>3 DEF Outgoing
  <2> QED BY <2>1
<1>6. holder' = [i \in Items |->
                    CASE i \in Ex!Given(q, p, c.mine) -> p
                      [] i \in Ex!Given(p, q, c.theirs) -> q
                      [] OTHER -> holder[i]]
  <2>1. holder' = Halfway(p, NumTraded)
    BY <1>1, <1>q, TradedItems
  <2>2. /\ Handed(p, NumTraded) = Outgoing(p) /\ Handed(q, NumTraded) = Outgoing(q)
        /\ \A i \in Outgoing(p) : holder[i] = p
        /\ \A i \in Outgoing(q) : holder[i] = q
    BY <1>1, <1>2, <1>q, TradeAssumption, HandedItems
  <2>3. /\ \A i \in Items : i \in Ex!Given(q, p, c.mine) <=> i \in Outgoing(q)
        /\ \A i \in Items : i \in Ex!Given(p, q, c.theirs) <=> i \in Outgoing(p)
    BY <1>2, <1>3, <1>5 DEF Ex!Given
  <2>4. ASSUME NEW i \in Items
        PROVE  Halfway(p, NumTraded)[i] = CASE i \in Ex!Given(q, p, c.mine) -> p
                                            [] i \in Ex!Given(p, q, c.theirs) -> q
                                            [] OTHER -> holder[i]
    <3>1. Halfway(p, NumTraded)[i] = IF i \in Outgoing(p) THEN q
                                     ELSE IF i \in Outgoing(q) THEN p ELSE holder[i]
      BY <1>q, <2>2 DEF Halfway
    <3>2. ~(i \in Outgoing(p) /\ i \in Outgoing(q))
      BY <1>2, <2>2
    <3> QED BY <2>3, <3>1, <3>2
  <2>5. Halfway(p, NumTraded) = [i \in Items |-> Halfway(p, NumTraded)[i]]
    BY DEF Halfway
  <2> QED BY <2>1, <2>4, <2>5
<1>7. money' = [money EXCEPT ![p] = Ex!After(p, c.theirs.money, c.mine.money),
                             ![q] = Ex!After(q, c.mine.money, c.theirs.money)]
  <2>1. PICK a, b \in 0 .. MaxMoney :
           a = m_trade[p].money /\ b = m_trade[q].money /\ a <= money[p] /\ b <= money[q]
    BY <1>1, <1>2
  <2>2. c.theirs.money = a /\ c.mine.money = b
    BY <1>3, <1>4, <2>1
  <2>3. Plus(Minus(money[p], a), b) = Ex!After(p, a, b)
    <3>1. PICK m \in 0 .. MaxMoney : m = money[p]
      BY <1>2
    <3>2. Plus(Minus(m, a), b) = IF m - a + b > MaxMoney THEN MaxMoney ELSE m - a + b
      BY <2>1, <3>1, Sums
    <3> QED BY <3>1, <3>2 DEF Ex!After
  <2>4. Plus(Minus(money[q], b), a) = Ex!After(q, b, a)
    <3>1. PICK m \in 0 .. MaxMoney : m = money[q]
      BY <1>2
    <3>2. Plus(Minus(m, b), a) = IF m - b + a > MaxMoney THEN MaxMoney ELSE m - b + a
      BY <2>1, <3>1, Sums
    <3> QED BY <3>1, <3>2 DEF Ex!After
  <2>5. money' = [money EXCEPT ![p] = Plus(Minus(money[p], a), b),
                               ![q] = Plus(Minus(money[q], b), a)]
    BY <1>1, <1>2, <2>1
  <2>6. money' = [money EXCEPT ![p] = Ex!After(p, a, b), ![q] = Ex!After(q, b, a)]
    BY <2>3, <2>4, <2>5
  <2> QED BY <2>2, <2>6
<1>8. Agreed' = [Agreed EXCEPT ![p] = None, ![q] = None]
  <2>1. /\ Agreed'[p] = None /\ Agreed'[q] = None
        /\ \A r \in Players \ {p, q} : Agreed'[r] = Agreed[r]
    BY <1>1, <1>q, ClosedAgree
  <2>2. Agreed' = [r \in Players |-> Agreed'[r]] /\ Agreed = [r \in Players |-> Agreed[r]]
    BY DEF Agreed
  <2> QED BY <1>2, <2>1, <2>2
<1>9. c.mine.money <= money[q] /\ c.theirs.money <= money[p]
  BY <1>1, <1>3, <1>4
<1> HIDE DEF c
<1>10. /\ Agreed[q] # None /\ Agreed[q].partner = p
       /\ Agreed[q].mine.money <= money[q] /\ Agreed[q].theirs.money <= money[p]
  BY <1>3, <1>9
<1>11. holder' = [i \in Items |->
                    CASE i \in Ex!Given(q, p, Agreed[q].mine) -> p
                      [] i \in Ex!Given(p, q, Agreed[q].theirs) -> q
                      [] OTHER -> holder[i]]
  BY <1>3, <1>6
<1>12. money' = [money EXCEPT ![p] = Ex!After(p, Agreed[q].theirs.money, Agreed[q].mine.money),
                              ![q] = Ex!After(q, Agreed[q].mine.money, Agreed[q].theirs.money)]
  BY <1>3, <1>7
<1>13. Ex!Swap(p, q)
  BY <1>8, <1>10, <1>11, <1>12 DEF Ex!Swap, Agreed
<1> QED BY <1>13 DEF Ex!Next

\* Every step of Trade is one of Exchange, or none.
LEMMA ExchangeStep ==
    ASSUME TradeInv, [TradeNext]_tradeVars
    PROVE  [Ex!Next]_(Ex!vars)
<1>1. ASSUME NEW p \in Players, Edits(p) PROVE Ex!Next
  <2> DEFINE q == Trader(p)
  <2>1. /\ Trading(p) /\ Edit(m_trade, m_trade', p, q) /\ UNCHANGED <<holder, money>>
        /\ Traders(m_trade, p, q) /\ Traders(m_trade', p, q) /\ q \in Players
    BY <1>1, EditsStep, TradersNow DEF Edit, Traders
  <2>2. \A r \in Players \ {p, q} : m_trade'[r] = m_trade[r] /\ (Trading(r) => Trader(r) \in Players \ {p, q})
    BY <2>1, Partners DEF Edit
  <2> HIDE DEF q
  <2>3. \A r \in Players \ {p, q} : Agreed'[r] = Agreed[r]
    BY <2>2, OthersAgree
  <2>4. \A r \in {p, q} : Agreed'[r] \in {Agreed[r], None}
    <3>1. CASE ~m_trade'[p].accepted /\ ~m_trade'[q].accepted
      BY <2>1, <3>1 DEF Agreed
    <3>2. CASE SameOffer(m_trade, m_trade', p) /\ SameOffer(m_trade, m_trade', q)
      BY <2>1, <3>2, TradersAgree DEF SameOffer
    <3> QED BY <2>1, <3>1, <3>2 DEF Edit
  <2>5. \A r \in Players : Agreed'[r] \in {Agreed[r], None}
    BY <2>3, <2>4
  <2> QED BY <2>1, <2>5, AgreeStep
<1>2. ASSUME NEW p \in Players, Accepts(p) PROVE Ex!Next
  <2> DEFINE q == Trader(p)
  <2>1. /\ Trading(p) /\ UNCHANGED <<holder, money>>
        /\ Traders(m_trade, p, q) /\ Traders(m_trade', p, q) /\ q \in Players
        /\ m_trade'[p].items = m_trade[p].items /\ m_trade'[q].items = m_trade[q].items
        /\ \/ ~m_trade'[p].accepted /\ ~m_trade'[q].accepted
           \/ /\ \A r \in {p, q} : /\ m_trade'[r].money = m_trade[r].money
                                   /\ m_trade'[r].spell = m_trade[r].spell
              /\ m_trade'[q].accepted => m_trade[q].accepted
    BY <1>2, AcceptsStep, TradersNow DEF Traders
  <2>2. \A r \in Players \ {p, q} : m_trade'[r] = m_trade[r] /\ (Trading(r) => Trader(r) \in Players \ {p, q})
    BY <1>2, <2>1, AcceptsStep, Partners
  <2> HIDE DEF q
  <2>3. \A r \in Players \ {p, q} : Agreed'[r] = Agreed[r]
    BY <2>2, OthersAgree
  <2>4. CASE ~m_trade'[p].accepted /\ ~m_trade'[q].accepted
    <3>1. Agreed'[p] = None /\ Agreed'[q] = None
      BY <2>1, <2>4 DEF Agreed
    <3> QED BY <2>1, <2>3, <3>1, AgreeStep
  <2>5. CASE /\ \A r \in {p, q} : /\ m_trade'[r].money = m_trade[r].money
                                  /\ m_trade'[r].spell = m_trade[r].spell
             /\ m_trade'[q].accepted => m_trade[q].accepted
    <3>1. Agreed'[q] \in {Agreed[q], None}
      BY <2>1, <2>5, TradersAgree
    <3>2. Agreed[p] # None => m_trade[p].accepted
      BY AgreedIs
    <3>3. m_trade[p].accepted => Agreed'[p] \in {Agreed[p], None}
      BY <2>1, <2>5, TradersAgree
    <3> QED BY <2>1, <2>3, <3>1, <3>2, <3>3, AgreeStep
  <2> QED BY <2>1, <2>4, <2>5
<1>3. ASSUME UNCHANGED <<holder, money>>, Agreed' = Agreed PROVE UNCHANGED Ex!vars
  BY <1>3 DEF Ex!vars, Agreed
<1>4. ASSUME NEW p \in Players, NEW q \in Players, InitiateTrade(p, q) PROVE UNCHANGED Ex!vars
  <2>1. /\ UNCHANGED <<holder, money>> /\ ~Trading(p) /\ ~Trading(q)
        /\ \A r \in Players \ {p, q} :
              m_trade'[r] = m_trade[r] /\ (Trading(r) => Trader(r) \in Players \ {p, q})
        /\ ~m_trade'[p].accepted /\ ~m_trade'[q].accepted
    BY <1>4, OpenStep, Partners
  <2>2. \A r \in Players \ {p, q} : Agreed'[r] = Agreed[r]
    BY <2>1, OthersAgree
  <2>3. \A r \in {p, q} : Agreed'[r] = None /\ Agreed[r] = None
    BY <2>1 DEF Agreed
  <2>4. Agreed' = [r \in Players |-> Agreed'[r]] /\ Agreed = [r \in Players |-> Agreed[r]]
    BY DEF Agreed
  <2>5. Agreed' = Agreed
    BY <2>2, <2>3, <2>4
  <2> QED BY <1>3, <2>1, <2>5
<1>5. ASSUME NEW p \in Players, Trading(p), m_trade' = Closed(p), UNCHANGED <<holder, money>>
      PROVE  Ex!Next
  BY <1>5, ClosedAgree, AgreeStep
<1>6. ASSUME NEW p \in Players, TradeCancel(p) PROVE Ex!Next
  BY <1>5, <1>6 DEF TradeCancel
<1>7. ASSUME NEW p \in Players, RemoveFromWorld(p) PROVE [Ex!Next]_(Ex!vars)
  <2>1. m_trade' = Closed(p) /\ UNCHANGED <<holder, money>>
    BY <1>7 DEF RemoveFromWorld
  <2>2. ~Trading(p) => m_trade' = m_trade
    BY <2>1 DEF Closed
  <2> QED BY <1>3, <1>5, <2>1, <2>2, AgreedSame
<1>8. ASSUME NEW p \in Players, AddToWorld(p) PROVE UNCHANGED Ex!vars
  BY <1>3, <1>8, AgreedSame DEF AddToWorld
<1>9. ASSUME NEW p \in Players, NEW i \in Items, ItemLeaves(p, i) \/ ItemComes(p, i)
      PROVE  Ex!Elsewhere(p)
  <2>1. /\ UNCHANGED <<money, m_trade>>
        /\ \/ holder[i] = p /\ holder' = [holder EXCEPT ![i] = None]
           \/ holder[i] = None /\ holder' = [holder EXCEPT ![i] = p]
    BY <1>9 DEF ItemLeaves, ItemComes
  <2> QED BY <2>1, AgreedSame DEF Ex!Elsewhere, Agreed
<1>10. ASSUME NEW p \in Players, Spend(p) PROVE Ex!Elsewhere(p)
  <2>1. UNCHANGED <<holder, m_trade>> /\ money' = [money EXCEPT ![p] = money[p] - 1] /\ money[p] > 0
    BY <1>10 DEF Spend
  <2>2. money'[p] = money[p] - 1 /\ money'[p] \in 0 .. MaxMoney
    BY <2>1, TypesOfParts
  <2> QED BY <2>1, <2>2, AgreedSame DEF Ex!Elsewhere, Agreed
<1>11. ASSUME NEW p \in Players, AcceptTrade(p) PROVE Ex!Next
  BY <1>11, SwapStep
<1>12. CASE UNCHANGED tradeVars
  BY <1>3, <1>12, AgreedSame DEF tradeVars
<1>13. ASSUME TradeNext PROVE [Ex!Next]_(Ex!vars)
  <2>1. PICK p \in Players :
           \/ TradeCancel(p) \/ RemoveFromWorld(p) \/ AddToWorld(p) \/ AcceptTrade(p) \/ Spend(p)
           \/ Edits(p) \/ Accepts(p)
           \/ \E q \in Players : InitiateTrade(p, q)
           \/ \E i \in Items : ItemLeaves(p, i) \/ ItemComes(p, i)
    BY <1>13 DEF TradeNext, Edits, Accepts
  <2>2. CASE Spend(p) \/ \E i \in Items : ItemLeaves(p, i) \/ ItemComes(p, i)
    BY <1>9, <1>10, <2>2 DEF Ex!Next
  <2> QED BY <1>1, <1>2, <1>4, <1>6, <1>7, <1>8, <1>11, <2>1, <2>2
<1> QED BY <1>12, <1>13

\* Nothing changes hands except by a swap of exactly the two offers that both
\* have accepted as they are, and then both offers do, whatever the order of the
\* items and however full the bags are.
THEOREM ImplementsExchange == TradeSpec => ExchangeSpec
<1>1. TradeInit => Ex!Init
  <2> SUFFICES ASSUME TradeInit PROVE Ex!Init
    OBVIOUS
  <2>1. holder \in [Items -> Players \union {None}] /\ money \in [Players -> 0 .. MaxMoney]
    BY InvInit, TypesOfParts
  <2>2. Agreed = [r \in Players |-> None]
    BY DEF TradeInit, Agreed, Trading
  <2> QED BY <2>1, <2>2 DEF Ex!Init, Agreed
<1>2. TradeInv /\ [TradeNext]_tradeVars => [Ex!Next]_(Ex!vars)
  BY ExchangeStep
<1> QED BY <1>1, <1>2, TradeInvariant, PTL DEF TradeSpec, ExchangeSpec, Ex!Spec

-----------------------------------------------------------------------------
(* The auction house and its mail.                                         *)

(* A mail that comes from somebody, and asks money only for what did not    *)
(* come from an auction.                                                    *)
Sound(row) ==
  /\ row \in Rows
  /\ row # Gone /\ row.kind # "auction" => row.from \in Players
  /\ row.cod # 0 => row.kind # "auction"

SoundMails(d) == d \in Seq(Rows) /\ \A id \in DOMAIN d : Sound(d[id])

Entry == [mail : Rows, state : {"unchanged", "changed", "deleted"}]

(* What p has read of the mail id, in the mail database d: the mail as it is, *)
(* but for a crossed one, of which little can be said.                      *)
Holds(row, id, d, p) ==
  /\ id \in DOMAIN d /\ Sound(row) /\ row.to = p
  /\ IF id \notin crossed THEN row = d[id]
     ELSE row.item \in exposed \union {None} /\ (d[id].kind = "auction" => row.kind = "auction")

(* The box of p, and what its login has read. *)
Held(b, d, p) == \A id \in DOMAIN b : b[id] \in Entry /\ Holds(b[id].mail, id, d, p)

Read(m, d, p) == \A id \in DOMAIN m : Holds(m[id], id, d, p)

(* The database d becomes e: of what it has, only mails to p and crossed     *)
(* ones change; if they follow, they keep their receiver and are deleted or  *)
(* lose their item.                                                         *)
Changes(d, e, p) ==
  /\ SoundMails(e) /\ Len(d) <= Len(e)
  /\ \A id \in DOMAIN d :
       /\ e[id] = d[id] \/ d[id].to = p \/ id \in crossed
       /\ e[id].kind = "auction" => d[id].kind = "auction"

Follows(d, e, p) ==
  /\ Changes(d, e, p)
  /\ \A id \in DOMAIN d : e[id] = Gone \/ (e[id].to = d[id].to /\ e[id].item \in {None, d[id].item})

(* New mails, of which at most one has an item: x. *)
Carries(rows, x) ==
  /\ rows \in Seq(Rows)
  /\ \A k \in DOMAIN rows : Sound(rows[k]) /\ rows[k].item \in {None, x}
  /\ \A k, l \in DOMAIN rows : rows[k].item # None /\ rows[l].item # None => k = l

\* What the rows are, and that a deleted one is nobody's.
LEMMA GoneRow ==
  /\ Sound(Gone) /\ Gone.to = None /\ Gone.item = None /\ Gone.kind = "gone"
  /\ \A row \in Rows : row # Gone =>
       row \in [kind : Kinds, from : Players \union {None}, to : Players,
                item : Items \union {None}, money : Nat, cod : 0 .. MailPrice]
  /\ \A row \in Rows : row.to \in Players <=> row # Gone
  /\ None \notin Players /\ None \notin Items
<1>1. None \notin Players /\ None \notin Items
  BY MailAssumption
<1>2. Gone \in Rows /\ Gone.to = None /\ Gone.item = None /\ Gone.kind = "gone" /\ Gone.cod = 0
  BY DEF Rows, Gone, Row
<1>3. Sound(Gone)
  BY <1>2 DEF Sound
<1>4. \A row \in Rows : row # Gone =>
       row \in [kind : Kinds, from : Players \union {None}, to : Players,
                item : Items \union {None}, money : Nat, cod : 0 .. MailPrice]
  BY DEF Rows
<1> QED BY <1>1, <1>2, <1>3, <1>4

(* Mails in a row. *)
LEMMA NoMail == ASSUME NEW x PROVE Carries(<<>>, x)
BY DEF Carries

\* A single mail carries its own item.
LEMMA OneMail ==
  ASSUME NEW row, Sound(row)
  PROVE  Carries(<<row>>, row.item)
BY DEF Carries, Sound

\* Of mails in a row, some may be missing.
LEMMA SomeMails ==
  ASSUME NEW rows, NEW x, Carries(rows, x), NEW done
  PROVE  Carries([k \in DOMAIN rows |-> IF k \in done THEN rows[k] ELSE Gone], x)
<1>1. PICK z : z = [k \in DOMAIN rows |-> IF k \in done THEN rows[k] ELSE Gone]
  OBVIOUS
<1>2. PICK n \in Nat : n = Len(rows) /\ DOMAIN rows = 1 .. n
  BY DEF Carries
<1>3. Sound(Gone) /\ Gone \in Rows /\ Gone.item = None
  BY GoneRow DEF Sound
<1>4. \A k \in 1 .. n : rows[k] \in Rows
  BY <1>2 DEF Carries, Sound
<1>5. z = [k \in 1 .. n |-> z[k]] /\ \A k \in 1 .. n : z[k] \in {rows[k], Gone}
  BY <1>1, <1>2
<1>6. z \in Seq(Rows) /\ DOMAIN z = 1 .. n
  BY <1>3, <1>4, <1>5, IsASeq
<1> QED BY <1>1, <1>2, <1>3, <1>5, <1>6 DEF Carries

\* Mails without items may go before others.
LEMMA MoreMails ==
  ASSUME NEW u, NEW v, NEW x, Carries(u, None), Carries(v, x)
  PROVE  Carries(u \o v, x)
<1>1. u \in Seq(Rows) /\ v \in Seq(Rows)
  BY DEF Carries
<1>2. PICK z : z = u \o v
  OBVIOUS
<1>3. PICK m, n \in Nat : m = Len(u) /\ n = Len(v)
  BY <1>1
<1>4. z \in Seq(Rows) /\ DOMAIN z = 1 .. (m + n) /\ DOMAIN u = 1 .. m /\ DOMAIN v = 1 .. n
      /\ \A k \in 1 .. (m + n) : z[k] = IF k <= m THEN u[k] ELSE v[k - m]
  BY <1>1, <1>2, <1>3, ConcatProperties
<1>5. \A k \in DOMAIN z :
        \/ k \in DOMAIN u /\ z[k] = u[k]
        \/ k - m \in DOMAIN v /\ z[k] = v[k - m] /\ m + (k - m) = k
  BY <1>3, <1>4
<1>6. \A k \in DOMAIN z : Sound(z[k]) /\ z[k].item \in {None, x}
  BY <1>5 DEF Carries
<1>7. \A k \in DOMAIN z : z[k].item # None =>
        k - m \in DOMAIN v /\ z[k] = v[k - m] /\ m + (k - m) = k
  BY <1>5 DEF Carries
<1>8. ASSUME NEW k \in DOMAIN z, NEW l \in DOMAIN z, z[k].item # None, z[l].item # None
      PROVE  k = l
  <2>1. k - m = l - m
    BY <1>7, <1>8 DEF Carries
  <2> QED BY <1>3, <1>4, <1>8, <2>1
<1> QED BY <1>2, <1>4, <1>6, <1>8 DEF Carries

(* The mails rows, sent after d, give e. *)
Extends(d, rows, e) ==
  /\ SoundMails(e) /\ Len(e) = Len(d) + Len(rows)
  /\ Len(d) \in Nat /\ Len(rows) \in Nat
  /\ DOMAIN d = 1 .. Len(d) /\ DOMAIN rows = 1 .. Len(rows)
  /\ \A id \in DOMAIN d : id \in DOMAIN e /\ e[id] = d[id]
  /\ \A k \in DOMAIN rows : Len(d) + k \in DOMAIN e /\ e[Len(d) + k] = rows[k]
  /\ \A id \in DOMAIN e : id \in DOMAIN d \/ \E k \in DOMAIN rows : id = Len(d) + k

\* The database after new mails: the old ones are what they were.
LEMMA Appended ==
  ASSUME NEW d, SoundMails(d), NEW rows, NEW x, Carries(rows, x)
  PROVE  Extends(d, rows, d \o rows)
<1> DEFINE e == d \o rows
<1>1. d \in Seq(Rows) /\ rows \in Seq(Rows)
  BY DEF SoundMails, Carries
<1>2. PICK m, n \in Nat : m = Len(d) /\ n = Len(rows)
  BY <1>1
<1>3. e \in Seq(Rows) /\ Len(e) = m + n
      /\ \A k \in 1 .. (m + n) : e[k] = IF k <= m THEN d[k] ELSE rows[k - m]
  BY <1>1, <1>2, ConcatProperties
<1> HIDE DEF e
<1>4. DOMAIN e = 1 .. (m + n) /\ DOMAIN d = 1 .. m /\ DOMAIN rows = 1 .. n
  BY <1>1, <1>2, <1>3
<1>5. \A id \in DOMAIN d : id \in DOMAIN e /\ e[id] = d[id]
  BY <1>2, <1>3, <1>4
<1>6. \A k \in DOMAIN rows : m + k \in DOMAIN e /\ e[m + k] = rows[k]
  <2>1. ASSUME NEW k \in DOMAIN rows PROVE m + k \in DOMAIN e /\ e[m + k] = rows[k]
    <3>1. m + k \in 1 .. (m + n) /\ ~(m + k <= m) /\ (m + k) - m = k
      BY <1>2, <1>4
    <3> QED BY <1>3, <1>4, <3>1
  <2> QED BY <2>1
<1>7. ASSUME NEW id \in DOMAIN e, id \notin DOMAIN d PROVE \E k \in DOMAIN rows : id = m + k
  <2>1. id - m \in DOMAIN rows /\ id = m + (id - m)
    BY <1>2, <1>4, <1>7
  <2> QED BY <2>1
<1>8. \A id \in DOMAIN e : Sound(e[id])
  <2>1. ASSUME NEW id \in DOMAIN e PROVE Sound(e[id])
    <3>1. CASE id \in DOMAIN d
      BY <1>5, <3>1 DEF SoundMails
    <3>2. CASE id \notin DOMAIN d
      BY <1>6, <1>7, <3>2 DEF Carries
    <3> QED BY <3>1, <3>2
  <2> QED BY <2>1
<1>9. Extends(d, rows, e)
  BY <1>2, <1>3, <1>4, <1>5, <1>6, <1>7, <1>8 DEF SoundMails, Extends
<1> QED BY <1>9 DEF e

Requests ==
  [to : Players, item : Items \union {None}, money : 0 .. MailPrice, cod : 0 .. MailPrice]

(* Money and bags of all players. *)
Purses(pu, ba) == pu \in [Players -> Nat] /\ ba \in [Players -> SUBSET Items]

Typed ==
  /\ state \in [Players -> {"offline", "loading", "online"}]
  /\ Purses(purse, bag) /\ Purses(dbPurse, dbBag)
  /\ SoundMails(dbMail) /\ Len(dbMail) <= MaxMails
  /\ DOMAIN box = Players /\ DOMAIN loginHolder = Players
  /\ request \in [Players -> Requests \union {None}]
  /\ auction \in [Items -> Entries \union {None}] /\ auction = dbAuction
  /\ exposed \in SUBSET Items /\ stops \in 0 .. MaxStops

(* A crossed mail has no item but an exposed one. *)
Crossing == \A id \in crossed : id \in DOMAIN dbMail /\ dbMail[id].item \in exposed \union {None}

(* What a player has in memory, or his login has read, is what the database *)
(* has.                                                                     *)
Online(p) == purse[p] = dbPurse[p] /\ Same(bag[p], dbBag[p]) /\ Held(box[p], dbMail, p)

Loads(p) ==
  LET h == loginHolder[p]
  IN  /\ h # None /\ h = [purse |-> dbPurse[p], bag |-> h.bag, mails |-> h.mails]
      /\ h.bag \in SUBSET Items /\ Same(h.bag, dbBag[p]) /\ Read(h.mails, dbMail, p)

Present ==
  \A p \in Players :
     /\ state[p] = "online" => Online(p)
     /\ state[p] = "loading" => Loads(p)
     /\ state[p] # "online" => DOMAIN box[p] = {}
     /\ state[p] # "loading" => loginHolder[p] = None

(* A mail that is being returned is gone, or still its receiver's. *)
Returning ==
  returner # None =>
     /\ returner.id \in DOMAIN dbMail /\ Sound(returner.row) /\ returner.row # Gone
     /\ returner = [id |-> returner.id, row |-> returner.row, step |-> returner.step,
                    item |-> returner.item]
     /\ returner.item \in Items \union {None}
     /\ dbMail[returner.id] = Gone \/ dbMail[returner.id].to = returner.row.to
     /\ dbMail[returner.id].item \in {None, returner.row.item}

(* An item with the players B, in the mails M and in the auction a. *)
Single(B, M, a) ==
  /\ \A p, q \in B : p = q
  /\ \A x, y \in M : x = y
  /\ B # {} => M = {} /\ a = None
  /\ M # {} => a = None

Owners(ba, i) == {p \in Players : i \in ba[p]}
With(d, i) == {id \in DOMAIN d : d[id].item = i}
Unique == \A i \in Items \ exposed : Single(Owners(dbBag, i), With(dbMail, i), dbAuction[i])

IInv == Typed /\ Crossing /\ Present /\ Returning /\ Unique

-----------------------------------------------------------------------------
(* What a handler of p, or nobody's step, may do to what everybody has. *)

Posted(p) ==
  /\ Follows(dbMail, dbMail', p) /\ Len(dbMail') <= MaxMails
  /\ DOMAIN box' = Players
  /\ \A q \in Players : IF state[q] = "online" THEN Held(box'[q], dbMail', q)
                                               ELSE box'[q] = box[q]

Settled ==
  /\ Purses(purse', bag') /\ Purses(dbPurse', dbBag')
  /\ \A q \in Players : IF state[q] = "online"
                        THEN purse'[q] = dbPurse'[q] /\ Same(bag'[q], dbBag'[q])
                        ELSE dbPurse'[q] = dbPurse[q] /\ dbBag'[q] = dbBag[q]

(* Nothing is crossed, and the server goes on. *)
Calm == crossed' = crossed /\ exposed' = exposed /\ stops' = stops

Step(p) ==
  /\ state' = state /\ loginHolder' = loginHolder /\ returner' = returner
  /\ Calm /\ Posted(p) /\ Settled

(* Nobody, or a player who is online. *)
Actor(p) == p = None \/ (p \in Players /\ state[p] = "online")

\* What another player has read stays true when p's mails change.
LEMMA OthersHold ==
  ASSUME NEW d, SoundMails(d), NEW e, NEW p, Changes(d, e, p), NEW q, q # p,
         NEW row, NEW id, Holds(row, id, d, q)
  PROVE  Holds(row, id, e, q)
<1>1. DOMAIN d \subseteq DOMAIN e
  BY DEF SoundMails, Changes
<1>2. id \in DOMAIN d /\ id \in DOMAIN e /\ Sound(row) /\ row.to = q
  BY <1>1 DEF Holds
<1>3. CASE id \in crossed
  BY <1>2, <1>3 DEF Holds, Changes
<1>4. CASE id \notin crossed
  <2>1. row = d[id] /\ d[id].to # p
    BY <1>2, <1>4 DEF Holds
  <2>2. e[id] = d[id]
    BY <1>2, <1>4, <2>1 DEF Changes
  <2> QED BY <1>2, <1>4, <2>1, <2>2 DEF Holds
<1> QED BY <1>3, <1>4

\* The same for a whole box.
LEMMA OthersHeld ==
  ASSUME NEW d, SoundMails(d), NEW e, NEW p, Changes(d, e, p), NEW q, q # p, NEW b, Held(b, d, q)
  PROVE  Held(b, e, q)
BY OthersHold DEF Held

\* The same for what another player's login has read.
LEMMA OthersRead ==
  ASSUME NEW d, SoundMails(d), NEW e, NEW p, Changes(d, e, p), NEW q, q # p, NEW m, Read(m, d, q)
  PROVE  Read(m, e, q)
BY OthersHold DEF Read

\* A handler that only changes its player's mails does not disturb a return.
LEMMA ReturningKept ==
  ASSUME Typed, Returning, NEW p, Follows(dbMail, dbMail', p), returner' = returner
  PROVE  Returning'
<1>1. SUFFICES ASSUME returner # None
      PROVE  /\ returner.id \in DOMAIN dbMail' /\ Sound(returner.row) /\ returner.row # Gone
             /\ returner = [id |-> returner.id, row |-> returner.row, step |-> returner.step,
                            item |-> returner.item]
             /\ returner.item \in Items \union {None}
             /\ dbMail'[returner.id] = Gone \/ dbMail'[returner.id].to = returner.row.to
             /\ dbMail'[returner.id].item \in {None, returner.row.item}
  BY DEF Returning
<1>2. PICK id : id = returner.id
  OBVIOUS
<1>3. /\ id \in DOMAIN dbMail /\ (dbMail[id] = Gone \/ dbMail[id].to = returner.row.to)
      /\ dbMail[id].item \in {None, returner.row.item}
  BY <1>1, <1>2 DEF Returning
<1>4. DOMAIN dbMail \subseteq DOMAIN dbMail' /\ dbMail'[id] \in Rows
  BY <1>3 DEF Follows, Changes, Typed, SoundMails
<1>5. CASE dbMail'[id] = Gone
  BY <1>1, <1>2, <1>3, <1>4, <1>5, GoneRow DEF Returning
<1>6. CASE dbMail'[id].to = dbMail[id].to /\ dbMail'[id].item \in {None, dbMail[id].item}
  <2>1. dbMail'[id] = Gone \/ dbMail'[id].to = returner.row.to
    BY <1>3, <1>4, <1>6, GoneRow
  <2>2. dbMail'[id].item \in {None, returner.row.item}
    BY <1>3, <1>6
  <2>3. /\ Sound(returner.row) /\ returner.row # Gone
        /\ returner = [id |-> returner.id, row |-> returner.row, step |-> returner.step,
                       item |-> returner.item]
        /\ returner.item \in Items \union {None}
    BY <1>1 DEF Returning
  <2> QED BY <1>2, <1>3, <1>4, <2>1, <2>2, <2>3
<1> QED BY <1>3, <1>5, <1>6 DEF Follows

\* Crossed mails only lose their items.
LEMMA CrossingKept ==
  ASSUME Typed, Crossing, NEW p, Follows(dbMail, dbMail', p), crossed' = crossed,
         exposed \subseteq exposed'
  PROVE  Crossing'
<1>1. DOMAIN dbMail \subseteq DOMAIN dbMail'
  BY DEF Follows, Changes, Typed, SoundMails
<1>2. ASSUME NEW id \in crossed
      PROVE  id \in DOMAIN dbMail' /\ dbMail'[id].item \in exposed' \union {None}
  <2>1. id \in DOMAIN dbMail /\ dbMail[id].item \in exposed \union {None}
    BY DEF Crossing
  <2>2. dbMail'[id].item \in {None, dbMail[id].item}
    BY <2>1, GoneRow DEF Follows
  <2> QED BY <1>1, <2>1, <2>2
<1> QED BY <1>2 DEF Crossing

\* The invariant but for its types and Unique survives every step of one player or of
\* nobody.
LEMMA StepKeeps ==
  ASSUME Typed, Crossing, Present, Returning, NEW p, Actor(p), Step(p)
  PROVE  Crossing' /\ Present' /\ Returning'
<1>1. ASSUME NEW q \in Players
      PROVE  /\ state'[q] = "online" => Online(q)'
             /\ state'[q] = "loading" => Loads(q)'
             /\ state'[q] # "online" => DOMAIN box'[q] = {}
             /\ state'[q] # "loading" => loginHolder'[q] = None
  <2>1. /\ state'[q] = state[q] /\ loginHolder'[q] = loginHolder[q]
        /\ crossed' = crossed /\ exposed' = exposed
    BY DEF Step, Calm
  <2>2. CASE state[q] = "online"
    <3>1. purse'[q] = dbPurse'[q] /\ Same(bag'[q], dbBag'[q]) /\ Held(box'[q], dbMail', q)
      BY <2>2 DEF Step, Posted, Settled
    <3>2. Online(q)'
      BY <2>1, <3>1 DEF Online, Held, Holds, Same
    <3>3. loginHolder[q] = None
      BY <2>2 DEF Present
    <3> QED BY <2>1, <2>2, <3>2, <3>3
  <2>3. CASE state[q] = "loading"
    <3>1. q # p /\ Loads(q) /\ DOMAIN box[q] = {}
      BY <2>3, GoneRow DEF Present, Actor
    <3>2. Read(loginHolder[q].mails, dbMail', q)
      BY <3>1, OthersRead DEF Step, Posted, Follows, Loads, Typed
    <3>3. dbPurse'[q] = dbPurse[q] /\ dbBag'[q] = dbBag[q] /\ box'[q] = box[q]
      BY <2>3 DEF Step, Posted, Settled
    <3>4. Loads(q)'
      BY <2>1, <3>1, <3>2, <3>3 DEF Loads, Read, Holds, Same
    <3> QED BY <2>1, <2>3, <3>1, <3>3, <3>4
  <2>4. CASE state[q] # "online" /\ state[q] # "loading"
    BY <2>1, <2>4 DEF Step, Posted, Present
  <2> QED BY <2>2, <2>3, <2>4
<1>2. Follows(dbMail, dbMail', p) /\ crossed' = crossed /\ exposed' = exposed
      /\ returner' = returner
  BY DEF Step, Posted, Calm
<1>3. Returning'
  BY <1>2, ReturningKept
<1>4. Crossing'
  BY <1>2, CrossingKept
<1> QED BY <1>1, <1>3, <1>4 DEF Present

\* The same for the types.
LEMMA StepTyped ==
  ASSUME Typed, NEW p, Step(p), request' \in [Players -> Requests \union {None}],
         auction' \in [Items -> Entries \union {None}], auction' = dbAuction'
  PROVE  Typed'
BY DEF Typed, Step, Posted, Settled, Follows, Changes, Calm

\* A database follows itself.
LEMMA FollowsSelf ==
  ASSUME NEW d, SoundMails(d), NEW p PROVE Follows(d, d, p)
<1>1. Len(d) \in Nat
  BY DEF SoundMails
<1> QED BY <1>1 DEF Follows, Changes

(* A handler gives p the purse x and the bag y, and saves them. *)
Settles(p, x, y) ==
  /\ x \in Nat /\ y \in SUBSET Items
  /\ purse' = [purse EXCEPT ![p] = x] /\ bag' = [bag EXCEPT ![p] = y]
  /\ SaveInventoryAndGold(p)

\* SaveInventoryAndGoldToDB: purse and bag of p agree again with the database.
LEMMA Saved ==
  ASSUME Typed, Present, NEW p \in Players, state[p] = "online",
         NEW x, NEW y, Settles(p, x, y)
  PROVE  Settled /\ dbBag' = [dbBag EXCEPT ![p] = y]
<1>1. /\ purse \in [Players -> Nat] /\ bag \in [Players -> SUBSET Items]
      /\ dbPurse \in [Players -> Nat] /\ dbBag \in [Players -> SUBSET Items]
  BY DEF Typed, Purses
<1>2. /\ x \in Nat /\ y \in SUBSET Items
      /\ purse' = [purse EXCEPT ![p] = x] /\ bag' = [bag EXCEPT ![p] = y]
      /\ purse'[p] = x /\ bag'[p] = y
  BY <1>1 DEF Settles
<1>3. dbPurse' = [dbPurse EXCEPT ![p] = x] /\ dbBag' = [dbBag EXCEPT ![p] = y]
  BY <1>2 DEF Settles, SaveInventoryAndGold
<1>4. Purses(purse', bag') /\ Purses(dbPurse', dbBag')
  BY <1>1, <1>2, <1>3 DEF Purses
<1>5. \A q \in Players : state[q] = "online" => purse[q] = dbPurse[q] /\ Same(bag[q], dbBag[q])
  BY DEF Present, Online
<1>6. ASSUME NEW q \in Players
      PROVE  IF state[q] = "online"
             THEN purse'[q] = dbPurse'[q] /\ Same(bag'[q], dbBag'[q])
             ELSE dbPurse'[q] = dbPurse[q] /\ dbBag'[q] = dbBag[q]
  <2>1. CASE q = p
    BY <1>1, <1>2, <1>3, <2>1 DEF Same
  <2>2. CASE q # p
    BY <1>1, <1>2, <1>3, <1>5, <2>2
  <2> QED BY <2>1, <2>2
<1> QED BY <1>3, <1>4, <1>6 DEF Settled

(* Nobody's purse or bag has changed. *)
LEMMA NotPaid ==
  ASSUME Typed, Present, UNCHANGED <<purse, bag, dbPurse, dbBag>>
  PROVE  Settled
BY DEF Typed, Settled, Present, Online, Purses

\* A player who is online has new mails in his box as they are in the database.
LEMMA ReceivedHeld ==
  ASSUME Typed, Crossing, NEW d, SoundMails(d), Len(d) = Len(dbMail),
         NEW rows, NEW x, Carries(rows, x), NEW e, e = d \o rows,
         NEW q \in Players, state[q] = "online", Held(box[q], d, q)
  PROVE  Held(Received(box, rows)[q], e, q)
<1>1. PICK n : n = Len(d)
  OBVIOUS
<1>2. PICK N : N = {n + k : k \in {y \in DOMAIN rows : rows[y].to = q}}
  OBVIOUS
<1>3. PICK b : b = Received(box, rows)[q]
  OBVIOUS
<1>4. b = [id \in DOMAIN box[q] \union N |->
              IF id > n THEN InMemory(rows[id - n]) ELSE box[q][id]]
  BY <1>1, <1>2, <1>3 DEF Received
<1>5. /\ n \in Nat /\ DOMAIN d = 1 .. n /\ DOMAIN rows \subseteq Nat \ {0}
      /\ \A id \in DOMAIN d : id \in DOMAIN e /\ e[id] = d[id]
      /\ \A k \in DOMAIN rows : n + k \in DOMAIN e /\ e[n + k] = rows[k]
  <2>1. Extends(d, rows, e)
    BY Appended
  <2> QED BY <1>1, <2>1 DEF Extends
<1>6. ASSUME NEW id \in DOMAIN box[q]
      PROVE  b[id] \in Entry /\ Holds(b[id].mail, id, e, q)
  <2>1. id \in DOMAIN d /\ ~(id > n)
    BY <1>5 DEF Held, Holds
  <2>2. b[id] = box[q][id]
    BY <1>4, <2>1
  <2>3. b[id] \in Entry /\ Holds(b[id].mail, id, d, q)
    BY <2>2 DEF Held
  <2>4. id \in DOMAIN e /\ e[id] = d[id]
    BY <1>5, <2>1
  <2> QED BY <2>3, <2>4 DEF Holds
<1>7. ASSUME NEW id \in N
      PROVE  b[id] \in Entry /\ Holds(b[id].mail, id, e, q)
  <2>1. PICK k \in DOMAIN rows : id = n + k /\ rows[k].to = q
    BY <1>2
  <2>2. id > n /\ id - n = k /\ id \in DOMAIN e /\ e[id] = rows[k]
    BY <1>5, <2>1
  <2>3. b[id] = [mail |-> rows[k], state |-> "unchanged"]
    BY <1>4, <2>2 DEF InMemory
  <2>4. Sound(rows[k]) /\ rows[k] \in Rows
    BY DEF Carries, Sound
  <2>5. id \notin DOMAIN dbMail
    <3>1. DOMAIN dbMail = 1 .. n
      BY <1>1 DEF Typed, SoundMails
    <3> QED BY <1>5, <2>2, <3>1
  <2>6. id \notin crossed
    BY <2>5 DEF Crossing
  <2>7. b[id] \in Entry /\ b[id].mail = rows[k]
    BY <2>3, <2>4 DEF Entry
  <2> QED BY <2>1, <2>2, <2>4, <2>6, <2>7 DEF Holds
<1>8. DOMAIN b = DOMAIN box[q] \union N
  BY <1>4
<1> QED BY <1>3, <1>6, <1>7, <1>8 DEF Held

(* The database is changed to d, then the mails rows are sent. *)
LEMMA Mailed ==
  ASSUME Typed, Crossing, Present, NEW p, Actor(p),
         NEW d, Follows(dbMail, d, p), Len(d) = Len(dbMail),
         NEW rows, NEW x, Carries(rows, x), Fits(rows), dbMail' = d \o rows,
         DOMAIN box' = Players,
         \A q \in Players \ {p} : box'[q] = Received(box, rows)[q],
         p \in Players => Held(box'[p], dbMail', p)
  PROVE  Posted(p)
<1>1. SoundMails(dbMail) /\ SoundMails(d)
  BY DEF Typed, Follows, Changes
<1>2. PICK e : e = dbMail'
  OBVIOUS
<1>3. /\ SoundMails(e) /\ Len(e) = Len(d) + Len(rows)
      /\ Len(d) \in Nat /\ Len(rows) \in Nat /\ DOMAIN d = 1 .. Len(d)
      /\ \A id \in DOMAIN d : id \in DOMAIN e /\ e[id] = d[id]
  <2>1. Extends(d, rows, e)
    BY <1>1, <1>2, Appended
  <2> QED BY <2>1 DEF Extends
<1>4. DOMAIN d = DOMAIN dbMail
  BY <1>1, <1>3 DEF SoundMails
<1>5. Follows(dbMail, e, p) /\ Len(e) <= MaxMails
  BY <1>3, <1>4 DEF Follows, Changes, Fits
<1>6. ASSUME NEW q \in Players
      PROVE  IF state[q] = "online" THEN Held(box'[q], e, q) ELSE box'[q] = box[q]
  <2>1. CASE q = p
    BY <1>2, <2>1, GoneRow DEF Actor
  <2>2. CASE q # p /\ state[q] = "online"
    <3>1. Held(box[q], dbMail, q)
      BY <2>2 DEF Present, Online
    <3>2. Held(box[q], d, q)
      BY <1>1, <2>2, <3>1, OthersHeld DEF Follows
    <3>3. Held(Received(box, rows)[q], e, q)
      BY <1>1, <1>2, <2>2, <3>2, ReceivedHeld
    <3> QED BY <2>2, <3>3
  <2>3. CASE q # p /\ state[q] # "online"
    BY <2>3 DEF Received
  <2> QED BY <2>1, <2>2, <2>3
<1> QED BY <1>2, <1>5, <1>6 DEF Posted

(* Mails are only sent. *)
LEMMA Sent ==
  ASSUME Typed, Crossing, Present, NEW p, Actor(p), NEW rows, NEW x, Carries(rows, x),
         SendMails(rows)
  PROVE  Posted(p)
<1>1. Fits(rows) /\ box' = Received(box, rows) /\ dbMail' = dbMail \o rows
  BY DEF SendMails
<1>2. SoundMails(dbMail) /\ Follows(dbMail, dbMail, p)
  BY FollowsSelf DEF Typed
<1>3. DOMAIN box' = Players
  BY <1>1 DEF Received
<1>4. ASSUME p \in Players PROVE Held(box'[p], dbMail', p)
  <2>1. state[p] = "online" /\ Held(box[p], dbMail, p)
    BY <1>4, GoneRow DEF Actor, Present, Online
  <2> QED BY <1>1, <1>2, <1>4, <2>1, ReceivedHeld
<1> QED BY <1>1, <1>2, <1>3, <1>4, Mailed

(* The boxes of others stay as they are. *)
LEMMA Rewritten ==
  ASSUME Typed, Present, NEW p, Actor(p), Follows(dbMail, dbMail', p),
         Len(dbMail') = Len(dbMail), DOMAIN box' = Players,
         \A q \in Players \ {p} : box'[q] = box[q], p \in Players => Held(box'[p], dbMail', p)
  PROVE  Posted(p)
<1>1. SoundMails(dbMail) /\ Len(dbMail) <= MaxMails
  BY DEF Typed
<1>2. ASSUME NEW q \in Players
      PROVE  IF state[q] = "online" THEN Held(box'[q], dbMail', q) ELSE box'[q] = box[q]
  <2>1. CASE q = p
    BY <2>1, GoneRow DEF Actor
  <2>2. CASE q # p /\ state[q] = "online"
    <3>1. Held(box[q], dbMail, q)
      BY <2>2 DEF Present, Online
    <3>2. Held(box[q], dbMail', q)
      BY <1>1, <2>2, <3>1, OthersHeld DEF Follows
    <3> QED BY <2>2, <3>2
  <2>3. CASE q # p /\ state[q] # "online"
    BY <2>3
  <2> QED BY <2>1, <2>2, <2>3
<1> QED BY <1>1, <1>2 DEF Posted

\* No mail is sent or changed.
LEMMA NotPosted ==
  ASSUME Typed, Present, NEW p, Actor(p), UNCHANGED <<box, dbMail>>
  PROVE  Posted(p)
<1>1. SoundMails(dbMail) /\ DOMAIN box = Players
  BY DEF Typed
<1>2. Follows(dbMail, dbMail', p)
  BY <1>1, FollowsSelf
<1>3. p \in Players => Held(box[p], dbMail, p)
  BY GoneRow DEF Actor, Present, Online
<1> QED BY <1>1, <1>2, <1>3, Rewritten

\* A box stays true when mails are added to the database.
LEMMA HeldLonger ==
  ASSUME NEW d, SoundMails(d), NEW rows, NEW x, Carries(rows, x), NEW p, NEW b, Held(b, d, p)
  PROVE  Held(b, d \o rows, p)
<1>1. Extends(d, rows, d \o rows)
  BY Appended
<1>2. \A id \in DOMAIN d : id \in DOMAIN (d \o rows) /\ (d \o rows)[id] = d[id]
  BY <1>1 DEF Extends
<1> QED BY <1>2 DEF Held, Holds

\* An item may disappear from a place.
LEMMA SingleShrinks ==
  ASSUME NEW B, NEW M, NEW a, Single(B, M, a), NEW C, C \subseteq B, NEW N, N \subseteq M,
         NEW b, b = a \/ b = None
  PROVE  Single(C, N, b)
BY DEF Single

(* Which mails have an item after new ones have been sent. *)
LEMMA WithSent ==
  ASSUME NEW d, SoundMails(d), NEW rows, NEW x, Carries(rows, x), NEW i \in Items
  PROVE  /\ i # x => With(d \o rows, i) = With(d, i)
         /\ With(d, i) = {} => \A u, v \in With(d \o rows, i) : u = v
<1> DEFINE e == d \o rows
<1>1. Extends(d, rows, e)
  BY Appended
<1> HIDE DEF e
<1>2. i # None
  BY GoneRow
<1>3. ASSUME NEW u \in With(e, i), u \notin With(d, i)
      PROVE  \E k \in DOMAIN rows : u = Len(d) + k /\ rows[k].item = i
  <2>1. u \in DOMAIN e /\ e[u].item = i
    BY <1>3 DEF With
  <2>2. u \notin DOMAIN d
    BY <1>1, <1>3, <2>1 DEF With, Extends
  <2>3. PICK k \in DOMAIN rows : u = Len(d) + k
    BY <1>1, <2>1, <2>2 DEF Extends
  <2>4. e[u] = rows[k]
    BY <1>1, <2>3 DEF Extends
  <2> QED BY <2>1, <2>3, <2>4
<1>4. With(d, i) \subseteq With(e, i)
  BY <1>1 DEF With, Extends
<1>5. i # x => With(e, i) = With(d, i)
  BY <1>2, <1>3, <1>4 DEF Carries
<1>6. ASSUME With(d, i) = {}, NEW u \in With(e, i), NEW v \in With(e, i) PROVE u = v
  <2>1. PICK k \in DOMAIN rows : u = Len(d) + k /\ rows[k].item = i
    BY <1>3, <1>6
  <2>2. PICK l \in DOMAIN rows : v = Len(d) + l /\ rows[l].item = i
    BY <1>3, <1>6
  <2>3. k = l
    BY <1>2, <2>1, <2>2 DEF Carries
  <2> QED BY <2>1, <2>2, <2>3
<1>7. With(e, i) = With(d \o rows, i)
  BY DEF e
<1> QED BY <1>5, <1>6, <1>7

(* What SaveMails writes of the row old when it has row in memory. *)
Overwrites(new, old, row) ==
  new = [old EXCEPT !.money = row.money, !.cod = row.cod,
                    !.item = IF row.item = None THEN None ELSE @]

(* The row is what it was, but for the item it may have lost, money and price. *)
Lightens(new, old) ==
  /\ Sound(new) /\ new # Gone /\ new.to = old.to /\ new.kind = old.kind
  /\ new.item \in {None, old.item}

(* A box of p in which mails have lost money, an item or their price. *)
EditedMail(entry, id, p) ==
  /\ entry \in Entry /\ id \in DOMAIN dbMail /\ Sound(entry.mail) /\ entry.mail.to = p
  /\ IF id \in crossed
     THEN /\ entry.mail.item \in exposed \union {None}
          /\ dbMail[id].kind = "auction" => entry.mail.kind = "auction"
     ELSE /\ dbMail[id].to = p /\ Overwrites(entry.mail, dbMail[id], entry.mail)
          /\ entry.state = "unchanged" => entry.mail = dbMail[id]

Edited(b, p) == \A id \in DOMAIN b : EditedMail(b[id], id, p)

\* What is written with the money, the price and perhaps the item of another mail.
LEMMA Written ==
  ASSUME NEW old, old # Gone, Sound(old), NEW row, row # Gone, Sound(row),
         old.kind = "auction" => row.kind = "auction", NEW new, Overwrites(new, old, row)
  PROVE  Lightens(new, old)
<1>0. /\ new = [old EXCEPT !.money = row.money, !.cod = row.cod,
                           !.item = IF row.item = None THEN None ELSE @]
      /\ old \in Rows /\ row \in Rows
  BY DEF Overwrites, Sound
<1>1. /\ old \in [kind : Kinds, from : Players \union {None}, to : Players,
                  item : Items \union {None}, money : Nat, cod : 0 .. MailPrice]
      /\ row \in [kind : Kinds, from : Players \union {None}, to : Players,
                  item : Items \union {None}, money : Nat, cod : 0 .. MailPrice]
  BY <1>0, GoneRow
<1>2. PICK mo, co, it : mo = row.money /\ co = row.cod /\ it = IF row.item = None THEN None ELSE old.item
  OBVIOUS
<1>3. mo \in Nat /\ co \in 0 .. MailPrice /\ it \in Items \union {None} /\ it \in {None, old.item}
  BY <1>1, <1>2
<1>4. new = [old EXCEPT !.money = mo, !.cod = co, !.item = it]
  BY <1>0, <1>2
<1>5. /\ new \in [kind : Kinds, from : Players \union {None}, to : Players,
                  item : Items \union {None}, money : Nat, cod : 0 .. MailPrice]
      /\ new.kind = old.kind /\ new.from = old.from /\ new.to = old.to /\ new.cod = co
      /\ new.item = it
  BY <1>1, <1>3, <1>4
<1>6. new \in Rows
  BY <1>5 DEF Rows
<1>7. new # Gone
  BY <1>5, <1>6, GoneRow
<1>8. new.cod # 0 => new.kind # "auction"
  BY <1>2, <1>5 DEF Sound
<1>9. new.kind # "auction" => new.from \in Players
  BY <1>5 DEF Sound
<1> QED BY <1>3, <1>5, <1>6, <1>7, <1>8, <1>9 DEF Sound, Lightens

(* SaveMails writes new for the mail id of the box b of p. *)
SavesMail(new, b, id, p) ==
  /\ Sound(new) /\ (new.kind = "auction" => dbMail[id].kind = "auction")
  /\ new = dbMail[id] \/ dbMail[id].to = p \/ id \in crossed
  /\ new = Gone \/ (new.to = dbMail[id].to /\ new.item \in {None, dbMail[id].item})
  /\ b[id].state # "deleted" => Holds(b[id].mail, id, [dbMail EXCEPT ![id] = new], p)
  /\ id \notin crossed /\ b[id].state # "deleted" => new = b[id].mail

\* What SaveMails makes of one mail.
LEMMA OneIsSaved ==
  ASSUME Typed, NEW p \in Players, NEW b, NEW id \in DOMAIN b, EditedMail(b[id], id, p)
  PROVE  SavesMail(SavedMail(b, id), b, id, p)
<1>0. PICK new : new = SavedMail(b, id)
  OBVIOUS
<1>1. PICK old, row, st : old = dbMail[id] /\ row = b[id].mail /\ st = b[id].state
  OBVIOUS
<1>2. /\ id \in DOMAIN dbMail /\ Sound(row) /\ row.to = p /\ Sound(old)
      /\ st \in {"unchanged", "changed", "deleted"} /\ row \in Rows /\ old \in Rows
  BY <1>1 DEF EditedMail, Entry, Typed, SoundMails, Sound
<1>3. row # Gone
  BY <1>2, GoneRow
<1>4. PICK d : d = [dbMail EXCEPT ![id] = new]
  OBVIOUS
<1>5. DOMAIN d = DOMAIN dbMail /\ d[id] = new
  BY <1>2, <1>4
<1>6. IF id \in crossed
      THEN row.item \in exposed \union {None} /\ (old.kind = "auction" => row.kind = "auction")
      ELSE old.to = p /\ Overwrites(row, old, row) /\ (st = "unchanged" => row = old)
  BY <1>1 DEF EditedMail
<1>7. CASE st = "unchanged"
  <2>1. new = old
    BY <1>0, <1>1, <1>7 DEF SavedMail
  <2>2. Holds(row, id, d, p)
    BY <1>2, <1>5, <1>6, <1>7, <2>1 DEF Holds
  <2> QED BY <1>0, <1>1, <1>2, <1>4, <1>6, <1>7, <2>1, <2>2 DEF SavesMail
<1>8. CASE st # "unchanged" /\ (st = "deleted" \/ old = Gone)
  <2>1. new = Gone
    BY <1>0, <1>1, <1>8 DEF SavedMail
  <2>2. id \notin crossed => st = "deleted"
    BY <1>2, <1>6, <1>8, GoneRow
  <2>3. id \in crossed => Holds(row, id, d, p)
    BY <1>2, <1>5, <1>6, <2>1, GoneRow DEF Holds
  <2> QED BY <1>0, <1>1, <1>4, <1>6, <2>1, <2>2, <2>3, GoneRow DEF SavesMail
<1>9. CASE st = "changed" /\ old # Gone
  <2>1. Overwrites(new, old, row)
    BY <1>0, <1>1, <1>9 DEF SavedMail, Overwrites
  <2>2. id \notin crossed => row = new
    BY <1>6, <2>1 DEF Overwrites
  <2>3. id \notin crossed => row.kind = old.kind
    <3>1. old \in [kind : Kinds, from : Players \union {None}, to : Players,
                   item : Items \union {None}, money : Nat, cod : 0 .. MailPrice]
      BY <1>2, <1>9, GoneRow
    <3>2. new.kind = old.kind
      BY <2>1, <3>1 DEF Overwrites
    <3> QED BY <2>2, <3>2
  <2>4. old.kind = "auction" => row.kind = "auction"
    BY <1>6, <2>3
  <2>5. /\ Sound(new) /\ new # Gone /\ new.to = old.to /\ new.kind = old.kind
        /\ new.item \in {None, old.item}
    <3>1. Lightens(new, old)
      BY <1>2, <1>3, <1>9, <2>1, <2>4, Written
    <3> QED BY <3>1 DEF Lightens
  <2>6. Holds(row, id, d, p)
    BY <1>2, <1>5, <1>6, <2>2, <2>5 DEF Holds
  <2> QED BY <1>0, <1>1, <1>4, <1>6, <2>2, <2>5, <2>6 DEF SavesMail
<1> QED BY <1>2, <1>7, <1>8, <1>9

\* SaveMails writes the box of p, and nothing else, to the database.
LEMMA EditedIsSaved ==
  ASSUME Typed, NEW p \in Players, NEW b, Edited(b, p)
  PROVE  /\ Follows(dbMail, SavedMails(b), p) /\ Len(SavedMails(b)) = Len(dbMail)
         /\ Held(Kept(b), SavedMails(b), p)
         /\ \A i \in Items : With(SavedMails(b), i) \subseteq With(dbMail, i)
         /\ \A id \in DOMAIN b \ crossed :
              b[id].state # "deleted" => SavedMails(b)[id] = b[id].mail
<1> DEFINE d == SavedMails(b)
<1>1. PICK n \in Nat : n = Len(dbMail) /\ DOMAIN dbMail = 1 .. n
  BY DEF Typed, SoundMails
<1>2. \A id \in 1 .. n : dbMail[id] \in Rows /\ Sound(dbMail[id])
  BY <1>1 DEF Typed, SoundMails
<1>3. DOMAIN d = 1 .. n /\ \A id \in 1 .. n : d[id] = IF id \in DOMAIN b THEN SavedMail(b, id)
                                                      ELSE dbMail[id]
  BY <1>1 DEF SavedMails
<1>4. d = [id \in 1 .. n |-> d[id]]
  BY <1>1 DEF SavedMails
<1> HIDE DEF d
<1>5. ASSUME NEW id \in DOMAIN b
      PROVE  /\ id \in 1 .. n
             /\ Sound(d[id]) /\ (d[id].kind = "auction" => dbMail[id].kind = "auction")
             /\ d[id] = dbMail[id] \/ dbMail[id].to = p \/ id \in crossed
             /\ d[id] = Gone \/ (d[id].to = dbMail[id].to /\ d[id].item \in {None, dbMail[id].item})
             /\ b[id].state # "deleted" => Holds(b[id].mail, id, d, p)
             /\ id \notin crossed /\ b[id].state # "deleted" => d[id] = b[id].mail
  <2>1. EditedMail(b[id], id, p)
    BY DEF Edited
  <2>2. id \in 1 .. n
    BY <1>1, <2>1 DEF EditedMail
  <2>3. PICK new : new = SavedMail(b, id)
    OBVIOUS
  <2>4. d[id] = new
    BY <1>3, <2>2, <2>3
  <2>5. PICK e : e = [dbMail EXCEPT ![id] = new]
    OBVIOUS
  <2>6. /\ Sound(new) /\ (new.kind = "auction" => dbMail[id].kind = "auction")
        /\ new = dbMail[id] \/ dbMail[id].to = p \/ id \in crossed
        /\ new = Gone \/ (new.to = dbMail[id].to /\ new.item \in {None, dbMail[id].item})
        /\ b[id].state # "deleted" => Holds(b[id].mail, id, e, p)
        /\ id \notin crossed /\ b[id].state # "deleted" => new = b[id].mail
    <3>1. SavesMail(new, b, id, p)
      BY <2>1, <2>3, OneIsSaved
    <3> QED BY <2>5, <3>1 DEF SavesMail
  <2>7. e[id] = d[id] /\ id \in DOMAIN d
    BY <1>1, <1>3, <2>2, <2>4, <2>5
  <2>8. b[id].state # "deleted" => Holds(b[id].mail, id, d, p)
    BY <2>6, <2>7 DEF Holds
  <2> QED BY <2>2, <2>4, <2>6, <2>8
<1>6. \A id \in 1 .. n : Sound(d[id]) /\ d[id] \in Rows
  BY <1>2, <1>3, <1>5 DEF Sound
<1>7. d \in Seq(Rows) /\ Len(d) = n
  BY <1>4, <1>6, IsASeq
<1>8. SoundMails(d)
  BY <1>3, <1>6, <1>7 DEF SoundMails
<1>9. \A id \in 1 .. n :
        /\ d[id] = dbMail[id] \/ dbMail[id].to = p \/ id \in crossed
        /\ d[id].kind = "auction" => dbMail[id].kind = "auction"
        /\ d[id] = Gone \/ (d[id].to = dbMail[id].to /\ d[id].item \in {None, dbMail[id].item})
  BY <1>3, <1>5
<1>10. Follows(dbMail, d, p)
  BY <1>1, <1>7, <1>8, <1>9 DEF Follows, Changes
<1>11. Held(Kept(b), d, p)
  <2>1. ASSUME NEW id \in DOMAIN Kept(b)
        PROVE  Kept(b)[id] \in Entry /\ Holds(Kept(b)[id].mail, id, d, p)
    <3>1. id \in DOMAIN b /\ b[id].state # "deleted" /\ Kept(b)[id] = InMemory(b[id].mail)
      BY <2>1 DEF Kept
    <3>2. Kept(b)[id] = [mail |-> b[id].mail, state |-> "unchanged"]
      BY <3>1 DEF InMemory
    <3>3. Holds(b[id].mail, id, d, p)
      BY <1>5, <3>1
    <3>4. b[id].mail \in Rows
      BY <3>3 DEF Holds, Sound
    <3> QED BY <3>2, <3>3, <3>4 DEF Entry
  <2> QED BY <2>1 DEF Held
<1>12. ASSUME NEW i \in Items PROVE With(d, i) \subseteq With(dbMail, i)
  <2>1. \A id \in 1 .. n : d[id].item \in {None, dbMail[id].item}
    BY <1>9, GoneRow
  <2> QED BY <1>1, <1>3, <2>1, GoneRow DEF With
<1>13. d = SavedMails(b)
  BY DEF d
<1> QED BY <1>1, <1>5, <1>7, <1>10, <1>11, <1>12, <1>13

\* What the invariant says of a player who is online.
LEMMA Kinship ==
  ASSUME Present, NEW p \in Players, state[p] = "online"
  PROVE  Actor(p) /\ purse[p] = dbPurse[p] /\ Same(bag[p], dbBag[p]) /\ Held(box[p], dbMail, p)
BY DEF Actor, Present, Online

(* A step of a handler, for its typing and what everybody has. *)
LEMMA HandlerStep ==
  ASSUME Typed, Crossing, Present, Returning, NEW p, Actor(p), Posted(p), Settled,
         state' = state, loginHolder' = loginHolder, returner' = returner, Calm,
         request' \in [Players -> Requests \union {None}],
         auction' \in [Items -> Entries \union {None}], auction' = dbAuction'
  PROVE  Typed' /\ Crossing' /\ Present' /\ Returning'
<1>1. Step(p)
  BY DEF Step
<1> QED BY <1>1, StepKeeps, StepTyped

(* Mails are lost or lose what they hold, nobody gets an item that counts. *)
LEMMA NothingMoves ==
  ASSUME Unique, exposed \subseteq exposed',
         \A i \in Items \ exposed' :
            /\ Owners(dbBag', i) \subseteq Owners(dbBag, i)
            /\ With(dbMail', i) \subseteq With(dbMail, i) /\ dbAuction'[i] = dbAuction[i]
  PROVE  Unique'
<1>1. ASSUME NEW i \in Items \ exposed'
      PROVE  Single(Owners(dbBag', i), With(dbMail', i), dbAuction'[i])
  <2>1. Single(Owners(dbBag, i), With(dbMail, i), dbAuction[i])
    BY DEF Unique
  <2>2. dbAuction'[i] = dbAuction[i]
    OBVIOUS
  <2> QED BY <2>1, <2>2, SingleShrinks
<1> QED BY <1>1 DEF Unique

\* A bag that is saved as it was, but for exposed items.
LEMMA BagIsSame ==
  ASSUME Typed, NEW p \in Players, NEW y, Same(y, dbBag[p]), dbBag' = [dbBag EXCEPT ![p] = y],
         NEW i \in Items \ exposed
  PROVE  Owners(dbBag', i) = Owners(dbBag, i)
<1>1. \A q \in Players : dbBag'[q] = IF q = p THEN y ELSE dbBag[q]
  BY DEF Typed, Purses
<1>2. i \in y <=> i \in dbBag[p]
  BY DEF Same
<1> QED BY <1>1, <1>2 DEF Owners

(* The process ends in a handler that has changed mails of p: nobody remembers *)
(* anything.                                                                 *)
LEMMA Stopped ==
  ASSUME IInv, NEW items, Ends(items), items \subseteq Items \union {None},
         Purses(dbPurse', dbBag'), NEW p, Follows(dbMail, dbMail', p), Len(dbMail') <= MaxMails,
         auction' \in [Items -> Entries \union {None}], auction' = dbAuction', Unique'
  PROVE  IInv'
<1>1. Typed /\ Crossing
  BY DEF IInv
<1>2. /\ state' = [q \in Players |-> "offline"]
      /\ purse' = [q \in Players |-> 0] /\ bag' = [q \in Players |-> {}]
      /\ box' = [q \in Players |-> Empty] /\ loginHolder' = [q \in Players |-> None]
      /\ request' = [q \in Players |-> None] /\ returner' = None
      /\ crossed' = crossed /\ exposed' = exposed \union (items \ {None})
      /\ stops < MaxStops /\ stops' = stops + 1
  BY DEF Ends, MemoryLost
<1>3. exposed' \in SUBSET Items /\ stops' \in 0 .. MaxStops
  BY <1>1, <1>2, MailAssumption DEF Typed
<1>4. SoundMails(dbMail')
  BY DEF Follows, Changes
<1>5. Typed'
  BY <1>1, <1>2, <1>3, <1>4 DEF Typed, Purses
<1>6. Crossing'
  BY <1>1, <1>2, CrossingKept
<1>7. Present'
  BY <1>2 DEF Present, Empty
<1>8. Returning'
  BY <1>2 DEF Returning
<1> QED BY <1>5, <1>6, <1>7, <1>8 DEF IInv

\* Mails sent after others follow them.
LEMMA FollowsSent ==
  ASSUME Typed, NEW p, NEW d, Follows(dbMail, d, p), Len(d) = Len(dbMail),
         NEW rows, NEW x, Carries(rows, x), Fits(rows), NEW e, e = d \o rows
  PROVE  Follows(dbMail, e, p) /\ Len(e) <= MaxMails
<1>1. SoundMails(dbMail) /\ SoundMails(d)
  BY DEF Typed, Follows, Changes
<1>2. /\ SoundMails(e) /\ Len(e) = Len(d) + Len(rows)
      /\ Len(d) \in Nat /\ Len(rows) \in Nat /\ DOMAIN d = 1 .. Len(d)
      /\ \A id \in DOMAIN d : id \in DOMAIN e /\ e[id] = d[id]
  <2>1. Extends(d, rows, e)
    BY <1>1, Appended
  <2> QED BY <2>1 DEF Extends
<1>3. DOMAIN d = DOMAIN dbMail
  BY <1>1, <1>2 DEF SoundMails
<1> QED BY <1>2, <1>3 DEF Follows, Changes, Fits

\* A request that is refused changes nothing but itself.
LEMMA SendMailRefusedKeeps ==
  ASSUME IInv, NEW p \in Players, SendMailRefused(p), UNCHANGED <<auction, dbAuction>>
  PROVE  IInv'
<1>1. Typed /\ Crossing /\ Present /\ Returning /\ Unique
  BY DEF IInv
<1>2. Actor(None)
  BY DEF Actor
<1>3. /\ UNCHANGED <<state, purse, bag, box, loginHolder, returner, dbPurse, dbBag, dbMail>>
      /\ Calm /\ request' = [request EXCEPT ![p] = None]
  BY DEF SendMailRefused, memVars, dbVars, history, Calm
<1>4. Posted(None) /\ Settled
  BY <1>1, <1>2, <1>3, NotPosted, NotPaid
<1>5. request' \in [Players -> Requests \union {None}]
  BY <1>1, <1>3 DEF Typed
<1>6. Typed' /\ Crossing' /\ Present' /\ Returning'
  BY <1>1, <1>2, <1>3, <1>4, <1>5, HandlerStep DEF Typed
<1>7. Unique'
  BY <1>1, <1>3, NothingMoves DEF Calm
<1> QED BY <1>6, <1>7 DEF IInv

\* CMSG_SEND_MAIL only records what is asked for.
LEMMA HandleSendMailKeeps ==
  ASSUME IInv, NEW p \in Players, NEW q \in Players, NEW i \in Items \union {None},
         NEW sum \in 0 .. MailPrice, NEW cod \in 0 .. MailPrice,
         HandleSendMail(p, q, i, sum, cod), UNCHANGED <<auction, dbAuction>>
  PROVE  IInv'
<1>1. Typed /\ Crossing /\ Present /\ Returning /\ Unique
  BY DEF IInv
<1>2. Actor(None)
  BY DEF Actor
<1>3. PICK r : r = [to |-> q, item |-> i, money |-> sum, cod |-> cod]
  OBVIOUS
<1>4. /\ UNCHANGED <<state, purse, bag, box, loginHolder, returner, dbPurse, dbBag, dbMail>>
      /\ Calm /\ request' = [request EXCEPT ![p] = r]
  BY <1>3 DEF HandleSendMail, memVars, dbVars, history, Calm
<1>5. r \in Requests
  BY <1>3 DEF Requests
<1>6. request' \in [Players -> Requests \union {None}]
  BY <1>1, <1>4, <1>5 DEF Typed
<1>7. Posted(None) /\ Settled
  BY <1>1, <1>2, <1>4, NotPosted, NotPaid
<1>8. Typed' /\ Crossing' /\ Present' /\ Returning'
  BY <1>1, <1>2, <1>4, <1>6, <1>7, HandlerStep DEF Typed
<1>9. Unique'
  BY <1>1, <1>4, NothingMoves DEF Calm
<1> QED BY <1>8, <1>9 DEF IInv

(* p writes the letter row, as asked for in r. *)
Writes(p, r, row) ==
  /\ state[p] = "online" /\ r \in Requests /\ Sound(row) /\ row.item = r.item
  /\ Carries(<<row>>, r.item)
  /\ purse[p] - Charge(r) \in Nat /\ bag[p] \ Taken(r) \in SUBSET Items
  /\ Taken(r) \subseteq bag[p]

\* What a player may send.
LEMMA LetterIsSound ==
  ASSUME Typed, NEW p \in Players, MaySend(p)
  PROVE  Writes(p, request[p], Letter(p, request[p]))
<1>1. PICK r : r = request[p]
  OBVIOUS
<1>2. r \in Requests /\ state[p] = "online" /\ purse[p] >= Charge(r) /\ Taken(r) \subseteq bag[p]
  BY <1>1 DEF MaySend, Typed
<1>3. PICK row : row = Letter(p, r)
  OBVIOUS
<1>4. Sound(row) /\ row.item = r.item
  <2>1. /\ r.to \in Players /\ r.item \in Items \union {None} /\ r.money \in 0 .. MailPrice
        /\ r.cod \in 0 .. MailPrice
    BY <1>2 DEF Requests
  <2>2. PICK c : c = IF r.item = None THEN 0 ELSE r.cod
    OBVIOUS
  <2>3. c \in 0 .. MailPrice
    BY <2>1, <2>2, MailAssumption
  <2>4. row = Row("normal", p, r.to, r.item, r.money, c)
    BY <1>3, <2>2 DEF Letter
  <2>5. /\ row.kind = "normal" /\ row.from = p /\ row.to = r.to /\ row.item = r.item
        /\ row \in Rows
    BY <2>1, <2>3, <2>4, MailAssumption DEF Row, Rows, Kinds
  <2> QED BY <2>5 DEF Sound
<1>5. Carries(<<row>>, r.item)
  BY <1>4, OneMail
<1>6. purse[p] - Charge(r) \in Nat /\ bag[p] \ Taken(r) \in SUBSET Items
  <2>1. purse[p] \in Nat /\ bag[p] \in SUBSET Items
    BY DEF Typed, Purses
  <2>2. r.money \in Nat /\ Postage \in Nat
    BY <1>2, MailAssumption DEF Requests
  <2>3. Charge(r) \in Nat
    BY <2>2 DEF Charge
  <2> QED BY <1>2, <2>1, <2>3
<1> QED BY <1>1, <1>2, <1>3, <1>4, <1>5, <1>6 DEF Writes

(* What the sender gives away is in the new mail, and nowhere else. *)
LEMMA HandleSendMailCallbackKeeps ==
  ASSUME IInv, NEW p \in Players, HandleSendMailCallback(p), UNCHANGED <<auction, dbAuction>>
  PROVE  IInv'
<1>1. Typed /\ Crossing /\ Present /\ Returning /\ Unique
  BY DEF IInv
<1>2. PICK r, row : r = request[p] /\ row = Letter(p, r)
  OBVIOUS
<1>3. /\ MaySend(p)
      /\ purse' = [purse EXCEPT ![p] = @ - Charge(r)]
      /\ bag' = [bag EXCEPT ![p] = @ \ Taken(r)]
      /\ SendMails(<<row>>) /\ SaveInventoryAndGold(p)
      /\ request' = [request EXCEPT ![p] = None]
      /\ state' = state /\ loginHolder' = loginHolder /\ returner' = returner /\ Calm
  BY <1>2 DEF HandleSendMailCallback, history, Calm
<1>4. Writes(p, r, row)
  BY <1>1, <1>2, <1>3, LetterIsSound
<1>5. /\ state[p] = "online" /\ r \in Requests /\ Carries(<<row>>, r.item)
      /\ purse[p] - Charge(r) \in Nat /\ bag[p] \ Taken(r) \in SUBSET Items
      /\ Taken(r) \subseteq bag[p]
  BY <1>4 DEF Writes
<1>6. Actor(p) /\ Same(bag[p], dbBag[p])
  BY <1>1, <1>5, Kinship
<1>7. Posted(p)
  BY <1>1, <1>3, <1>5, <1>6, Sent
<1>8. PICK x, y : x = purse[p] - Charge(r) /\ y = bag[p] \ Taken(r)
  OBVIOUS
<1>9. purse' = [purse EXCEPT ![p] = x] /\ bag' = [bag EXCEPT ![p] = y]
  BY <1>3, <1>8
<1>10. Settled /\ dbBag' = [dbBag EXCEPT ![p] = y]
  <2>1. Settles(p, x, y)
    BY <1>3, <1>5, <1>8, <1>9 DEF Settles
  <2> QED BY <1>1, <1>5, <2>1, Saved
<1>11. request' \in [Players -> Requests \union {None}]
  BY <1>1, <1>3 DEF Typed
<1>12. Typed' /\ Crossing' /\ Present' /\ Returning'
  BY <1>1, <1>3, <1>6, <1>7, <1>10, <1>11, HandlerStep DEF Typed
<1>13. ASSUME NEW i \in Items \ exposed
       PROVE  Single(Owners(dbBag', i), With(dbMail', i), dbAuction'[i])
  <2>1. Single(Owners(dbBag, i), With(dbMail, i), dbAuction[i])
    BY <1>1 DEF Unique
  <2>2. SoundMails(dbMail) /\ dbMail' = dbMail \o <<row>> /\ dbAuction' = dbAuction
    BY <1>1, <1>3 DEF SendMails, Typed
  <2>3. \A q \in Players : dbBag'[q] = IF q = p THEN y ELSE dbBag[q]
    BY <1>1, <1>10 DEF Typed, Purses
  <2>4. i \in bag[p] <=> i \in dbBag[p]
    BY <1>6 DEF Same
  <2>5. CASE i = r.item
    <3>1. i \in dbBag[p] /\ i \notin y
      BY <1>5, <1>8, <2>4, <2>5, GoneRow DEF Taken
    <3>2. p \in Owners(dbBag, i)
      BY <3>1 DEF Owners
    <3>3. With(dbMail, i) = {} /\ dbAuction[i] = None
      BY <2>1, <3>2 DEF Single
    <3>4. Owners(dbBag', i) = {}
      BY <2>1, <2>3, <3>1, <3>2 DEF Owners, Single
    <3>5. \A u, v \in With(dbMail', i) : u = v
      BY <1>5, <2>2, <3>3, WithSent
    <3> QED BY <2>2, <3>3, <3>4, <3>5 DEF Single
  <2>6. CASE i # r.item
    <3>1. With(dbMail', i) = With(dbMail, i)
      BY <1>5, <2>2, <2>6, WithSent
    <3>2. Owners(dbBag', i) \subseteq Owners(dbBag, i)
      BY <1>8, <2>3, <2>4 DEF Owners
    <3> QED BY <2>1, <2>2, <3>1, <3>2, SingleShrinks
  <2> QED BY <2>5, <2>6
<1>14. Unique'
  BY <1>3, <1>13 DEF Unique, Calm
<1> QED BY <1>12, <1>14 DEF IInv

\* What is left of a letter when the process ends while it is sent.
LEMMA SendingStopsKeeps ==
  ASSUME IInv, NEW p \in Players, NEW done, SendingStops(p, done),
         UNCHANGED dbAuction, auction' = dbAuction
  PROVE  IInv'
<1>1. Typed /\ Crossing /\ Present /\ Returning /\ Unique
  BY DEF IInv
<1>2. PICK r, row : r = request[p] /\ row = Letter(p, r)
  OBVIOUS
<1>3. PICK part : part = IF "mail" \in done THEN {1} ELSE {}
  OBVIOUS
<1>4. PICK x, y : /\ x = IF "save" \in done THEN purse[p] - Charge(r) ELSE dbPurse[p]
                  /\ y = IF "save" \in done THEN bag[p] \ Taken(r)
                         ELSE IF "item" \in done THEN dbBag[p] \ Taken(r) ELSE dbBag[p]
  OBVIOUS
<1>5. PICK sent : sent = <<row>>
  OBVIOUS
<1>6. /\ MaySend(p) /\ Fits(sent) /\ Ends({r.item})
      /\ dbMail' = Inserted(sent, part)
      /\ dbPurse' = [dbPurse EXCEPT ![p] = x] /\ dbBag' = [dbBag EXCEPT ![p] = y]
  <2>1. /\ MaySend(p) /\ Fits(sent) /\ Ends({r.item})
        /\ dbMail' = Inserted(sent, part)
    BY <1>2, <1>3, <1>5 DEF SendingStops
  <2>2. /\ dbPurse \in [Players -> Nat] /\ dbBag \in [Players -> SUBSET Items]
    BY <1>1 DEF Typed, Purses
  <2>3. dbPurse' = [dbPurse EXCEPT ![p] = IF "save" \in done THEN purse[p] - Charge(r) ELSE @]
    BY <1>2 DEF SendingStops
  <2>4. dbBag' = [dbBag EXCEPT ![p] = IF "save" \in done THEN bag[p] \ Taken(r)
                                      ELSE IF "item" \in done THEN @ \ Taken(r) ELSE @]
    BY <1>2 DEF SendingStops
  <2> QED BY <1>4, <2>1, <2>2, <2>3, <2>4
<1>7. Writes(p, r, row)
  BY <1>1, <1>2, <1>6, LetterIsSound
<1>8. /\ state[p] = "online" /\ r \in Requests /\ Carries(sent, r.item)
      /\ purse[p] - Charge(r) \in Nat /\ bag[p] \ Taken(r) \in SUBSET Items
  BY <1>5, <1>7 DEF Writes
<1>9. Same(bag[p], dbBag[p]) /\ dbPurse \in [Players -> Nat]
      /\ dbBag \in [Players -> SUBSET Items]
  BY <1>1, <1>8, Kinship DEF Typed, Purses
<1>10. x \in Nat /\ y \in SUBSET Items
  BY <1>4, <1>8, <1>9
<1>11. Purses(dbPurse', dbBag')
  BY <1>6, <1>9, <1>10 DEF Purses
<1>12. PICK rows : rows = [k \in DOMAIN sent |-> IF k \in part THEN sent[k] ELSE Gone]
  OBVIOUS
<1>13. Carries(rows, r.item) /\ dbMail' = dbMail \o rows
  BY <1>6, <1>8, <1>12, SomeMails DEF Inserted
<1>14. Fits(rows)
  <2>1. PICK n \in Nat : n = Len(sent) /\ DOMAIN sent = 1 .. n
    BY <1>8 DEF Carries
  <2>2. DOMAIN rows = 1 .. n /\ rows \in Seq(Rows)
    BY <1>12, <1>13, <2>1 DEF Carries
  <2>3. Len(rows) = n
    BY <2>1, <2>2
  <2> QED BY <1>6, <2>1, <2>3 DEF Fits
<1>15. Follows(dbMail, dbMail, p)
  BY <1>1, FollowsSelf DEF Typed
<1>16. Follows(dbMail, dbMail', p) /\ Len(dbMail') <= MaxMails
  BY <1>1, <1>13, <1>14, <1>15, FollowsSent
<1>17. /\ exposed' = exposed \union ({r.item} \ {None}) /\ {r.item} \subseteq Items \union {None}
  BY <1>6, <1>8 DEF Ends, Requests
<1>18. Unique'
  <2>1. ASSUME NEW i \in Items \ exposed'
        PROVE  /\ Owners(dbBag', i) \subseteq Owners(dbBag, i)
               /\ With(dbMail', i) \subseteq With(dbMail, i) /\ dbAuction'[i] = dbAuction[i]
    <3>1. i \in Items \ exposed /\ i # r.item
      BY <1>17, <2>1, GoneRow
    <3>2. With(dbMail', i) = With(dbMail, i)
      BY <1>1, <1>13, <3>1, WithSent DEF Typed
    <3>3. i \in bag[p] <=> i \in dbBag[p]
      BY <1>9, <3>1 DEF Same
    <3>4. i \in y => i \in dbBag[p]
      BY <1>4, <3>3
    <3>5. \A q \in Players : dbBag'[q] = IF q = p THEN y ELSE dbBag[q]
      BY <1>6, <1>9
    <3> QED BY <3>2, <3>4, <3>5 DEF Owners
  <2> QED BY <1>1, <1>17, <2>1, NothingMoves
<1>19. auction' \in [Items -> Entries \union {None}] /\ auction' = dbAuction'
  BY <1>1 DEF Typed
<1> QED BY <1>6, <1>11, <1>16, <1>17, <1>18, <1>19, Stopped

Letters ==
  [kind : Kinds, from : Players \union {None}, to : Players, item : Items \union {None},
   money : Nat, cod : 0 .. MailPrice]

(* A mail that p has open, as he sees it. *)
Reads(p, id, m) ==
  /\ state[p] = "online" /\ Actor(p) /\ Held(box[p], dbMail, p)
  /\ id \in DOMAIN box[p] /\ box[p][id] = [mail |-> m, state |-> box[p][id].state]
  /\ box[p][id].state \in {"unchanged", "changed"}
  /\ id \in DOMAIN dbMail /\ (id \notin crossed => dbMail[id] = m)
  /\ id \in crossed => /\ m.item \in exposed \union {None}
                       /\ dbMail[id].kind = "auction" => m.kind = "auction"
  /\ m \in Letters /\ m.to = p /\ m # Gone /\ Sound(m)

\* A mail that a handler finds in the box is the row of the database, if it is not crossed.
LEMMA OpenMail ==
  ASSUME Present, NEW p \in Players, NEW id, Open(p, id)
  PROVE  Reads(p, id, box[p][id].mail)
<1>1. state[p] = "online" /\ id \in DOMAIN box[p] /\ box[p][id].state # "deleted"
  BY DEF Open
<1>2. Held(box[p], dbMail, p) /\ Actor(p)
  BY <1>1, Kinship
<1>3. PICK m, s : m = box[p][id].mail /\ s = box[p][id].state
  OBVIOUS
<1>4. box[p][id] \in Entry /\ Holds(m, id, dbMail, p)
  BY <1>1, <1>2, <1>3 DEF Held
<1>5. box[p][id] = [mail |-> m, state |-> s] /\ s \in {"unchanged", "changed"}
  BY <1>1, <1>3, <1>4 DEF Entry
<1>6. Sound(m) /\ m.to = p /\ m \in Rows
  BY <1>4 DEF Holds, Sound
<1>7. m # Gone
  BY <1>6, GoneRow
<1>8. m \in Letters
  BY <1>6, <1>7, GoneRow DEF Letters
<1> QED BY <1>1, <1>2, <1>3, <1>4, <1>5, <1>6, <1>7, <1>8 DEF Reads, Holds

\* A box that agrees with the database is an edited one.
LEMMA BoxIsEdited ==
  ASSUME Typed, NEW p \in Players, NEW b, Held(b, dbMail, p)
  PROVE  Edited(b, p)
<1>1. ASSUME NEW id \in DOMAIN b PROVE EditedMail(b[id], id, p)
  <2>1. PICK m : m = b[id].mail
    OBVIOUS
  <2>2. b[id] \in Entry /\ Holds(m, id, dbMail, p)
    BY <2>1 DEF Held
  <2>3. m.to = p /\ Sound(m) /\ m \in Rows
    BY <2>2 DEF Holds, Sound
  <2>4. m \in Letters
    BY <2>3, GoneRow DEF Letters
  <2>5. m = [m EXCEPT !.money = m.money, !.cod = m.cod,
                      !.item = IF m.item = None THEN None ELSE @]
    BY <2>4 DEF Letters
  <2>6. Overwrites(m, m, m)
    BY <2>5 DEF Overwrites
  <2> QED BY <2>1, <2>2, <2>3, <2>6 DEF EditedMail, Holds
<1> QED BY <1>1 DEF Edited

(* In the box c, one mail has become m, which has lost money, item or price. *)
Alters(b, c, id, m) ==
  /\ id \in DOMAIN c /\ DOMAIN b = DOMAIN c /\ \A o \in DOMAIN c \ {id} : b[o] = c[o]
  /\ b[id] = [mail |-> m, state |-> "changed"]

Less(m, d) ==
  \E mo \in Nat, co \in {0, d.cod}, it \in {None, d.item} :
     m = [d EXCEPT !.money = mo, !.cod = co, !.item = it]

\* So is one in which a mail has lost something.
LEMMA OneIsEdited ==
  ASSUME Typed, NEW p \in Players, NEW id, NEW d, Reads(p, id, d), NEW b, NEW m,
         Alters(b, box[p], id, m), Less(m, d)
  PROVE  Edited(b, p)
<1>1. /\ id \in DOMAIN box[p] /\ DOMAIN b = DOMAIN box[p]
      /\ \A o \in DOMAIN box[p] \ {id} : b[o] = box[p][o]
      /\ b[id] = [mail |-> m, state |-> "changed"]
  BY DEF Alters
<1>2. /\ Held(box[p], dbMail, p) /\ id \in DOMAIN dbMail /\ (id \notin crossed => dbMail[id] = d)
      /\ id \in crossed => /\ d.item \in exposed \union {None}
                           /\ dbMail[id].kind = "auction" => d.kind = "auction"
      /\ d \in Letters /\ d.to = p /\ Sound(d) /\ d # Gone
  BY DEF Reads
<1>3. Edited(box[p], p)
  BY <1>2, BoxIsEdited
<1>4. PICK mo \in Nat, co \in {0, d.cod}, it \in {None, d.item} :
        m = [d EXCEPT !.money = mo, !.cod = co, !.item = it]
  BY DEF Less
<1>5. co \in 0 .. MailPrice /\ it \in Items \union {None}
  BY <1>2, <1>4, MailAssumption DEF Letters
<1>6. /\ m.kind = d.kind /\ m.from = d.from /\ m.to = d.to
      /\ m.money = mo /\ m.cod = co /\ m.item = it /\ m \in Letters
  BY <1>2, <1>4, <1>5 DEF Letters
<1>7. m \in Rows
  BY <1>6 DEF Rows, Letters
<1>8. Sound(m)
  BY <1>2, <1>4, <1>6, <1>7 DEF Sound
<1>9. m = [d EXCEPT !.money = m.money, !.cod = m.cod,
                    !.item = IF m.item = None THEN None ELSE @]
  BY <1>2, <1>4, <1>6 DEF Letters
<1>10. Overwrites(m, d, m)
  BY <1>9 DEF Overwrites
<1>11. b[id] \in Entry /\ b[id].mail = m /\ b[id].state = "changed"
  BY <1>1, <1>7 DEF Entry
<1>12. EditedMail(b[id], id, p)
  BY <1>2, <1>4, <1>6, <1>8, <1>10, <1>11 DEF EditedMail
<1>13. ASSUME NEW o \in DOMAIN b PROVE EditedMail(b[o], o, p)
  <2>1. CASE o = id
    BY <1>12, <2>1
  <2>2. CASE o # id
    <3>1. b[o] = box[p][o] /\ o \in DOMAIN box[p]
      BY <1>1, <2>2
    <3> QED BY <1>3, <3>1 DEF Edited
  <2> QED BY <2>1, <2>2
<1> QED BY <1>13 DEF Edited

(* What the handlers write to the box c. *)
LEMMA MoneyTaken ==
  ASSUME NEW c, NEW id \in DOMAIN c, NEW m, NEW s, c[id] = [mail |-> m, state |-> s]
  PROVE  Alters([c EXCEPT ![id].mail.money = 0, ![id].state = "changed"], c, id,
                [m EXCEPT !.money = 0])
<1>1. PICK b, n, f : /\ b = [c EXCEPT ![id].mail.money = 0, ![id].state = "changed"]
                     /\ n = [m EXCEPT !.money = 0] /\ f = "changed"
  OBVIOUS
<1>2. PICK e : e = [c EXCEPT ![id].mail.money = 0]
  OBVIOUS
<1>3. PICK r, t, v : /\ r = [mail |-> m, state |-> s] /\ t = [mail |-> n, state |-> s]
                     /\ v = [mail |-> n, state |-> f]
  OBVIOUS
<1>4. t = [r EXCEPT !.mail.money = 0]
  BY <1>1, <1>3
<1>5. v = [t EXCEPT !.state = f]
  BY <1>3
<1>6. e = [c EXCEPT ![id] = t]
  BY <1>2, <1>3, <1>4
<1>7. e[id] = t /\ DOMAIN e = DOMAIN c /\ \A o \in DOMAIN c \ {id} : e[o] = c[o]
  BY <1>6
<1>8. b = [e EXCEPT ![id].state = f]
  BY <1>1, <1>2
<1>9. b = [e EXCEPT ![id] = v]
  BY <1>5, <1>7, <1>8
<1>10. DOMAIN b = DOMAIN c /\ b[id] = v /\ \A o \in DOMAIN c \ {id} : b[o] = c[o]
  BY <1>7, <1>9
<1>11. b[id] = [mail |-> n, state |-> "changed"]
  BY <1>1, <1>3, <1>10
<1> QED BY <1>1, <1>10, <1>11 DEF Alters

\* The box after TakeItem: one mail has lost its item and its price.
LEMMA ItemTaken ==
  ASSUME NEW c, NEW id \in DOMAIN c, NEW m, NEW s, c[id] = [mail |-> m, state |-> s]
  PROVE  Alters(WithoutItem(c, id), c, id, [m EXCEPT !.item = None, !.cod = 0])
<1>1. PICK b, n, f : /\ b = WithoutItem(c, id)
                     /\ n = [m EXCEPT !.item = None, !.cod = 0] /\ f = "changed"
  OBVIOUS
<1>2. PICK k, e : k = [m EXCEPT !.item = None] /\ e = [c EXCEPT ![id].mail.item = None]
  OBVIOUS
<1>3. PICK g : g = [e EXCEPT ![id].mail.cod = 0]
  OBVIOUS
<1>4. PICK r, t, u, v : /\ r = [mail |-> m, state |-> s] /\ t = [mail |-> k, state |-> s]
                        /\ u = [mail |-> n, state |-> s] /\ v = [mail |-> n, state |-> f]
  OBVIOUS
<1>5. t = [r EXCEPT !.mail.item = None]
  BY <1>2, <1>4
<1>6. n = [k EXCEPT !.cod = 0]
  BY <1>1, <1>2
<1>7. u = [t EXCEPT !.mail.cod = 0]
  BY <1>4, <1>6
<1>8. v = [u EXCEPT !.state = f]
  BY <1>4
<1>9. e = [c EXCEPT ![id] = t]
  BY <1>2, <1>4, <1>5
<1>10. e[id] = t /\ DOMAIN e = DOMAIN c /\ \A o \in DOMAIN c \ {id} : e[o] = c[o]
  BY <1>9
<1>11. g = [e EXCEPT ![id] = u]
  BY <1>3, <1>7, <1>10
<1>12. g[id] = u /\ DOMAIN g = DOMAIN c /\ \A o \in DOMAIN c \ {id} : g[o] = c[o]
  BY <1>10, <1>11
<1>13. b = [g EXCEPT ![id].state = f]
  BY <1>1, <1>2, <1>3 DEF WithoutItem
<1>14. b = [g EXCEPT ![id] = v]
  BY <1>8, <1>12, <1>13
<1>15. DOMAIN b = DOMAIN c /\ b[id] = v /\ \A o \in DOMAIN c \ {id} : b[o] = c[o]
  BY <1>12, <1>14
<1>16. b[id] = [mail |-> n, state |-> "changed"]
  BY <1>1, <1>4, <1>15
<1> QED BY <1>1, <1>15, <1>16 DEF Alters

\* The box after a mail has been marked.
LEMMA MailMarked ==
  ASSUME NEW c, NEW id \in DOMAIN c, NEW m, NEW s, c[id] = [mail |-> m, state |-> s],
         NEW mark, NEW b, b = [c EXCEPT ![id].state = mark]
  PROVE  /\ DOMAIN b = DOMAIN c /\ \A o \in DOMAIN c \ {id} : b[o] = c[o]
         /\ b[id] = [mail |-> m, state |-> mark]
<1>1. PICK r, v : r = [mail |-> m, state |-> s] /\ v = [mail |-> m, state |-> mark]
  OBVIOUS
<1>2. v = [r EXCEPT !.state = mark]
  BY <1>1
<1>3. b = [c EXCEPT ![id] = v]
  BY <1>1, <1>2
<1> QED BY <1>1, <1>3

\* The money taken goes to the purse, and both are saved.
LEMMA HandleMailTakeMoneyKeeps ==
  ASSUME IInv, NEW p \in Players, NEW id, HandleMailTakeMoney(p, id),
         UNCHANGED <<auction, dbAuction>>
  PROVE  IInv'
<1>1. Typed /\ Crossing /\ Present /\ Returning /\ Unique
  BY DEF IInv
<1>2. PICK b : b = [box[p] EXCEPT ![id].mail.money = 0, ![id].state = "changed"]
  OBVIOUS
<1>3. /\ Open(p, id) /\ box' = [box EXCEPT ![p] = Kept(b)] /\ dbMail' = SavedMails(b)
      /\ purse' = [purse EXCEPT ![p] = @ + box[p][id].mail.money]
      /\ bag' = bag /\ SaveInventoryAndGold(p)
      /\ state' = state /\ loginHolder' = loginHolder /\ request' = request /\ returner' = returner
      /\ Calm
  BY <1>2 DEF HandleMailTakeMoney, history, Calm
<1>4. PICK m, s : m = box[p][id].mail /\ s = box[p][id].state
  OBVIOUS
<1>5. Reads(p, id, m)
  BY <1>1, <1>3, <1>4, OpenMail
<1>6. /\ state[p] = "online" /\ Actor(p) /\ Same(bag[p], dbBag[p]) /\ m \in Letters
      /\ id \in DOMAIN box[p] /\ box[p][id] = [mail |-> m, state |-> s]
  BY <1>1, <1>4, <1>5, Kinship DEF Reads
<1>7. PICK n : n = [m EXCEPT !.money = 0]
  OBVIOUS
<1>8. Alters(b, box[p], id, n)
  BY <1>2, <1>6, <1>7, MoneyTaken
<1>9. n = [m EXCEPT !.money = 0, !.cod = m.cod, !.item = m.item]
  BY <1>6, <1>7 DEF Letters
<1>10. Less(n, m)
  BY <1>9 DEF Less
<1>11. Edited(b, p)
  BY <1>1, <1>5, <1>8, <1>10, OneIsEdited
<1>12. /\ Follows(dbMail, dbMail', p) /\ Len(dbMail') = Len(dbMail)
       /\ Held(Kept(b), dbMail', p)
       /\ \A i \in Items : With(dbMail', i) \subseteq With(dbMail, i)
  BY <1>1, <1>3, <1>11, EditedIsSaved
<1>13. DOMAIN box' = Players /\ box'[p] = Kept(b) /\ \A q \in Players \ {p} : box'[q] = box[q]
  BY <1>1, <1>3 DEF Typed
<1>14. Posted(p)
  BY <1>1, <1>6, <1>12, <1>13, Rewritten
<1>15. PICK x, y : x = purse[p] + m.money /\ y = bag[p]
  OBVIOUS
<1>16. purse \in [Players -> Nat] /\ bag \in [Players -> SUBSET Items]
       /\ dbBag \in [Players -> SUBSET Items]
  BY <1>1 DEF Typed, Purses
<1>17. Settles(p, x, y)
  <2>1. x \in Nat /\ y \in SUBSET Items
    BY <1>6, <1>15, <1>16 DEF Letters
  <2>2. purse' = [purse EXCEPT ![p] = x] /\ bag' = [bag EXCEPT ![p] = y]
    BY <1>3, <1>4, <1>15, <1>16
  <2> QED BY <1>3, <2>1, <2>2 DEF Settles
<1>18. Settled /\ dbBag' = [dbBag EXCEPT ![p] = y]
  BY <1>1, <1>6, <1>17, Saved
<1>19. \A i \in Items \ exposed : Owners(dbBag', i) = Owners(dbBag, i)
  BY <1>1, <1>6, <1>15, <1>18, BagIsSame
<1>20. Typed' /\ Crossing' /\ Present' /\ Returning'
  BY <1>1, <1>3, <1>6, <1>14, <1>18, HandlerStep DEF Typed
<1>21. Unique'
  BY <1>1, <1>3, <1>12, <1>19, NothingMoves DEF Calm
<1> QED BY <1>20, <1>21 DEF IInv

(* p takes the item out of the mail m, which makes d of the database. *)
TakesItem(p, id, m, d) ==
  /\ m.item \in Items /\ m.cod \in Nat /\ Carries(Payment(m), None)
  /\ Follows(dbMail, d, p) /\ Len(d) = Len(dbMail)
  /\ Held(Kept(WithoutItem(box[p], id)), d, p)
  /\ \A i \in Items : With(d, i) \subseteq With(dbMail, i)
  /\ id \notin crossed => d[id].item = None

\* What SaveMails writes after an item has been taken, and what is paid for it.
LEMMA TakenItem ==
  ASSUME Typed, NEW p \in Players, NEW id, NEW m, Reads(p, id, m), m.item # None
  PROVE  TakesItem(p, id, m, SavedMails(WithoutItem(box[p], id)))
<1>1. PICK b, d, s : b = WithoutItem(box[p], id) /\ d = SavedMails(b) /\ s = box[p][id].state
  OBVIOUS
<1>2. PICK n : n = [m EXCEPT !.item = None, !.cod = 0]
  OBVIOUS
<1>3. /\ id \in DOMAIN box[p] /\ box[p][id] = [mail |-> m, state |-> s]
      /\ m \in Letters /\ Sound(m) /\ m.to = p
  BY <1>1 DEF Reads
<1>4. Alters(b, box[p], id, n)
  BY <1>1, <1>2, <1>3, ItemTaken
<1>5. n = [m EXCEPT !.money = m.money, !.cod = 0, !.item = None] /\ n.item = None
  BY <1>2, <1>3 DEF Letters
<1>6. Less(n, m)
  BY <1>3, <1>5 DEF Less, Letters
<1>7. Edited(b, p)
  BY <1>4, <1>6, OneIsEdited
<1>8. id \in DOMAIN b /\ b[id].state = "changed" /\ b[id].mail = n
  BY <1>4 DEF Alters
<1>9. /\ Follows(dbMail, d, p) /\ Len(d) = Len(dbMail) /\ Held(Kept(b), d, p)
      /\ \A i \in Items : With(d, i) \subseteq With(dbMail, i)
      /\ id \notin crossed => d[id] = n
  BY <1>1, <1>7, <1>8, EditedIsSaved
<1>10. Carries(Payment(m), None)
  <2>1. CASE m.cod = 0
    BY <2>1, NoMail DEF Payment
  <2>2. CASE m.cod # 0
    <3>1. PICK row : row = Row("codPayment", m.to, m.from, None, m.cod, 0)
      OBVIOUS
    <3>2. m.from \in Players /\ m.cod \in Nat
      BY <1>3, <2>2, MailAssumption, GoneRow DEF Sound, Reads, Letters
    <3>3. row.kind = "codPayment" /\ row.from = m.to /\ row.to = m.from /\ row.item = None
          /\ row.cod = 0 /\ row \in Rows
      BY <1>3, <3>1, <3>2, MailAssumption DEF Row, Rows, Kinds, Letters
    <3>4. Sound(row)
      BY <1>3, <3>3 DEF Sound
    <3>5. Payment(m) = <<row>>
      BY <2>2, <3>1 DEF Payment
    <3> QED BY <3>3, <3>4, <3>5, OneMail
  <2> QED BY <2>1, <2>2
<1>11. m.item \in Items /\ m.cod \in Nat
  BY <1>3, MailAssumption DEF Letters
<1> QED BY <1>1, <1>5, <1>9, <1>10, <1>11 DEF TakesItem

\* The item taken is in one mail, which loses it, and in no bag.
LEMMA ItemMoves ==
  ASSUME Typed, Unique, NEW p \in Players, Same(bag[p], dbBag[p]), NEW id, NEW m,
         Reads(p, id, m), NEW d, TakesItem(p, id, m, d), NEW rows, Carries(rows, None),
         dbMail' = d \o rows, dbBag' = [dbBag EXCEPT ![p] = bag[p] \union {m.item}],
         dbAuction' = dbAuction, exposed' = exposed
  PROVE  Unique'
<1>1. /\ m.item \in Items /\ SoundMails(d)
      /\ \A i \in Items : With(d, i) \subseteq With(dbMail, i)
      /\ id \notin crossed => d[id].item = None
  BY DEF TakesItem, Follows, Changes
<1>2. /\ id \in DOMAIN dbMail /\ (id \notin crossed => dbMail[id] = m)
      /\ (id \in crossed => m.item \in exposed \union {None})
  BY DEF Reads
<1>3. ASSUME NEW i \in Items \ exposed
      PROVE  Single(Owners(dbBag', i), With(dbMail', i), dbAuction'[i])
  <2>1. Single(Owners(dbBag, i), With(dbMail, i), dbAuction[i])
    BY DEF Unique
  <2>2. dbAuction' = dbAuction /\ i # None
    BY GoneRow
  <2>3. With(dbMail', i) = With(d, i)
    BY <1>1, <2>2, WithSent
  <2>4. With(d, i) \subseteq With(dbMail, i)
    BY <1>1
  <2>5. \A q \in Players : dbBag'[q] = IF q = p THEN bag[p] \union {m.item} ELSE dbBag[q]
    BY DEF Typed, Purses
  <2>6. i \in bag[p] <=> i \in dbBag[p]
    BY DEF Same
  <2>7. CASE i = m.item
    <3>1. id \notin crossed
      BY <1>2, <2>2, <2>7
    <3>2. id \in With(dbMail, i) /\ id \notin With(d, i)
      BY <1>1, <1>2, <2>2, <2>7, <3>1 DEF With
    <3>3. Owners(dbBag, i) = {} /\ With(dbMail, i) = {id} /\ dbAuction[i] = None
      BY <2>1, <3>2 DEF Single
    <3>4. With(d, i) = {}
      BY <2>4, <3>2, <3>3
    <3>5. Owners(dbBag', i) \subseteq {p}
      BY <2>5, <3>3 DEF Owners
    <3> QED BY <2>2, <2>3, <3>3, <3>4, <3>5 DEF Single
  <2>8. CASE i # m.item
    <3>1. Owners(dbBag', i) \subseteq Owners(dbBag, i)
      BY <2>5, <2>6, <2>8 DEF Owners
    <3> QED BY <2>1, <2>2, <2>3, <2>4, <3>1, SingleShrinks
  <2> QED BY <2>7, <2>8
<1> QED BY <1>3 DEF Unique

(* An item is taken, and what is asked for it goes to its sender. *)
LEMMA HandleMailTakeItemKeeps ==
  ASSUME IInv, NEW p \in Players, NEW id, HandleMailTakeItem(p, id),
         UNCHANGED <<auction, dbAuction>>
  PROVE  IInv'
<1>1. Typed /\ Crossing /\ Present /\ Returning /\ Unique
  BY DEF IInv
<1>2. PICK m, b : m = box[p][id].mail /\ b = WithoutItem(box[p], id)
  OBVIOUS
<1>3. PICK rows, d : rows = Payment(m) /\ d = SavedMails(b)
  OBVIOUS
<1>4. /\ Open(p, id) /\ m.item # None /\ purse[p] >= m.cod /\ Fits(rows)
      /\ purse' = [purse EXCEPT ![p] = @ - m.cod]
      /\ bag' = [bag EXCEPT ![p] = @ \union {m.item}]
      /\ box' = [Received(box, rows) EXCEPT ![p] = Kept(b)]
      /\ dbMail' = d \o rows
      /\ SaveInventoryAndGold(p)
      /\ state' = state /\ loginHolder' = loginHolder /\ request' = request /\ returner' = returner
      /\ Calm
  BY <1>2, <1>3 DEF HandleMailTakeItem, history, Calm
<1>5. Reads(p, id, m)
  BY <1>1, <1>2, <1>4, OpenMail
<1>6. TakesItem(p, id, m, d)
  BY <1>1, <1>2, <1>3, <1>4, <1>5, TakenItem
<1>7. /\ state[p] = "online" /\ Actor(p) /\ Same(bag[p], dbBag[p])
  BY <1>1, <1>5, Kinship DEF Reads
<1>8. /\ m.item \in Items /\ m.cod \in Nat /\ Carries(rows, None)
      /\ Follows(dbMail, d, p) /\ Len(d) = Len(dbMail) /\ Held(Kept(b), d, p) /\ SoundMails(d)
  BY <1>2, <1>3, <1>6 DEF TakesItem, Follows, Changes
<1>9. /\ DOMAIN box' = Players /\ box'[p] = Kept(b)
      /\ \A q \in Players \ {p} : box'[q] = Received(box, rows)[q]
  BY <1>4 DEF Received
<1>10. Held(box'[p], dbMail', p)
  <2>1. Held(Kept(b), d \o rows, p)
    BY <1>8, HeldLonger
  <2> QED BY <1>4, <1>9, <2>1
<1>11. Posted(p)
  BY <1>1, <1>4, <1>7, <1>8, <1>9, <1>10, Mailed
<1>12. PICK x, y : x = purse[p] - m.cod /\ y = bag[p] \union {m.item}
  OBVIOUS
<1>13. purse \in [Players -> Nat] /\ bag \in [Players -> SUBSET Items]
  BY <1>1 DEF Typed, Purses
<1>14. Settles(p, x, y)
  <2>1. x \in Nat /\ y \in SUBSET Items
    BY <1>4, <1>8, <1>12, <1>13
  <2>2. purse' = [purse EXCEPT ![p] = x] /\ bag' = [bag EXCEPT ![p] = y]
    BY <1>4, <1>12
  <2> QED BY <1>4, <2>1, <2>2 DEF Settles
<1>15. Settled /\ dbBag' = [dbBag EXCEPT ![p] = y]
  BY <1>1, <1>7, <1>14, Saved
<1>16. Typed' /\ Crossing' /\ Present' /\ Returning'
  BY <1>1, <1>4, <1>7, <1>11, <1>15, HandlerStep DEF Typed
<1>17. Unique'
  BY <1>1, <1>4, <1>5, <1>6, <1>7, <1>8, <1>12, <1>15, ItemMoves DEF Calm
<1> QED BY <1>16, <1>17 DEF IInv

\* The item is taken and not paid for, or paid for and not taken.
LEMMA TakingStopsKeeps ==
  ASSUME IInv, NEW p \in Players, NEW id, NEW done, TakingStops(p, id, done),
         UNCHANGED dbAuction, auction' = dbAuction
  PROVE  IInv'
<1>1. Typed /\ Crossing /\ Present /\ Returning /\ Unique
  BY DEF IInv
<1>2. PICK m, d : m = box[p][id].mail /\ d = SavedMails(WithoutItem(box[p], id))
  OBVIOUS
<1>3. PICK rows, gone : rows = Payment(m) /\ gone = <<Gone>>
  OBVIOUS
<1>4. /\ Open(p, id) /\ m.item # None /\ purse[p] >= m.cod /\ m.cod > 0
      /\ Fits(rows) /\ Ends({})
      /\ dbMail' = IF "save" \in done THEN d \o gone ELSE dbMail \o rows
      /\ dbPurse' = [dbPurse EXCEPT ![p] = IF "save" \in done THEN purse[p] - m.cod ELSE @]
      /\ dbBag' = [dbBag EXCEPT ![p] = IF "save" \in done THEN bag[p] \union {m.item} ELSE @]
  BY <1>2, <1>3 DEF TakingStops
<1>5. Reads(p, id, m)
  BY <1>1, <1>2, <1>4, OpenMail
<1>6. TakesItem(p, id, m, d)
  BY <1>1, <1>2, <1>4, <1>5, TakenItem
<1>7. Same(bag[p], dbBag[p])
  BY <1>1, <1>5, Kinship DEF Reads
<1>8. /\ m.item \in Items /\ m.cod \in Nat /\ Carries(rows, None)
      /\ Follows(dbMail, d, p) /\ Len(d) = Len(dbMail)
  BY <1>3, <1>6 DEF TakesItem
<1>9. /\ purse \in [Players -> Nat] /\ bag \in [Players -> SUBSET Items]
      /\ dbPurse \in [Players -> Nat] /\ dbBag \in [Players -> SUBSET Items]
  BY <1>1 DEF Typed, Purses
<1>10. exposed' = exposed /\ {} \subseteq Items \union {None}
  BY <1>4 DEF Ends
<1>11. auction' \in [Items -> Entries \union {None}] /\ auction' = dbAuction'
  BY <1>1 DEF Typed
<1>12. Follows(dbMail, dbMail, p)
  BY <1>1, FollowsSelf DEF Typed
<1>13. Purses(dbPurse', dbBag')
  <2>1. PICK x, y : /\ x = IF "save" \in done THEN purse[p] - m.cod ELSE dbPurse[p]
                    /\ y = IF "save" \in done THEN bag[p] \union {m.item} ELSE dbBag[p]
    OBVIOUS
  <2>2. x \in Nat /\ y \in SUBSET Items
    BY <1>4, <1>8, <1>9, <2>1
  <2>3. dbPurse' = [dbPurse EXCEPT ![p] = x] /\ dbBag' = [dbBag EXCEPT ![p] = y]
    BY <1>4, <1>9, <2>1
  <2> QED BY <1>9, <2>2, <2>3 DEF Purses
<1>14. CASE "save" \in done
  <2>1. Carries(gone, None)
    BY <1>3, OneMail, GoneRow
  <2>2. Fits(gone)
    <3>1. rows = <<Row("codPayment", m.to, m.from, None, m.cod, 0)>>
      BY <1>3, <1>4 DEF Payment
    <3>2. Len(rows) = 1 /\ Len(gone) = 1
      BY <1>3, <3>1
    <3> QED BY <1>4, <3>2 DEF Fits
  <2>3. dbMail' = d \o gone
    BY <1>4, <1>14
  <2>4. Follows(dbMail, dbMail', p) /\ Len(dbMail') <= MaxMails
    BY <1>1, <1>8, <2>1, <2>2, <2>3, FollowsSent
  <2>5. dbBag' = [dbBag EXCEPT ![p] = bag[p] \union {m.item}]
    BY <1>4, <1>14
  <2>6. Unique'
    BY <1>1, <1>5, <1>6, <1>7, <1>10, <2>1, <2>3, <2>5, ItemMoves
  <2> QED BY <1>4, <1>10, <1>11, <1>13, <2>4, <2>6, Stopped
<1>15. CASE "save" \notin done
  <2>1. dbMail' = dbMail \o rows /\ dbBag' = dbBag
    BY <1>4, <1>9, <1>15
  <2>2. Follows(dbMail, dbMail', p) /\ Len(dbMail') <= MaxMails
    BY <1>1, <1>4, <1>8, <1>12, <2>1, FollowsSent
  <2>3. \A i \in Items : With(dbMail', i) = With(dbMail, i)
    BY <1>1, <1>8, <2>1, WithSent, GoneRow DEF Typed
  <2>4. Unique'
    BY <1>1, <1>10, <2>1, <2>3, NothingMoves
  <2> QED BY <1>4, <1>10, <1>11, <1>13, <2>2, <2>4, Stopped
<1> QED BY <1>14, <1>15

\* A mail is marked only; its row stays until mails are saved.
LEMMA MarkKeeps ==
  ASSUME IInv, NEW p \in Players, NEW id, Open(p, id), NEW mark \in {"changed", "deleted"},
         box' = [box EXCEPT ![p][id].state = mark],
         UNCHANGED <<state, purse, bag, loginHolder, request, returner, dbVars, history>>,
         UNCHANGED <<auction, dbAuction>>
  PROVE  IInv'
<1>1. Typed /\ Crossing /\ Present /\ Returning /\ Unique
  BY DEF IInv
<1>2. /\ UNCHANGED <<state, purse, bag, loginHolder, request, returner, dbPurse, dbBag, dbMail>>
      /\ Calm
  BY DEF dbVars, history, Calm
<1>3. PICK m, s : m = box[p][id].mail /\ s = box[p][id].state
  OBVIOUS
<1>4. Reads(p, id, m)
  BY <1>1, <1>3, OpenMail
<1>5. PICK b : b = [box[p] EXCEPT ![id].state = mark]
  OBVIOUS
<1>6. box' = [box EXCEPT ![p] = b] /\ DOMAIN box = Players
  BY <1>1, <1>5 DEF Typed
<1>7. DOMAIN box' = Players /\ box'[p] = b /\ \A q \in Players \ {p} : box'[q] = box[q]
  BY <1>6
<1>8. /\ DOMAIN b = DOMAIN box[p] /\ \A o \in DOMAIN box[p] \ {id} : b[o] = box[p][o]
      /\ b[id] = [mail |-> m, state |-> mark]
  BY <1>3, <1>4, <1>5, MailMarked DEF Reads
<1>9. Held(b, dbMail, p)
  <2>1. ASSUME NEW o \in DOMAIN b PROVE b[o] \in Entry /\ Holds(b[o].mail, o, dbMail, p)
    <3>1. Held(box[p], dbMail, p) /\ o \in DOMAIN box[p]
      BY <1>4, <1>8 DEF Reads
    <3>2. CASE o = id
      <4>1. Holds(m, id, dbMail, p) /\ m \in Rows
        BY <1>3, <3>1, <3>2 DEF Held, Holds, Sound
      <4>2. b[o] = [mail |-> m, state |-> mark]
        BY <1>8, <3>2
      <4> QED BY <3>2, <4>1, <4>2 DEF Entry
    <3>3. CASE o # id
      <4>1. b[o] = box[p][o]
        BY <1>8, <3>1, <3>3
      <4> QED BY <3>1, <4>1 DEF Held
    <3> QED BY <3>2, <3>3
  <2> QED BY <2>1 DEF Held
<1>10. Follows(dbMail, dbMail', p)
  BY <1>1, <1>2, FollowsSelf DEF Typed
<1>11. Posted(p)
  BY <1>1, <1>2, <1>4, <1>7, <1>9, <1>10, Rewritten DEF Reads
<1>12. Settled
  BY <1>1, <1>2, NotPaid
<1>13. Typed' /\ Crossing' /\ Present' /\ Returning'
  BY <1>1, <1>2, <1>4, <1>11, <1>12, HandlerStep DEF Typed, Reads
<1>14. Unique'
  BY <1>1, <1>2, NothingMoves DEF Calm
<1> QED BY <1>13, <1>14 DEF IInv

\* A mail that is read is marked in memory.
LEMMA HandleMailMarkAsReadKeeps ==
  ASSUME IInv, NEW p \in Players, NEW id, HandleMailMarkAsRead(p, id),
         UNCHANGED <<auction, dbAuction>>
  PROVE  IInv'
BY MarkKeeps DEF HandleMailMarkAsRead

\* So is one that is deleted.
LEMMA HandleMailDeleteKeeps ==
  ASSUME IInv, NEW p \in Players, NEW id, HandleMailDelete(p, id),
         UNCHANGED <<auction, dbAuction>>
  PROVE  IInv'
BY MarkKeeps DEF HandleMailDelete

\* One row of the database becomes another.
LEMMA MailReplaced ==
  ASSUME Typed, NEW id \in DOMAIN dbMail, NEW row, Sound(row)
  PROVE  LET d == [dbMail EXCEPT ![id] = row]
         IN  /\ SoundMails(d) /\ Len(d) = Len(dbMail) /\ DOMAIN d = DOMAIN dbMail
             /\ d[id] = row /\ \A o \in DOMAIN dbMail \ {id} : d[o] = dbMail[o]
<1> DEFINE d == [dbMail EXCEPT ![id] = row]
<1>1. PICK n \in Nat : n = Len(dbMail) /\ DOMAIN dbMail = 1 .. n
  BY DEF Typed, SoundMails
<1>2. DOMAIN d = 1 .. n /\ d[id] = row /\ \A o \in (1 .. n) \ {id} : d[o] = dbMail[o]
  BY <1>1
<1>3. d \in Seq(Rows) /\ Len(d) = n
  BY <1>1, ExceptSeq DEF Typed, SoundMails, Sound
<1> HIDE DEF d
<1>4. \A o \in 1 .. n : Sound(d[o])
  BY <1>1, <1>2 DEF Typed, SoundMails
<1>5. SoundMails(d)
  BY <1>2, <1>3, <1>4 DEF SoundMails
<1>6. d = [dbMail EXCEPT ![id] = row]
  BY DEF d
<1> QED BY <1>1, <1>2, <1>3, <1>5, <1>6

(* The mail id, to p or crossed, is deleted in d. *)
Lacks(d, id, p) ==
  /\ Follows(dbMail, d, p) /\ Len(d) = Len(dbMail) /\ DOMAIN d = DOMAIN dbMail
  /\ \A o \in DOMAIN dbMail \ {id} : d[o] = dbMail[o]
  /\ \A i \in Items : With(d, i) = With(dbMail, i) \ {id}

\* One row of the database is deleted: nobody else's.
LEMMA MailGone ==
  ASSUME Typed, NEW p, NEW id \in DOMAIN dbMail,
         dbMail[id] = Gone \/ dbMail[id].to = p \/ id \in crossed
  PROVE  Lacks([dbMail EXCEPT ![id] = Gone], id, p)
<1>1. PICK d : d = [dbMail EXCEPT ![id] = Gone]
  OBVIOUS
<1>2. Sound(Gone)
  BY GoneRow
<1>3. /\ SoundMails(d) /\ Len(d) = Len(dbMail) /\ DOMAIN d = DOMAIN dbMail
      /\ d[id] = Gone /\ \A o \in DOMAIN dbMail \ {id} : d[o] = dbMail[o]
  BY <1>1, <1>2, MailReplaced
<1>4. Len(d) \in Nat
  BY <1>3 DEF SoundMails
<1>5. Follows(dbMail, d, p)
  BY <1>3, <1>4, GoneRow DEF Follows, Changes
<1>6. \A i \in Items : With(d, i) = With(dbMail, i) \ {id}
  BY <1>3, GoneRow DEF With
<1> QED BY <1>1, <1>3, <1>5, <1>6 DEF Lacks

\* What is sent back has what was in the mail.
LEMMA ReturnedMail ==
  ASSUME NEW p \in Players, NEW id, NEW m, Reads(p, id, m)
  PROVE  Carries(ReturnedBy(m), m.item)
<1>1. m \in Letters /\ m # Gone /\ Sound(m)
  BY DEF Reads
<1>2. CASE m.kind = "auction"
  BY <1>2, NoMail DEF ReturnedBy
<1>3. CASE m.kind # "auction"
  <2>1. PICK row : row = Row("returned", m.to, m.from, m.item, m.money, 0)
    OBVIOUS
  <2>2. m.from \in Players /\ m.to \in Players
    BY <1>1, <1>3 DEF Sound, Letters
  <2>3. row.kind = "returned" /\ row.from = m.to /\ row.to = m.from /\ row.item = m.item
        /\ row.cod = 0 /\ row \in Rows
    BY <1>1, <2>1, <2>2, MailAssumption DEF Row, Rows, Kinds, Letters
  <2>4. Sound(row)
    BY <2>2, <2>3 DEF Sound
  <2>5. ReturnedBy(m) = <<row>>
    BY <1>3, <2>1 DEF ReturnedBy
  <2> QED BY <2>3, <2>4, <2>5, OneMail
<1> QED BY <1>2, <1>3

(* The mail sent back has what was in the one deleted. *)
LEMMA HandleMailReturnToSenderKeeps ==
  ASSUME IInv, NEW p \in Players, NEW id, HandleMailReturnToSender(p, id),
         UNCHANGED <<auction, dbAuction>>
  PROVE  IInv'
<1>1. Typed /\ Crossing /\ Present /\ Returning /\ Unique
  BY DEF IInv
<1>2. PICK m : m = box[p][id].mail
  OBVIOUS
<1>3. Open(p, id)
  BY DEF HandleMailReturnToSender
<1>4. Reads(p, id, m)
  BY <1>1, <1>2, <1>3, OpenMail
<1>5. PICK rows : rows = ReturnedBy(m)
  OBVIOUS
<1>6. PICK d : d = [dbMail EXCEPT ![id] = Gone]
  OBVIOUS
<1>7. PICK c : c = Received(box, rows)[p]
  OBVIOUS
<1>8. /\ Fits(rows) /\ box' = [Received(box, rows) EXCEPT ![p] = [x \in DOMAIN c \ {id} |-> c[x]]]
      /\ dbMail' = d \o rows
      /\ UNCHANGED <<state, purse, bag, loginHolder, request, returner, dbPurse, dbBag>> /\ Calm
  <2>1. DOMAIN Received(box, rows) = Players
    BY DEF Received
  <2> QED BY <1>2, <1>5, <1>6, <1>7, <2>1 DEF HandleMailReturnToSender, history, Calm
<1>9. /\ state[p] = "online" /\ Actor(p) /\ Held(box[p], dbMail, p) /\ id \in DOMAIN dbMail
      /\ (id \notin crossed => dbMail[id] = m)
      /\ (id \in crossed => m.item \in exposed \union {None}) /\ m.to = p
  BY <1>4 DEF Reads
<1>10. /\ Follows(dbMail, d, p) /\ Len(d) = Len(dbMail) /\ DOMAIN d = DOMAIN dbMail
       /\ \A o \in DOMAIN dbMail \ {id} : d[o] = dbMail[o]
       /\ \A i \in Items : With(d, i) = With(dbMail, i) \ {id}
  <2>1. Lacks(d, id, p)
    BY <1>1, <1>6, <1>9, MailGone
  <2> QED BY <2>1 DEF Lacks
<1>11. Carries(rows, m.item)
  BY <1>4, <1>5, ReturnedMail
<1>12. SoundMails(dbMail) /\ SoundMails(d)
  BY <1>1, <1>10 DEF Typed, Follows, Changes
<1>13. Extends(dbMail, rows, dbMail \o rows) /\ Extends(d, rows, d \o rows)
  BY <1>11, <1>12, Appended
<1>14. Held(c, dbMail \o rows, p)
  BY <1>1, <1>7, <1>9, <1>11, <1>12, ReceivedHeld
<1>15. /\ DOMAIN box' = Players /\ box'[p] = [x \in DOMAIN c \ {id} |-> c[x]]
       /\ \A q \in Players \ {p} : box'[q] = Received(box, rows)[q]
  BY <1>8 DEF Received
<1>16. Held(box'[p], dbMail', p)
  <2>1. PICK u, v : u = dbMail \o rows /\ v = d \o rows
    OBVIOUS
  <2>2. Extends(dbMail, rows, u) /\ Extends(d, rows, v)
    BY <1>13, <2>1
  <2>3. ASSUME NEW x \in DOMAIN u, x # id PROVE x \in DOMAIN v /\ v[x] = u[x]
    <3>1. CASE x \in DOMAIN dbMail
      BY <1>10, <2>2, <2>3, <3>1 DEF Extends
    <3>2. CASE x \notin DOMAIN dbMail
      <4>1. PICK k \in DOMAIN rows : x = Len(dbMail) + k
        BY <2>2, <3>2 DEF Extends
      <4>2. u[x] = rows[k]
        BY <2>2, <4>1 DEF Extends
      <4>3. x \in DOMAIN v /\ v[x] = rows[k]
        BY <1>10, <2>2, <4>1 DEF Extends
      <4> QED BY <4>2, <4>3
    <3> QED BY <3>1, <3>2
  <2>4. Held(c, u, p) /\ dbMail' = v
    BY <1>8, <1>14, <2>1
  <2>5. ASSUME NEW x \in DOMAIN box'[p]
        PROVE  box'[p][x] \in Entry /\ Holds(box'[p][x].mail, x, v, p)
    <3>1. x \in DOMAIN c /\ x # id /\ box'[p][x] = c[x]
      BY <1>15
    <3>2. c[x] \in Entry /\ Holds(c[x].mail, x, u, p)
      BY <2>4, <3>1 DEF Held
    <3>3. x \in DOMAIN v /\ v[x] = u[x]
      BY <2>3, <3>1, <3>2 DEF Holds
    <3> QED BY <3>1, <3>2, <3>3 DEF Holds
  <2> QED BY <2>4, <2>5 DEF Held
<1>17. Posted(p)
  BY <1>1, <1>8, <1>9, <1>10, <1>11, <1>15, <1>16, Mailed
<1>18. Settled
  BY <1>1, <1>8, NotPaid
<1>19. Typed' /\ Crossing' /\ Present' /\ Returning'
  BY <1>1, <1>8, <1>9, <1>17, <1>18, HandlerStep DEF Typed
<1>20. ASSUME NEW i \in Items \ exposed
       PROVE  Single(Owners(dbBag', i), With(dbMail', i), dbAuction'[i])
  <2>1. Single(Owners(dbBag, i), With(dbMail, i), dbAuction[i])
    BY <1>1 DEF Unique
  <2>2. dbAuction' = dbAuction /\ dbBag' = dbBag /\ With(dbMail', i) = With(d \o rows, i)
    BY <1>8
  <2>3. CASE i = m.item
    <3>1. id \in With(dbMail, i)
      BY <1>9, <2>3, GoneRow DEF With
    <3>2. Owners(dbBag, i) = {} /\ With(d, i) = {} /\ dbAuction[i] = None
      BY <1>10, <2>1, <3>1 DEF Single
    <3>3. \A u, v \in With(d \o rows, i) : u = v
      BY <1>11, <1>12, <3>2, WithSent
    <3> QED BY <2>2, <3>2, <3>3 DEF Single
  <2>4. CASE i # m.item
    <3>1. With(d \o rows, i) = With(d, i)
      BY <1>11, <1>12, <2>4, WithSent
    <3>2. With(d, i) \subseteq With(dbMail, i)
      BY <1>10
    <3> QED BY <2>1, <2>2, <3>1, <3>2, SingleShrinks
  <2> QED BY <2>3, <2>4
<1>21. Unique'
  BY <1>8, <1>20 DEF Unique, Calm
<1> QED BY <1>19, <1>21 DEF IInv

\* A mail is deleted and not sent back, or sent back and not deleted.
LEMMA ReturnStopsKeeps ==
  ASSUME IInv, NEW p \in Players, NEW id, NEW done, ReturnStops(p, id, done),
         UNCHANGED dbAuction, auction' = dbAuction
  PROVE  IInv'
<1>1. Typed /\ Crossing /\ Present /\ Returning /\ Unique
  BY DEF IInv
<1>2. PICK m : m = box[p][id].mail
  OBVIOUS
<1>3. PICK rows, gone, d : rows = ReturnedBy(m) /\ gone = <<Gone>> /\ d = [dbMail EXCEPT ![id] = Gone]
  OBVIOUS
<1>4. /\ Open(p, id) /\ m.kind # "auction" /\ Fits(rows) /\ Ends({m.item})
      /\ dbMail' = IF "old" \in done THEN d \o gone ELSE dbMail \o rows
      /\ dbPurse' = dbPurse /\ dbBag' = dbBag
  BY <1>2, <1>3 DEF ReturnStops
<1>5. Reads(p, id, m)
  BY <1>1, <1>2, <1>4, OpenMail
<1>6. /\ id \in DOMAIN dbMail /\ (id \notin crossed => dbMail[id] = m) /\ m.to = p /\ m \in Letters
  BY <1>5 DEF Reads
<1>7. Lacks(d, id, p)
  BY <1>1, <1>3, <1>6, MailGone
<1>8. /\ Follows(dbMail, d, p) /\ Len(d) = Len(dbMail)
      /\ \A i \in Items : With(d, i) \subseteq With(dbMail, i)
  BY <1>7 DEF Lacks
<1>9. Carries(rows, m.item) /\ Carries(gone, None)
  BY <1>3, <1>5, ReturnedMail, OneMail, GoneRow
<1>10. Fits(gone)
  <2>1. rows = <<Row("returned", m.to, m.from, m.item, m.money, 0)>>
    BY <1>3, <1>4 DEF ReturnedBy
  <2>2. Len(rows) = 1 /\ Len(gone) = 1
    BY <1>3, <2>1
  <2> QED BY <1>4, <2>2 DEF Fits
<1>11. Follows(dbMail, dbMail, p) /\ SoundMails(dbMail) /\ SoundMails(d)
  BY <1>1, <1>8, FollowsSelf DEF Typed, Follows, Changes
<1>12. Follows(dbMail, dbMail', p) /\ Len(dbMail') <= MaxMails
  <2>1. CASE "old" \in done
    <3>1. dbMail' = d \o gone
      BY <1>4, <2>1
    <3> QED BY <1>1, <1>8, <1>9, <1>10, <3>1, FollowsSent
  <2>2. CASE "old" \notin done
    <3>1. dbMail' = dbMail \o rows
      BY <1>4, <2>2
    <3> QED BY <1>1, <1>4, <1>9, <1>11, <3>1, FollowsSent
  <2> QED BY <2>1, <2>2
<1>13. exposed' = exposed \union ({m.item} \ {None}) /\ {m.item} \subseteq Items \union {None}
  BY <1>4, <1>6 DEF Ends, Letters
<1>14. ASSUME NEW i \in Items \ exposed'
       PROVE  With(dbMail', i) \subseteq With(dbMail, i)
  <2>1. i \in Items /\ i # m.item /\ i # None
    BY <1>13, <1>14, GoneRow
  <2>2. With(dbMail \o rows, i) = With(dbMail, i)
    BY <1>9, <1>11, <2>1, WithSent
  <2>3. With(d \o gone, i) = With(d, i)
    BY <1>9, <1>11, <2>1, WithSent
  <2>4. With(d, i) \subseteq With(dbMail, i)
    BY <1>8, <2>1
  <2> QED BY <1>4, <2>2, <2>3, <2>4
<1>15. Unique'
  BY <1>1, <1>4, <1>13, <1>14, NothingMoves
<1>16. Purses(dbPurse', dbBag') /\ auction' \in [Items -> Entries \union {None}]
       /\ auction' = dbAuction'
  BY <1>1, <1>4 DEF Typed
<1> QED BY <1>4, <1>12, <1>13, <1>15, <1>16, Stopped

-----------------------------------------------------------------------------
(* Login and logout. *)

\* Steps that change nothing of a player but what is asked for.
LEMMA OthersPresent ==
  ASSUME Typed, Present, NEW q \in Players,
         state'[q] = state[q], purse'[q] = purse[q], bag'[q] = bag[q], box'[q] = box[q],
         loginHolder'[q] = loginHolder[q], dbPurse'[q] = dbPurse[q],
         Same(dbBag'[q], dbBag[q]), crossed' = crossed, exposed' = exposed,
         NEW p, p # q, Follows(dbMail, dbMail', p)
  PROVE  /\ state'[q] = "online" => Online(q)'
         /\ state'[q] = "loading" => Loads(q)'
         /\ state'[q] # "online" => DOMAIN box'[q] = {}
         /\ state'[q] # "loading" => loginHolder'[q] = None
<1>1. CASE state[q] = "online"
  <2>1. Online(q) /\ loginHolder[q] = None
    BY <1>1 DEF Present
  <2>2. Held(box[q], dbMail', q)
    BY <1>1, <2>1, OthersHeld DEF Online, Typed, Follows
  <2>3. purse'[q] = dbPurse'[q] /\ bag'[q] \ exposed = dbBag'[q] \ exposed
    BY <2>1 DEF Online, Same
  <2>4. Held(box'[q], dbMail', q)
    BY <2>2
  <2>5. Online(q)'
    BY <2>3, <2>4 DEF Online, Held, Holds, Same
  <2> QED BY <1>1, <2>1, <2>5
<1>2. CASE state[q] = "loading"
  <2>1. Loads(q) /\ DOMAIN box[q] = {}
    BY <1>2 DEF Present
  <2>2. PICK h : h = loginHolder[q]
    OBVIOUS
  <2>3. /\ h # None /\ h = [purse |-> dbPurse[q], bag |-> h.bag, mails |-> h.mails]
        /\ h.bag \in SUBSET Items /\ Same(h.bag, dbBag[q]) /\ Read(h.mails, dbMail, q)
    BY <2>1, <2>2 DEF Loads
  <2>4. Read(h.mails, dbMail', q)
    BY <2>3, OthersRead DEF Typed, Follows
  <2>5. h.bag \ exposed' = dbBag'[q] \ exposed'
    BY <2>3 DEF Same
  <2>6. Loads(q)'
    BY <2>2, <2>3, <2>4, <2>5 DEF Loads, Read, Holds, Same
  <2> QED BY <1>2, <2>1, <2>6
<1>3. CASE state[q] # "online" /\ state[q] # "loading"
  BY <1>3 DEF Present
<1> QED BY <1>1, <1>2, <1>3

\* The query of a login reads the database as it is.
LEMMA RequestLoginKeeps ==
  ASSUME IInv, NEW p \in Players, RequestLogin(p), UNCHANGED <<auction, dbAuction>>
  PROVE  IInv'
<1>1. Typed /\ Crossing /\ Present /\ Returning /\ Unique
  BY DEF IInv
<1>2. /\ state[p] = "offline"
      /\ state' = [state EXCEPT ![p] = "loading"]
      /\ loginHolder' = [loginHolder EXCEPT ![p] = Snapshot(p)]
      /\ UNCHANGED <<purse, bag, box, request, returner, dbPurse, dbBag, dbMail>>
      /\ crossed' = crossed /\ exposed' = exposed /\ stops' = stops
  BY DEF RequestLogin, dbVars, history
<1>3. PICK h : h = Snapshot(p)
  OBVIOUS
<1>4. PICK m : m = [id \in RowsOf(p) |-> dbMail[id]]
  OBVIOUS
<1>5. h = [purse |-> dbPurse[p], bag |-> dbBag[p], mails |-> m]
  BY <1>3, <1>4 DEF Snapshot
<1>6. Read(m, dbMail, p)
  <2>1. ASSUME NEW id \in DOMAIN m PROVE Holds(m[id], id, dbMail, p)
    <3>1. id \in DOMAIN dbMail /\ dbMail[id].to = p /\ m[id] = dbMail[id]
      BY <1>4 DEF RowsOf
    <3>2. Sound(dbMail[id])
      BY <1>1, <3>1 DEF Typed, SoundMails
    <3> QED BY <1>1, <3>1, <3>2 DEF Holds, Crossing
  <2> QED BY <2>1 DEF Read
<1>7. h \in Snapshots
  <2>1. dbPurse[p] \in Nat /\ dbBag[p] \in SUBSET Items
    BY <1>1 DEF Typed, Purses
  <2>2. DOMAIN dbMail \subseteq 1 .. MaxMails /\ \A id \in DOMAIN dbMail : dbMail[id] \in Rows
    BY <1>1, MailAssumption DEF Typed, SoundMails
  <2>3. RowsOf(p) \in SUBSET (1 .. MaxMails) /\ m \in [RowsOf(p) -> Rows]
    BY <1>4, <2>2 DEF RowsOf
  <2>4. m \in UNION {[ids -> Rows] : ids \in SUBSET (1 .. MaxMails)}
    BY <2>3
  <2> QED BY <1>5, <2>1, <2>4 DEF Snapshots
<1>8. h # None
  BY <1>7, SnapshotAssumption
<1>9. DOMAIN state = Players /\ DOMAIN loginHolder = Players /\ dbBag[p] \in SUBSET Items
  BY <1>1 DEF Typed, Purses
<1>10. /\ state'[p] = "loading" /\ loginHolder'[p] = h
       /\ \A q \in Players \ {p} : state'[q] = state[q] /\ loginHolder'[q] = loginHolder[q]
  BY <1>2, <1>3, <1>9
<1>11. Typed'
  BY <1>1, <1>2, <1>9 DEF Typed
<1>12. Follows(dbMail, dbMail', p)
  BY <1>1, <1>2, FollowsSelf DEF Typed
<1>13. Loads(p)'
  <2>1. h.bag = dbBag[p] /\ h.mails = m
    BY <1>5
  <2>2. h = [purse |-> dbPurse[p], bag |-> h.bag, mails |-> h.mails] /\ Read(h.mails, dbMail, p)
    BY <1>5, <1>6, <2>1
  <2> QED BY <1>2, <1>8, <1>9, <1>10, <2>1, <2>2 DEF Loads, Read, Holds, Same
<1>14. ASSUME NEW q \in Players
       PROVE  /\ state'[q] = "online" => Online(q)'
              /\ state'[q] = "loading" => Loads(q)'
              /\ state'[q] # "online" => DOMAIN box'[q] = {}
              /\ state'[q] # "loading" => loginHolder'[q] = None
  <2>1. CASE q = p
    BY <1>1, <1>2, <1>10, <1>13, <2>1 DEF Present
  <2>2. CASE q # p
    <3>1. /\ state'[q] = state[q] /\ purse'[q] = purse[q] /\ bag'[q] = bag[q]
          /\ box'[q] = box[q] /\ loginHolder'[q] = loginHolder[q] /\ dbPurse'[q] = dbPurse[q]
          /\ Same(dbBag'[q], dbBag[q]) /\ crossed' = crossed /\ exposed' = exposed
      BY <1>2, <1>10, <2>2 DEF Same
    <3> QED BY <1>1, <1>12, <2>2, <3>1, OthersPresent
  <2> QED BY <2>1, <2>2
<1>15. Present'
  BY <1>14 DEF Present
<1>16. Crossing' /\ Returning'
  BY <1>1, <1>2, <1>12, CrossingKept, ReturningKept
<1>17. Unique'
  BY <1>1, <1>2, NothingMoves
<1> QED BY <1>11, <1>15, <1>16, <1>17 DEF IInv

\* What the login has read is what its player has in memory from then on.
LEMMA LoginCallbackKeeps ==
  ASSUME IInv, NEW p \in Players, LoginCallback(p), UNCHANGED <<auction, dbAuction>>
  PROVE  IInv'
<1>1. Typed /\ Crossing /\ Present /\ Returning /\ Unique
  BY DEF IInv
<1>2. PICK h : h = loginHolder[p]
  OBVIOUS
<1>3. PICK b : b = [id \in DOMAIN h.mails |-> InMemory(h.mails[id])]
  OBVIOUS
<1>4. /\ state[p] = "loading" /\ state' = [state EXCEPT ![p] = "online"]
      /\ purse' = [purse EXCEPT ![p] = h.purse] /\ bag' = [bag EXCEPT ![p] = h.bag]
      /\ box' = [box EXCEPT ![p] = b] /\ loginHolder' = [loginHolder EXCEPT ![p] = None]
      /\ UNCHANGED <<request, returner, dbPurse, dbBag, dbMail>>
      /\ crossed' = crossed /\ exposed' = exposed /\ stops' = stops
  BY <1>2, <1>3 DEF LoginCallback, dbVars, history
<1>5. /\ h = [purse |-> dbPurse[p], bag |-> h.bag, mails |-> h.mails]
      /\ h.bag \in SUBSET Items /\ Same(h.bag, dbBag[p]) /\ Read(h.mails, dbMail, p)
  BY <1>1, <1>2, <1>4 DEF Present, Loads
<1>6. h.purse = dbPurse[p]
  BY <1>5
<1>7. Held(b, dbMail, p)
  <2>1. ASSUME NEW id \in DOMAIN b
        PROVE  b[id] \in Entry /\ Holds(b[id].mail, id, dbMail, p)
    <3>1. Holds(h.mails[id], id, dbMail, p)
      BY <1>3, <1>5 DEF Read
    <3>2. b[id] = [mail |-> h.mails[id], state |-> "unchanged"]
      BY <1>3 DEF InMemory
    <3>3. h.mails[id] \in Rows
      BY <3>1 DEF Holds, Sound
    <3> QED BY <3>1, <3>2, <3>3 DEF Entry
  <2> QED BY <2>1 DEF Held
<1>8. /\ DOMAIN state = Players /\ DOMAIN loginHolder = Players /\ DOMAIN box = Players
      /\ purse \in [Players -> Nat] /\ bag \in [Players -> SUBSET Items]
      /\ dbPurse \in [Players -> Nat] /\ dbBag \in [Players -> SUBSET Items]
  BY <1>1 DEF Typed, Purses
<1>9. /\ state'[p] = "online" /\ purse'[p] = dbPurse[p] /\ bag'[p] = h.bag
      /\ box'[p] = b /\ loginHolder'[p] = None
      /\ \A q \in Players \ {p} :
           /\ state'[q] = state[q] /\ purse'[q] = purse[q] /\ bag'[q] = bag[q]
           /\ box'[q] = box[q] /\ loginHolder'[q] = loginHolder[q]
  BY <1>4, <1>6, <1>8
<1>10. Typed'
  <2>1. dbPurse[p] \in Nat
    BY <1>8
  <2>2. Purses(purse', bag')
    BY <1>4, <1>5, <1>6, <1>8, <2>1 DEF Purses
  <2> QED BY <1>1, <1>4, <1>8, <2>2 DEF Typed
<1>11. Follows(dbMail, dbMail', p)
  BY <1>1, <1>4, FollowsSelf DEF Typed
<1>12. Online(p)'
  BY <1>4, <1>5, <1>7, <1>9 DEF Online, Held, Holds, Same
<1>13. ASSUME NEW q \in Players
       PROVE  /\ state'[q] = "online" => Online(q)'
              /\ state'[q] = "loading" => Loads(q)'
              /\ state'[q] # "online" => DOMAIN box'[q] = {}
              /\ state'[q] # "loading" => loginHolder'[q] = None
  <2>1. CASE q = p
    BY <1>9, <1>12, <2>1
  <2>2. CASE q # p
    <3>1. /\ state'[q] = state[q] /\ purse'[q] = purse[q] /\ bag'[q] = bag[q]
          /\ box'[q] = box[q] /\ loginHolder'[q] = loginHolder[q] /\ dbPurse'[q] = dbPurse[q]
          /\ Same(dbBag'[q], dbBag[q]) /\ crossed' = crossed /\ exposed' = exposed
      BY <1>4, <1>9, <2>2 DEF Same
    <3> QED BY <1>1, <1>11, <2>2, <3>1, OthersPresent
  <2> QED BY <2>1, <2>2
<1>14. Present'
  BY <1>13 DEF Present
<1>15. Crossing' /\ Returning'
  BY <1>1, <1>4, <1>11, CrossingKept, ReturningKept
<1>16. Unique'
  BY <1>1, <1>4, NothingMoves
<1> QED BY <1>10, <1>14, <1>15, <1>16 DEF IInv

(* A player who leaves is saved as he is in memory. *)
LEMMA LogoutKeeps ==
  ASSUME IInv, NEW p \in Players, Logout(p), UNCHANGED <<auction, dbAuction>>
  PROVE  IInv'
<1>1. Typed /\ Crossing /\ Present /\ Returning /\ Unique
  BY DEF IInv
<1>2. /\ state[p] = "online" /\ state' = [state EXCEPT ![p] = "offline"]
      /\ dbPurse' = [dbPurse EXCEPT ![p] = purse[p]] /\ dbBag' = [dbBag EXCEPT ![p] = bag[p]]
      /\ dbMail' = SavedMails(box[p])
      /\ purse' = [purse EXCEPT ![p] = 0] /\ bag' = [bag EXCEPT ![p] = {}]
      /\ box' = [box EXCEPT ![p] = Empty]
      /\ UNCHANGED <<loginHolder, request, returner>>
      /\ crossed' = crossed /\ exposed' = exposed /\ stops' = stops
  BY DEF Logout, history
<1>3. Actor(p) /\ purse[p] = dbPurse[p] /\ Same(bag[p], dbBag[p]) /\ Held(box[p], dbMail, p)
  BY <1>1, <1>2, Kinship
<1>4. Edited(box[p], p)
  BY <1>1, <1>3, BoxIsEdited
<1>5. /\ Follows(dbMail, dbMail', p) /\ Len(dbMail') = Len(dbMail)
      /\ \A i \in Items : With(dbMail', i) \subseteq With(dbMail, i)
  BY <1>1, <1>2, <1>4, EditedIsSaved
<1>6. /\ DOMAIN state = Players /\ DOMAIN loginHolder = Players /\ DOMAIN box = Players
      /\ purse \in [Players -> Nat] /\ bag \in [Players -> SUBSET Items]
      /\ dbPurse \in [Players -> Nat] /\ dbBag \in [Players -> SUBSET Items]
  BY <1>1 DEF Typed, Purses
<1>7. dbPurse' = dbPurse
  BY <1>2, <1>3, <1>6
<1>8. /\ state'[p] = "offline" /\ DOMAIN box'[p] = {}
      /\ \A q \in Players \ {p} :
           /\ state'[q] = state[q] /\ purse'[q] = purse[q] /\ bag'[q] = bag[q]
           /\ box'[q] = box[q] /\ dbBag'[q] = dbBag[q]
  BY <1>2, <1>6 DEF Empty
<1>9. Typed'
  <2>1. Purses(purse', bag') /\ Purses(dbPurse', dbBag')
    BY <1>2, <1>6, <1>7 DEF Purses
  <2> QED BY <1>1, <1>2, <1>5, <1>6, <1>7, <2>1 DEF Typed, Follows, Changes
<1>10. ASSUME NEW q \in Players
       PROVE  /\ state'[q] = "online" => Online(q)'
              /\ state'[q] = "loading" => Loads(q)'
              /\ state'[q] # "online" => DOMAIN box'[q] = {}
              /\ state'[q] # "loading" => loginHolder'[q] = None
  <2>1. CASE q = p
    BY <1>1, <1>2, <1>8, <2>1 DEF Present
  <2>2. CASE q # p
    <3>1. /\ state'[q] = state[q] /\ purse'[q] = purse[q] /\ bag'[q] = bag[q]
          /\ box'[q] = box[q] /\ loginHolder'[q] = loginHolder[q] /\ dbPurse'[q] = dbPurse[q]
          /\ Same(dbBag'[q], dbBag[q]) /\ crossed' = crossed /\ exposed' = exposed
      BY <1>2, <1>7, <1>8, <2>2 DEF Same
    <3> QED BY <1>1, <1>5, <2>2, <3>1, OthersPresent
  <2> QED BY <2>1, <2>2
<1>11. Present'
  BY <1>10 DEF Present
<1>12. Crossing' /\ Returning'
  BY <1>1, <1>2, <1>5, CrossingKept, ReturningKept
<1>13. \A i \in Items \ exposed : Owners(dbBag', i) = Owners(dbBag, i)
  BY <1>1, <1>2, <1>3, BagIsSame
<1>14. Unique'
  BY <1>1, <1>2, <1>5, <1>13, NothingMoves
<1> QED BY <1>9, <1>11, <1>12, <1>14 DEF IInv

\* A crash leaves the database, and everybody offline.
LEMMA CrashKeeps ==
  ASSUME IInv, Crash PROVE IInv'
<1>1. Typed /\ Crossing /\ Present /\ Returning /\ Unique
  BY DEF IInv
<1>2. /\ state' = [p \in Players |-> "offline"]
      /\ purse' = [p \in Players |-> 0] /\ bag' = [p \in Players |-> {}]
      /\ box' = [p \in Players |-> Empty] /\ loginHolder' = [p \in Players |-> None]
      /\ request' = [p \in Players |-> None] /\ returner' = None
      /\ UNCHANGED <<dbPurse, dbBag, dbMail, dbAuction>> /\ auction' = dbAuction
      /\ crossed' = crossed /\ exposed' = exposed /\ stops' = stops
  BY DEF Crash, MailCrash, MemoryLost, dbVars, history
<1>3. Typed'
  BY <1>1, <1>2 DEF Typed, Purses
<1>4. Present'
  BY <1>2 DEF Present, Empty
<1>5. Crossing' /\ Returning'
  BY <1>1, <1>2 DEF Returning, Crossing
<1>6. Unique'
  BY <1>1, <1>2, NothingMoves
<1> QED BY <1>3, <1>4, <1>5, <1>6 DEF IInv

-----------------------------------------------------------------------------
(* The return of old mails. *)

\* The return of a mail begins.
LEMMA FindOldMailKeeps ==
  ASSUME IInv, NEW id \in DOMAIN dbMail, FindOldMail(id), UNCHANGED <<auction, dbAuction>>
  PROVE  IInv'
<1>1. Typed /\ Crossing /\ Present /\ Returning /\ Unique
  BY DEF IInv
<1>2. PICK m : m = dbMail[id]
  OBVIOUS
<1>3. /\ m # Gone /\ returner' = [id |-> id, row |-> m, step |-> "mail", item |-> None]
      /\ UNCHANGED <<state, purse, bag, box, loginHolder, request, dbPurse, dbBag, dbMail>>
      /\ crossed' = crossed /\ exposed' = exposed /\ stops' = stops
  BY <1>2 DEF FindOldMail, memVars, dbVars, history
<1>4. Sound(m)
  BY <1>1, <1>2 DEF Typed, SoundMails
<1>5. Typed'
  BY <1>1, <1>3 DEF Typed
<1>6. Follows(dbMail, dbMail', None)
  BY <1>1, <1>3, FollowsSelf DEF Typed
<1>7. Present'
  <2>1. ASSUME NEW q \in Players
        PROVE  /\ state'[q] = "online" => Online(q)'
               /\ state'[q] = "loading" => Loads(q)'
               /\ state'[q] # "online" => DOMAIN box'[q] = {}
               /\ state'[q] # "loading" => loginHolder'[q] = None
    <3>1. Same(dbBag'[q], dbBag[q]) /\ None # q
      BY <1>3, GoneRow DEF Same
    <3> QED BY <1>1, <1>3, <1>6, <3>1, OthersPresent
  <2> QED BY <2>1 DEF Present
<1>8. Returning'
  BY <1>2, <1>3, <1>4 DEF Returning
<1>9. Crossing'
  BY <1>1, <1>3, <1>6, CrossingKept
<1>10. Unique'
  BY <1>1, <1>3, NothingMoves
<1> QED BY <1>5, <1>7, <1>8, <1>9, <1>10 DEF IInv

(* What a return may do to the database: what a player who is not offline may *)
(* have of it stays, or is crossed.                                          *)
Retreat ==
  /\ SoundMails(dbMail') /\ Len(dbMail') = Len(dbMail)
  /\ crossed \subseteq crossed' /\ exposed \subseteq exposed' /\ exposed' \in SUBSET Items
  /\ dbBag' \in [Players -> SUBSET Items]
  /\ \A q \in Players : dbBag'[q] \ exposed' = dbBag[q] \ exposed'
  /\ \A i \in Items \ exposed' : With(dbMail', i) \subseteq With(dbMail, i)
  /\ \A o \in crossed' : o \in DOMAIN dbMail /\ dbMail'[o].item \in exposed' \union {None}
  /\ \A o \in DOMAIN dbMail :
       /\ o \in crossed' \ crossed => dbMail[o].item \in exposed' \union {None}
       /\ \/ o \in crossed' \/ dbMail'[o] = dbMail[o] \/ dbMail[o] = Gone
          \/ state[dbMail[o].to] = "offline"
       /\ dbMail'[o].kind = "auction" => dbMail[o].kind = "auction"

HoldsThen(row, id, q) ==
  /\ id \in DOMAIN dbMail' /\ Sound(row) /\ row.to = q
  /\ IF id \notin crossed' THEN row = dbMail'[id]
     ELSE row.item \in exposed' \union {None} /\ (dbMail'[id].kind = "auction" => row.kind = "auction")

\* What somebody who is not offline has read, he has still, or it is crossed.
LEMMA StillHeld ==
  ASSUME Typed, Retreat, NEW q \in Players, state[q] # "offline",
         NEW row, NEW id, Holds(row, id, dbMail, q)
  PROVE  HoldsThen(row, id, q)
<1>1. id \in DOMAIN dbMail /\ Sound(row) /\ row.to = q
  BY DEF Holds
<1>2. id \in DOMAIN dbMail'
  BY <1>1 DEF Retreat, Typed, SoundMails
<1>3. /\ id \in crossed' \ crossed => dbMail[id].item \in exposed' \union {None}
      /\ \/ id \in crossed' \/ dbMail'[id] = dbMail[id] \/ dbMail[id] = Gone
         \/ state[dbMail[id].to] = "offline"
      /\ dbMail'[id].kind = "auction" => dbMail[id].kind = "auction"
      /\ crossed \subseteq crossed' /\ exposed \subseteq exposed'
  BY <1>1 DEF Retreat
<1>4. CASE id \in crossed
  BY <1>1, <1>2, <1>3, <1>4 DEF Holds, HoldsThen
<1>5. CASE id \notin crossed
  <2>1. row = dbMail[id] /\ dbMail[id] # Gone /\ dbMail[id].to = q
    BY <1>1, <1>5, GoneRow DEF Holds
  <2>2. id \notin crossed' => dbMail'[id] = row
    BY <1>3, <2>1
  <2> QED BY <1>1, <1>2, <1>3, <1>5, <2>1, <2>2 DEF HoldsThen
<1> QED BY <1>4, <1>5

(* The invariant survives a return. *)
LEMMA RetreatKeeps ==
  ASSUME IInv, Retreat, returner' = None,
         UNCHANGED <<state, purse, bag, box, loginHolder, request, dbPurse, stops, auction, dbAuction>>
  PROVE  IInv'
<1>1. Typed /\ Crossing /\ Present /\ Returning /\ Unique
  BY DEF IInv
<1>2. /\ SoundMails(dbMail') /\ Len(dbMail') = Len(dbMail)
      /\ crossed \subseteq crossed' /\ exposed \subseteq exposed' /\ exposed' \in SUBSET Items
      /\ dbBag' \in [Players -> SUBSET Items]
      /\ \A q \in Players : dbBag'[q] \ exposed' = dbBag[q] \ exposed'
      /\ \A i \in Items \ exposed' : With(dbMail', i) \subseteq With(dbMail, i)
      /\ \A o \in crossed' : o \in DOMAIN dbMail /\ dbMail'[o].item \in exposed' \union {None}
  BY DEF Retreat
<1>3. Typed'
  BY <1>1, <1>2 DEF Typed, Purses
<1>4. DOMAIN dbMail' = DOMAIN dbMail
  BY <1>1, <1>2 DEF Typed, SoundMails
<1>5. Crossing'
  BY <1>2, <1>4 DEF Crossing
<1>6. Returning'
  BY DEF Returning
<1>7. ASSUME NEW q \in Players
      PROVE  /\ state'[q] = "online" => Online(q)'
             /\ state'[q] = "loading" => Loads(q)'
             /\ state'[q] # "online" => DOMAIN box'[q] = {}
             /\ state'[q] # "loading" => loginHolder'[q] = None
  <2>1. CASE state[q] = "online"
    <3>1. Online(q) /\ loginHolder[q] = None
      BY <1>1, <2>1 DEF Present
    <3>2. \A id \in DOMAIN box[q] : box[q][id] \in Entry /\ HoldsThen(box[q][id].mail, id, q)
      BY <1>1, <2>1, <3>1, StillHeld DEF Online, Held
    <3>3. Held(box[q], dbMail, q)'
      BY <3>2 DEF Held, Holds, HoldsThen
    <3>4. purse'[q] = dbPurse'[q] /\ bag'[q] \ exposed' = dbBag'[q] \ exposed'
      BY <1>2, <3>1 DEF Online, Same
    <3>5. Online(q)'
      BY <3>3, <3>4 DEF Online, Same
    <3> QED BY <2>1, <3>1, <3>5
  <2>2. CASE state[q] = "loading"
    <3>1. Loads(q) /\ DOMAIN box[q] = {}
      BY <1>1, <2>2 DEF Present
    <3>2. PICK h : h = loginHolder[q]
      OBVIOUS
    <3>3. /\ h # None /\ h = [purse |-> dbPurse[q], bag |-> h.bag, mails |-> h.mails]
          /\ h.bag \in SUBSET Items /\ Same(h.bag, dbBag[q]) /\ Read(h.mails, dbMail, q)
      BY <3>1, <3>2 DEF Loads
    <3>4. \A id \in DOMAIN h.mails : HoldsThen(h.mails[id], id, q)
      BY <1>1, <2>2, <3>3, StillHeld DEF Read
    <3>5. h.bag \ exposed' = dbBag'[q] \ exposed'
      BY <1>2, <3>3 DEF Same
    <3>6. h = loginHolder'[q] /\ h = [purse |-> dbPurse'[q], bag |-> h.bag, mails |-> h.mails]
      BY <3>2, <3>3
    <3>7. Loads(q)'
      BY <3>3, <3>4, <3>5, <3>6 DEF Loads, Read, Holds, HoldsThen, Same
    <3> QED BY <2>2, <3>1, <3>7
  <2>3. CASE state[q] # "online" /\ state[q] # "loading"
    BY <1>1, <2>3 DEF Present
  <2> QED BY <2>1, <2>2, <2>3
<1>8. Present'
  BY <1>7 DEF Present
<1>9. \A i \in Items \ exposed' : Owners(dbBag', i) \subseteq Owners(dbBag, i)
  BY <1>2 DEF Owners
<1>10. Unique'
  BY <1>1, <1>2, <1>9, NothingMoves
<1> QED BY <1>3, <1>5, <1>6, <1>8, <1>10 DEF IInv

(* The mail that is being returned, and its receiver. *)
Returns(id, m, it, d) ==
  /\ id = returner.id /\ m = returner.row /\ it = returner.item /\ d = dbMail[id]
  /\ id \in DOMAIN dbMail /\ Sound(m) /\ m # Gone /\ m \in Letters /\ it \in Items \union {None}
  /\ returner = [id |-> id, row |-> m, step |-> returner.step, item |-> it]
  /\ Sound(d) /\ d \in Rows /\ (d = Gone \/ d.to = m.to) /\ d.item \in {None, m.item}
  /\ d.item \in Items \union {None}
  /\ m.to \in Players /\ (Skips \/ LoginHasIt \/ state[m.to] = "offline")
  /\ id \in crossed => d.item \in exposed \union {None}

\* What the invariant says of a mail that is being returned.
LEMMA Returned ==
  ASSUME IInv, Busy
  PROVE  \E id, m, it, d : Returns(id, m, it, d)
<1>1. Typed /\ Returning /\ Crossing
  BY DEF IInv
<1>2. PICK id, m, it : id = returner.id /\ m = returner.row /\ it = returner.item
  OBVIOUS
<1>3. PICK d : d = dbMail[id]
  OBVIOUS
<1>4. /\ id \in DOMAIN dbMail /\ Sound(m) /\ m # Gone /\ it \in Items \union {None}
      /\ returner = [id |-> id, row |-> m, step |-> returner.step, item |-> it]
      /\ d = Gone \/ d.to = m.to
      /\ d.item \in {None, m.item}
  BY <1>1, <1>2, <1>3 DEF Returning, Busy
<1>5. m \in Letters
  BY <1>4, GoneRow DEF Sound, Letters
<1>6. m.to \in Players /\ m.item \in Items \union {None}
  BY <1>5 DEF Letters
<1>7. Skips \/ LoginHasIt \/ state[m.to] = "offline"
  BY <1>1, <1>2, <1>6 DEF Skips, LoginHasIt, Typed
<1>8. Sound(d) /\ d \in Rows
  BY <1>1, <1>3, <1>4 DEF Typed, SoundMails, Sound
<1>9. id \in crossed => d.item \in exposed \union {None}
  BY <1>1, <1>3 DEF Crossing
<1>10. Returns(id, m, it, d)
  BY <1>2, <1>3, <1>4, <1>5, <1>6, <1>7, <1>8, <1>9 DEF Returns
<1> QED BY <1>10

(* A mail without an item is deleted; a login that has read it has no item *)
(* of it either.                                                           *)
LEMMA OldMailsCallbackKeeps ==
  ASSUME IInv, OldMailsCallback, UNCHANGED <<auction, dbAuction>>
  PROVE  IInv'
<1>1. Typed /\ Crossing /\ Present /\ Returning /\ Unique
  BY DEF IInv
<1>2. /\ Busy
      /\ UNCHANGED <<state, purse, bag, box, loginHolder, request, dbPurse, dbBag, exposed, stops>>
  BY DEF OldMailsCallback, memVars
<1>3. PICK id, m, it, d : Returns(id, m, it, d)
  BY <1>2, Returned
<1>4. CASE dbMail' = dbMail /\ crossed' = crossed
  <2>1. Follows(dbMail, dbMail', None)
    BY <1>1, <1>4, FollowsSelf DEF Typed
  <2>2. Typed'
    BY <1>1, <1>2, <1>4 DEF Typed
  <2>3. Present'
    <3>1. ASSUME NEW q \in Players
          PROVE  /\ state'[q] = "online" => Online(q)'
                 /\ state'[q] = "loading" => Loads(q)'
                 /\ state'[q] # "online" => DOMAIN box'[q] = {}
                 /\ state'[q] # "loading" => loginHolder'[q] = None
      <4>1. Same(dbBag'[q], dbBag[q]) /\ None # q
        BY <1>2, GoneRow DEF Same
      <4> QED BY <1>1, <1>2, <1>4, <2>1, <4>1, OthersPresent
    <3> QED BY <3>1 DEF Present
  <2>4. \/ returner' = None
        \/ returner' = [returner EXCEPT !.step = "item", !.item = dbMail[returner.id].item]
        \/ dbMail' = [dbMail EXCEPT ![returner.id] = Gone] /\ returner' = None
    BY DEF OldMailsCallback
  <2>5. Returning'
    <3>1. CASE returner' = None
      BY <3>1 DEF Returning
    <3>2. CASE returner' = [returner EXCEPT !.step = "item", !.item = dbMail[returner.id].item]
      <4>1. PICK x, s : x = d.item /\ s = "item"
        OBVIOUS
      <4>2. returner' = [returner EXCEPT !.step = s, !.item = x]
        BY <1>3, <3>2, <4>1 DEF Returns
      <4>3. returner' = [id |-> id, row |-> m, step |-> s, item |-> x]
        BY <1>3, <4>2 DEF Returns
      <4> QED BY <1>3, <1>4, <4>1, <4>3 DEF Returning, Returns
    <3> QED BY <2>4, <3>1, <3>2
  <2>6. Crossing'
    BY <1>1, <1>2, <1>4, <2>1, CrossingKept
  <2>7. Unique'
    BY <1>1, <1>2, <1>4, NothingMoves
  <2> QED BY <2>2, <2>3, <2>5, <2>6, <2>7 DEF IInv
<1>5. CASE /\ ~Skips /\ returner.row.item = None
           /\ returner' = None /\ dbMail' = [dbMail EXCEPT ![returner.id] = Gone]
           /\ crossed' = IF LoginHasIt THEN crossed \union {returner.id} ELSE crossed
  <2>1. /\ dbMail' = [dbMail EXCEPT ![id] = Gone] /\ d.item = None
        /\ crossed' = IF LoginHasIt THEN crossed \union {id} ELSE crossed
    BY <1>3, <1>5 DEF Returns
  <2>2. /\ SoundMails(dbMail') /\ Len(dbMail') = Len(dbMail) /\ DOMAIN dbMail' = DOMAIN dbMail
        /\ dbMail'[id] = Gone /\ \A o \in DOMAIN dbMail \ {id} : dbMail'[o] = dbMail[o]
    BY <1>1, <1>3, <2>1, GoneRow, MailReplaced DEF Returns
  <2>3. \A i \in Items : With(dbMail', i) \subseteq With(dbMail, i)
    BY <2>2, GoneRow DEF With
  <2>4. dbBag' \in [Players -> SUBSET Items] /\ exposed' \in SUBSET Items
    BY <1>1, <1>2 DEF Typed, Purses
  <2>5. \A o \in crossed' : o \in DOMAIN dbMail /\ dbMail'[o].item \in exposed' \union {None}
    <3>1. ASSUME NEW o \in crossed'
          PROVE  o \in DOMAIN dbMail /\ dbMail'[o].item \in exposed' \union {None}
      <4>1. CASE o = id
        BY <1>3, <2>2, <4>1, GoneRow DEF Returns
      <4>2. CASE o # id
        <5>1. o \in crossed
          BY <2>1, <4>2
        <5> QED BY <1>1, <1>2, <2>2, <4>2, <5>1 DEF Crossing
      <4> QED BY <4>1, <4>2
    <3> QED BY <3>1
  <2>6. ASSUME NEW o \in DOMAIN dbMail
        PROVE  /\ o \in crossed' \ crossed => dbMail[o].item \in exposed' \union {None}
               /\ \/ o \in crossed' \/ dbMail'[o] = dbMail[o] \/ dbMail[o] = Gone
                  \/ state[dbMail[o].to] = "offline"
               /\ dbMail'[o].kind = "auction" => dbMail[o].kind = "auction"
    <3>1. CASE o = id
      <4>1. dbMail[o] = d /\ (d = Gone \/ d.to = m.to)
        BY <1>3, <3>1 DEF Returns
      <4>2. o \in crossed' \/ state[m.to] = "offline"
        BY <1>3, <1>5, <2>1, <3>1 DEF Returns
      <4> QED BY <2>1, <2>2, <3>1, <4>1, <4>2, GoneRow
    <3>2. CASE o # id
      BY <2>1, <2>2, <3>2
    <3> QED BY <3>1, <3>2
  <2>7. Retreat
    BY <1>2, <2>1, <2>2, <2>3, <2>4, <2>5, <2>6 DEF Retreat
  <2> QED BY <1>2, <1>5, <2>7, RetreatKeeps
<1> QED BY <1>4, <1>5 DEF OldMailsCallback

(* A mail goes back, or its item is lost: nobody gets an item, and whoever may *)
(* still have it in memory makes it an exposed one.                           *)
LEMMA SingleMailCallbackKeeps ==
  ASSUME IInv, SingleMailCallback, UNCHANGED <<auction, dbAuction>>
  PROVE  IInv'
<1>1. Typed /\ Crossing /\ Present /\ Returning /\ Unique
  BY DEF IInv
<1>2. /\ Busy /\ returner' = None
      /\ UNCHANGED <<state, purse, bag, box, loginHolder, request, dbPurse, stops>>
  BY DEF SingleMailCallback, memVars
<1>3. PICK id, m, it, d : Returns(id, m, it, d)
  BY <1>2, Returned
<1>4. PICK n \in Nat : n = Len(dbMail) /\ DOMAIN dbMail = 1 .. n
  BY <1>1 DEF Typed, SoundMails
<1>5. \A o \in 1 .. n : Sound(dbMail[o]) /\ dbMail[o] \in Rows
  BY <1>1, <1>4 DEF Typed, SoundMails, Sound
<1>6. CASE Skips /\ UNCHANGED <<dbMail, dbBag, crossed, exposed>>
  <2>1. Retreat
    BY <1>1, <1>6 DEF Retreat, Typed, Purses, Crossing
  <2> QED BY <1>2, <2>1, RetreatKeeps
<1>7. CASE ~Skips /\ crossed' = crossed \union
                {o \in DOMAIN dbMail : IF o = returner.id THEN LoginHasIt \/ Strayed
                                       ELSE dbMail'[o] # dbMail[o]}
           /\ exposed' = IF LoginHasIt \/ Strayed
                        THEN exposed \union ({returner.item, dbMail[returner.id].item} \ {None})
                        ELSE exposed
  <2>1. /\ \A o \in crossed' : o \in crossed \/ (o \in 1 .. n /\
              IF o = id THEN LoginHasIt \/ Strayed ELSE dbMail'[o] # dbMail[o])
        /\ \A o \in 1 .. n : o \notin crossed' =>
              IF o = id THEN ~(LoginHasIt \/ Strayed) ELSE dbMail'[o] = dbMail[o]
        /\ crossed \subseteq crossed'
    BY <1>3, <1>4, <1>7 DEF Returns
  <2>2. exposed' = IF LoginHasIt \/ Strayed THEN exposed \union ({it, d.item} \ {None}) ELSE exposed
    BY <1>3, <1>7 DEF Returns
  <2>3. exposed \subseteq exposed' /\ exposed' \in SUBSET Items
    BY <1>1, <1>3, <2>2 DEF Typed, Returns
  <2>4. LoginHasIt \/ Strayed => it \in exposed' \union {None} /\ d.item \in exposed' \union {None}
    BY <2>2
  <2>5. id \notin crossed' => state[m.to] = "offline"
    BY <1>3, <1>4, <1>7, <2>1 DEF Returns
  <2>6. id \in crossed' => d.item \in exposed' \union {None}
    BY <1>3, <2>1, <2>3, <2>4 DEF Returns
  <2>7. CASE GoesBack(returner.row) /\ UNCHANGED dbBag
             /\ dbMail' = [dbMail EXCEPT ![returner.id] = SentBack(@)]
    <3>1. PICK row : row = SentBack(d)
      OBVIOUS
    <3>2. GoesBack(m) /\ dbMail' = [dbMail EXCEPT ![id] = row]
      BY <1>3, <2>7, <3>1 DEF Returns
    <3>3. Sound(row) /\ row.item \in {None, d.item} /\ row.kind # "auction"
      <4>1. CASE d = Gone
        BY <3>1, <4>1, GoneRow DEF SentBack
      <4>2. CASE d # Gone
        <5>1. d \in Letters
          BY <1>3, <4>2, GoneRow DEF Returns, Letters
        <5>2. m.kind = "normal" /\ m.from \in Players /\ m.to \in Players
          BY <1>3, <3>2 DEF GoesBack, Sound, Returns
        <5>3. PICK f, t, k : f = m.to /\ t = m.from /\ k = "returned"
          OBVIOUS
        <5>4. row = [d EXCEPT !.kind = k, !.from = f, !.to = t, !.cod = 0]
          BY <1>3, <3>1, <4>2, <5>3 DEF SentBack, Returns
        <5>5. row = [kind |-> k, from |-> f, to |-> t, item |-> d.item,
                     money |-> d.money, cod |-> 0]
          BY <5>1, <5>4 DEF Letters
        <5>6. d.item \in Items \union {None} /\ d.money \in Nat
          BY <5>1 DEF Letters
        <5>7. k \in Kinds /\ f \in Players /\ t \in Players /\ 0 \in 0 .. MailPrice
          BY <5>2, <5>3, MailAssumption DEF Kinds
        <5>8. row \in Rows
          BY <5>5, <5>6, <5>7 DEF Rows
        <5>9. row.kind = k /\ row.from = f /\ row.cod = 0 /\ row.item = d.item
          BY <5>5
        <5> QED BY <5>3, <5>7, <5>8, <5>9 DEF Sound
      <4> QED BY <4>1, <4>2
    <3>4. /\ SoundMails(dbMail') /\ Len(dbMail') = Len(dbMail) /\ DOMAIN dbMail' = DOMAIN dbMail
          /\ dbMail'[id] = row /\ \A o \in DOMAIN dbMail \ {id} : dbMail'[o] = dbMail[o]
      BY <1>1, <1>3, <3>2, <3>3, MailReplaced DEF Returns
    <3>5. \A i \in Items : With(dbMail', i) \subseteq With(dbMail, i)
      <4>1. row.item \in {None, dbMail[id].item}
        BY <1>3, <3>3 DEF Returns
      <4> QED BY <3>4, <4>1, GoneRow DEF With
    <3>6. \A o \in crossed' : o \in DOMAIN dbMail /\ dbMail'[o].item \in exposed' \union {None}
      <4>1. ASSUME NEW o \in crossed'
            PROVE  o \in DOMAIN dbMail /\ dbMail'[o].item \in exposed' \union {None}
        <5>1. CASE o = id
          <6>1. id \in DOMAIN dbMail
            BY <1>3 DEF Returns
          <6>2. row.item \in exposed' \union {None}
            BY <2>6, <3>3, <4>1, <5>1
          <6> QED BY <3>4, <5>1, <6>1, <6>2
        <5>2. CASE o # id
          <6>1. o \in crossed
            BY <1>4, <2>1, <3>4, <4>1, <5>2
          <6>2. o \in DOMAIN dbMail /\ dbMail[o].item \in exposed \union {None}
            BY <1>1, <6>1 DEF Crossing
          <6> QED BY <2>3, <3>4, <5>2, <6>2
        <5> QED BY <5>1, <5>2
      <4> QED BY <4>1
    <3>7. ASSUME NEW o \in DOMAIN dbMail
          PROVE  /\ o \in crossed' \ crossed => dbMail[o].item \in exposed' \union {None}
                 /\ \/ o \in crossed' \/ dbMail'[o] = dbMail[o] \/ dbMail[o] = Gone
                    \/ state[dbMail[o].to] = "offline"
                 /\ dbMail'[o].kind = "auction" => dbMail[o].kind = "auction"
      <4>1. CASE o = id
        <5>1. dbMail[o] = d /\ (d = Gone \/ d.to = m.to)
          BY <1>3, <4>1 DEF Returns
        <5> QED BY <2>5, <2>6, <3>3, <3>4, <4>1, <5>1
      <4>2. CASE o # id
        <5>1. dbMail'[o] = dbMail[o]
          BY <3>4, <4>2
        <5>2. o \notin crossed' \ crossed
          BY <1>4, <2>1, <4>2, <5>1
        <5> QED BY <5>1, <5>2
      <4> QED BY <4>1, <4>2
    <3>8. dbBag' \in [Players -> SUBSET Items] /\ dbBag' = dbBag
      BY <1>1, <2>7 DEF Typed, Purses
    <3>9. Retreat
      BY <2>1, <2>3, <3>4, <3>5, <3>6, <3>7, <3>8 DEF Retreat
    <3> QED BY <1>2, <3>9, RetreatKeeps
  <2>8. CASE ~GoesBack(returner.row)
             /\ dbBag' = [p \in Players |-> dbBag[p] \ {returner.item}]
             /\ dbMail' = [o \in DOMAIN dbMail |-> IF o = returner.id THEN Gone
                                                   ELSE ItemGone(dbMail[o])]
    <3>1. dbBag' = [p \in Players |-> dbBag[p] \ {it}]
      BY <1>3, <2>8 DEF Returns
    <3>2. DOMAIN dbMail' = 1 .. n /\ dbMail'[id] = Gone /\ id \in 1 .. n
      BY <1>3, <1>4, <2>8 DEF Returns
    <3>3. \A o \in 1 .. n : o # id => dbMail'[o] = ItemGone(dbMail[o])
      BY <1>3, <1>4, <2>8 DEF Returns
    <3>4. dbMail' = [o \in 1 .. n |-> dbMail'[o]]
      BY <1>4, <2>8
    <3>5. ASSUME NEW o \in 1 .. n, o # id
          PROVE  /\ Sound(dbMail'[o]) /\ dbMail'[o].kind = dbMail[o].kind
                 /\ dbMail'[o] = dbMail[o] \/
                    (it # None /\ dbMail[o].item = it /\ dbMail'[o].item = None)
      <4>1. PICK old : old = dbMail[o]
        OBVIOUS
      <4>2. Sound(old) /\ old \in Rows
        BY <1>5, <4>1
      <4>3. CASE old.item \in {it} \ {None}
        <5>1. dbMail'[o] = [old EXCEPT !.item = None] /\ it # None /\ old.item = it
          BY <1>3, <3>3, <3>5, <4>1, <4>3 DEF ItemGone, Returns
        <5>2. old \in Letters /\ old # Gone
          BY <4>2, <5>1, GoneRow DEF Letters
        <5>3. PICK new : new = [old EXCEPT !.item = None]
          OBVIOUS
        <5>4. /\ new.kind = old.kind /\ new.from = old.from /\ new.to = old.to /\ new.cod = old.cod
              /\ new.item = None /\ new \in Letters
          BY <5>2, <5>3 DEF Letters
        <5>5. new \in Rows
          BY <5>4 DEF Rows, Letters
        <5>6. Sound(new)
          BY <4>2, <5>2, <5>4, <5>5 DEF Sound
        <5> QED BY <4>1, <5>1, <5>3, <5>4, <5>6
      <4>4. CASE old.item \notin {it} \ {None}
        <5>1. dbMail'[o] = old
          BY <1>3, <3>3, <3>5, <4>1, <4>4 DEF ItemGone, Returns
        <5> QED BY <4>1, <4>2, <5>1
      <4> QED BY <4>3, <4>4
    <3>6. ASSUME NEW o \in 1 .. n PROVE Sound(dbMail'[o]) /\ dbMail'[o] \in Rows
      BY <3>2, <3>5, <3>6, GoneRow DEF Sound
    <3>7. dbMail' \in Seq(Rows) /\ Len(dbMail') = n
      BY <3>4, <3>6, IsASeq
    <3>8. SoundMails(dbMail') /\ Len(dbMail') = Len(dbMail)
      BY <1>4, <3>2, <3>6, <3>7 DEF SoundMails
    <3>9. ASSUME NEW o \in 1 .. n, o # id, dbMail'[o] # dbMail[o]
          PROVE  dbMail[o].item \in exposed' /\ dbMail'[o].item = None
      <4>1. it # None /\ dbMail[o].item = it /\ dbMail'[o].item = None
        BY <3>5, <3>9
      <4>2. Strayed
        BY <1>3, <1>4, <2>8, <3>9, <4>1 DEF Strayed, Returns
      <4> QED BY <2>4, <4>1, <4>2
    <3>10. \A i \in Items : With(dbMail', i) \subseteq With(dbMail, i)
      <4>1. \A o \in 1 .. n : dbMail'[o] = dbMail[o] \/ dbMail'[o].item = None
        BY <3>2, <3>9, GoneRow
      <4> QED BY <1>4, <3>2, <4>1, GoneRow DEF With
    <3>11. \A o \in crossed' : o \in DOMAIN dbMail /\ dbMail'[o].item \in exposed' \union {None}
      <4>1. ASSUME NEW o \in crossed'
            PROVE  o \in DOMAIN dbMail /\ dbMail'[o].item \in exposed' \union {None}
        <5>1. o \in 1 .. n
          BY <1>1, <1>4, <2>1, <4>1 DEF Crossing
        <5>2. CASE dbMail'[o] = dbMail[o]
          <6>1. o = id \/ o \in crossed
            BY <2>1, <4>1, <5>2
          <6>2. o = id => dbMail'[o].item = None
            BY <3>2, GoneRow
          <6>3. o \in crossed => dbMail[o].item \in exposed \union {None}
            BY <1>1 DEF Crossing
          <6> QED BY <1>4, <2>3, <5>1, <5>2, <6>1, <6>2, <6>3
        <5>3. CASE dbMail'[o] # dbMail[o]
          BY <1>4, <3>2, <3>9, <5>1, <5>3, GoneRow
        <5> QED BY <5>2, <5>3
      <4> QED BY <4>1
    <3>12. ASSUME NEW o \in DOMAIN dbMail
           PROVE  /\ o \in crossed' \ crossed => dbMail[o].item \in exposed' \union {None}
                  /\ \/ o \in crossed' \/ dbMail'[o] = dbMail[o] \/ dbMail[o] = Gone
                     \/ state[dbMail[o].to] = "offline"
                  /\ dbMail'[o].kind = "auction" => dbMail[o].kind = "auction"
      <4>1. CASE o = id
        <5>1. dbMail[o] = d /\ (d = Gone \/ d.to = m.to)
          BY <1>3, <4>1 DEF Returns
        <5> QED BY <2>5, <2>6, <3>2, <4>1, <5>1, GoneRow
      <4>2. CASE o # id
        <5>1. o \in crossed' \ crossed => dbMail'[o] # dbMail[o]
          BY <2>1, <4>2
        <5>2. o \notin crossed' => dbMail'[o] = dbMail[o]
          BY <1>4, <2>1, <4>2
        <5> QED BY <1>4, <3>5, <3>9, <4>2, <5>1, <5>2
      <4> QED BY <4>1, <4>2
    <3>13. dbBag' \in [Players -> SUBSET Items]
      BY <1>1, <3>1 DEF Typed, Purses
    <3>14. ASSUME NEW q \in Players PROVE dbBag'[q] \ exposed' = dbBag[q] \ exposed'
      <4>1. dbBag'[q] = dbBag[q] \ {it} /\ dbBag[q] \in SUBSET Items
        BY <1>1, <3>1 DEF Typed, Purses
      <4>2. CASE it \in dbBag[q]
        <5>1. it # None
          BY <4>1, <4>2, GoneRow
        <5>2. Strayed
          BY <1>3, <2>8, <4>2, <5>1 DEF Strayed, Returns
        <5>3. it \in exposed'
          BY <2>4, <5>1, <5>2
        <5> QED BY <4>1, <5>3
      <4>3. CASE it \notin dbBag[q]
        BY <4>1, <4>3
      <4> QED BY <4>2, <4>3
    <3>15. Retreat
      BY <2>1, <2>3, <3>8, <3>10, <3>11, <3>12, <3>13, <3>14 DEF Retreat
    <3> QED BY <1>2, <3>15, RetreatKeeps
  <2> QED BY <1>7, <2>7, <2>8 DEF SingleMailCallback
<1> QED BY <1>6, <1>7 DEF SingleMailCallback

-----------------------------------------------------------------------------
(* Auctions. *)

\* The cut of the house is never more than the bid.
LEMMA CutIsPart ==
  ASSUME NEW n \in Nat PROVE (CutPercent * n) \div 100 \in 0 .. n
<1>1. PICK c \in 0 .. 100 : c = CutPercent
  BY AuctionAssumption
<1>2. c * n \in Nat /\ c * n <= 100 * n
  OBVIOUS
<1>3. \A k \in Nat : k <= 100 * n => k \div 100 \in 0 .. n
  OBVIOUS
<1> QED BY <1>1, <1>2, <1>3

\* A mail of the auction house carries its item and asks for nothing.
LEMMA AuctionMails ==
  ASSUME NEW p \in Players, NEW it \in Items \union {None}, NEW n \in Nat
  PROVE  Carries(<<AuctionMail(p, it, n)>>, it)
<1>1. PICK row : row = AuctionMail(p, it, n)
  OBVIOUS
<1>2. /\ row.kind = "auction" /\ row.to = p /\ row.item = it /\ row.cod = 0 /\ row \in Rows
  BY <1>1, MailAssumption DEF AuctionMail, Row, Rows, Kinds
<1>3. Sound(row) /\ row # Gone
  BY <1>2, GoneRow DEF Sound
<1> QED BY <1>1, <1>2, <1>3, OneMail

(* What the auction a of the item i sends. *)
LEMMA MailsOfAuction ==
  ASSUME NEW a \in Entries, NEW i \in Items
  PROVE  /\ Carries(Refund(a), None) /\ \A p : Carries(OldBid(p, a), None)
         /\ Carries(Profit(a), None) /\ Carries(ItemBack(a, i), i)
         /\ a.bidder # None => Carries(WonMail(a, i), i)
<1>1. a.owner \in Players /\ a.bid \in Nat /\ a.bidder \in Players \union {None}
  BY AuctionAssumption DEF Entries
<1>2. Carries(Refund(a), None)
  <2>1. CASE a.bidder = None
    BY <2>1, NoMail DEF Refund
  <2>2. CASE a.bidder # None
    <3>1. Carries(<<AuctionMail(a.bidder, None, a.bid)>>, None)
      BY <1>1, <2>2, AuctionMails
    <3> QED BY <2>2, <3>1 DEF Refund
  <2> QED BY <2>1, <2>2
<1>3. \A p : Carries(OldBid(p, a), None)
  BY <1>2, NoMail DEF OldBid
<1>4. Carries(Profit(a), None)
  <2>1. GetAuctionCut(a) \in 0 .. a.bid
    BY <1>1, CutIsPart DEF GetAuctionCut
  <2>2. PICK n : n = a.bid + Deposit - GetAuctionCut(a)
    OBVIOUS
  <2>3. n \in Nat
    BY <1>1, <2>1, <2>2, AuctionAssumption
  <2>4. Carries(<<AuctionMail(a.owner, None, n)>>, None)
    BY <1>1, <2>3, AuctionMails
  <2> QED BY <2>2, <2>4 DEF Profit
<1>5. Carries(ItemBack(a, i), i)
  BY <1>1, AuctionMails DEF ItemBack
<1>6. a.bidder # None => Carries(WonMail(a, i), i)
  BY <1>1, AuctionMails DEF WonMail
<1> QED BY <1>2, <1>3, <1>4, <1>5, <1>6

(* An item at auction is nowhere else; it is sent when the auction ends. *)
LEMMA AuctionUnique ==
  ASSUME Typed, Unique, NEW i \in Items, auction[i] # None,
         NEW rows, NEW x \in {i, None}, Carries(rows, x), NEW e, e = None \/ x = None,
         dbMail' = dbMail \o rows, \A j \in Items \ exposed : Owners(dbBag', j) = Owners(dbBag, j),
         dbAuction' = [dbAuction EXCEPT ![i] = e], exposed' = exposed
  PROVE  Unique'
<1>1. SoundMails(dbMail) /\ DOMAIN dbAuction = Items /\ auction = dbAuction
  BY DEF Typed
<1>2. ASSUME NEW j \in Items \ exposed
      PROVE  Single(Owners(dbBag', j), With(dbMail', j), dbAuction'[j])
  <2>1. Single(Owners(dbBag, j), With(dbMail, j), dbAuction[j]) /\ Owners(dbBag', j) = Owners(dbBag, j)
    BY DEF Unique
  <2>2. j # None
    BY GoneRow
  <2>3. CASE j = i
    <3>1. Owners(dbBag, j) = {} /\ With(dbMail, j) = {}
      BY <1>1, <2>1, <2>3 DEF Single
    <3>2. \A u, v \in With(dbMail', j) : u = v
      BY <1>1, <3>1, WithSent
    <3>3. x = None => With(dbMail', j) = {}
      BY <1>1, <2>2, <3>1, WithSent
    <3>4. dbAuction'[j] = e
      BY <1>1, <2>3
    <3> QED BY <2>1, <3>1, <3>2, <3>3, <3>4 DEF Single
  <2>4. CASE j # i
    <3>1. With(dbMail', j) = With(dbMail, j)
      BY <1>1, <2>2, <2>4, WithSent
    <3>2. dbAuction'[j] = dbAuction[j]
      BY <1>1, <2>4
    <3> QED BY <2>1, <3>1, <3>2
  <2> QED BY <2>3, <2>4
<1> QED BY <1>2 DEF Unique

\* An auction changes in memory and in the database alike.
LEMMA BecomesTyped ==
  ASSUME Typed, NEW i \in Items, NEW e \in Entries \union {None}, Becomes(i, e)
  PROVE  auction' \in [Items -> Entries \union {None}] /\ auction' = dbAuction'
BY DEF Typed, Becomes

(* Nobody gains or loses an item that counts. *)
BagsStay == Settled /\ \A j \in Items \ exposed : Owners(dbBag', j) = Owners(dbBag, j)

(* A handler changes the auction of i to e and sends mails. *)
LEMMA AuctionStep ==
  ASSUME IInv, NEW p, Actor(p), NEW i \in Items, auction[i] # None,
         NEW rows, NEW x \in {i, None}, Carries(rows, x),
         NEW e \in Entries \union {None}, e = None \/ x = None,
         SendMails(rows), Becomes(i, e), BagsStay, Rest
  PROVE  IInv'
<1>1. Typed /\ Crossing /\ Present /\ Returning /\ Unique
  BY DEF IInv
<1>2. /\ state' = state /\ loginHolder' = loginHolder /\ request' = request /\ returner' = returner
      /\ Calm /\ Settled /\ \A j \in Items \ exposed : Owners(dbBag', j) = Owners(dbBag, j)
  BY DEF Rest, history, Calm, BagsStay
<1>3. Posted(p)
  BY <1>1, Sent
<1>4. auction' \in [Items -> Entries \union {None}] /\ auction' = dbAuction'
  BY <1>1, BecomesTyped
<1>5. Typed' /\ Crossing' /\ Present' /\ Returning'
  BY <1>1, <1>2, <1>3, <1>4, HandlerStep DEF Typed
<1>6. dbMail' = dbMail \o rows /\ dbAuction' = [dbAuction EXCEPT ![i] = e] /\ exposed' = exposed
  BY <1>2 DEF SendMails, Becomes, Calm
<1>7. Unique'
  BY <1>1, <1>2, <1>6, AuctionUnique
<1> QED BY <1>5, <1>7 DEF IInv

(* A player pays d out of his purse. *)
LEMMA Pays ==
  ASSUME Typed, Present, NEW p \in Players, state[p] = "online", NEW d \in Int, purse[p] - d >= 0,
         purse' = [purse EXCEPT ![p] = @ - d], UNCHANGED bag, SaveInventoryAndGold(p)
  PROVE  BagsStay
<1>1. /\ purse \in [Players -> Nat] /\ bag \in [Players -> SUBSET Items]
      /\ dbBag \in [Players -> SUBSET Items]
  BY DEF Typed, Purses
<1>2. PICK x, y : x = purse[p] - d /\ y = bag[p]
  OBVIOUS
<1>3. x \in Nat /\ y \in SUBSET Items
  BY <1>1, <1>2
<1>4. purse' = [purse EXCEPT ![p] = x] /\ bag' = [bag EXCEPT ![p] = y]
  BY <1>1, <1>2
<1>5. Settles(p, x, y)
  BY <1>3, <1>4 DEF Settles
<1>6. Settled /\ dbBag' = [dbBag EXCEPT ![p] = y]
  BY <1>5, Saved
<1>7. Same(y, dbBag[p])
  BY <1>2, Kinship
<1>8. \A j \in Items \ exposed : Owners(dbBag', j) = Owners(dbBag, j)
  BY <1>6, <1>7, BagIsSame
<1> QED BY <1>6, <1>8 DEF BagsStay

\* A bid: the bidder pays and is saved, the bidder before gets a mail.
LEMMA HandleAuctionPlaceBidKeeps ==
  ASSUME IInv, NEW p \in Players, NEW i \in Items, NEW price \in 0 .. MaxPrice,
         HandleAuctionPlaceBid(p, i, price)
  PROVE  IInv'
<1>1. Typed /\ Crossing /\ Present /\ Returning /\ Unique
  BY DEF IInv
<1>2. PICK a : a = auction[i]
  OBVIOUS
<1>3. PICK e : e = [a EXCEPT !.bidder = p, !.bid = price]
  OBVIOUS
<1>4. PICK d : d = Price(p, a, price)
  OBVIOUS
<1>5. /\ state[p] = "online" /\ a # None /\ price <= purse[p]
      /\ purse' = [purse EXCEPT ![p] = @ - d] /\ UNCHANGED bag /\ SaveInventoryAndGold(p)
      /\ SendMails(OldBid(p, a)) /\ Becomes(i, e) /\ Rest
  BY <1>2, <1>3, <1>4 DEF HandleAuctionPlaceBid, MayBid
<1>6. a \in Entries
  BY <1>1, <1>2, <1>5 DEF Typed
<1>7. e \in Entries
  BY <1>3, <1>6 DEF Entries
<1>8. purse[p] \in Nat /\ a.bid \in Nat /\ price \in Nat
  BY <1>1, <1>6, AuctionAssumption DEF Typed, Purses, Entries
<1>9. d \in Int /\ purse[p] - d >= 0
  BY <1>4, <1>5, <1>8 DEF Price
<1>10. BagsStay
  BY <1>1, <1>5, <1>9, Pays
<1>11. Carries(OldBid(p, a), None)
  BY <1>6, MailsOfAuction
<1>12. Actor(p)
  BY <1>5 DEF Actor
<1> QED BY <1>2, <1>5, <1>7, <1>10, <1>11, <1>12, AuctionStep

\* A buyout ends the auction: the item goes to the buyer by mail.
LEMMA HandleAuctionBuyOutKeeps ==
  ASSUME IInv, NEW p \in Players, NEW i \in Items, NEW price \in 0 .. MaxPrice,
         HandleAuctionBuyOut(p, i, price)
  PROVE  IInv'
<1>1. Typed /\ Crossing /\ Present /\ Returning /\ Unique
  BY DEF IInv
<1>2. PICK a : a = auction[i]
  OBVIOUS
<1>3. PICK sold : sold = [a EXCEPT !.bidder = p, !.bid = a.buyout]
  OBVIOUS
<1>4. PICK d : d = Price(p, a, a.buyout)
  OBVIOUS
<1>5. PICK rows : rows = OldBid(p, a) \o Profit(sold) \o WonMail(sold, i)
  OBVIOUS
<1>6. /\ state[p] = "online" /\ a # None /\ price <= purse[p] /\ price >= a.buyout
      /\ purse' = [purse EXCEPT ![p] = @ - d] /\ UNCHANGED bag /\ SaveInventoryAndGold(p)
      /\ SendMails(rows) /\ Becomes(i, None) /\ Rest
  BY <1>2, <1>3, <1>4, <1>5 DEF HandleAuctionBuyOut, MayBid, BuyOutMails
<1>7. a \in Entries
  BY <1>1, <1>2, <1>6 DEF Typed
<1>8. sold \in Entries /\ sold.bidder = p /\ p # None
  BY <1>3, <1>7, GoneRow DEF Entries
<1>9. purse[p] \in Nat /\ a.bid \in Nat /\ a.buyout \in Nat /\ price \in Nat
  BY <1>1, <1>7, AuctionAssumption DEF Typed, Purses, Entries
<1>10. d \in Int /\ purse[p] - d >= 0
  BY <1>4, <1>6, <1>9 DEF Price
<1>11. BagsStay
  BY <1>1, <1>6, <1>10, Pays
<1>12. /\ Carries(OldBid(p, a), None) /\ Carries(Profit(sold), None)
       /\ Carries(WonMail(sold, i), i)
  BY <1>7, <1>8, MailsOfAuction
<1>13. Carries(OldBid(p, a) \o Profit(sold), None)
  BY <1>12, MoreMails
<1>14. Carries(rows, i)
  BY <1>5, <1>12, <1>13, MoreMails
<1>15. Actor(p)
  BY <1>6 DEF Actor
<1> QED BY <1>2, <1>6, <1>11, <1>14, <1>15, AuctionStep

\* A cancelled auction: the item goes back by mail, the bidder is paid.
LEMMA HandleAuctionRemoveItemKeeps ==
  ASSUME IInv, NEW p \in Players, NEW i \in Items, HandleAuctionRemoveItem(p, i)
  PROVE  IInv'
<1>1. Typed /\ Crossing /\ Present /\ Returning /\ Unique
  BY DEF IInv
<1>2. PICK a : a = auction[i]
  OBVIOUS
<1>3. PICK d : d = CutOfBid(a)
  OBVIOUS
<1>4. PICK rows : rows = Refund(a) \o ItemBack(a, i)
  OBVIOUS
<1>5. /\ state[p] = "online" /\ a # None /\ purse[p] >= d
      /\ purse' = [purse EXCEPT ![p] = @ - d] /\ UNCHANGED bag /\ SaveInventoryAndGold(p)
      /\ SendMails(rows) /\ Becomes(i, None) /\ Rest
  BY <1>2, <1>3, <1>4 DEF HandleAuctionRemoveItem, MayRemove
<1>6. a \in Entries
  BY <1>1, <1>2, <1>5 DEF Typed
<1>7. purse[p] \in Nat /\ a.bid \in Nat
  BY <1>1, <1>6, AuctionAssumption DEF Typed, Purses, Entries
<1>8. GetAuctionCut(a) \in Int
  BY <1>7, CutIsPart DEF GetAuctionCut
<1>9. d \in Int /\ purse[p] - d >= 0
  BY <1>3, <1>5, <1>7, <1>8 DEF CutOfBid
<1>10. BagsStay
  BY <1>1, <1>5, <1>9, Pays
<1>11. Carries(Refund(a), None) /\ Carries(ItemBack(a, i), i)
  BY <1>6, MailsOfAuction
<1>12. Carries(rows, i)
  BY <1>4, <1>11, MoreMails
<1>13. Actor(p)
  BY <1>5 DEF Actor
<1> QED BY <1>2, <1>5, <1>10, <1>12, <1>13, AuctionStep

\* An auction that ends by time: the item goes to the bidder, or back.
LEMMA ExpireKeeps ==
  ASSUME IInv, NEW i \in Items, Expire(i) PROVE IInv'
<1>1. Typed /\ Crossing /\ Present /\ Returning /\ Unique
  BY DEF IInv
<1>2. PICK a : a = auction[i]
  OBVIOUS
<1>3. PICK rows : rows = EndMails(a, i)
  OBVIOUS
<1>4. /\ a # None /\ SendMails(rows) /\ Becomes(i, None)
      /\ UNCHANGED <<purse, bag, dbPurse, dbBag>> /\ Rest
  BY <1>2, <1>3 DEF Expire
<1>5. a \in Entries
  BY <1>1, <1>2, <1>4 DEF Typed
<1>6. Carries(rows, i)
  <2>1. CASE a.bidder = None
    BY <1>3, <1>5, <2>1, MailsOfAuction DEF EndMails
  <2>2. CASE a.bidder # None
    <3>1. Carries(Profit(a), None) /\ Carries(WonMail(a, i), i)
      BY <1>5, <2>2, MailsOfAuction
    <3>2. rows = Profit(a) \o WonMail(a, i)
      BY <1>3, <2>2 DEF EndMails
    <3> QED BY <3>1, <3>2, MoreMails
  <2> QED BY <2>1, <2>2
<1>7. BagsStay
  BY <1>1, <1>4, NotPaid DEF BagsStay
<1>8. Actor(None)
  BY DEF Actor
<1> QED BY <1>2, <1>4, <1>6, <1>7, <1>8, AuctionStep
(* An item that is offered leaves the bag of its owner. *)
LEMMA HandleAuctionSellItemKeeps ==
  ASSUME IInv, NEW p \in Players, NEW i \in Items, NEW bid \in 0 .. MaxPrice,
         NEW buyout \in 0 .. MaxPrice, HandleAuctionSellItem(p, i, bid, buyout)
  PROVE  IInv'
<1>1. Typed /\ Crossing /\ Present /\ Returning /\ Unique
  BY DEF IInv
<1>2. PICK x, y : x = purse[p] - Deposit /\ y = bag[p] \ {i}
  OBVIOUS
<1>3. PICK e : e = NewEntry(p, bid, buyout)
  OBVIOUS
<1>4. /\ state[p] = "online" /\ bid > 0 /\ i \in bag[p] /\ purse[p] >= Deposit
      /\ purse' = [purse EXCEPT ![p] = x] /\ bag' = [bag EXCEPT ![p] = y]
      /\ Becomes(i, e) /\ SaveInventoryAndGold(p) /\ UNCHANGED <<box, dbMail>>
      /\ state' = state /\ loginHolder' = loginHolder /\ request' = request /\ returner' = returner
      /\ Calm
  BY <1>2, <1>3 DEF HandleAuctionSellItem, Rest, history, Calm
<1>5. e \in Entries
  BY <1>3, <1>4, AuctionAssumption DEF NewEntry, Entries
<1>6. /\ purse \in [Players -> Nat] /\ bag \in [Players -> SUBSET Items]
      /\ dbBag \in [Players -> SUBSET Items] /\ DOMAIN dbAuction = Items
  BY <1>1 DEF Typed, Purses
<1>7. Settles(p, x, y)
  BY <1>2, <1>4, <1>6, AuctionAssumption DEF Settles
<1>8. Settled /\ dbBag' = [dbBag EXCEPT ![p] = y]
  BY <1>1, <1>4, <1>7, Saved
<1>9. Actor(p) /\ Same(bag[p], dbBag[p])
  BY <1>1, <1>4, Kinship
<1>10. Posted(p)
  BY <1>1, <1>4, <1>9, NotPosted
<1>11. auction' \in [Items -> Entries \union {None}] /\ auction' = dbAuction'
  BY <1>1, <1>4, <1>5, BecomesTyped
<1>12. Typed' /\ Crossing' /\ Present' /\ Returning'
  BY <1>1, <1>4, <1>8, <1>9, <1>10, <1>11, HandlerStep DEF Typed
<1>13. dbAuction' = [dbAuction EXCEPT ![i] = e]
  BY <1>4 DEF Becomes
<1>14. ASSUME NEW j \in Items \ exposed
       PROVE  Single(Owners(dbBag', j), With(dbMail', j), dbAuction'[j])
  <2>1. Single(Owners(dbBag, j), With(dbMail, j), dbAuction[j])
    BY <1>1 DEF Unique
  <2>2. \A q \in Players : dbBag'[q] = IF q = p THEN y ELSE dbBag[q]
    BY <1>6, <1>8
  <2>5. j \in bag[p] <=> j \in dbBag[p]
    BY <1>9 DEF Same
  <2>3. CASE j = i
    <3>1. p \in Owners(dbBag, j) /\ j \notin y
      BY <1>2, <1>4, <2>3, <2>5 DEF Owners
    <3>2. With(dbMail, j) = {}
      BY <2>1, <3>1 DEF Single
    <3>3. Owners(dbBag', j) = {}
      BY <2>1, <2>2, <3>1 DEF Owners, Single
    <3> QED BY <1>4, <3>2, <3>3 DEF Single
  <2>4. CASE j # i
    <3>1. Owners(dbBag', j) \subseteq Owners(dbBag, j)
      BY <1>2, <2>2, <2>5 DEF Owners
    <3>2. dbAuction'[j] = dbAuction[j] /\ dbMail' = dbMail
      BY <1>4, <1>6, <1>13, <2>4
    <3> QED BY <2>1, <3>1, <3>2, SingleShrinks
  <2> QED BY <2>3, <2>4
<1>15. Unique'
  BY <1>4, <1>14 DEF Unique, Calm
<1> QED BY <1>12, <1>15 DEF IInv

(* The process ends in a handler of an auction: whatever of it is done, only   *)
(* the item of the auction may be doubled.                                    *)
LEMMA StopsAtKeeps ==
  ASSUME IInv, NEW p \in Players, NEW i \in Items, NEW rows, NEW x \in {i, None}, Carries(rows, x),
         NEW a \in Entries \union {None}, NEW gold \in Nat, NEW parts,
         StopsAt(p, i, rows, a, gold, parts)
  PROVE  IInv'
<1>1. Typed /\ Crossing /\ Present /\ Returning /\ Unique
  BY DEF IInv
<1>2. Ends({i}) /\ Fits(rows) /\ auction' = dbAuction' /\ UNCHANGED dbBag
  BY DEF StopsAt
<1>3. PICK sent, done :
        /\ dbMail' = Inserted(rows, sent)
        /\ dbAuction' = IF "auction" \in done THEN [dbAuction EXCEPT ![i] = a] ELSE dbAuction
        /\ dbPurse' = IF "save" \in done THEN [dbPurse EXCEPT ![p] = gold] ELSE dbPurse
  BY DEF StopsAt
<1>4. /\ dbPurse \in [Players -> Nat] /\ dbBag \in [Players -> SUBSET Items]
      /\ dbAuction \in [Items -> Entries \union {None}] /\ SoundMails(dbMail)
  BY <1>1 DEF Typed, Purses
<1>5. Purses(dbPurse', dbBag')
  BY <1>2, <1>3, <1>4 DEF Purses
<1>6. /\ dbAuction' \in [Items -> Entries \union {None}]
      /\ \A j \in Items : j # i => dbAuction'[j] = dbAuction[j]
  BY <1>3, <1>4
<1>7. PICK some : some = [k \in DOMAIN rows |-> IF k \in sent THEN rows[k] ELSE Gone]
  OBVIOUS
<1>8. Carries(some, x) /\ dbMail' = dbMail \o some
  BY <1>3, <1>7, SomeMails DEF Inserted
<1>9. Fits(some)
  <2>1. PICK n \in Nat : n = Len(rows) /\ DOMAIN rows = 1 .. n
    BY DEF Carries
  <2>2. DOMAIN some = 1 .. n /\ some \in Seq(Rows)
    BY <1>7, <1>8, <2>1 DEF Carries
  <2>3. Len(some) = n
    BY <2>1, <2>2
  <2> QED BY <1>2, <2>1, <2>3 DEF Fits
<1>10. Follows(dbMail, dbMail, p)
  BY <1>1, FollowsSelf DEF Typed
<1>11. Follows(dbMail, dbMail', p) /\ Len(dbMail') <= MaxMails
  BY <1>1, <1>8, <1>9, <1>10, FollowsSent
<1>12. exposed' = exposed \union ({i} \ {None}) /\ {i} \subseteq Items \union {None}
  BY <1>2 DEF Ends
<1>13. Unique'
  <2>1. ASSUME NEW j \in Items \ exposed'
        PROVE  /\ Owners(dbBag', j) \subseteq Owners(dbBag, j)
               /\ With(dbMail', j) \subseteq With(dbMail, j) /\ dbAuction'[j] = dbAuction[j]
    <3>1. j \in Items /\ j # i /\ j # x
      BY <1>12, <2>1, GoneRow
    <3>2. With(dbMail', j) = With(dbMail, j)
      BY <1>4, <1>8, <3>1, WithSent
    <3> QED BY <1>2, <1>6, <3>1, <3>2
  <2> QED BY <1>1, <1>12, <2>1, NothingMoves
<1> QED BY <1>2, <1>5, <1>6, <1>11, <1>12, <1>13, Stopped

\* What is left of a bid.
LEMMA BiddingStopsKeeps ==
  ASSUME IInv, NEW p \in Players, NEW i \in Items, NEW price \in 0 .. MaxPrice,
         BiddingStops(p, i, price)
  PROVE  IInv'
<1>1. Typed
  BY DEF IInv
<1>2. PICK a, e, gold : /\ a = auction[i] /\ e = [a EXCEPT !.bidder = p, !.bid = price]
                        /\ gold = purse[p] - Price(p, a, price)
  OBVIOUS
<1>3. /\ a # None /\ price <= purse[p]
      /\ StopsAt(p, i, OldBid(p, a), e, gold, SUBSET {"auction", "save"})
  BY <1>2 DEF BiddingStops, MayBid
<1>4. a \in Entries
  BY <1>1, <1>2, <1>3 DEF Typed
<1>5. e \in Entries
  BY <1>2, <1>4 DEF Entries
<1>6. purse[p] \in Nat /\ a.bid \in Nat /\ price \in Nat
  BY <1>1, <1>4, AuctionAssumption DEF Typed, Purses, Entries
<1>7. gold \in Nat
  BY <1>2, <1>3, <1>6 DEF Price
<1>8. Carries(OldBid(p, a), None)
  BY <1>4, MailsOfAuction
<1> QED BY <1>3, <1>5, <1>7, <1>8, StopsAtKeeps

\* What is left of a buyout.
LEMMA BuyOutStopsKeeps ==
  ASSUME IInv, NEW p \in Players, NEW i \in Items, NEW price \in 0 .. MaxPrice,
         BuyOutStops(p, i, price)
  PROVE  IInv'
<1>1. Typed
  BY DEF IInv
<1>2. PICK a, sold, gold : /\ a = auction[i] /\ sold = [a EXCEPT !.bidder = p, !.bid = a.buyout]
                           /\ gold = purse[p] - Price(p, a, a.buyout)
  OBVIOUS
<1>3. PICK rows : rows = OldBid(p, a) \o Profit(sold) \o WonMail(sold, i)
  OBVIOUS
<1>4. /\ a # None /\ price <= purse[p] /\ price >= a.buyout
      /\ StopsAt(p, i, rows, None, gold, SUBSET {"auction", "save"})
  BY <1>2, <1>3 DEF BuyOutStops, MayBid, BuyOutMails
<1>5. a \in Entries
  BY <1>1, <1>2, <1>4 DEF Typed
<1>6. sold \in Entries /\ sold.bidder = p /\ p # None
  BY <1>2, <1>5, GoneRow DEF Entries
<1>7. purse[p] \in Nat /\ a.bid \in Nat /\ a.buyout \in Nat /\ price \in Nat
  BY <1>1, <1>5, AuctionAssumption DEF Typed, Purses, Entries
<1>8. gold \in Nat
  BY <1>2, <1>4, <1>7 DEF Price
<1>9. /\ Carries(OldBid(p, a), None) /\ Carries(Profit(sold), None)
      /\ Carries(WonMail(sold, i), i)
  BY <1>5, <1>6, MailsOfAuction
<1>10. Carries(OldBid(p, a) \o Profit(sold), None)
  BY <1>9, MoreMails
<1>11. Carries(rows, i)
  BY <1>3, <1>9, <1>10, MoreMails
<1> QED BY <1>4, <1>8, <1>11, StopsAtKeeps

\* What is left of a cancelled auction.
LEMMA RemoveStopsKeeps ==
  ASSUME IInv, NEW p \in Players, NEW i \in Items, RemoveStops(p, i)
  PROVE  IInv'
<1>1. Typed
  BY DEF IInv
<1>2. PICK a, gold, rows : /\ a = auction[i] /\ gold = purse[p] - CutOfBid(a)
                           /\ rows = Refund(a) \o ItemBack(a, i)
  OBVIOUS
<1>3. /\ a # None /\ purse[p] >= CutOfBid(a)
      /\ StopsAt(p, i, rows, None, gold, {{}, {"auction", "save"}})
  BY <1>2 DEF RemoveStops, MayRemove
<1>4. a \in Entries
  BY <1>1, <1>2, <1>3 DEF Typed
<1>5. purse[p] \in Nat /\ a.bid \in Nat
  BY <1>1, <1>4, AuctionAssumption DEF Typed, Purses, Entries
<1>6. GetAuctionCut(a) \in Int
  BY <1>5, CutIsPart DEF GetAuctionCut
<1>7. gold \in Nat
  BY <1>2, <1>3, <1>5, <1>6 DEF CutOfBid
<1>8. Carries(Refund(a), None) /\ Carries(ItemBack(a, i), i)
  BY <1>4, MailsOfAuction
<1>9. Carries(rows, i)
  BY <1>2, <1>8, MoreMails
<1> QED BY <1>3, <1>7, <1>9, StopsAtKeeps

\* What is left of the end of an auction.
LEMMA ExpireStopsKeeps ==
  ASSUME IInv, NEW i \in Items, ExpireStops(i)
  PROVE  IInv'
<1>1. Typed
  BY DEF IInv
<1>2. PICK a, rows : a = auction[i] /\ rows = EndMails(a, i)
  OBVIOUS
<1>3. a # None /\ StopsAt(a.owner, i, rows, None, 0, {{}, {"auction"}})
  BY <1>2 DEF ExpireStops
<1>4. a \in Entries
  BY <1>1, <1>2, <1>3 DEF Typed
<1>5. a.owner \in Players
  BY <1>4 DEF Entries
<1>6. Carries(rows, i)
  <2>1. CASE a.bidder = None
    BY <1>2, <1>4, <2>1, MailsOfAuction DEF EndMails
  <2>2. CASE a.bidder # None
    <3>1. Carries(Profit(a), None) /\ Carries(WonMail(a, i), i)
      BY <1>4, <2>2, MailsOfAuction
    <3>2. rows = Profit(a) \o WonMail(a, i)
      BY <1>2, <2>2 DEF EndMails
    <3> QED BY <3>1, <3>2, MoreMails
  <2> QED BY <2>1, <2>2
<1> QED BY <1>3, <1>5, <1>6, StopsAtKeeps

\* The process ends in a handler.
LEMMA HandlerStopsKeeps == ASSUME IInv, HandlerStops PROVE IInv'
<1>1. CASE \E p \in Players : PlayerStops(p) /\ auction' = dbAuction /\ UNCHANGED dbAuction
  <2>1. PICK p \in Players : PlayerStops(p) /\ auction' = dbAuction /\ UNCHANGED dbAuction
    BY <1>1
  <2>2. CASE \E done \in {{"item"}, {"mail"}, {"item", "mail"}, {"item", "save"}} :
               SendingStops(p, done)
    BY <2>1, <2>2, SendingStopsKeeps
  <2>3. CASE \E id \in DOMAIN box[p] : \E done \in {{"payment"}, {"save"}} : TakingStops(p, id, done)
    BY <2>1, <2>3, TakingStopsKeeps
  <2>4. CASE \E id \in DOMAIN box[p] : \E done \in {{"old"}, {"new"}} : ReturnStops(p, id, done)
    BY <2>1, <2>4, ReturnStopsKeeps
  <2> QED BY <2>1, <2>2, <2>3, <2>4 DEF PlayerStops
<1>2. CASE \E i \in Items : ExpireStops(i)
  BY <1>2, ExpireStopsKeeps
<1>3. CASE \E i \in Items, p \in Players : RemoveStops(p, i)
  BY <1>3, RemoveStopsKeeps
<1>4. CASE \E i \in Items, p \in Players, price \in 0 .. MaxPrice : BiddingStops(p, i, price)
  BY <1>4, BiddingStopsKeeps
<1>5. CASE \E i \in Items, p \in Players, price \in 0 .. MaxPrice : BuyOutStops(p, i, price)
  BY <1>5, BuyOutStopsKeeps
<1> QED BY <1>1, <1>2, <1>3, <1>4, <1>5 DEF HandlerStops

-----------------------------------------------------------------------------
(* The whole. *)

\* Everybody is online, as saved, and has his own items.
LEMMA AuctionInit == ASSUME Init PROVE IInv
<1>1. PICK start \in Starts : /\ purse = start.money /\ bag = start.items
                              /\ dbPurse = start.money /\ dbBag = start.items
  BY DEF Init, MailInit
<1>2. /\ state = [p \in Players |-> "online"] /\ box = [p \in Players |-> Empty]
      /\ dbMail = <<>> /\ loginHolder = [p \in Players |-> None]
      /\ request = [p \in Players |-> None] /\ returner = None
      /\ auction = [i \in Items |-> None] /\ dbAuction = [i \in Items |-> None]
      /\ crossed = {} /\ exposed = {} /\ stops = 0
  BY DEF Init, MailInit, Empty
<1>3. start.items \in [Players -> SUBSET Items] /\ start.money \in [Players -> Nat]
  BY MailAssumption
<1>4. SoundMails(dbMail) /\ Len(dbMail) <= MaxMails /\ 0 \in 0 .. MaxStops
  BY <1>2, MailAssumption DEF SoundMails
<1>5. Typed
  BY <1>1, <1>2, <1>3, <1>4 DEF Typed, Purses
<1>6. Present
  BY <1>1, <1>2 DEF Present, Online, Held, Empty, Same
<1>7. Returning /\ Crossing
  BY <1>2 DEF Returning, Crossing
<1>8. ASSUME NEW i \in Items PROVE Single(Owners(dbBag, i), With(dbMail, i), dbAuction[i])
  <2>1. With(dbMail, i) = {} /\ dbAuction[i] = None
    BY <1>2 DEF With
  <2>2. \A p, q \in Owners(dbBag, i) : p = q
    <3>1. \A p, q \in Players : p # q => start.items[p] \intersect start.items[q] = {}
      BY MailAssumption
    <3> QED BY <1>1, <3>1 DEF Owners
  <2> QED BY <2>1, <2>2 DEF Single
<1>9. Unique
  BY <1>8 DEF Unique
<1> QED BY <1>5, <1>6, <1>7, <1>9 DEF IInv

\* Every step of Mail.
LEMMA MailNextKeeps ==
  ASSUME IInv, MailNext, UNCHANGED <<auction, dbAuction>> PROVE IInv'
<1>1. CASE \E p \in Players : RequestLogin(p) \/ LoginCallback(p) \/ Logout(p)
  BY <1>1, RequestLoginKeeps, LoginCallbackKeeps, LogoutKeeps
<1>2. CASE \E p \in Players : SendMailRefused(p) \/ HandleSendMailCallback(p)
  BY <1>2, SendMailRefusedKeeps, HandleSendMailCallbackKeeps
<1>3. CASE \E p \in Players : \E id \in DOMAIN box[p] :
             \/ HandleMailMarkAsRead(p, id) \/ HandleMailTakeMoney(p, id)
             \/ HandleMailTakeItem(p, id)
             \/ HandleMailDelete(p, id) \/ HandleMailReturnToSender(p, id)
  BY <1>3, HandleMailMarkAsReadKeeps, HandleMailTakeMoneyKeeps, HandleMailTakeItemKeeps,
     HandleMailDeleteKeeps, HandleMailReturnToSenderKeeps
<1>4. CASE \E p, q \in Players, i \in Items \union {None}, sum, cod \in 0 .. MailPrice :
             HandleSendMail(p, q, i, sum, cod)
  BY <1>4, HandleSendMailKeeps
<1>5. CASE \E id \in DOMAIN dbMail : FindOldMail(id)
  BY <1>5, FindOldMailKeeps
<1>6. CASE OldMailsCallback
  BY <1>6, OldMailsCallbackKeeps
<1>7. CASE SingleMailCallback
  BY <1>7, SingleMailCallbackKeeps
<1> QED BY <1>1, <1>2, <1>3, <1>4, <1>5, <1>6, <1>7 DEF MailNext

\* And the step that changes nothing.
LEMMA AuctionStutter == ASSUME IInv, UNCHANGED vars PROVE IInv'
<1>1. Typed /\ Crossing /\ Present /\ Returning /\ Unique
  BY DEF IInv
<1>2. /\ UNCHANGED <<state, purse, bag, box, loginHolder, request, returner, dbPurse, dbBag, dbMail>>
      /\ crossed' = crossed /\ exposed' = exposed /\ stops' = stops
      /\ UNCHANGED <<auction, dbAuction>>
  BY DEF vars, mailVars, memVars, dbVars, history
<1>3. Follows(dbMail, dbMail', None)
  BY <1>1, <1>2, FollowsSelf DEF Typed
<1>4. Present'
  <2>1. ASSUME NEW q \in Players
        PROVE  /\ state'[q] = "online" => Online(q)'
               /\ state'[q] = "loading" => Loads(q)'
               /\ state'[q] # "online" => DOMAIN box'[q] = {}
               /\ state'[q] # "loading" => loginHolder'[q] = None
    <3>1. Same(dbBag'[q], dbBag[q]) /\ None # q
      BY <1>2, GoneRow DEF Same
    <3> QED BY <1>1, <1>2, <1>3, <3>1, OthersPresent
  <2> QED BY <2>1 DEF Present
<1>5. Typed'
  BY <1>1, <1>2 DEF Typed
<1>6. Crossing' /\ Returning'
  BY <1>1, <1>2, <1>3, CrossingKept, ReturningKept
<1>7. Unique'
  BY <1>1, <1>2, NothingMoves
<1> QED BY <1>4, <1>5, <1>6, <1>7 DEF IInv

\* Every step of AuctionHouse.
LEMMA AuctionNextKeeps == ASSUME IInv, [Next]_vars PROVE IInv'
<1>1. CASE MailNext /\ UNCHANGED <<auction, dbAuction>>
  BY <1>1, MailNextKeeps
<1>2. CASE Crash
  BY <1>2, CrashKeeps
<1>3. CASE \E i \in Items : Expire(i)
  BY <1>3, ExpireKeeps
<1>4. CASE \E i \in Items, p \in Players : HandleAuctionRemoveItem(p, i)
  BY <1>4, HandleAuctionRemoveItemKeeps
<1>5. CASE \E i \in Items, p \in Players, price \in 0 .. MaxPrice :
             HandleAuctionPlaceBid(p, i, price)
  BY <1>5, HandleAuctionPlaceBidKeeps
<1>6. CASE \E i \in Items, p \in Players, price \in 0 .. MaxPrice :
             HandleAuctionBuyOut(p, i, price)
  BY <1>6, HandleAuctionBuyOutKeeps
<1>7. CASE \E i \in Items, p \in Players, price, buyout \in 0 .. MaxPrice :
             HandleAuctionSellItem(p, i, price, buyout)
  BY <1>7, HandleAuctionSellItemKeeps
<1>8. CASE HandlerStops
  BY <1>8, HandlerStopsKeeps
<1>9. CASE UNCHANGED vars
  BY <1>9, AuctionStutter
<1> QED BY <1>1, <1>2, <1>3, <1>4, <1>5, <1>6, <1>7, <1>8, <1>9 DEF Next

\* A set without two elements has at most one.
LEMMA AtMostOne ==
  ASSUME NEW S, \A x, y \in S : x = y
  PROVE  Cardinality(S) \in {0, 1} /\ (Cardinality(S) = 1 => S # {})
<1>1. CASE S = {}
  BY <1>1, FS_EmptySet
<1>2. CASE S # {}
  <2>1. PICK x : S = {x}
    BY <1>2
  <2>2. Cardinality({x}) = 1
    BY FS_Singleton
  <2> QED BY <1>2, <2>1, <2>2
<1> QED BY <1>1, <1>2

\* The inductive invariant implies the invariant of the run.
LEMMA AuctionInv == ASSUME IInv PROVE Inv
<1>1. Typed /\ Crossing /\ Present /\ Returning /\ Unique
  BY DEF IInv
<1>2. \A p \in Players : \A id \in DOMAIN box[p] :
        /\ state[p] = "online" /\ box[p][id] \in Entry
        /\ Holds(box[p][id].mail, id, dbMail, p)
  BY <1>1 DEF Present, Online, Held
<1>3. TypeOK
  <2>1. /\ state \in [Players -> {"offline", "loading", "online"}]
        /\ purse \in [Players -> Nat] /\ dbPurse \in [Players -> Nat]
        /\ bag \in [Players -> SUBSET Items] /\ dbBag \in [Players -> SUBSET Items]
    BY <1>1 DEF Typed, Purses
  <2>2. Len(dbMail) <= MaxMails /\ \A id \in DOMAIN dbMail : dbMail[id] \in Rows
    BY <1>1 DEF Typed, SoundMails, Sound
  <2>3. \A p \in Players : \A id \in DOMAIN box[p] :
          box[p][id].mail \in Rows /\ box[p][id].state \in {"unchanged", "changed", "deleted"}
    BY <1>2 DEF Entry
  <2>4. \A p \in Players : loginHolder[p] # None <=> state[p] = "loading"
    BY <1>1 DEF Present, Loads
  <2>5. crossed \subseteq DOMAIN dbMail /\ exposed \subseteq Items /\ stops \in 0 .. MaxStops
    BY <1>1 DEF Crossing, Typed
  <2>6. MailTypeOK
    BY <2>1, <2>2, <2>3, <2>4, <2>5 DEF MailTypeOK
  <2> QED BY <1>1, <2>6 DEF TypeOK, Typed
<1>4. MemoryIsSaved
  <2>1. ASSUME NEW p \in Players, state[p] = "online"
        PROVE  /\ purse[p] = dbPurse[p] /\ Same(bag[p], dbBag[p])
               /\ AreCurrent(p, [id \in DOMAIN box[p] |-> box[p][id].mail])
    <3>1. Online(p)
      BY <1>1, <2>1 DEF Present
    <3>2. PICK m : m = [id \in DOMAIN box[p] |-> box[p][id].mail]
      OBVIOUS
    <3>3. \A id \in DOMAIN m : Holds(m[id], id, dbMail, p)
      BY <3>1, <3>2 DEF Online, Held
    <3>4. AreCurrent(p, m)
      BY <3>3 DEF AreCurrent, Holds
    <3> QED BY <3>1, <3>2, <3>4 DEF Online
  <2> QED BY <2>1 DEF MemoryIsSaved
<1>5. LoginIsCurrent
  <2>1. ASSUME NEW p \in Players, state[p] = "loading"
        PROVE  /\ loginHolder[p].purse = dbPurse[p] /\ Same(loginHolder[p].bag, dbBag[p])
               /\ AreCurrent(p, loginHolder[p].mails)
    <3>1. PICK h : h = loginHolder[p]
      OBVIOUS
    <3>2. /\ h = [purse |-> dbPurse[p], bag |-> h.bag, mails |-> h.mails]
          /\ Same(h.bag, dbBag[p]) /\ Read(h.mails, dbMail, p)
      BY <1>1, <2>1, <3>1 DEF Present, Loads
    <3>3. h.purse = dbPurse[p]
      BY <3>2
    <3>4. AreCurrent(p, h.mails)
      BY <3>2 DEF AreCurrent, Read, Holds
    <3> QED BY <3>1, <3>2, <3>3, <3>4
  <2> QED BY <2>1 DEF LoginIsCurrent
<1>6. ASSUME NEW i \in Items \ exposed PROVE Places(i) <= 1
  <2>1. PICK B, M, a : B = Owners(dbBag, i) /\ M = With(dbMail, i) /\ a = dbAuction[i]
    OBVIOUS
  <2>2. Single(B, M, a)
    BY <1>1, <2>1 DEF Unique
  <2>3. B = {p \in Players : i \in dbBag[p]} /\ M = MailsWith(i)
    BY <2>1 DEF Owners, With, MailsWith
  <2>4. PICK b, m : b = Cardinality(B) /\ m = Cardinality(M)
    OBVIOUS
  <2>5. b \in {0, 1} /\ m \in {0, 1} /\ (b = 1 => B # {}) /\ (m = 1 => M # {})
    BY <2>2, <2>4, AtMostOne DEF Single
  <2>6. Places(i) = b + m + IF a = None THEN 0 ELSE 1
    BY <2>1, <2>3, <2>4 DEF Places
  <2>7. /\ b = 1 => m = 0 /\ a = None
        /\ m = 1 => a = None
    <3>1. B # {} => M = {} /\ a = None
      BY <2>2 DEF Single
    <3>2. M # {} => a = None
      BY <2>2 DEF Single
    <3>3. M = {} => m = 0
      BY <2>5
    <3> QED BY <2>5, <3>1, <3>2, <3>3
  <2> QED BY <2>5, <2>6, <2>7
<1>7. OnePlace
  BY <1>6 DEF OnePlace
<1> QED BY <1>3, <1>4, <1>5, <1>7 DEF Inv

(* Whatever the handlers of mail and auctions, the return of old mails,      *)
(* logins, logouts and crashes do, also in the middle of a handler: no item *)
(* is twice in the bags, mails and auctions of the database, and what a     *)
(* player has in memory, or his login has read, is what the database has.   *)
(* Excepted are the mails that SingleMailReturner::Callback and             *)
(* OldMailsReturner::Callback have returned or deleted while their receiver *)
(* was being loaded, with their items, and the item of a handler in which   *)
(* the process ended.                                                       *)
THEOREM PropertyIsSafe == Spec => []Inv
<1>1. Init => IInv
  BY AuctionInit
<1>2. IInv /\ [Next]_vars => IInv'
  BY AuctionNextKeeps
<1>3. IInv => Inv
  BY AuctionInv
<1> QED BY <1>1, <1>2, <1>3, PTL DEF Spec
=============================================================================
