------------------------------- MODULE Trade --------------------------------
(***************************************************************************)
(* Trade between players (Handlers/TradeHandler.cpp, TradeData and         *)
(* Player::TradeCancel in Objects/Player.cpp).  Each of the two has a      *)
(* TradeData with what it offers and whether it accepts; the trade is done *)
(* when one accepts while the other's acceptance stands.  Meanwhile both   *)
(* go on playing: they spend money, use or receive items, and leave.       *)
(***************************************************************************)
EXTENDS Integers, FiniteSets, Holdings

CONSTANTS NumTraded,      \* TRADE_SLOT_TRADED_COUNT
          Casters,        \* players with a spell for another's item
          Capacity,       \* how many items a player can carry
          FirstItems,     \* the items players start with
          FirstMoney,
          MaxMoney        \* MAX_MONEY_AMOUNT

TradedSlots == 1 .. NumTraded
NonTraded   == 0                       \* TRADE_SLOT_NONTRADED
Slots       == TradedSlots \union {NonTraded}

ASSUME TradeAssumption ==
    /\ NumTraded \in Nat \ {0} /\ MaxMoney \in Nat /\ Casters \subseteq Players
    /\ IsFiniteSet(Items) /\ None \notin Items \union Players
    /\ Capacity \in [Players -> Nat] /\ FirstMoney \in [Players -> 0 .. MaxMoney]
    /\ FirstItems \in [Items -> Players]
    /\ \A p \in Players : Cardinality({i \in Items : FirstItems[i] = p}) <= Capacity[p]

VARIABLES
    inWorld,
    holder,     \* the player who has an item, or None
    money,
    m_trade     \* of a player: a TradeData, or None

tradeVars == <<inWorld, holder, money, m_trade>>

TradeDatas ==
    [trader : Players, items : [Slots -> Items \union {None}], money : 0 .. MaxMoney,
     spell : BOOLEAN, accepted : BOOLEAN]

NewTrade(q) ==
    [trader |-> q, items |-> [s \in Slots |-> None], money |-> 0, spell |-> FALSE,
     accepted |-> FALSE]

Trading(p) == m_trade[p] # None
Trader(p)  == m_trade[p].trader

\* TradeData::GetItem: a slot shows nothing when the item has left the player
GetItem(p, s) ==
    LET i == m_trade[p].items[s] IN IF i # None /\ holder[i] = p THEN i ELSE None

TradeInit ==
    /\ inWorld = Players /\ holder = FirstItems /\ money = FirstMoney
    /\ m_trade = [p \in Players |-> None]
-----------------------------------------------------------------------------
(* Opening and closing. *)

\* Mutant: the other player may be trading already.
InitiateTradeAny(p, q) ==
    /\ {p, q} \subseteq inWorld /\ p # q /\ ~Trading(p)
    /\ m_trade' = [m_trade EXCEPT ![p] = NewTrade(q), ![q] = NewTrade(p)]
    /\ UNCHANGED <<inWorld, holder, money>>

InitiateTrade(p, q) ==
    /\ {p, q} \subseteq inWorld /\ p # q /\ ~Trading(p) /\ ~Trading(q)
    /\ m_trade' = [m_trade EXCEPT ![p] = NewTrade(q), ![q] = NewTrade(p)]
    /\ UNCHANGED <<inWorld, holder, money>>

Closed(p) == IF Trading(p) THEN [m_trade EXCEPT ![p] = None, ![Trader(p)] = None] ELSE m_trade

\* a player cancels, ignores, is busy, moves away or takes a flight
TradeCancel(p) ==
    /\ Trading(p)
    /\ m_trade' = Closed(p)
    /\ UNCHANGED <<inWorld, holder, money>>

\* RemoveFromWorld, for a logout or another map
RemoveFromWorld(p) ==
    /\ p \in inWorld
    /\ inWorld' = inWorld \ {p} /\ m_trade' = Closed(p)
    /\ UNCHANGED <<holder, money>>

AddToWorld(p) ==
    /\ p \notin inWorld
    /\ inWorld' = inWorld \union {p}
    /\ UNCHANGED <<holder, money, m_trade>>
-----------------------------------------------------------------------------
(* Offers.  A change of p's offer withdraws both acceptances; a handler    *)
(* withdraws the other one's even if nothing changes.                      *)

\* TradeData::SetMoney
SetMoney(t, p, gold) ==
    IF t[p].money = gold THEN t
    ELSE [t EXCEPT ![p].money = gold, ![p].accepted = FALSE, ![t[p].trader].accepted = FALSE]

\* TradeData::SetSpell
SetSpell(t, p, spell) ==
    IF t[p].spell = spell THEN t
    ELSE [t EXCEPT ![p].spell = spell, ![p].accepted = FALSE, ![t[p].trader].accepted = FALSE]

\* TradeData::SetItem
SetItem(t, p, s, i) ==
    IF t[p].items[s] = i THEN t
    ELSE LET placed == [t EXCEPT ![p].items[s] = i, ![p].accepted = FALSE,
                                 ![t[p].trader].accepted = FALSE]
         IN  SetSpell(IF s = NonTraded THEN SetSpell(placed, t[p].trader, FALSE) ELSE placed,
                      p, FALSE)

Touched(p) == [m_trade EXCEPT ![Trader(p)].accepted = FALSE]

\* Mutant: p's own acceptance is all that a new amount withdraws.
SetTradeGoldQuietly(p, gold) ==
    /\ Trading(p) /\ gold <= money[p]
    /\ m_trade' = [m_trade EXCEPT ![p].money = gold, ![p].accepted = FALSE]
    /\ UNCHANGED <<inWorld, holder, money>>

SetTradeGold(p, gold) ==
    /\ Trading(p) /\ gold <= money[p]
    /\ m_trade' = SetMoney(Touched(p), p, gold)
    /\ UNCHANGED <<inWorld, holder, money>>

\* an item that may be traded, or any one in the slot that is not
SetTradeItem(p, s, i) ==
    /\ Trading(p) /\ holder[i] = p
    /\ \A r \in Slots : m_trade[p].items[r] # i                          \* HasItem
    /\ m_trade' = SetItem(Touched(p), p, s, i)
    /\ UNCHANGED <<inWorld, holder, money>>

ClearTradeItem(p, s) ==
    /\ Trading(p)
    /\ m_trade' = SetItem(Touched(p), p, s, None)
    /\ UNCHANGED <<inWorld, holder, money>>

\* Spell::CheckItems: a spell on the other's slot is remembered until the trade is done
CastOnTradeSlot(p) ==
    /\ p \in Casters /\ Trading(p) /\ GetItem(Trader(p), NonTraded) # None
    /\ m_trade' = SetSpell(m_trade, p, TRUE)
    /\ UNCHANGED <<inWorld, holder, money>>

UnacceptTrade(p) ==
    /\ Trading(p)
    /\ m_trade' = [m_trade EXCEPT ![p].accepted = FALSE]
    /\ UNCHANGED <<inWorld, holder, money>>
-----------------------------------------------------------------------------
(* HandleAcceptTradeOpcode, by its outcomes. *)

\* the delay since the last change, which serves the players, has passed
Accepting(p) == [m_trade EXCEPT ![p].accepted = TRUE]

CanPay(p) == m_trade[p].money <= money[p]

\* too far, or an item cannot be traded now: the acceptance stands
AcceptTradeRefused(p) ==
    /\ Trading(p)
    /\ m_trade' = Accepting(p)
    /\ UNCHANGED <<inWorld, holder, money>>

\* somebody has spent the money he offers, and no longer accepts
AcceptTradePoor(p) ==
    /\ Trading(p)
    /\ \/ ~CanPay(p) /\ m_trade' = [m_trade EXCEPT ![p].accepted = FALSE]
       \/ /\ CanPay(p) /\ ~CanPay(Trader(p))
          /\ m_trade' = [Accepting(p) EXCEPT ![Trader(p)].accepted = FALSE]
    /\ UNCHANGED <<inWorld, holder, money>>

Payable(p) == Trading(p) /\ CanPay(p) /\ CanPay(Trader(p))

AcceptTradeFirst(p) ==
    /\ Payable(p) /\ ~m_trade[Trader(p)].accepted
    /\ m_trade' = Accepting(p)
    /\ UNCHANGED <<inWorld, holder, money>>

\* a spell can be cast only on an item that is still there, and may fail even then
Castable(p) == m_trade[p].spell => GetItem(Trader(p), NonTraded) # None

AcceptTradeSpellFails(p) ==
    /\ Payable(p) /\ m_trade[Trader(p)].accepted
    /\ \/ m_trade[p].spell /\ m_trade' = SetSpell(Accepting(p), p, FALSE)
       \/ /\ Castable(p) /\ m_trade[Trader(p)].spell
          /\ m_trade' = SetSpell(Accepting(p), Trader(p), FALSE)
    /\ UNCHANGED <<inWorld, holder, money>>

Both(p) == Payable(p) /\ m_trade[Trader(p)].accepted /\ Castable(p) /\ Castable(Trader(p))

Outgoing(p) == {GetItem(p, s) : s \in TradedSlots} \ {None}
Carried(h, p) == {i \in Items : h[i] = p}

\* CanStoreItems, while the items p gives are marked as in trade
CanStoreItems(p) ==
    Cardinality(Carried(holder, p) \ Outgoing(p)) + Cardinality(Outgoing(Trader(p)))
        <= Capacity[p]

AcceptTradeNoSpace(p) ==
    /\ Both(p) /\ ~(CanStoreItems(p) /\ CanStoreItems(Trader(p)))
    /\ m_trade' = [m_trade EXCEPT ![p].accepted = FALSE, ![Trader(p)].accepted = FALSE]
    /\ UNCHANGED <<inWorld, holder, money>>

\* moveItems, one slot: both items change hands, or both go back if there is room
CanStoreItem(h, p, i) == i = None \/ Cardinality(Carried(h, p)) < Capacity[p]

GivenTo(h, p, i) == IF i = None THEN h ELSE [h EXCEPT ![i] = p]

GivenBack(h, p, i) == IF CanStoreItem(h, p, i) THEN GivenTo(h, p, i) ELSE h

Moved(h, p, mine, his) ==
    LET q == Trader(p)
    IN  IF CanStoreItem(h, q, mine) /\ CanStoreItem(h, p, his)
        THEN GivenTo(GivenTo(h, q, mine), p, his)
        ELSE GivenBack(GivenBack(h, p, mine), q, his)

\* all items are taken from both, then moved slot by slot
Traded(p) ==
    LET q == Trader(p)
        removed == [i \in Items |->
                       IF i \in Outgoing(p) \union Outgoing(q) THEN None ELSE holder[i]]
        after[s \in 0 .. NumTraded] ==
            IF s = 0 THEN removed ELSE Moved(after[s - 1], p, GetItem(p, s), GetItem(q, s))
    IN  after[NumTraded]

\* Player::ModifyMoney
Plus(m, d)  == IF m < MaxMoney - d THEN m + d ELSE MaxMoney
Minus(m, d) == IF m > d THEN m - d ELSE 0

AcceptTrade(p) ==
    LET q == Trader(p)
    IN  /\ Both(p) /\ CanStoreItems(p) /\ CanStoreItems(q)
        /\ holder' = Traded(p)
        /\ money' = [money EXCEPT
               ![p] = Plus(Minus(@, m_trade[p].money), m_trade[q].money),
               ![q] = Plus(Minus(@, m_trade[q].money), m_trade[p].money)]
        /\ m_trade' = Closed(p)
        /\ UNCHANGED inWorld
-----------------------------------------------------------------------------
(* What else players do. *)

\* an item is sold, mailed, listed, destroyed, ...
ItemLeaves(p, i) ==
    /\ holder[i] = p
    /\ holder' = [holder EXCEPT ![i] = None]
    /\ UNCHANGED <<inWorld, money, m_trade>>

\* ... and bought back or taken from a mail
ItemComes(p, i) ==
    /\ p \in inWorld /\ holder[i] = None /\ CanStoreItem(holder, p, i)
    /\ holder' = [holder EXCEPT ![i] = p]
    /\ UNCHANGED <<inWorld, money, m_trade>>

Spend(p) ==
    /\ p \in inWorld /\ money[p] > 0
    /\ money' = [money EXCEPT ![p] = @ - 1]
    /\ UNCHANGED <<inWorld, holder, m_trade>>

TradeNext ==
    \/ \E p \in Players :
          \/ TradeCancel(p) \/ RemoveFromWorld(p) \/ AddToWorld(p)
          \/ CastOnTradeSlot(p) \/ UnacceptTrade(p)
          \/ AcceptTradeRefused(p) \/ AcceptTradePoor(p) \/ AcceptTradeFirst(p)
          \/ AcceptTradeSpellFails(p) \/ AcceptTradeNoSpace(p) \/ AcceptTrade(p)
          \/ Spend(p)
          \/ \E q \in Players : InitiateTrade(p, q)
          \/ \E gold \in 0 .. MaxMoney : SetTradeGold(p, gold)
          \/ \E s \in Slots : ClearTradeItem(p, s)
          \/ \E i \in Items :
                ItemLeaves(p, i) \/ ItemComes(p, i) \/ \E s \in Slots : SetTradeItem(p, s, i)

TradeSpec == TradeInit /\ [][TradeNext]_tradeVars
-----------------------------------------------------------------------------
TradeTypeOK ==
    /\ inWorld \in SUBSET Players
    /\ holder \in [Items -> Players \union {None}] /\ money \in [Players -> 0 .. MaxMoney]
    /\ m_trade \in [Players -> TradeDatas \union {None}]

Paired ==
    \A p \in Players : Trading(p) =>
        /\ {p, Trader(p)} \subseteq inWorld /\ Trader(p) # p
        /\ Trading(Trader(p)) /\ Trader(Trader(p)) = p

OfferedOnce ==
    \A p \in Players : Trading(p) =>
        \A r, s \in Slots :
            r # s /\ m_trade[p].items[r] # None => m_trade[p].items[r] # m_trade[p].items[s]

WithinCapacity == \A p \in Players : Cardinality(Carried(holder, p)) <= Capacity[p]

(***************************************************************************)
(* Whoever trades has a partner in the world who trades with it and nobody *)
(* else, so that the pointers from one TradeData to the other player hold  *)
(* (Player::TradeCancel, ~Player); no item is offered in two slots; and a  *)
(* trade never fills a player's bags beyond their size.                    *)
(***************************************************************************)
TradeInv == TradeTypeOK /\ Paired /\ OfferedOnce /\ WithinCapacity

Offer(p) ==
    [items |-> {m_trade[p].items[s] : s \in TradedSlots} \ {None}, money |-> m_trade[p].money,
     other |-> <<m_trade[p].items[NonTraded], m_trade[p].spell>>]

Offers ==
    [items : SUBSET Items, money : 0 .. MaxMoney, other : (Items \union {None}) \X BOOLEAN]

Contracts == [partner : Players, mine : Offers, theirs : Offers]

\* None is neither the one nor the other
ASSUME NoneAssumption == None \notin TradeDatas \union Contracts

\* a standing acceptance is the agreement to both offers as they are
Ex == INSTANCE Exchange WITH agreed <-
        [p \in Players |->
            IF Trading(p) /\ m_trade[p].accepted
            THEN [partner |-> Trader(p), mine |-> Offer(p), theirs |-> Offer(Trader(p))]
            ELSE None]

(***************************************************************************)
(* Nobody gives or gets anything but by a swap both have agreed to: no     *)
(* offer changes under a standing acceptance, the items and the money of   *)
(* the two offers change hands together, and none is lost on the way.      *)
(***************************************************************************)
ExchangeSpec == Ex!Spec
=============================================================================
