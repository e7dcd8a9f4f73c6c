------------------------------ MODULE Exchange ------------------------------
(***************************************************************************)
(* What a trade window promises: items and money change hands only when    *)
(* one player agrees to exactly the offers the other one has agreed to,    *)
(* and then exactly these do.  An offered thing the offerer no longer has  *)
(* stays where it is.                                                      *)
(***************************************************************************)
EXTENDS Integers, FiniteSets

CONSTANTS Players, Items,
          MaxMoney,    \* the most money a player can have; what exceeds it is lost
          None

VARIABLES holder,   \* the player who has an item, or None
          money,
          agreed    \* the contract a player agrees to now, or None

vars == <<holder, money, agreed>>

\* a contract has a partner and two offers; an offer has items, money and other things
Init ==
    /\ holder \in [Items -> Players \union {None}] /\ money \in [Players -> 0 .. MaxMoney]
    /\ agreed = [p \in Players |-> None]

\* others may withdraw at the same moment
Agree(p) ==
    /\ agreed[p] = None /\ agreed'[p] # None
    /\ \A q \in Players \ {p} : agreed'[q] \in {agreed[q], None}
    /\ UNCHANGED <<holder, money>>

Withdraw(S) ==
    /\ agreed' = [p \in Players |-> IF p \in S THEN None ELSE agreed[p]]
    /\ UNCHANGED <<holder, money>>

\* one takes the place of the other in a contract, and only what each player has moves
Given(p, q, offer) == {i \in offer.items : holder[i] = p /\ p # q}

After(p, out, in) == IF money[p] - out + in > MaxMoney THEN MaxMoney ELSE money[p] - out + in

\* Given q's contract, p agrees and it is carried out.
Swap(p, q) ==
    /\ agreed[q] # None /\ agreed[q].partner = p
    /\ LET c == agreed[q]
       IN  /\ c.mine.money <= money[q] /\ c.theirs.money <= money[p]
           /\ holder' = [i \in Items |->
                 CASE i \in Given(q, p, c.mine)   -> p
                   [] i \in Given(p, q, c.theirs) -> q
                   [] OTHER -> holder[i]]
           /\ money' = [money EXCEPT ![p] = After(p, c.theirs.money, c.mine.money),
                                     ![q] = After(q, c.mine.money, c.theirs.money)]
    /\ agreed' = [agreed EXCEPT ![p] = None, ![q] = None]

\* a player's other business
Elsewhere(p) ==
    /\ \/ /\ \E i \in Items :
               \/ holder[i] = p /\ holder' = [holder EXCEPT ![i] = None]
               \/ holder[i] = None /\ holder' = [holder EXCEPT ![i] = p]
          /\ UNCHANGED money
       \/ /\ money'[p] \in 0 .. MaxMoney
          /\ money' = [money EXCEPT ![p] = money'[p]]
          /\ UNCHANGED holder
    /\ UNCHANGED agreed

Next ==
    \/ \E p \in Players : Agree(p) \/ Elsewhere(p)
    \/ \E S \in SUBSET Players : Withdraw(S)
    \/ \E p, q \in Players : Swap(p, q)

Spec == Init /\ [][Next]_vars
=============================================================================
