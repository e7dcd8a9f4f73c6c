------------------------------ MODULE MCTrade -------------------------------
(***************************************************************************)
(* An instance of Trade for TLC: two players, each with one item and room  *)
(* for one, and a third with neither; one piece of money each is the most  *)
(* a player can have; the second knows a spell for the other's item.       *)
(***************************************************************************)
EXTENDS Trade

CONSTANTS alice, bob, carol, ring, cloak

ThreePlayers == {alice, bob, carol}
TwoItems == {ring, cloak}
OneEach == [x \in TwoItems |-> IF x = ring THEN alice ELSE bob]
RoomForOne == [p \in ThreePlayers |-> IF p = carol THEN 0 ELSE 1]
Purses == [p \in ThreePlayers |-> IF p = carol THEN 0 ELSE 1]
=============================================================================
