---------------------------- MODULE MCMapUpdate ----------------------------
(***************************************************************************)
(* An instance of MapUpdate for TLC: two parts of one continent and a      *)
(* dungeon; the first player is teleported again while it still is to be.  *)
(***************************************************************************)
EXTENDS MapUpdate

CONSTANTS north, south, continent, p1, p2

TwoPlayers == {p1, p2}
TwoParts == {north, south}
OneContinent == [k \in TwoParts |-> continent]
TwiceAndOnce == [p \in TwoPlayers |-> IF p = p1 THEN 2 ELSE 1]
=============================================================================
