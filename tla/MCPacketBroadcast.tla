------------------------- MODULE MCPacketBroadcast -------------------------
(***************************************************************************)
(* An instance of PacketBroadcast for TLC: the first player sends two      *)
(* packets into a queue for one, the second sees it; one thread, two or    *)
(* none.                                                                   *)
(***************************************************************************)
EXTENDS PacketBroadcast

CONSTANTS p1, p2

TwoPlayers == {p1, p2}
Guids == [p \in TwoPlayers |-> IF p = p1 THEN 1 ELSE 2]
NoneToTwo == 0 .. 2
TwoAndNone == [p \in TwoPlayers |-> IF p = p1 THEN 2 ELSE 0]
ToAll == {<<TRUE, None>>}
=============================================================================
