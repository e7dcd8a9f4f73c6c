--------------------------- MODULE MCSocketOutput ---------------------------
(* An instance of SocketOutput for TLC: packets of one, two and three units; *)
(* the first one fills the buffer, so that all the others may have to wait.  *)
EXTENDS SocketOutput

CONSTANTS challenge, small, medium, large

MCPackets == {challenge, small, medium, large}
MCSize == [p \in Packets |-> IF p \in {challenge, large} THEN 3
                             ELSE IF p = medium THEN 2 ELSE 1]
=============================================================================
