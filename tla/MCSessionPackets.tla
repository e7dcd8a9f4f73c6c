-------------------------- MODULE MCSessionPackets --------------------------
(***************************************************************************)
(* An instance of SessionPackets for TLC: two sessions, of which the first *)
(* receives packets of three kinds and may leave.                          *)
(***************************************************************************)
EXTENDS SessionPackets, TLC

CONSTANTS s1, s2, attack, name, chat, query, bid

TwoSessions == {s1, s2}
KindOf ==
    (attack :> "MAP") @@ (name :> "MAP") @@ (chat :> "DB_QUERY") @@ (query :> "DB_QUERY") @@
    (bid :> "WORLD")
TrafficOfFirst ==
    [s \in TwoSessions |->
        IF s = s1 THEN {<<query, query, chat>>, <<attack, attack>>, <<name, name>>, <<bid>>}
        ELSE {<<>>}]
=============================================================================
