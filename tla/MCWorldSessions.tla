-------------------------- MODULE MCWorldSessions --------------------------
(***************************************************************************)
(* Instances of WorldSessions for TLC: attributes of a few sessions.       *)
(***************************************************************************)
EXTENDS WorldSessions

(* Relogins: sessions of one account, which has two characters.             *)
OneAccount == [s \in Sessions |-> 1]
OneOwner == [c \in Characters |-> 1]

(* The queue: a session per account. *)
OwnAccount == [s \in Sessions |-> s]
OwnCharacter == [c \in Characters |-> c]

(* Sessions 1 and 4 are of one account. *)
ThreeAccounts == [s \in Sessions |-> IF s = 4 THEN 1 ELSE s]

(* Sessions 1 and 3 are of one account. *)
TwoAccounts == [s \in Sessions |-> IF s = 2 THEN 2 ELSE 1]

OneRegion == [s \in Sessions |-> 0]
TwoRegions == [s \in Sessions |-> IF s = 4 THEN 1 ELSE 0]
SameAddress == [s \in Sessions |-> "ip"]
TwoAddresses == [s \in Sessions |-> IF s = 3 THEN "own" ELSE "ip"]
Flat == [s \in Sessions |-> 0]
Raised == [s \in Sessions |-> IF s \in {2, 3} THEN 1 ELSE 0]
Full == [r \in Regions |-> HardLimit]
Shares == [r \in Regions |-> IF r = 0 THEN HardLimit ELSE 1]
=============================================================================
