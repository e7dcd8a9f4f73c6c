-------------------------- MODULE MCAuctionHouse ---------------------------
(***************************************************************************)
(* An instance of AuctionHouse for TLC: either the writer sends mails to  *)
(* the reader, or the seller sells the item to one of them.  The money the *)
(* one needs does not suffice for the other.                               *)
(***************************************************************************)
EXTENDS AuctionHouse

CONSTANTS seller, reader, writer, sword

ThreePlayers == {seller, reader, writer}
OneItem == {sword}

HeldBy(owner) == [p \in ThreePlayers |-> IF p = owner THEN OneItem ELSE {}]
Purses(ofSeller, ofReader, ofWriter) ==
    [p \in ThreePlayers |->
        CASE p = seller -> ofSeller [] p = reader -> ofReader [] p = writer -> ofWriter]

Mailing  == [items |-> HeldBy(writer), money |-> Purses(0, 1, 4)]
Auctions == [items |-> HeldBy(seller), money |-> Purses(6, 3, 2)]
WriterToReader == {<<writer, reader>>}
MailOrAuctions == {Mailing, Auctions}
=============================================================================
