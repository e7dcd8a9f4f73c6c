-------------------------------- MODULE Mail --------------------------------
(***************************************************************************)
(* Mailboxes (Mail/Mail.cpp, Handlers/MailHandler.cpp, MasterPlayer, the   *)
(* return of old mails in ObjectMgr.cpp).  A mail is a row of the          *)
(* database; a player who is online also has it in memory, loaded at login *)
(* or added when it was sent, and every handler that changes it there      *)
(* saves it.  The variables db... are the database as it will be when      *)
(* everything issued so far is executed, in the order of issue; queries    *)
(* are answered later, so that their results may be stale.  A handler      *)
(* issues up to three transactions; if the process ends, any of those of   *)
(* the handler at work may be executed, and others not.                    *)
(***************************************************************************)
EXTENDS Integers, Sequences, FiniteSets, Holdings

CONSTANTS Postage,
          MailPrice,     \* bound: the most a player sends or asks, below the client's limit
          Starts,        \* the items and the money that players may start with
          MaxMails,      \* bound: mails ever sent
          MayWrite,      \* bound: pairs of players, who writes mails to whom
          MayLogout,     \* bound: players who log out, and in again
          MaxStops       \* bound: how often the process ends within a handler

ASSUME MailAssumption ==
    /\ Postage \in Nat /\ MailPrice \in Nat /\ MaxMails \in Nat
    /\ None \notin Players \union Items
    /\ \A start \in Starts :
          start.items \in [Players -> SUBSET Items] /\ start.money \in [Players -> Nat]
    /\ \A start \in Starts : \A p, q \in Players :
          p # q => start.items[p] \intersect start.items[q] = {}
    /\ MayWrite \subseteq Players \X Players /\ MayLogout \subseteq Players
    /\ MaxStops \in Nat

VARIABLES
    state,       \* of a player: "offline", "loading" (query issued) or "online"
    purse, bag,  \* in memory
    box,         \* MasterPlayer::m_mail: mails by id
    loginHolder, \* what the query of a login has read, or None
    request,     \* of a sender: AsyncMailSendRequest, or None
    returner,    \* OldMailsReturner and SingleMailReturner of one mail, or None
    dbPurse, dbBag, dbMail,
    crossed,     \* mails returned or deleted while a login had them, or without their item
    exposed,     \* the items of crossed mails and of handlers the process ended in
    stops        \* how often it did

memVars  == <<state, purse, bag, box, loginHolder>>
dbVars   == <<dbPurse, dbBag, dbMail>>
history  == <<crossed, exposed, stops>>
mailVars == <<memVars, request, returner, dbVars, history>>

Empty == << >>

MailInit ==
    /\ state = [p \in Players |-> "online"]
    /\ \E start \in Starts :
          /\ purse = start.money /\ bag = start.items
          /\ dbPurse = start.money /\ dbBag = start.items
    /\ box = [p \in Players |-> Empty] /\ dbMail = Empty
    /\ loginHolder = [p \in Players |-> None] /\ request = [p \in Players |-> None]
    /\ returner = None
    /\ crossed = {} /\ exposed = {} /\ stops = 0
-----------------------------------------------------------------------------
(* MailDraft::SendMailTo, for several mails: rows for the database, and a  *)
(* mail in memory for a receiver who is online.                            *)

Fits(rows) == Len(dbMail) + Len(rows) <= MaxMails

\* Mail::state: "unchanged", "changed" or "deleted"
InMemory(row) == [mail |-> row, state |-> "unchanged"]

Received(boxes, rows) ==
    LET n == Len(dbMail)
        new(p) == {n + k : k \in {x \in DOMAIN rows : rows[x].to = p}}
    IN  [p \in Players |->
            IF state[p] # "online" THEN boxes[p]
            ELSE [id \in DOMAIN boxes[p] \union new(p) |->
                     IF id > n THEN InMemory(rows[id - n]) ELSE boxes[p][id]]]

SendMails(rows) ==
    /\ Fits(rows)
    /\ box' = Received(box, rows) /\ dbMail' = dbMail \o rows

\* MasterPlayer::SaveMails: what has changed in memory is written, as it is there
SavedMail(b, id) ==
    IF b[id].state = "unchanged" THEN dbMail[id]
    ELSE IF b[id].state = "deleted" \/ dbMail[id] = Gone THEN Gone
    ELSE [dbMail[id] EXCEPT !.money = b[id].mail.money, !.cod = b[id].mail.cod,
                            !.item = IF b[id].mail.item = None THEN None ELSE @]

SavedMails(b) ==
    [id \in DOMAIN dbMail |-> IF id \in DOMAIN b THEN SavedMail(b, id) ELSE dbMail[id]]

\* Player::SaveInventoryAndGoldToDB, at the end of a handler
SaveInventoryAndGold(p) ==
    /\ dbPurse' = [dbPurse EXCEPT ![p] = purse'[p]]
    /\ dbBag' = [dbBag EXCEPT ![p] = bag'[p]]

\* the mails in memory after SaveMails
Kept(b) == [id \in {x \in DOMAIN b : b[x].state # "deleted"} |-> InMemory(b[id].mail)]
-----------------------------------------------------------------------------
(* Login and logout. *)

RowsOf(p) == {id \in DOMAIN dbMail : dbMail[id].to = p}

Snapshot(p) ==
    [purse |-> dbPurse[p], bag |-> dbBag[p], mails |-> [id \in RowsOf(p) |-> dbMail[id]]]

\* HandlePlayerLoginOpcode: the query
RequestLogin(p) ==
    /\ p \in MayLogout /\ state[p] = "offline"
    /\ state' = [state EXCEPT ![p] = "loading"]
    /\ loginHolder' = [loginHolder EXCEPT ![p] = Snapshot(p)]
    /\ UNCHANGED <<purse, bag, box, request, returner, dbVars, history>>

\* HandlePlayerLogin: LoadFromDB, LoadMails, LoadMailedItems
LoginCallback(p) ==
    /\ state[p] = "loading"
    /\ state' = [state EXCEPT ![p] = "online"]
    /\ purse' = [purse EXCEPT ![p] = loginHolder[p].purse]
    /\ bag' = [bag EXCEPT ![p] = loginHolder[p].bag]
    /\ box' = [box EXCEPT ![p] =
                  [id \in DOMAIN loginHolder[p].mails |-> InMemory(loginHolder[p].mails[id])]]
    /\ loginHolder' = [loginHolder EXCEPT ![p] = None]
    /\ UNCHANGED <<request, returner, dbVars, history>>

\* LogoutPlayer: SaveToDB of the Player and of the MasterPlayer
Logout(p) ==
    /\ p \in MayLogout /\ state[p] = "online"
    /\ dbPurse' = [dbPurse EXCEPT ![p] = purse[p]]
    /\ dbBag' = [dbBag EXCEPT ![p] = bag[p]]
    /\ dbMail' = SavedMails(box[p])
    /\ state' = [state EXCEPT ![p] = "offline"]
    /\ purse' = [purse EXCEPT ![p] = 0] /\ bag' = [bag EXCEPT ![p] = {}]
    /\ box' = [box EXCEPT ![p] = Empty]
    /\ UNCHANGED <<loginHolder, request, returner, history>>

\* the process ends without logging anybody out
MemoryLost ==
    /\ state' = [p \in Players |-> "offline"]
    /\ purse' = [p \in Players |-> 0] /\ bag' = [p \in Players |-> {}]
    /\ box' = [p \in Players |-> Empty] /\ loginHolder' = [p \in Players |-> None]
    /\ request' = [p \in Players |-> None] /\ returner' = None

\* between two handlers, the database has executed all it was given
MailCrash == MemoryLost /\ UNCHANGED <<dbVars, history>>

\* within a handler that moves these items
Ends(items) ==
    /\ stops < MaxStops /\ stops' = stops + 1
    /\ exposed' = exposed \union (items \ {None})
    /\ MemoryLost /\ UNCHANGED crossed

\* the mails of a handler of which some are inserted
Inserted(rows, done) == dbMail \o [k \in DOMAIN rows |-> IF k \in done THEN rows[k] ELSE Gone]
-----------------------------------------------------------------------------
(* Writing a mail: the handler asks the database how full the receiver's   *)
(* box is (or knows it, which is the callback at once), the callback sends *)
(* the mail if the sender is still there and still has what it sends.      *)

HandleSendMail(p, q, i, money, cod) ==
    /\ <<p, q>> \in MayWrite /\ state[p] = "online" /\ request[p] = None /\ p # q
    /\ Fits(<<Gone>>)
    /\ request' = [request EXCEPT ![p] = [to |-> q, item |-> i, money |-> money, cod |-> cod]]
    /\ UNCHANGED <<memVars, returner, dbVars, history>>

\* box full, the other faction, too many mails, no money, no item, ...
SendMailRefused(p) ==
    /\ request[p] # None
    /\ request' = [request EXCEPT ![p] = None]
    /\ UNCHANGED <<memVars, returner, dbVars, history>>

Taken(r) == {r.item} \ {None}
Charge(r) == r.money + Postage

MaySend(p) ==
    /\ request[p] # None /\ state[p] = "online"
    /\ purse[p] >= Charge(request[p]) /\ Taken(request[p]) \subseteq bag[p]

Letter(p, r) == Row("normal", p, r.to, r.item, r.money, IF r.item = None THEN 0 ELSE r.cod)

\* Mutant: the sender is saved only with his next save.
HandleSendMailCallbackUnsaved(p) ==
    /\ MaySend(p)
    /\ LET r == request[p]
       IN  /\ purse' = [purse EXCEPT ![p] = @ - Charge(r)]
           /\ bag' = [bag EXCEPT ![p] = @ \ Taken(r)]
           /\ SendMails(<<Letter(p, r)>>)
    /\ UNCHANGED <<dbPurse, dbBag>>
    /\ request' = [request EXCEPT ![p] = None]
    /\ UNCHANGED <<state, loginHolder, returner, history>>

HandleSendMailCallback(p) ==
    /\ MaySend(p)
    /\ LET r == request[p]
       IN  /\ purse' = [purse EXCEPT ![p] = @ - Charge(r)]
           /\ bag' = [bag EXCEPT ![p] = @ \ Taken(r)]
           /\ SendMails(<<Letter(p, r)>>)
    /\ SaveInventoryAndGold(p)
    /\ request' = [request EXCEPT ![p] = None]
    /\ UNCHANGED <<state, loginHolder, returner, history>>

\* three transactions: the item leaves the inventory, the mail is inserted, the inventory
\* and the money are saved; the first and the last are executed in this order
SendingStops(p, done) ==
    /\ MaySend(p) /\ ("save" \in done => "item" \in done)
    /\ LET r == request[p]
           sent == <<Letter(p, r)>>
       IN  /\ Fits(sent) /\ Ends({r.item})
           /\ dbMail' = Inserted(sent, IF "mail" \in done THEN {1} ELSE {})
           /\ dbPurse' = [dbPurse EXCEPT ![p] = IF "save" \in done THEN purse[p] - Charge(r)
                                                ELSE @]
           /\ dbBag' = [dbBag EXCEPT ![p] = IF "save" \in done THEN bag[p] \ Taken(r)
                                            ELSE IF "item" \in done THEN @ \ Taken(r) ELSE @]
-----------------------------------------------------------------------------
(* Reading mails: mails in memory that are not marked deleted.             *)

Open(p, id) == state[p] = "online" /\ id \in DOMAIN box[p] /\ box[p][id].state # "deleted"

HandleMailMarkAsRead(p, id) ==
    /\ Open(p, id)
    /\ box' = [box EXCEPT ![p][id].state = "changed"]
    /\ UNCHANGED <<state, purse, bag, loginHolder, request, returner, dbVars, history>>

\* what is left of the mail, the money and the mails are saved in one transaction
HandleMailTakeMoney(p, id) ==
    /\ Open(p, id) /\ box[p][id].mail.money > 0
    /\ LET b == [box[p] EXCEPT ![id].mail.money = 0, ![id].state = "changed"]
       IN  box' = [box EXCEPT ![p] = Kept(b)] /\ dbMail' = SavedMails(b)
    /\ purse' = [purse EXCEPT ![p] = @ + box[p][id].mail.money]
    /\ UNCHANGED bag /\ SaveInventoryAndGold(p)
    /\ UNCHANGED <<state, loginHolder, request, returner, history>>

Payment(m) == IF m.cod = 0 THEN <<>> ELSE <<Row("codPayment", m.to, m.from, None, m.cod, 0)>>

WithoutItem(b, id) ==
    [b EXCEPT ![id].mail.item = None, ![id].mail.cod = 0, ![id].state = "changed"]

\* an item for which there is room; what is asked for it goes to the sender
HandleMailTakeItem(p, id) ==
    /\ Open(p, id)
    /\ LET m == box[p][id].mail
           b == WithoutItem(box[p], id)
       IN  /\ m.item # None /\ purse[p] >= m.cod
           /\ Fits(Payment(m))
           /\ purse' = [purse EXCEPT ![p] = @ - m.cod]
           /\ bag' = [bag EXCEPT ![p] = @ \union {m.item}]
           /\ box' = [Received(box, Payment(m)) EXCEPT ![p] = Kept(b)]
           /\ dbMail' = SavedMails(b) \o Payment(m)
    /\ SaveInventoryAndGold(p)
    /\ UNCHANGED <<state, loginHolder, request, returner, history>>

\* two transactions: the payment is sent; the inventory, the money and the mails are saved
TakingStops(p, id, done) ==
    /\ Open(p, id)
    /\ LET m == box[p][id].mail
       IN  /\ m.item # None /\ purse[p] >= m.cod /\ m.cod > 0
           /\ Fits(Payment(m)) /\ Ends({})
           /\ dbMail' = IF "save" \in done THEN SavedMails(WithoutItem(box[p], id)) \o <<Gone>>
                        ELSE dbMail \o Payment(m)
           /\ dbPurse' = [dbPurse EXCEPT ![p] = IF "save" \in done THEN purse[p] - m.cod ELSE @]
           /\ dbBag' = [dbBag EXCEPT ![p] = IF "save" \in done THEN bag[p] \union {m.item} ELSE @]

\* marked only, until the mails are saved
HandleMailDelete(p, id) ==
    /\ Open(p, id) /\ box[p][id].mail.cod = 0
    /\ box' = [box EXCEPT ![p][id].state = "deleted"]
    /\ UNCHANGED <<state, purse, bag, loginHolder, request, returner, dbVars, history>>

\* a mail that did not come from a player is dropped with what it holds
ReturnedBy(m) ==
    IF m.kind = "auction" THEN <<>>
    ELSE <<Row("returned", m.to, m.from, m.item, m.money, 0)>>

HandleMailReturnToSender(p, id) ==
    /\ Open(p, id)
    /\ LET m == box[p][id].mail
       IN  /\ Fits(ReturnedBy(m))
           /\ box' = [Received(box, ReturnedBy(m)) EXCEPT
                         ![p] = [x \in DOMAIN @ \ {id} |-> @[x]]]
           /\ dbMail' = [dbMail EXCEPT ![id] = Gone] \o ReturnedBy(m)
    /\ UNCHANGED <<state, purse, bag, loginHolder, request, returner, dbPurse, dbBag, history>>

\* two transactions: the old mail is deleted, the new one inserted
ReturnStops(p, id, done) ==
    /\ Open(p, id)
    /\ LET m == box[p][id].mail
       IN  /\ m.kind # "auction" /\ Fits(ReturnedBy(m)) /\ Ends({m.item})
           /\ dbMail' = IF "old" \in done THEN [dbMail EXCEPT ![id] = Gone] \o <<Gone>>
                        ELSE dbMail \o ReturnedBy(m)
    /\ UNCHANGED <<dbPurse, dbBag>>
-----------------------------------------------------------------------------
(* ReturnOrDeleteOldMails: a query for mails that have expired, for one of *)
(* them that holds an item another for the item, and the update.  Each     *)
(* answer is used unless the receiver is in the server then; a receiver    *)
(* whose login has been queried, but not answered, is not.                 *)

FindOldMail(id) ==
    /\ returner = None /\ dbMail[id] # Gone
    /\ returner' = [id |-> id, row |-> dbMail[id], step |-> "mail", item |-> None]
    /\ UNCHANGED <<memVars, request, dbVars, history>>

Busy == returner # None
Skips == state[returner.row.to] = "online"
LoginHasIt == state[returner.row.to] = "loading"

\* OldMailsReturner::Callback, which deletes a mail without an item
OldMailsCallback ==
    /\ Busy /\ returner.step = "mail"
    /\ \/ /\ Skips /\ returner' = None /\ UNCHANGED <<dbMail, crossed>>
       \/ /\ ~Skips /\ returner.row.item = None
          /\ returner' = None /\ dbMail' = [dbMail EXCEPT ![returner.id] = Gone]
          /\ crossed' = IF LoginHasIt THEN crossed \union {returner.id} ELSE crossed
       \/ /\ ~Skips /\ returner.row.item # None
          /\ returner' = [returner EXCEPT !.step = "item", !.item = dbMail[returner.id].item]
          /\ UNCHANGED <<dbMail, crossed>>
    /\ UNCHANGED <<memVars, request, dbPurse, dbBag, exposed, stops>>

\* only a player's mail that has not been returned before goes back
GoesBack(row) == row.kind = "normal"

SentBack(row) ==
    IF row = Gone THEN Gone
    ELSE [row EXCEPT !.kind = "returned", !.from = returner.row.to, !.to = returner.row.from,
                     !.cod = 0]

ItemGone(row) == IF row.item \in {returner.item} \ {None} THEN [row EXCEPT !.item = None] ELSE row

\* the item that the second query has found is in a bag or another mail by now
Strayed ==
    /\ ~GoesBack(returner.row) /\ returner.item # None
    /\ \/ \E p \in Players : returner.item \in dbBag[p]
       \/ \E id \in DOMAIN dbMail \ {returner.id} : dbMail[id].item = returner.item

\* SingleMailReturner::Callback: the mail goes back, or it is deleted, and the item wherever
\* it is by now
SingleMailCallback ==
    /\ Busy /\ returner.step = "item"
    /\ returner' = None
    /\ \/ Skips /\ UNCHANGED <<dbMail, dbBag, crossed, exposed>>
       \/ /\ ~Skips
          /\ \/ /\ GoesBack(returner.row) /\ UNCHANGED dbBag
                /\ dbMail' = [dbMail EXCEPT ![returner.id] = SentBack(@)]
             \/ /\ ~GoesBack(returner.row)
                /\ dbBag' = [p \in Players |-> dbBag[p] \ {returner.item}]
                /\ dbMail' = [id \in DOMAIN dbMail |-> IF id = returner.id THEN Gone
                                                       ELSE ItemGone(dbMail[id])]
          /\ crossed' = crossed \union
                {id \in DOMAIN dbMail : IF id = returner.id THEN LoginHasIt \/ Strayed
                                        ELSE dbMail'[id] # dbMail[id]}
          /\ exposed' = IF LoginHasIt \/ Strayed
                        THEN exposed \union ({returner.item, dbMail[returner.id].item} \ {None})
                        ELSE exposed
    /\ UNCHANGED <<memVars, request, dbPurse, stops>>

\* the process ends in a handler of p
PlayerStops(p) ==
    \/ \E done \in {{"item"}, {"mail"}, {"item", "mail"}, {"item", "save"}} :
          SendingStops(p, done)
    \/ \E id \in DOMAIN box[p] :
          \/ \E done \in {{"payment"}, {"save"}} : TakingStops(p, id, done)
          \/ \E done \in {{"old"}, {"new"}} : ReturnStops(p, id, done)

MailNext ==
    \/ \E p \in Players :
          \/ RequestLogin(p) \/ LoginCallback(p) \/ Logout(p)
          \/ SendMailRefused(p) \/ HandleSendMailCallback(p)
          \/ \E id \in DOMAIN box[p] :
                \/ HandleMailMarkAsRead(p, id) \/ HandleMailTakeMoney(p, id)
                \/ HandleMailTakeItem(p, id)
                \/ HandleMailDelete(p, id) \/ HandleMailReturnToSender(p, id)
          \/ \E q \in Players, i \in Items \union {None}, money, cod \in 0 .. MailPrice :
                HandleSendMail(p, q, i, money, cod)
    \/ \E id \in DOMAIN dbMail : FindOldMail(id)
    \/ OldMailsCallback \/ SingleMailCallback
-----------------------------------------------------------------------------
Kinds == {"normal", "returned", "codPayment", "auction"}

Rows ==
    [kind : Kinds, from : Players \union {None}, to : Players, item : Items \union {None},
     money : Nat, cod : 0 .. MailPrice] \union {Gone}

\* what the query of a login reads
Snapshots ==
    [purse : Nat, bag : SUBSET Items,
     mails : UNION {[ids -> Rows] : ids \in SUBSET (1 .. MaxMails)}]

ASSUME SnapshotAssumption == None \notin Snapshots

MailTypeOK ==
    /\ state \in [Players -> {"offline", "loading", "online"}]
    /\ purse \in [Players -> Nat] /\ dbPurse \in [Players -> Nat]
    /\ bag \in [Players -> SUBSET Items] /\ dbBag \in [Players -> SUBSET Items]
    /\ Len(dbMail) <= MaxMails /\ \A id \in DOMAIN dbMail : dbMail[id] \in Rows
    /\ \A p \in Players : \A id \in DOMAIN box[p] :
          box[p][id].mail \in Rows /\ box[p][id].state \in {"unchanged", "changed", "deleted"}
    /\ \A p \in Players : loginHolder[p] # None <=> state[p] = "loading"
    /\ crossed \subseteq DOMAIN dbMail /\ exposed \subseteq Items /\ stops \in 0 .. MaxStops

\* items but for the exposed ones
Same(bag1, bag2) == bag1 \ exposed = bag2 \ exposed

\* the mails p has read are his, and as the database has them, but for the crossed ones
AreCurrent(p, mails) ==
    \A id \in DOMAIN mails \ crossed : mails[id] = dbMail[id] /\ dbMail[id].to = p

\* what a player has in memory is what the database has
MemoryIsSaved ==
    \A p \in Players : state[p] = "online" =>
        /\ purse[p] = dbPurse[p] /\ Same(bag[p], dbBag[p])
        /\ AreCurrent(p, [id \in DOMAIN box[p] |-> box[p][id].mail])

\* and what a player who logs in is about to have
LoginIsCurrent ==
    \A p \in Players : state[p] = "loading" =>
        /\ loginHolder[p].purse = dbPurse[p] /\ Same(loginHolder[p].bag, dbBag[p])
        /\ AreCurrent(p, loginHolder[p].mails)
=============================================================================
