------------------------ MODULE WorldSessionsProofs ------------------------
(***************************************************************************)
(* Proofs about WorldSessions for any sessions, accounts and characters.   *)
(***************************************************************************)
EXTENDS WorldSessions, FiniteSetTheorems, SequenceTheorems, TLAPS

(* The record of the server has its fields, with the values that matter     *)
(* here.                                                                    *)
Shape(sv) ==
  /\ sv = [session |-> sv.session, character |-> sv.character, sessions |-> sv.sessions,
           disconnected |-> sv.disconnected, queue |-> sv.queue,
           playerLimit |-> sv.playerLimit, logged |-> sv.logged,
           connections |-> sv.connections, lastLogout |-> sv.lastLogout]
  /\ sv.session \in [Sessions -> SessionState]
  /\ sv.character \in [Characters -> [session : Sessions \cup {None}, inWorld : BOOLEAN]]
  /\ sv.sessions \in [Accounts -> Sessions \cup {None}]
  /\ sv.disconnected \subseteq Sessions

(* Players and their sessions point to each other. *)
Playing(sv) ==
  /\ \A c \in Characters :
       LET s == sv.character[c].session
       IN  /\ s # None => /\ sv.session[s].status = "added" /\ sv.session[s].player = c
                          /\ AccountOf[s] = OwnerOf[c]
           /\ sv.character[c].inWorld => s # None
  /\ \A s \in Sessions :
       LET c == sv.session[s].player
       IN  c # None => /\ sv.session[s].status = "added" /\ sv.character[c].session = s
                       /\ ~sv.session[s].loading

(* A session is in m_sessions under its account or with the disconnected    *)
(* ones; only the former load.                                              *)
Placed(sv) ==
  /\ \A a \in Accounts :
       LET s == sv.sessions[a]
       IN  s # None => AccountOf[s] = a /\ sv.session[s].status = "added"
  /\ \A s \in sv.disconnected :
       sv.session[s].status = "added" /\ sv.sessions[AccountOf[s]] # s
  /\ \A s \in Sessions :
       sv.session[s].loading => sv.session[s].status = "added" /\ sv.sessions[AccountOf[s]] = s

Control(sv) == Shape(sv) /\ Playing(sv) /\ Placed(sv)

(* The queries under way, the new sessions, and the loops of a tick. *)
HoldersInv ==
  /\ holders \in Seq([account : Accounts, char : Characters])
  /\ \A i \in DOMAIN holders : holders[i].account = OwnerOf[holders[i].char]
  /\ \A s \in Sessions : server.session[s].loading =>
       \E i \in DOMAIN holders : holders[i].account = AccountOf[s]

ArrivingInv ==
  /\ addSessQueue \in Seq(Sessions)
  /\ \A i \in DOMAIN addSessQueue : server.session[addSessQueue[i]].status = "waiting"
  /\ \A i, j \in DOMAIN addSessQueue : i # j => addSessQueue[i] # addSessQueue[j]

LoopInv ==
  /\ todo \subseteq Sessions
  /\ pc = "update" => \A s \in todo : server.sessions[AccountOf[s]] = s
  /\ pc = "disconnected" => todo \subseteq server.disconnected

IInv == Control(server) /\ HoldersInv /\ ArrivingInv /\ LoopInv

-----------------------------------------------------------------------------
(* Most functions of World leave the players, the session map and the       *)

(* disconnected sessions alone.                                             *)
SameControl(sv, sw) ==
  /\ Shape(sw)
  /\ sw.character = sv.character /\ sw.sessions = sv.sessions
  /\ sw.disconnected = sv.disconnected
  /\ \A s \in Sessions : /\ sw.session[s].status = sv.session[s].status
                         /\ sw.session[s].loading = sv.session[s].loading
                         /\ sw.session[s].player = sv.session[s].player

LEMMA SameReflexive ==
  ASSUME NEW sv, Shape(sv) PROVE SameControl(sv, sv)
BY DEF SameControl

LEMMA SameTransitive ==
  ASSUME NEW su, NEW sv, NEW sw, SameControl(su, sv), SameControl(sv, sw)
  PROVE  SameControl(su, sw)
BY DEF SameControl

LEMMA SameKeepsControl ==
  ASSUME NEW sv, NEW sw, Control(sv), SameControl(sv, sw)
  PROVE  Control(sw)
<1>1. Shape(sw) /\ Shape(sv)
  BY DEF Control, SameControl
<1>2. \A c \in Characters : sv.character[c].session \in Sessions \cup {None}
  BY <1>1 DEF Shape
<1>3. Playing(sw)
  BY <1>1, <1>2 DEF Control, SameControl, Playing
<1>4. \A a \in Accounts : sv.sessions[a] \in Sessions \cup {None}
  BY <1>1 DEF Shape
<1>5. Placed(sw)
  BY <1>1, <1>4 DEF Control, SameControl, Placed, Shape
<1> QED BY <1>1, <1>3, <1>5 DEF Control

(* Updates of a session that leave its status, player and loading.          *)
LEMMA SameSessions ==
  ASSUME NEW sv, Shape(sv), NEW f \in [Sessions -> SessionState],
         \A s \in Sessions : /\ f[s].status = sv.session[s].status
                             /\ f[s].loading = sv.session[s].loading
                             /\ f[s].player = sv.session[s].player
  PROVE  SameControl(sv, [sv EXCEPT !.session = f])
BY DEF SameControl, Shape

LEMMA SameOthers ==
  ASSUME NEW su, NEW sv, SameControl(su, sv), NEW x
  PROVE  /\ SameControl(su, [sv EXCEPT !.queue = x])
         /\ SameControl(su, [sv EXCEPT !.playerLimit = x])
         /\ SameControl(su, [sv EXCEPT !.logged = x])
         /\ SameControl(su, [sv EXCEPT !.connections = x])
         /\ SameControl(su, [sv EXCEPT !.lastLogout = x])
BY DEF SameControl, Shape

LEMMA OnPassedQueueSame ==
  ASSUME NEW sv, Shape(sv), NEW S, NEW r
  PROVE  SameControl(sv, OnPassedQueue(sv, S, r))
<1> DEFINE f == [s \in Sessions |->
                   IF s \in S THEN [sv.session[s] EXCEPT !.inQueue = FALSE, !.passedQueue = TRUE]
                   ELSE sv.session[s]]
           g == [sv.logged EXCEPT ![r] = @ + Cardinality(S)]
<1>1. OnPassedQueue(sv, S, r) = [[sv EXCEPT !.session = f] EXCEPT !.logged = g]
  BY DEF OnPassedQueue, Shape
<1>2. ASSUME NEW s \in Sessions
      PROVE  /\ f[s] \in SessionState
             /\ f[s].status = sv.session[s].status
             /\ f[s].loading = sv.session[s].loading
             /\ f[s].player = sv.session[s].player
  <2>1. sv.session[s] \in SessionState
    BY DEF Shape
  <2> QED BY <2>1 DEF SessionState
<1>3. f \in [Sessions -> SessionState]
  BY <1>2
<1> HIDE DEF f, g
<1>4. SameControl(sv, [sv EXCEPT !.session = f])
  BY <1>2, <1>3, SameSessions
<1>5. PICK sw : sw = [sv EXCEPT !.session = f]
  OBVIOUS
<1>6. SameControl(sv, [sw EXCEPT !.logged = g])
  BY <1>4, <1>5, SameOthers
<1> QED BY <1>1, <1>5, <1>6

LEMMA PopFrontSame ==
  ASSUME NEW sv, Shape(sv), NEW q
  PROVE  SameControl(sv, PopFront(sv, q))
<1>1. PICK sw : sw = [sv EXCEPT !.queue[q] = Tail(@)]
  OBVIOUS
<1>2. SameControl(sv, sw)
  <2>1. sw = [sv EXCEPT !.queue = [sv.queue EXCEPT ![q] = Tail(sv.queue[q])]]
    BY <1>1
  <2> QED BY <2>1, SameReflexive, SameOthers
<1>3. PICK S, z : S = {Head(sv.queue[q]).sess} /\ z = RegionOf[Head(sv.queue[q]).sess]
  OBVIOUS
<1>4. SameControl(sw, OnPassedQueue(sw, S, z))
  BY <1>2, OnPassedQueueSame DEF SameControl
<1> QED BY <1>1, <1>2, <1>3, <1>4, SameTransitive DEF PopFront

(* A field of one session that does not matter here. *)
LEMMA SameSession ==
  ASSUME NEW su, NEW sv, SameControl(su, sv), NEW s \in Sessions, NEW x \in SessionState,
         x.status = sv.session[s].status, x.loading = sv.session[s].loading,
         x.player = sv.session[s].player
  PROVE  SameControl(su, [sv EXCEPT !.session[s] = x])
BY DEF SameControl, Shape

LEMMA SessionFields ==
  ASSUME NEW sv, Shape(sv), NEW s \in Sessions, NEW sw,
         \/ \E x \in {"open", "closed", "null"} : sw = [sv EXCEPT !.session[s].socket = x]
         \/ \E x \in BOOLEAN : sw = [sv EXCEPT !.session[s].inQueue = x]
         \/ sw = [sv EXCEPT !.session[s].hadQueue = TRUE]
  PROVE  SameControl(sv, sw)
<1>1. sv.session[s] \in SessionState /\ SameControl(sv, sv)
  BY SameReflexive DEF Shape
<1>2. PICK y \in SessionState :
        /\ y.status = sv.session[s].status /\ y.loading = sv.session[s].loading
        /\ y.player = sv.session[s].player
        /\ sw = [sv EXCEPT !.session[s] = y]
  <2>1. CASE \E x \in {"open", "closed", "null"} : sw = [sv EXCEPT !.session[s].socket = x]
    <3>1. PICK x \in {"open", "closed", "null"} : sw = [sv EXCEPT !.session[s].socket = x]
      BY <2>1
    <3>2. PICK y : y = [sv.session[s] EXCEPT !.socket = x]
      OBVIOUS
    <3>3. y \in SessionState /\ y.status = sv.session[s].status
          /\ y.loading = sv.session[s].loading /\ y.player = sv.session[s].player
      BY <1>1, <3>2 DEF SessionState
    <3> QED BY <3>1, <3>2, <3>3 DEF Shape
  <2>2. CASE \E x \in BOOLEAN : sw = [sv EXCEPT !.session[s].inQueue = x]
    <3>1. PICK x \in BOOLEAN : sw = [sv EXCEPT !.session[s].inQueue = x]
      BY <2>2
    <3>2. PICK y : y = [sv.session[s] EXCEPT !.inQueue = x]
      OBVIOUS
    <3>3. y \in SessionState /\ y.status = sv.session[s].status
          /\ y.loading = sv.session[s].loading /\ y.player = sv.session[s].player
      BY <1>1, <3>2 DEF SessionState
    <3> QED BY <3>1, <3>2, <3>3 DEF Shape
  <2>3. CASE sw = [sv EXCEPT !.session[s].hadQueue = TRUE]
    <3>2. PICK y : y = [sv.session[s] EXCEPT !.hadQueue = TRUE]
      OBVIOUS
    <3>3. y \in SessionState /\ y.status = sv.session[s].status
          /\ y.loading = sv.session[s].loading /\ y.player = sv.session[s].player
      BY <1>1, <3>2 DEF SessionState
    <3> QED BY <2>3, <3>2, <3>3 DEF Shape
  <2> QED BY <2>1, <2>2, <2>3
<1> QED BY <1>1, <1>2, SameSession

LEMMA KickPlayerSame ==
  ASSUME NEW sv, Shape(sv), NEW s \in Sessions
  PROVE  SameControl(sv, KickPlayer(sv, s))
<1>1. PICK x \in {"open", "closed", "null"} :
        x = IF sv.session[s].socket = "open" THEN "closed" ELSE sv.session[s].socket
  BY DEF Shape, SessionState
<1>2. KickPlayer(sv, s) = [sv EXCEPT !.session[s].socket = x]
  BY <1>1 DEF KickPlayer, Shape
<1> QED BY <1>2, SessionFields

LEMMA NoteLogoutSame ==
  ASSUME NEW sv, Shape(sv), NEW s
  PROVE  SameControl(sv, NoteLogout(sv, s))
BY SameReflexive, SameOthers DEF NoteLogout

LEMMA DequeueSame ==
  ASSUME NEW sv, Shape(sv), NEW s \in Sessions
  PROVE  SameControl(sv, Dequeue(sv, s))
<1>1. CASE ~IsQueued(sv, s)
  BY <1>1, SameReflexive DEF Dequeue
<1>2. CASE IsQueued(sv, s)
  <2>1. PICK g : Dequeue(sv, s) = [sv EXCEPT !.queue = g, !.session[s].inQueue = FALSE]
    BY <1>2 DEF Dequeue
  <2>2. PICK sw : sw = [sv EXCEPT !.queue = g]
    OBVIOUS
  <2>3. SameControl(sv, sw)
    BY <2>2, SameReflexive, SameOthers
  <2>4. Dequeue(sv, s) = [sw EXCEPT !.session[s].inQueue = FALSE]
    BY <2>1, <2>2
  <2>5. SameControl(sw, Dequeue(sv, s))
    <3>1. Shape(sw)
      BY <2>3 DEF SameControl
    <3> QED BY <2>4, <3>1, SessionFields
  <2> QED BY <2>3, <2>4, <2>5, SameTransitive
<1> QED BY <1>1, <1>2

LEMMA RemoveQueuedSame ==
  ASSUME NEW sv, Shape(sv), NEW s \in Sessions
  PROVE  SameControl(sv, RemoveQueuedSession(sv, s))
<1>1. SameControl(sv, Dequeue(sv, s)) /\ Shape(Dequeue(sv, s))
  BY DequeueSame DEF SameControl
<1>2. SameControl(Dequeue(sv, s), PopFront(Dequeue(sv, s), Fifo))
  BY <1>1, PopFrontSame
<1>3. RemoveQueuedSession(sv, s) \in {Dequeue(sv, s), PopFront(Dequeue(sv, s), Fifo)}
  BY DEF RemoveQueuedSession
<1> QED BY <1>1, <1>2, <1>3, SameTransitive

LEMMA AddQueuedSame ==
  ASSUME NEW sv, Shape(sv), NEW s \in Sessions
  PROVE  SameControl(sv, AddQueuedSession(sv, s))
<1>1. PICK g : AddQueuedSession(sv, s) = [sv EXCEPT !.queue = g, !.session[s].inQueue = TRUE,
                                                   !.session[s].hadQueue = TRUE]
  BY DEF AddQueuedSession
<1>2. PICK sw : sw = [sv EXCEPT !.queue = g]
  OBVIOUS
<1>3. SameControl(sv, sw)
  BY <1>2, SameReflexive, SameOthers
<1>4. PICK su : su = [sw EXCEPT !.session[s].inQueue = TRUE]
  OBVIOUS
<1>5. SameControl(sw, su)
  <2>1. Shape(sw)
    BY <1>3 DEF SameControl
  <2> QED BY <1>4, <2>1, SessionFields
<1>6. AddQueuedSession(sv, s) = [su EXCEPT !.session[s].hadQueue = TRUE]
  BY <1>1, <1>2, <1>4
<1>7. SameControl(su, AddQueuedSession(sv, s))
  <2>1. Shape(su)
    BY <1>5 DEF SameControl
  <2> QED BY <1>6, <2>1, SessionFields
<1> QED BY <1>3, <1>5, <1>7, SameTransitive

LEMMA AdmitRegionSame ==
  ASSUME NEW sv, Shape(sv), NEW r, NEW pop
  PROVE  SameControl(sv, AdmitRegion(sv, r, pop))
<1>1. AdmitRegion(sv, r, pop) = sv
        \/ \E l, g, S : AdmitRegion(sv, r, pop)
                          = OnPassedQueue([sv EXCEPT !.playerLimit = l, !.queue = g], S, r)
  BY DEF AdmitRegion
<1>2. ASSUME NEW l, NEW g, NEW S
      PROVE  SameControl(sv, OnPassedQueue([sv EXCEPT !.playerLimit = l, !.queue = g], S, r))
  <2>1. PICK sw : sw = [sv EXCEPT !.playerLimit = l]
    OBVIOUS
  <2>2. PICK su : su = [sw EXCEPT !.queue = g]
    OBVIOUS
  <2>3. SameControl(sv, sw)
    BY <2>1, SameReflexive, SameOthers
  <2>4. SameControl(sv, su)
    BY <2>2, <2>3, SameOthers
  <2>5. SameControl(su, OnPassedQueue(su, S, r))
    BY <2>4, OnPassedQueueSame DEF SameControl
  <2>6. su = [sv EXCEPT !.playerLimit = l, !.queue = g]
    BY <2>1, <2>2
  <2> QED BY <2>4, <2>5, <2>6, SameTransitive
<1> QED BY <1>1, <1>2, SameReflexive

LEMMA KickAllSame ==
  ASSUME NEW sv, Shape(sv)
  PROVE  SameControl(sv, KickAll(sv))
<1> DEFINE f == [s \in Sessions |->
                  IF s \in InMap(sv) \cup sv.disconnected /\ sv.session[s].socket = "open"
                  THEN [sv.session[s] EXCEPT !.socket = "closed"] ELSE sv.session[s]]
           g == [q \in DOMAIN sv.queue |-> << >>]
<1>1. ASSUME NEW s \in Sessions
      PROVE  /\ f[s] \in SessionState
             /\ f[s].status = sv.session[s].status
             /\ f[s].loading = sv.session[s].loading
             /\ f[s].player = sv.session[s].player
  <2>1. sv.session[s] \in SessionState
    BY DEF Shape
  <2> QED BY <2>1 DEF SessionState
<1>2. f \in [Sessions -> SessionState]
  BY <1>1
<1>3. KickAll(sv) = [[sv EXCEPT !.session = f] EXCEPT !.queue = g]
  BY DEF KickAll, Shape
<1> HIDE DEF f, g
<1>4. PICK sw : sw = [sv EXCEPT !.session = f]
  OBVIOUS
<1>5. SameControl(sv, sw)
  BY <1>1, <1>2, <1>4, SameSessions
<1>6. SameControl(sv, [sw EXCEPT !.queue = g])
  BY <1>5, SameOthers
<1> QED BY <1>3, <1>4, <1>6

-----------------------------------------------------------------------------
(* What logging a player out, deleting a session and entering the session   *)

(* map do to players, sessions and the map.                                 *)
SameRest(sv, sw) ==
  Shape(sw) /\ sw.sessions = sv.sessions /\ sw.disconnected = sv.disconnected

SameFields(sv, sw, S) ==
  \A t \in S : /\ sw.session[t].status = sv.session[t].status
               /\ sw.session[t].loading = sv.session[t].loading
               /\ sw.session[t].player = sv.session[t].player

PlayerGone(sv, sw, s) ==
  \A c \in Characters :
    sw.character[c] = IF sv.session[s].player = c THEN Offline ELSE sv.character[c]

LoggedOut(sv, sw, s) ==
  /\ SameRest(sv, sw) /\ SameFields(sv, sw, Sessions \ {s}) /\ PlayerGone(sv, sw, s)
  /\ sw.session[s].status = sv.session[s].status
  /\ sw.session[s].loading = sv.session[s].loading
  /\ sw.session[s].player = None

Deleted(sv, sw, s) ==
  /\ SameRest(sv, sw) /\ SameFields(sv, sw, Sessions \ {s}) /\ PlayerGone(sv, sw, s)
  /\ sw.session[s].status = "deleted" /\ ~sw.session[s].loading
  /\ sw.session[s].player = None

Entered(sv, sw, s) ==
  /\ Shape(sw) /\ SameFields(sv, sw, Sessions)
  /\ sw.character = sv.character /\ sw.disconnected = sv.disconnected
  /\ sw.sessions = [sv.sessions EXCEPT ![AccountOf[s]] = s]

LEMMA LogoutEffect ==
  ASSUME NEW sv, Shape(sv), NEW s \in Sessions
  PROVE  LoggedOut(sv, LogoutPlayer(sv, s), s)
<1>1. sv.session[s] \in SessionState
  BY DEF Shape
<1>2. CASE sv.session[s].player = None
  <2>1. LogoutPlayer(sv, s) = sv
    BY <1>2 DEF LogoutPlayer
  <2> QED BY <1>2, <2>1, NoneAssumption
          DEF LoggedOut, SameRest, SameFields, PlayerGone
<1>3. CASE sv.session[s].player # None
  <2>1. PICK c \in Characters : c = sv.session[s].player
    BY <1>1, <1>3 DEF SessionState
  <2>2. LogoutPlayer(sv, s) = [sv EXCEPT !.character[c] = Offline, !.session[s].player = None]
    BY <1>3, <2>1 DEF LogoutPlayer
  <2>3. PICK x, f, g :
          /\ x = [sv.session[s] EXCEPT !.player = None]
          /\ f = [sv.character EXCEPT ![c] = Offline]
          /\ g = [sv.session EXCEPT ![s] = x]
    OBVIOUS
  <2>4. x \in SessionState /\ x.status = sv.session[s].status
        /\ x.loading = sv.session[s].loading /\ x.player = None
    BY <1>1, <2>3 DEF SessionState
  <2>5. /\ f \in [Characters -> [session : Sessions \cup {None}, inWorld : BOOLEAN]]
        /\ \A d \in Characters : f[d] = IF d = c THEN Offline ELSE sv.character[d]
        /\ g \in [Sessions -> SessionState]
        /\ g[s] = x /\ \A t \in Sessions \ {s} : g[t] = sv.session[t]
    BY <2>3, <2>4 DEF Shape, Offline
  <2>6. LogoutPlayer(sv, s) = [[sv EXCEPT !.character = f] EXCEPT !.session = g]
    BY <2>2, <2>3 DEF Shape
  <2>7. PICK sw : sw = LogoutPlayer(sv, s)
    OBVIOUS
  <2>8. Shape(sw) /\ sw.sessions = sv.sessions /\ sw.disconnected = sv.disconnected
        /\ sw.character = f /\ sw.session = g
    BY <2>5, <2>6, <2>7 DEF Shape
  <2>9. LoggedOut(sv, sw, s)
    BY <2>1, <2>4, <2>5, <2>8 DEF LoggedOut, SameRest, SameFields, PlayerGone
  <2> QED BY <2>7, <2>9
<1> QED BY <1>2, <1>3

LEMMA DeleteEffect ==
  ASSUME NEW sv, Shape(sv), NEW s \in Sessions
  PROVE  Deleted(sv, DeleteSession(sv, s), s)
<1>1. PICK sl : sl = LogoutPlayer(sv, s)
  OBVIOUS
<1>2. LoggedOut(sv, sl, s)
  BY <1>1, LogoutEffect
<1>3. PICK x, g, l : /\ x = [NewSession EXCEPT !.status = "deleted"]
                     /\ g = [sl.session EXCEPT ![s] = x]
                     /\ DeleteSession(sv, s) = [sl EXCEPT !.session = g, !.logged = l]
  BY <1>1 DEF DeleteSession
<1>4. x \in SessionState /\ x.status = "deleted" /\ ~x.loading /\ x.player = None
  BY <1>3 DEF NewSession, SessionState
<1>5. Shape(sl)
  BY <1>2 DEF LoggedOut, SameRest
<1>6. /\ g \in [Sessions -> SessionState]
      /\ g[s] = x /\ \A t \in Sessions \ {s} : g[t] = sl.session[t]
  BY <1>3, <1>4, <1>5 DEF Shape
<1>7. PICK sw : sw = DeleteSession(sv, s)
  OBVIOUS
<1>8. Shape(sw) /\ sw.sessions = sl.sessions /\ sw.disconnected = sl.disconnected
      /\ sw.character = sl.character /\ sw.session = g
  BY <1>3, <1>5, <1>6, <1>7 DEF Shape
<1>9. Deleted(sv, sw, s)
  BY <1>2, <1>4, <1>6, <1>8 DEF LoggedOut, Deleted, SameRest, SameFields, PlayerGone
<1> QED BY <1>7, <1>9

LEMMA EnterEffect ==
  ASSUME NEW sv, Shape(sv), NEW s \in Sessions
  PROVE  Entered(sv, Enter(sv, s), s)
<1>1. PICK sa : sa = [sv EXCEPT !.sessions[AccountOf[s]] = s, !.connections[IpOf[s]] = @ + 1]
  OBVIOUS
<1>2. AccountOf[s] \in Accounts
  BY AttributesAssumption
<1>3. Entered(sv, sa, s)
  <2>1. PICK f, g : /\ f = [sv.sessions EXCEPT ![AccountOf[s]] = s]
                    /\ sa = [sv EXCEPT !.sessions = f, !.connections = g]
    BY <1>1
  <2>2. f \in [Accounts -> Sessions \cup {None}]
    BY <1>2, <2>1 DEF Shape
  <2>3. Shape(sa) /\ sa.session = sv.session /\ sa.character = sv.character
        /\ sa.disconnected = sv.disconnected /\ sa.sessions = f
    BY <2>1, <2>2 DEF Shape
  <2> QED BY <2>1, <2>3 DEF Entered, SameFields
<1>4. PICK S, r : S = {s} /\ r = RegionOf[s]
  OBVIOUS
<1>5. Enter(sv, s) \in {AddQueuedSession(sa, s), OnPassedQueue(sa, S, r)}
  BY <1>1, <1>4 DEF Enter
<1>6. PICK sw : sw = Enter(sv, s)
  OBVIOUS
<1>7. SameControl(sa, sw)
  <2>1. Shape(sa)
    BY <1>3 DEF Entered
  <2> QED BY <1>5, <1>6, <2>1, AddQueuedSame, OnPassedQueueSame
<1>8. Entered(sv, sw, s)
  BY <1>3, <1>7 DEF Entered, SameControl, SameFields
<1> QED BY <1>6, <1>8

-----------------------------------------------------------------------------
(* Taking a player out of its session, and a session out of the server,     *)

(* leaves the others playing.                                               *)
LEMMA SessionRange ==
  ASSUME NEW sv, Shape(sv)
  PROVE  /\ \A s \in Sessions : sv.session[s].player \in Characters \cup {None}
         /\ \A c \in Characters : sv.character[c].session \in Sessions \cup {None}
         /\ \A a \in Accounts : sv.sessions[a] \in Sessions \cup {None}
         /\ \A s \in Sessions : AccountOf[s] \in Accounts
         /\ \A s \in Sessions : /\ sv.session[s].status \in {"unused", "waiting", "added", "deleted"}
                                /\ sv.session[s].loading \in BOOLEAN
BY AttributesAssumption DEF Shape, SessionState

LEMMA GonePlaying ==
  ASSUME NEW sv, Shape(sv), Playing(sv), NEW s \in Sessions, NEW sw, Shape(sw),
         SameFields(sv, sw, Sessions \ {s}), PlayerGone(sv, sw, s),
         sw.session[s].player = None
  PROVE  Playing(sw)
<1>1. ASSUME NEW c \in Characters, sw.character[c].session # None
      PROVE  /\ sw.session[sw.character[c].session].status = "added"
             /\ sw.session[sw.character[c].session].player = c
             /\ AccountOf[sw.character[c].session] = OwnerOf[c]
  <2>1. sv.session[s].player # c /\ sw.character[c] = sv.character[c]
    BY <1>1 DEF PlayerGone, Offline
  <2>2. PICK t \in Sessions : t = sv.character[c].session
    BY <1>1, <2>1, SessionRange
  <2>3. sv.session[t].player = c /\ sv.session[t].status = "added" /\ AccountOf[t] = OwnerOf[c]
    BY <1>1, <2>1, <2>2 DEF Playing
  <2>4. sw.session[t].player = c /\ sw.session[t].status = "added"
    BY <2>1, <2>3 DEF SameFields
  <2> QED BY <2>1, <2>2, <2>3, <2>4
<1>2. ASSUME NEW c \in Characters, sw.character[c].inWorld
      PROVE  sw.character[c].session # None
  <2>1. sw.character[c] = sv.character[c]
    BY <1>2 DEF PlayerGone, Offline
  <2> QED BY <1>2, <2>1 DEF Playing
<1>3. ASSUME NEW t \in Sessions, sw.session[t].player # None
      PROVE  /\ sw.session[t].status = "added" /\ ~sw.session[t].loading
             /\ sw.character[sw.session[t].player].session = t
  <2>1. t # s
    BY <1>3
  <2>2. PICK c \in Characters : c = sw.session[t].player
    BY <1>3, SessionRange
  <2>3. /\ sv.session[t].player = c /\ sv.session[t].status = sw.session[t].status
        /\ sv.session[t].loading = sw.session[t].loading
    BY <2>1, <2>2 DEF SameFields
  <2>4. sv.session[t].status = "added" /\ ~sv.session[t].loading /\ sv.character[c].session = t
    BY <1>3, <2>2, <2>3 DEF Playing
  <2>5. sv.session[s].player # c
    BY <2>1, <2>2, <2>4, <1>3 DEF Playing
  <2> QED BY <2>2, <2>3, <2>4, <2>5 DEF PlayerGone
<1> QED BY <1>1, <1>2, <1>3 DEF Playing

LEMMA LogoutKeepsControl ==
  ASSUME NEW sv, Control(sv), NEW s \in Sessions, NEW sw, LoggedOut(sv, sw, s)
  PROVE  Control(sw)
<1>1. Shape(sv) /\ Shape(sw) /\ Playing(sv)
  BY DEF Control, LoggedOut, SameRest
<1>2. Playing(sw)
  BY <1>1, GonePlaying DEF LoggedOut
<1>3. \A t \in Sessions : /\ sw.session[t].status = sv.session[t].status
                          /\ sw.session[t].loading = sv.session[t].loading
  BY DEF LoggedOut, SameFields
<1>4. sw.sessions = sv.sessions /\ sw.disconnected = sv.disconnected
  BY DEF LoggedOut, SameRest
<1>5. Placed(sw)
  BY <1>1, <1>3, <1>4, SessionRange DEF Control, Placed, Shape
<1> QED BY <1>1, <1>2, <1>5 DEF Control

(* What holds of the places of sessions while account `a' is being replaced *)
(* or removed.                                                              *)
PlacedBut(sv, a) ==
  /\ \A b \in Accounts \ {a} :
       LET s == sv.sessions[b]
       IN  s # None => AccountOf[s] = b /\ sv.session[s].status = "added"
  /\ \A s \in sv.disconnected :
       sv.session[s].status = "added" /\ sv.sessions[AccountOf[s]] # s
  /\ \A s \in Sessions :
       sv.session[s].loading => /\ sv.session[s].status = "added" /\ AccountOf[s] # a
                                /\ sv.sessions[AccountOf[s]] = s

(* A session of m_sessions, or one that is nowhere, is deleted. *)
LEMMA DeleteMapped ==
  ASSUME NEW sv, Control(sv), NEW s \in Sessions, sv.sessions[AccountOf[s]] = s,
         NEW sw, Deleted(sv, sw, s)
  PROVE  Shape(sw) /\ Playing(sw) /\ PlacedBut(sw, AccountOf[s])
<1>1. Shape(sv) /\ Shape(sw) /\ Playing(sv) /\ Placed(sv)
  BY DEF Control, Deleted, SameRest
<1>2. Playing(sw)
  BY <1>1, GonePlaying DEF Deleted
<1>3. sw.sessions = sv.sessions /\ sw.disconnected = sv.disconnected
      /\ ~sw.session[s].loading
  BY DEF Deleted, SameRest
<1>4. \A t \in Sessions \ {s} : /\ sw.session[t].status = sv.session[t].status
                                /\ sw.session[t].loading = sv.session[t].loading
  BY DEF Deleted, SameFields
<1>5. s \notin sv.disconnected
  BY <1>1 DEF Placed
<1>6. PlacedBut(sw, AccountOf[s])
  <2>1. ASSUME NEW b \in Accounts \ {AccountOf[s]}, sw.sessions[b] # None
        PROVE  AccountOf[sw.sessions[b]] = b /\ sw.session[sw.sessions[b]].status = "added"
    <3>1. PICK t \in Sessions : t = sv.sessions[b]
      BY <1>1, <1>3, <2>1, SessionRange
    <3>2. AccountOf[t] = b /\ sv.session[t].status = "added"
      BY <1>1, <1>3, <2>1, <3>1 DEF Placed
    <3>3. t # s
      BY <3>2
    <3> QED BY <1>3, <1>4, <3>1, <3>2, <3>3
  <2>2. ASSUME NEW t \in sw.disconnected
        PROVE  sw.session[t].status = "added" /\ sw.sessions[AccountOf[t]] # t
    <3>1. t \in Sessions /\ t # s /\ t \in sv.disconnected
      BY <1>1, <1>3, <1>5 DEF Shape
    <3>2. sv.session[t].status = "added" /\ sv.sessions[AccountOf[t]] # t
      BY <1>1, <3>1 DEF Placed
    <3> QED BY <1>3, <1>4, <3>1, <3>2
  <2>3. ASSUME NEW t \in Sessions, sw.session[t].loading
        PROVE  /\ sw.session[t].status = "added" /\ AccountOf[t] # AccountOf[s]
               /\ sw.sessions[AccountOf[t]] = t
    <3>1. t # s /\ sv.session[t].loading
      BY <1>3, <1>4, <2>3
    <3>2. sv.session[t].status = "added" /\ sv.sessions[AccountOf[t]] = t
      BY <1>1, <3>1 DEF Placed
    <3> QED BY <1>3, <1>4, <3>1, <3>2
  <2> QED BY <2>1, <2>2, <2>3 DEF PlacedBut
<1> QED BY <1>1, <1>2, <1>6

LEMMA DeletePlaceless ==
  ASSUME NEW sv, Control(sv), NEW s \in Sessions, sv.sessions[AccountOf[s]] # s,
         s \notin sv.disconnected, NEW sw, Deleted(sv, sw, s)
  PROVE  Control(sw)
<1>1. Shape(sv) /\ Shape(sw) /\ Playing(sv) /\ Placed(sv)
  BY DEF Control, Deleted, SameRest
<1>2. Playing(sw)
  BY <1>1, GonePlaying DEF Deleted
<1>3. sw.sessions = sv.sessions /\ sw.disconnected = sv.disconnected
      /\ ~sw.session[s].loading
  BY DEF Deleted, SameRest
<1>4. \A t \in Sessions \ {s} : /\ sw.session[t].status = sv.session[t].status
                                /\ sw.session[t].loading = sv.session[t].loading
  BY DEF Deleted, SameFields
<1>5. Placed(sw)
  <2>1. ASSUME NEW b \in Accounts, sw.sessions[b] # None
        PROVE  AccountOf[sw.sessions[b]] = b /\ sw.session[sw.sessions[b]].status = "added"
    <3>1. PICK t \in Sessions : t = sv.sessions[b]
      BY <1>1, <1>3, <2>1, SessionRange
    <3>2. AccountOf[t] = b /\ sv.session[t].status = "added"
      BY <1>1, <1>3, <2>1, <3>1 DEF Placed
    <3>3. t # s
      BY <3>1, <3>2
    <3> QED BY <1>3, <1>4, <3>1, <3>2, <3>3
  <2>2. ASSUME NEW t \in sw.disconnected
        PROVE  sw.session[t].status = "added" /\ sw.sessions[AccountOf[t]] # t
    <3>1. t \in Sessions /\ t # s /\ t \in sv.disconnected
      BY <1>1, <1>3 DEF Shape
    <3>2. sv.session[t].status = "added" /\ sv.sessions[AccountOf[t]] # t
      BY <1>1, <3>1 DEF Placed
    <3> QED BY <1>3, <1>4, <3>1, <3>2
  <2>3. ASSUME NEW t \in Sessions, sw.session[t].loading
        PROVE  sw.session[t].status = "added" /\ sw.sessions[AccountOf[t]] = t
    <3>1. t # s /\ sv.session[t].loading
      BY <1>3, <1>4, <2>3
    <3> QED BY <1>1, <1>3, <1>4, <3>1 DEF Placed
  <2> QED BY <2>1, <2>2, <2>3 DEF Placed
<1> QED BY <1>1, <1>2, <1>5 DEF Control

(* The session of an account enters the map, in the place of none or of one *)
(* that is gone.                                                            *)
LEMMA EnterControl ==
  ASSUME NEW sm, Shape(sm), Playing(sm), NEW s \in Sessions, PlacedBut(sm, AccountOf[s]),
         sm.session[s].status = "added", s \notin sm.disconnected,
         NEW sw, Entered(sm, sw, s)
  PROVE  Control(sw)
<1>1. Shape(sw) /\ sw.character = sm.character /\ sw.disconnected = sm.disconnected
  BY DEF Entered
<1>2. \A t \in Sessions : /\ sw.session[t].status = sm.session[t].status
                          /\ sw.session[t].loading = sm.session[t].loading
                          /\ sw.session[t].player = sm.session[t].player
  BY DEF Entered, SameFields
<1>3. \A a \in Accounts : sw.sessions[a] = IF a = AccountOf[s] THEN s ELSE sm.sessions[a]
  BY AttributesAssumption DEF Entered, Shape
<1>4. Playing(sw)
  <2>1. \A d \in Characters :
          LET t == sw.character[d].session
          IN  /\ t # None => /\ sw.session[t].status = "added" /\ sw.session[t].player = d
                             /\ AccountOf[t] = OwnerOf[d]
              /\ sw.character[d].inWorld => t # None
    <3>1. ASSUME NEW d \in Characters, sw.character[d].session # None
          PROVE  /\ sw.session[sw.character[d].session].status = "added"
                 /\ sw.session[sw.character[d].session].player = d
                 /\ AccountOf[sw.character[d].session] = OwnerOf[d]
      <4>1. PICK t : t = sw.character[d].session
        OBVIOUS
      <4>2. t \in Sessions /\ t = sm.character[d].session /\ t # None
        BY <1>1, <3>1, <4>1 DEF Shape
      <4>3. sm.session[t].status = "added" /\ sm.session[t].player = d /\ AccountOf[t] = OwnerOf[d]
        BY <4>2 DEF Playing
      <4> QED BY <1>2, <4>1, <4>2, <4>3
    <3>2. \A d \in Characters : sw.character[d].inWorld => sw.character[d].session # None
      BY <1>1 DEF Playing
    <3> QED BY <3>1, <3>2
  <2>2. \A t \in Sessions :
          LET d == sw.session[t].player
          IN  d # None => /\ sw.session[t].status = "added" /\ sw.character[d].session = t
                          /\ ~sw.session[t].loading
    BY <1>1, <1>2 DEF Playing
  <2> QED BY <2>1, <2>2 DEF Playing
<1>5. Placed(sw)
  <2>1. ASSUME NEW b \in Accounts, sw.sessions[b] # None
        PROVE  AccountOf[sw.sessions[b]] = b /\ sw.session[sw.sessions[b]].status = "added"
    <3>1. CASE b = AccountOf[s]
      BY <1>2, <1>3, <3>1
    <3>2. CASE b # AccountOf[s]
      <4>1. PICK t \in Sessions : t = sm.sessions[b]
        BY <1>3, <2>1, <3>2, SessionRange
      <4> QED BY <1>2, <1>3, <2>1, <3>2, <4>1 DEF PlacedBut
    <3> QED BY <3>1, <3>2
  <2>2. ASSUME NEW t \in sw.disconnected
        PROVE  sw.session[t].status = "added" /\ sw.sessions[AccountOf[t]] # t
    <3>1. t \in Sessions /\ t # s /\ t \in sm.disconnected
      BY <1>1 DEF Shape
    <3> QED BY <1>2, <1>3, <3>1, SessionRange DEF PlacedBut
  <2>3. ASSUME NEW t \in Sessions, sw.session[t].loading
        PROVE  sw.session[t].status = "added" /\ sw.sessions[AccountOf[t]] = t
    BY <1>2, <1>3, <2>3, SessionRange DEF PlacedBut
  <2> QED BY <2>1, <2>2, <2>3 DEF Placed
<1> QED BY <1>1, <1>4, <1>5 DEF Control

LEMMA NobodyPlaced ==
  ASSUME NEW sv, Control(sv), NEW a \in Accounts, sv.sessions[a] = None
  PROVE  PlacedBut(sv, a)
BY NoneAssumption DEF Control, Placed, PlacedBut

(* A session moves to the disconnected ones. *)
Moved(sv, sw, s) ==
  /\ Shape(sw) /\ SameFields(sv, sw, Sessions) /\ sw.character = sv.character
  /\ sw.disconnected = sv.disconnected \cup {s}
  /\ sw.sessions = [sv.sessions EXCEPT ![AccountOf[s]] = None]

LEMMA MoveEffect ==
  ASSUME NEW sv, Shape(sv), NEW s \in Sessions
  PROVE  Moved(sv, SetSessionDisconnected(sv, s), s)
<1>1. PICK sn : sn = NoteLogout(sv, s)
  OBVIOUS
<1>2. SameControl(sv, sn) /\ Shape(sn)
  BY <1>1, NoteLogoutSame DEF SameControl
<1>3. PICK f, D : /\ f = [sn.sessions EXCEPT ![AccountOf[s]] = None]
                  /\ D = sn.disconnected \cup {s}
  OBVIOUS
<1>4. f \in [Accounts -> Sessions \cup {None}] /\ D \subseteq Sessions
  BY <1>2, <1>3 DEF Shape
<1>5. SetSessionDisconnected(sv, s) = [sn EXCEPT !.sessions = f, !.disconnected = D]
  BY <1>1, <1>3 DEF SetSessionDisconnected
<1>6. PICK sw : sw = SetSessionDisconnected(sv, s)
  OBVIOUS
<1>7. Shape(sw) /\ sw.session = sn.session /\ sw.character = sn.character
      /\ sw.sessions = f /\ sw.disconnected = D
  BY <1>2, <1>4, <1>5, <1>6 DEF Shape
<1>8. Moved(sv, sw, s)
  BY <1>2, <1>3, <1>7 DEF Moved, SameControl, SameFields
<1> QED BY <1>6, <1>8

LEMMA MoveControl ==
  ASSUME NEW sv, Control(sv), NEW s \in Sessions, sv.sessions[AccountOf[s]] = s,
         ~sv.session[s].loading, NEW sw, Moved(sv, sw, s)
  PROVE  Control(sw)
<1>1. /\ Shape(sv) /\ Shape(sw) /\ Playing(sv) /\ Placed(sv)
      /\ sw.character = sv.character /\ sw.disconnected = sv.disconnected \cup {s}
  BY DEF Moved, Control
<1>2. \A t \in Sessions : /\ sw.session[t].status = sv.session[t].status
                          /\ sw.session[t].loading = sv.session[t].loading
                          /\ sw.session[t].player = sv.session[t].player
  BY DEF Moved, SameFields
<1>3. \A a \in Accounts : sw.sessions[a] = IF a = AccountOf[s] THEN None ELSE sv.sessions[a]
  BY <1>1 DEF Moved, Shape
<1>4. Playing(sw)
  BY <1>1, <1>2, SessionRange DEF Playing
<1>5. Placed(sw)
  <2>1. ASSUME NEW b \in Accounts, sw.sessions[b] # None
        PROVE  AccountOf[sw.sessions[b]] = b /\ sw.session[sw.sessions[b]].status = "added"
    <3>1. PICK t \in Sessions : t = sv.sessions[b]
      BY <1>1, <1>3, <2>1, SessionRange
    <3> QED BY <1>1, <1>2, <1>3, <2>1, <3>1 DEF Placed
  <2>2. ASSUME NEW t \in sw.disconnected
        PROVE  sw.session[t].status = "added" /\ sw.sessions[AccountOf[t]] # t
    <3>1. t \in Sessions /\ AccountOf[t] \in Accounts /\ AccountOf[s] \in Accounts
      BY <1>1, SessionRange DEF Shape
    <3>2. CASE t = s
      <4>1. sv.session[s].status = "added"
        BY <1>1, <3>1, NoneAssumption DEF Placed
      <4> QED BY <1>2, <1>3, <3>1, <3>2, <4>1, NoneAssumption
    <3>3. CASE t # s
      <4>1. t \in sv.disconnected
        BY <1>1, <3>3
      <4>2. sv.session[t].status = "added" /\ sv.sessions[AccountOf[t]] # t
        BY <1>1, <4>1 DEF Placed
      <4> QED BY <1>2, <1>3, <3>1, <4>2, NoneAssumption
    <3> QED BY <3>2, <3>3
  <2>3. ASSUME NEW t \in Sessions, sw.session[t].loading
        PROVE  sw.session[t].status = "added" /\ sw.sessions[AccountOf[t]] = t
    <3>1. sv.session[t].loading /\ t # s
      BY <1>2, <2>3
    <3>2. sv.session[t].status = "added" /\ sv.sessions[AccountOf[t]] = t
      BY <1>1, <3>1 DEF Placed
    <3>3. AccountOf[t] # AccountOf[s] /\ AccountOf[t] \in Accounts
      BY <3>1, <3>2, AttributesAssumption
    <3> QED BY <1>2, <1>3, <3>2, <3>3
  <2> QED BY <2>1, <2>2, <2>3 DEF Placed
<1> QED BY <1>1, <1>4, <1>5 DEF Control

(* No session begins to load, and none that waits to be taken over is       *)
(* touched.                                                                 *)
Quiet(sv, sw) ==
  \A s \in Sessions : /\ sw.session[s].loading => sv.session[s].loading
                      /\ sv.session[s].status = "waiting" => sw.session[s].status = "waiting"

LEMMA QuietEffects ==
  ASSUME NEW sv, NEW sw, Shape(sv), NEW s \in Sessions
  PROVE  /\ SameControl(sv, sw) => Quiet(sv, sw)
         /\ Entered(sv, sw, s) => Quiet(sv, sw)
         /\ Moved(sv, sw, s) => Quiet(sv, sw)
         /\ LoggedOut(sv, sw, s) => Quiet(sv, sw)
         /\ Deleted(sv, sw, s) /\ sv.session[s].status = "added" => Quiet(sv, sw)
BY DEF SameControl, Entered, Moved, LoggedOut, Deleted, SameFields, Quiet

LEMMA QuietTransitive ==
  ASSUME NEW su, NEW sv, NEW sw, Quiet(su, sv), Quiet(sv, sw)
  PROVE  Quiet(su, sw)
BY DEF Quiet

(* AddSession_, for a session the world thread has just taken over. *)
Fresh(sv, s) ==
  /\ sv.session[s].status = "added" /\ sv.session[s].player = None
  /\ ~sv.session[s].loading /\ s \notin sv.disconnected
  /\ sv.sessions[AccountOf[s]] # s

LEMMA ReplaceControl ==
  ASSUME NEW sv, Control(sv), NEW s \in Sessions, Fresh(sv, s),
         NEW old \in Sessions, old = sv.sessions[AccountOf[s]], ~sv.session[old].loading,
         NEW sr, sr = Replace(sv, old)
  PROVE  /\ Shape(sr) /\ Playing(sr) /\ PlacedBut(sr, AccountOf[s]) /\ Quiet(sv, sr)
         /\ sr.session[s].status = "added" /\ s \notin sr.disconnected
<1>1. /\ AccountOf[old] = AccountOf[s] /\ old # s /\ sv.session[old].status = "added"
      /\ AccountOf[s] \in Accounts /\ sv.sessions[AccountOf[old]] = old
      /\ Shape(sv)
  BY SessionRange, NoneAssumption DEF Control, Placed, Fresh
<1>2. PICK sk : sk = KickPlayer(sv, old)
  OBVIOUS
<1>3. SameControl(sv, sk) /\ Shape(sk)
  <2>1. SameControl(sv, sk)
    BY <1>1, <1>2, KickPlayerSame
  <2> QED BY <2>1 DEF SameControl
<1>4. PICK sd : sd = RemoveQueuedSession(sk, old)
  OBVIOUS
<1>5. SameControl(sv, sd) /\ Shape(sd)
  <2>1. SameControl(sk, sd)
    BY <1>3, <1>4, RemoveQueuedSame
  <2>2. SameControl(sv, sd)
    BY <1>3, <2>1, SameTransitive
  <2> QED BY <2>2 DEF SameControl
<1>6. Control(sd) /\ Quiet(sv, sd)
  BY <1>1, <1>5, SameKeepsControl, QuietEffects
<1>7. /\ sd.sessions[AccountOf[old]] = old /\ ~sd.session[old].loading
      /\ sd.session[s].status = "added" /\ s \notin sd.disconnected
      /\ sd.session[old].status = "added"
  BY <1>1, <1>5 DEF SameControl, Fresh
<1>8. sr = SetSessionDisconnected(sd, old) \/ sr = DeleteSession(sd, old)
  BY <1>2, <1>4 DEF Replace
<1>9. CASE sr = SetSessionDisconnected(sd, old)
  <2>1. Moved(sd, sr, old)
    BY <1>5, <1>9, MoveEffect
  <2>2. Control(sr)
    BY <1>6, <1>7, <2>1, MoveControl
  <2>3. sr.sessions[AccountOf[s]] = None
    BY <1>1, <1>5, <2>1 DEF Moved, Shape
  <2>4. PlacedBut(sr, AccountOf[s])
    BY <1>1, <2>2, <2>3, NobodyPlaced
  <2>5. Quiet(sd, sr)
    BY <1>5, <2>1, QuietEffects
  <2>6. sr.session[s].status = "added" /\ s \notin sr.disconnected
    BY <1>1, <1>7, <2>1 DEF Moved, SameFields
  <2> QED BY <1>6, <2>2, <2>4, <2>5, <2>6, QuietTransitive DEF Control
<1>10. CASE sr = DeleteSession(sd, old)
  <2>1. Deleted(sd, sr, old)
    BY <1>5, <1>10, DeleteEffect
  <2>2. Shape(sr) /\ Playing(sr) /\ PlacedBut(sr, AccountOf[s])
    BY <1>1, <1>6, <1>7, <2>1, DeleteMapped
  <2>3. Quiet(sd, sr)
    BY <1>5, <1>7, <2>1, QuietEffects
  <2>4. sr.session[s].status = "added" /\ s \notin sr.disconnected
    BY <1>1, <1>7, <2>1 DEF Deleted, SameFields, SameRest
  <2> QED BY <1>6, <2>2, <2>3, <2>4, QuietTransitive
<1> QED BY <1>8, <1>9, <1>10

LEMMA AddSessionControl ==
  ASSUME NEW sv, Control(sv), NEW s \in Sessions, Fresh(sv, s),
         NEW sw, sw = AddSession_(sv, s)
  PROVE  Control(sw) /\ Quiet(sv, sw)
<1>1. Shape(sv) /\ AccountOf[s] \in Accounts
      /\ sv.sessions[AccountOf[s]] \in Sessions \cup {None}
  BY SessionRange DEF Control
<1>2. CASE sv.sessions[AccountOf[s]] = None
  <2>1. Entered(sv, sw, s)
    BY <1>1, <1>2, EnterEffect DEF AddSession_
  <2>2. Control(sw)
    BY <1>1, <1>2, <2>1, NobodyPlaced, EnterControl DEF Fresh, Control
  <2> QED BY <1>1, <2>1, <2>2, QuietEffects
<1>3. CASE sv.sessions[AccountOf[s]] # None
  <2>1. PICK old \in Sessions : old = sv.sessions[AccountOf[s]]
    BY <1>1, <1>3
  <2>2. CASE sv.session[old].loading
    <3>1. Deleted(sv, sw, s)
      BY <1>1, <1>3, <2>1, <2>2, DeleteEffect DEF AddSession_
    <3>2. Control(sw)
      BY <3>1, DeletePlaceless DEF Fresh
    <3> QED BY <1>1, <3>1, <3>2, QuietEffects DEF Fresh
  <2>3. CASE ~sv.session[old].loading
    <3>1. PICK sr : sr = Replace(sv, old)
      OBVIOUS
    <3>2. /\ Shape(sr) /\ Playing(sr) /\ PlacedBut(sr, AccountOf[s]) /\ Quiet(sv, sr)
          /\ sr.session[s].status = "added" /\ s \notin sr.disconnected
      BY <2>1, <2>3, <3>1, ReplaceControl
    <3>3. sw = Enter(sr, s)
      BY <1>3, <2>1, <2>3, <3>1 DEF AddSession_
    <3>4. Entered(sr, sw, s)
      BY <3>2, <3>3, EnterEffect
    <3>5. Control(sw)
      BY <3>2, <3>4, EnterControl
    <3>6. Quiet(sr, sw)
      BY <3>2, <3>4, QuietEffects
    <3> QED BY <3>2, <3>5, <3>6, QuietTransitive
  <2> QED BY <2>2, <2>3
<1> QED BY <1>2, <1>3

(* RemoveSession. *)
LEMMA RemoveControl ==
  ASSUME NEW sv, Control(sv), NEW s \in Sessions, sv.sessions[AccountOf[s]] = s,
         NEW sw, sw = RemoveSession(sv, s)
  PROVE  /\ Control(sw) /\ Quiet(sv, sw)
         /\ sw.sessions = [sv.sessions EXCEPT ![AccountOf[s]] = None]
         /\ sw.disconnected = sv.disconnected
<1>1. Shape(sv) /\ AccountOf[s] \in Accounts /\ sv.session[s].status = "added"
  BY SessionRange, NoneAssumption DEF Control, Placed
<1>2. PICK sd : sd = RemoveQueuedSession(sv, s)
  OBVIOUS
<1>3. SameControl(sv, sd) /\ Shape(sd)
  BY <1>1, <1>2, RemoveQueuedSame DEF SameControl
<1>4. PICK sn : sn = IF IsQueued(sv, s) THEN sd ELSE NoteLogout(sd, s)
  OBVIOUS
<1>5. SameControl(sv, sn) /\ Shape(sn)
  BY <1>3, <1>4, NoteLogoutSame, SameTransitive DEF SameControl
<1>6. Control(sn) /\ Quiet(sv, sn)
  BY <1>1, <1>5, SameKeepsControl, QuietEffects
<1>7. PICK so, f, g : /\ f = [sn.sessions EXCEPT ![AccountOf[s]] = None]
                      /\ so = [sn EXCEPT !.sessions = f, !.connections = g]
                      /\ sw = DeleteSession(so, s)
  BY <1>2, <1>4 DEF RemoveSession
<1>8. f \in [Accounts -> Sessions \cup {None}]
  BY <1>5, <1>7 DEF Shape
<1>9. Shape(so) /\ so.session = sn.session /\ so.character = sn.character
      /\ so.disconnected = sn.disconnected /\ so.sessions = f
  BY <1>5, <1>7, <1>8 DEF Shape
<1>10. Deleted(so, sw, s)
  BY <1>7, <1>9, DeleteEffect
<1>11. PICK sx : sx = DeleteSession(sn, s)
  OBVIOUS
<1>12. Deleted(sn, sx, s)
  BY <1>5, <1>11, DeleteEffect
<1>13. Shape(sx) /\ Playing(sx) /\ PlacedBut(sx, AccountOf[s])
  BY <1>5, <1>6, <1>12, DeleteMapped DEF SameControl
<1>14. Playing(so) /\ Playing(sw) /\ Shape(sw)
  <2>1. Playing(so)
    BY <1>6, <1>9 DEF Control, Playing
  <2> QED BY <1>9, <1>10, <2>1, GonePlaying DEF Deleted, SameRest
<1>15. sw.sessions = f /\ sw.disconnected = sv.disconnected /\ ~sw.session[s].loading
       /\ sn.sessions = sv.sessions /\ sn.disconnected = sv.disconnected
  BY <1>5, <1>9, <1>10 DEF Deleted, SameRest, SameControl
<1>16. \A t \in Sessions \ {s} : /\ sw.session[t].status = sx.session[t].status
                                 /\ sw.session[t].loading = sx.session[t].loading
  BY <1>9, <1>10, <1>12 DEF Deleted, SameFields
<1>17. \A a \in Accounts : /\ f[a] = IF a = AccountOf[s] THEN None ELSE sv.sessions[a]
                           /\ sx.sessions[a] = sv.sessions[a]
  BY <1>1, <1>7, <1>12, <1>15 DEF Deleted, SameRest, Shape
<1>18. sx.disconnected = sw.disconnected /\ s \notin sw.disconnected
  BY <1>1, <1>12, <1>15 DEF Deleted, SameRest, Control, Placed
<1>19. Placed(sw)
  <2>1. ASSUME NEW b \in Accounts, sw.sessions[b] # None
        PROVE  AccountOf[sw.sessions[b]] = b /\ sw.session[sw.sessions[b]].status = "added"
    <3>1. b # AccountOf[s] /\ sw.sessions[b] = sx.sessions[b]
      BY <1>15, <1>17, <2>1
    <3>2. PICK t \in Sessions : t = sw.sessions[b]
      BY <1>14, <2>1, SessionRange
    <3>3. AccountOf[t] = b /\ sx.session[t].status = "added"
      BY <1>13, <2>1, <3>1, <3>2 DEF PlacedBut
    <3> QED BY <1>16, <3>1, <3>2, <3>3
  <2>2. ASSUME NEW t \in sw.disconnected
        PROVE  sw.session[t].status = "added" /\ sw.sessions[AccountOf[t]] # t
    <3>1. t \in Sessions /\ t # s /\ t \in sx.disconnected /\ AccountOf[t] \in Accounts
      BY <1>14, <1>18, SessionRange DEF Shape
    <3>2. sx.session[t].status = "added" /\ sx.sessions[AccountOf[t]] # t
      BY <1>13, <3>1 DEF PlacedBut
    <3> QED BY <1>15, <1>16, <1>17, <3>1, <3>2, NoneAssumption
  <2>3. ASSUME NEW t \in Sessions, sw.session[t].loading
        PROVE  sw.session[t].status = "added" /\ sw.sessions[AccountOf[t]] = t
    <3>1. t # s /\ sx.session[t].loading /\ AccountOf[t] \in Accounts
      BY <1>15, <1>16, <2>3, AttributesAssumption
    <3>2. sx.session[t].status = "added" /\ sx.sessions[AccountOf[t]] = t
          /\ AccountOf[t] # AccountOf[s]
      BY <1>13, <3>1 DEF PlacedBut
    <3> QED BY <1>15, <1>16, <1>17, <3>1, <3>2
  <2> QED BY <2>1, <2>2, <2>3 DEF Placed
<1>20. Quiet(sn, sw)
  <2>1. Quiet(so, sw)
    BY <1>1, <1>5, <1>9, <1>10, QuietEffects DEF SameControl
  <2> QED BY <1>9, <2>1 DEF Quiet
<1> QED BY <1>6, <1>7, <1>14, <1>15, <1>19, <1>20, QuietTransitive DEF Control

-----------------------------------------------------------------------------
(* Sessions that arrive, that begin or end to load, and that play.          *)

(* A session that is not in the server: no part of it points to it. *)
LEMMA OutsideUnused ==
  ASSUME NEW sv, Control(sv), NEW s \in Sessions, sv.session[s].status # "added"
  PROVE  /\ sv.session[s].player = None /\ ~sv.session[s].loading
         /\ s \notin sv.disconnected
         /\ \A a \in Accounts : sv.sessions[a] # s
         /\ \A c \in Characters : sv.character[c].session # s
<1>1. Shape(sv) /\ Playing(sv) /\ Placed(sv)
  BY DEF Control
<1>2. s # None
  BY NoneAssumption
<1>3. sv.session[s].player = None
  BY <1>1 DEF Playing
<1>4. ~sv.session[s].loading /\ s \notin sv.disconnected
  BY <1>1 DEF Placed
<1>5. \A a \in Accounts : sv.sessions[a] # s
  BY <1>1, <1>2 DEF Placed
<1>6. \A c \in Characters : sv.character[c].session # s
  BY <1>1, <1>2 DEF Playing
<1> QED BY <1>3, <1>4, <1>5, <1>6

LEMMA StatusControl ==
  ASSUME NEW sv, Control(sv), NEW s \in Sessions, sv.session[s].status # "added",
         NEW x \in SessionState, x.player = None, ~x.loading,
         NEW sw, sw = [sv EXCEPT !.session[s] = x]
  PROVE  Control(sw)
<1>1. Shape(sv) /\ Playing(sv) /\ Placed(sv)
  BY DEF Control
<1>2. /\ Shape(sw) /\ sw.sessions = sv.sessions /\ sw.disconnected = sv.disconnected
      /\ sw.character = sv.character
      /\ sw.session[s] = x /\ \A t \in Sessions \ {s} : sw.session[t] = sv.session[t]
  BY <1>1 DEF Shape
<1>3. /\ s \notin sv.disconnected
      /\ \A a \in Accounts : sv.sessions[a] # s
      /\ \A c \in Characters : sv.character[c].session # s
  BY OutsideUnused
<1>4. Playing(sw)
  <2>1. ASSUME NEW c \in Characters, sw.character[c].session # None
        PROVE  /\ sw.session[sw.character[c].session].status = "added"
               /\ sw.session[sw.character[c].session].player = c
               /\ AccountOf[sw.character[c].session] = OwnerOf[c]
    <3>1. PICK t \in Sessions \ {s} : t = sv.character[c].session
      BY <1>1, <1>2, <1>3, <2>1, SessionRange
    <3> QED BY <1>1, <1>2, <2>1, <3>1 DEF Playing
  <2>2. \A c \in Characters : sw.character[c].inWorld => sw.character[c].session # None
    BY <1>1, <1>2 DEF Playing
  <2>3. ASSUME NEW t \in Sessions, sw.session[t].player # None
        PROVE  /\ sw.session[t].status = "added" /\ ~sw.session[t].loading
               /\ sw.character[sw.session[t].player].session = t
    <3>1. t # s
      BY <1>2, <2>3
    <3> QED BY <1>1, <1>2, <2>3, <3>1 DEF Playing
  <2> QED BY <2>1, <2>2, <2>3 DEF Playing
<1>5. Placed(sw)
  <2>1. ASSUME NEW b \in Accounts, sw.sessions[b] # None
        PROVE  AccountOf[sw.sessions[b]] = b /\ sw.session[sw.sessions[b]].status = "added"
    <3>1. PICK t \in Sessions \ {s} : t = sv.sessions[b]
      BY <1>1, <1>2, <1>3, <2>1, SessionRange
    <3> QED BY <1>1, <1>2, <2>1, <3>1 DEF Placed
  <2>2. ASSUME NEW t \in sw.disconnected
        PROVE  sw.session[t].status = "added" /\ sw.sessions[AccountOf[t]] # t
    <3>1. t \in Sessions /\ t # s /\ t \in sv.disconnected
      BY <1>1, <1>2, <1>3 DEF Shape
    <3> QED BY <1>1, <1>2, <3>1 DEF Placed
  <2>3. ASSUME NEW t \in Sessions, sw.session[t].loading
        PROVE  sw.session[t].status = "added" /\ sw.sessions[AccountOf[t]] = t
    <3>1. t # s
      BY <1>2, <2>3
    <3> QED BY <1>1, <1>2, <2>3, <3>1 DEF Placed
  <2> QED BY <2>1, <2>2, <2>3 DEF Placed
<1> QED BY <1>2, <1>4, <1>5 DEF Control

(* Only a session of the map that plays nobody may begin to load. *)
LEMMA LoadingControl ==
  ASSUME NEW sv, Control(sv), NEW s \in Sessions, NEW x \in SessionState,
         x.player = sv.session[s].player, x.status = sv.session[s].status,
         x.loading => sv.sessions[AccountOf[s]] = s /\ x.player = None,
         NEW sw, sw = [sv EXCEPT !.session[s] = x]
  PROVE  Control(sw)
<1>1. Shape(sv) /\ Playing(sv) /\ Placed(sv)
  BY DEF Control
<1>2. /\ Shape(sw) /\ sw.sessions = sv.sessions /\ sw.disconnected = sv.disconnected
      /\ sw.character = sv.character
      /\ sw.session[s] = x /\ \A t \in Sessions \ {s} : sw.session[t] = sv.session[t]
  BY <1>1 DEF Shape
<1>3. \A t \in Sessions : /\ sw.session[t].status = sv.session[t].status
                          /\ sw.session[t].player = sv.session[t].player
  BY <1>2
<1>4. Playing(sw)
  <2>1. \A c \in Characters : sw.character[c].session # None =>
             /\ sw.session[sw.character[c].session].status = "added"
             /\ sw.session[sw.character[c].session].player = c
             /\ AccountOf[sw.character[c].session] = OwnerOf[c]
    BY <1>1, <1>2, <1>3, SessionRange DEF Playing
  <2>2. \A c \in Characters : sw.character[c].inWorld => sw.character[c].session # None
    BY <1>1, <1>2 DEF Playing
  <2>3. ASSUME NEW t \in Sessions, sw.session[t].player # None
        PROVE  /\ sw.session[t].status = "added" /\ ~sw.session[t].loading
               /\ sw.character[sw.session[t].player].session = t
    <3>1. ~sv.session[t].loading /\ sv.session[t].status = "added"
          /\ sw.character[sw.session[t].player].session = t
      BY <1>1, <1>2, <1>3, <2>3 DEF Playing
    <3> QED BY <1>2, <1>3, <2>3, <3>1
  <2> QED BY <2>1, <2>2, <2>3 DEF Playing
<1>5. Placed(sw)
  <2>1. ASSUME NEW b \in Accounts, sw.sessions[b] # None
        PROVE  AccountOf[sw.sessions[b]] = b /\ sw.session[sw.sessions[b]].status = "added"
    <3>1. PICK t \in Sessions : t = sv.sessions[b]
      BY <1>1, <1>2, <2>1, SessionRange
    <3> QED BY <1>1, <1>2, <1>3, <2>1, <3>1 DEF Placed
  <2>2. ASSUME NEW t \in sw.disconnected
        PROVE  sw.session[t].status = "added" /\ sw.sessions[AccountOf[t]] # t
    <3>1. t \in Sessions /\ t \in sv.disconnected
      BY <1>1, <1>2 DEF Shape
    <3> QED BY <1>1, <1>2, <1>3, <3>1 DEF Placed
  <2>3. ASSUME NEW t \in Sessions, sw.session[t].loading
        PROVE  sw.session[t].status = "added" /\ sw.sessions[AccountOf[t]] = t
    <3>1. CASE t # s
      BY <1>1, <1>2, <2>3, <3>1 DEF Placed
    <3>2. CASE t = s
      <4>1. sv.sessions[AccountOf[s]] = s /\ AccountOf[s] \in Accounts /\ s # None
        BY <1>2, <2>3, <3>2, AttributesAssumption, NoneAssumption
      <4>2. sv.session[s].status = "added"
        BY <1>1, <4>1 DEF Placed
      <4> QED BY <1>2, <1>3, <3>2, <4>1, <4>2
    <3> QED BY <3>1, <3>2
  <2> QED BY <2>1, <2>2, <2>3 DEF Placed
<1> QED BY <1>2, <1>4, <1>5 DEF Control

(* The session `s' of the map comes to play `c', which another one may have *)
(* played.                                                                  *)
Plays(sv, sw, s, c) ==
  /\ Shape(sw) /\ sw.sessions = sv.sessions /\ sw.disconnected = sv.disconnected
  /\ sw.session[s].player = c /\ ~sw.session[s].loading
  /\ sw.session[s].status = sv.session[s].status
  /\ sw.character[c].session = s
  /\ \A d \in Characters \ {c} : sw.character[d] = sv.character[d]
  /\ \A t \in Sessions \ {s} :
       /\ sw.session[t].status = sv.session[t].status
       /\ sw.session[t].loading = sv.session[t].loading
       /\ sw.session[t].player = IF t = sv.character[c].session THEN None
                                 ELSE sv.session[t].player

LEMMA PlaysControl ==
  ASSUME NEW sv, Control(sv), NEW s \in Sessions, NEW c \in Characters,
         sv.sessions[AccountOf[s]] = s, sv.session[s].player = None,
         AccountOf[s] = OwnerOf[c], NEW sw, Plays(sv, sw, s, c)
  PROVE  Control(sw)
<1>1. Shape(sv) /\ Playing(sv) /\ Placed(sv) /\ Shape(sw)
  BY DEF Control, Plays
<1>2. s # None /\ c # None /\ AccountOf[s] \in Accounts
  BY NoneAssumption, AttributesAssumption
<1>3. sv.session[s].status = "added"
  BY <1>1, <1>2 DEF Placed
<1>4. sv.character[c].session # s
  BY <1>1, <1>2 DEF Playing
<1>5. Playing(sw)
  <2>1. ASSUME NEW d \in Characters, sw.character[d].session # None
        PROVE  /\ sw.session[sw.character[d].session].status = "added"
               /\ sw.session[sw.character[d].session].player = d
               /\ AccountOf[sw.character[d].session] = OwnerOf[d]
    <3>1. CASE d = c
      BY <1>3, <3>1 DEF Plays
    <3>2. CASE d # c
      <4>1. sw.character[d] = sv.character[d]
        BY <3>2 DEF Plays
      <4>2. PICK t \in Sessions : t = sv.character[d].session
        BY <1>1, <2>1, <4>1, SessionRange
      <4>3. sv.session[t].status = "added" /\ sv.session[t].player = d /\ AccountOf[t] = OwnerOf[d]
        BY <1>1, <2>1, <4>1, <4>2 DEF Playing
      <4>4. t # s
        BY <4>3, NoneAssumption
      <4>5. t # sv.character[c].session
        BY <1>1, <3>2, <4>3, NoneAssumption DEF Playing
      <4> QED BY <4>1, <4>2, <4>3, <4>4, <4>5 DEF Plays
    <3> QED BY <3>1, <3>2
  <2>2. ASSUME NEW d \in Characters, sw.character[d].inWorld
        PROVE  sw.character[d].session # None
    BY <1>1, <1>2, <2>2 DEF Playing, Plays
  <2>3. ASSUME NEW t \in Sessions, sw.session[t].player # None
        PROVE  /\ sw.session[t].status = "added" /\ ~sw.session[t].loading
               /\ sw.character[sw.session[t].player].session = t
    <3>1. CASE t = s
      BY <1>3, <3>1 DEF Plays
    <3>2. CASE t # s
      <4>1. /\ sw.session[t].player = sv.session[t].player
            /\ t # sv.character[c].session
            /\ sw.session[t].status = sv.session[t].status
            /\ sw.session[t].loading = sv.session[t].loading
        BY <2>3, <3>2 DEF Plays
      <4>2. PICK d \in Characters : d = sv.session[t].player
        BY <1>1, <2>3, <4>1, SessionRange
      <4>3. sv.session[t].status = "added" /\ ~sv.session[t].loading
            /\ sv.character[d].session = t
        BY <1>1, <2>3, <4>1, <4>2 DEF Playing
      <4>4. d # c
        BY <4>1, <4>3
      <4> QED BY <4>1, <4>2, <4>3, <4>4 DEF Plays
    <3> QED BY <3>1, <3>2
  <2> QED BY <2>1, <2>2, <2>3 DEF Playing
<1>6. \A t \in Sessions : /\ sw.session[t].status = sv.session[t].status
                          /\ sw.session[t].loading => sv.session[t].loading
  BY DEF Plays
<1>7. Placed(sw)
  <2>1. sw.sessions = sv.sessions /\ sw.disconnected = sv.disconnected
    BY DEF Plays
  <2>2. ASSUME NEW b \in Accounts, sw.sessions[b] # None
        PROVE  AccountOf[sw.sessions[b]] = b /\ sw.session[sw.sessions[b]].status = "added"
    <3>1. PICK t \in Sessions : t = sv.sessions[b]
      BY <1>1, <2>1, <2>2, SessionRange
    <3> QED BY <1>1, <1>6, <2>1, <2>2, <3>1 DEF Placed
  <2>3. ASSUME NEW t \in sw.disconnected
        PROVE  sw.session[t].status = "added" /\ sw.sessions[AccountOf[t]] # t
    <3>1. t \in Sessions /\ t \in sv.disconnected
      BY <1>1, <2>1 DEF Shape
    <3> QED BY <1>1, <1>6, <2>1, <3>1 DEF Placed
  <2>4. ASSUME NEW t \in Sessions, sw.session[t].loading
        PROVE  sw.session[t].status = "added" /\ sw.sessions[AccountOf[t]] = t
    BY <1>1, <1>6, <2>1, <2>4 DEF Placed
  <2> QED BY <2>2, <2>3, <2>4 DEF Placed
<1> QED BY <1>1, <1>5, <1>7 DEF Control

LEMMA LoadEffect ==
  ASSUME NEW sv, Control(sv), NEW s \in Sessions, NEW c \in Characters,
         sv.character[c].session = None, NEW sw, sw = LoadFromDB(sv, s, c)
  PROVE  Plays(sv, sw, s, c)
<1>1. Shape(sv) /\ sv.session[s] \in SessionState
  BY DEF Control, Shape
<1>2. PICK x, f, g : /\ x = [sv.session[s] EXCEPT !.player = c, !.loading = FALSE]
                     /\ f = [sv.session EXCEPT ![s] = x]
                     /\ g = [sv.character EXCEPT ![c] = [session |-> s, inWorld |-> TRUE]]
  OBVIOUS
<1>3. x \in SessionState /\ x.player = c /\ ~x.loading /\ x.status = sv.session[s].status
  BY <1>1, <1>2 DEF SessionState
<1>4. sw = [sv EXCEPT !.session = f, !.character = g]
  BY <1>1, <1>2 DEF LoadFromDB, Shape
<1>5. /\ f \in [Sessions -> SessionState] /\ f[s] = x
      /\ \A t \in Sessions \ {s} : f[t] = sv.session[t]
      /\ g \in [Characters -> [session : Sessions \cup {None}, inWorld : BOOLEAN]]
      /\ g[c].session = s
      /\ \A d \in Characters \ {c} : g[d] = sv.character[d]
  BY <1>1, <1>2, <1>3 DEF Shape
<1>6. Shape(sw) /\ sw.session = f /\ sw.character = g /\ sw.sessions = sv.sessions
      /\ sw.disconnected = sv.disconnected
  BY <1>1, <1>4, <1>5 DEF Shape
<1>7. \A t \in Sessions : t # sv.character[c].session
  BY NoneAssumption
<1> QED BY <1>3, <1>5, <1>6, <1>7 DEF Plays

LEMMA TakeOverEffect ==
  ASSUME NEW sv, Control(sv), NEW s \in Sessions, NEW c \in Characters,
         sv.character[c].inWorld, sv.session[s].player = None,
         NEW sw, sw = TakeOver(sv, s, c)
  PROVE  Plays(sv, sw, s, c)
<1>1. Shape(sv) /\ sv.session[s] \in SessionState /\ Playing(sv)
  BY DEF Control, Shape
<1>2. PICK u \in Sessions : u = sv.character[c].session
  BY <1>1, SessionRange DEF Playing
<1>3. u # s
  BY <1>1, <1>2, NoneAssumption DEF Playing
<1>4. PICK x, y, f, g : /\ x = [sv.session[s] EXCEPT !.player = c, !.loading = FALSE]
                        /\ y = [sv.session[u] EXCEPT !.player = None]
                        /\ f = [sv.session EXCEPT ![u] = y, ![s] = x]
                        /\ g = [sv.character EXCEPT ![c].session = s]
  OBVIOUS
<1>5. /\ x \in SessionState /\ x.player = c /\ ~x.loading /\ x.status = sv.session[s].status
      /\ y \in SessionState /\ y.player = None /\ y.status = sv.session[u].status
      /\ y.loading = sv.session[u].loading
  <2>1. sv.session[u] \in SessionState
    BY <1>1 DEF Shape
  <2> QED BY <1>1, <1>4, <2>1 DEF SessionState
<1>6. sw = [sv EXCEPT !.session = f, !.character = g]
  <2>1. PICK su : su = [sv EXCEPT !.session[u].player = None]
    OBVIOUS
  <2>2. PICK sp : sp = [su EXCEPT !.session[s].player = c]
    OBVIOUS
  <2>3. PICK sl : sl = [sp EXCEPT !.session[s].loading = FALSE]
    OBVIOUS
  <2>4. sw = [sl EXCEPT !.character[c].session = s]
    BY <1>2, <2>1, <2>2, <2>3 DEF TakeOver
  <2>5. su = [sv EXCEPT !.session = [sv.session EXCEPT ![u] = y]]
    BY <1>1, <1>4, <2>1 DEF Shape
  <2>6. PICK z : z = [sv.session[s] EXCEPT !.player = c]
    OBVIOUS
  <2>7. sp = [sv EXCEPT !.session = [sv.session EXCEPT ![u] = y, ![s] = z]]
    BY <1>1, <1>3, <2>2, <2>5, <2>6 DEF Shape
  <2>8. x = [z EXCEPT !.loading = FALSE]
    BY <1>4, <2>6
  <2>9. sl = [sv EXCEPT !.session = f]
    BY <1>1, <1>3, <1>4, <2>3, <2>7, <2>8 DEF Shape
  <2>10. sl.character = sv.character
    BY <1>1, <2>9 DEF Shape
  <2> QED BY <1>1, <1>4, <2>4, <2>9, <2>10 DEF Shape
<1>7. /\ f \in [Sessions -> SessionState] /\ f[s] = x /\ f[u] = y
      /\ \A t \in Sessions \ {s, u} : f[t] = sv.session[t]
      /\ g \in [Characters -> [session : Sessions \cup {None}, inWorld : BOOLEAN]]
      /\ g[c].session = s
      /\ \A d \in Characters \ {c} : g[d] = sv.character[d]
  <2>1. f \in [Sessions -> SessionState]
    <3>1. sv.session \in [Sessions -> SessionState] /\ x \in SessionState /\ y \in SessionState
      BY <1>1, <1>5 DEF Shape
    <3> QED BY <1>4, <3>1
  <2>2. f[s] = x /\ f[u] = y /\ \A t \in Sessions \ {s, u} : f[t] = sv.session[t]
    <3>1. sv.session \in [Sessions -> SessionState] /\ s \in Sessions /\ u \in Sessions /\ s # u
      BY <1>1, <1>3 DEF Shape
    <3> QED BY <1>4, <3>1
  <2>3. sv.character \in [Characters -> [session : Sessions \cup {None}, inWorld : BOOLEAN]]
    BY <1>1 DEF Shape
  <2>4. /\ g \in [Characters -> [session : Sessions \cup {None}, inWorld : BOOLEAN]]
        /\ g[c].session = s /\ \A d \in Characters \ {c} : g[d] = sv.character[d]
    BY <1>4, <2>3
  <2> QED BY <2>1, <2>2, <2>4
<1>8. Shape(sw) /\ sw.session = f /\ sw.character = g /\ sw.sessions = sv.sessions
      /\ sw.disconnected = sv.disconnected
  BY <1>1, <1>6, <1>7 DEF Shape
<1> QED BY <1>2, <1>3, <1>5, <1>7, <1>8 DEF Plays

(* A player leaves the world or comes back. *)
LEMMA WorldControl ==
  ASSUME NEW sv, Control(sv), NEW c \in Characters, sv.character[c].session # None,
         NEW sw, sw = [sv EXCEPT !.character[c].inWorld = ~@]
  PROVE  /\ Control(sw) /\ sw.session = sv.session /\ sw.sessions = sv.sessions
         /\ sw.disconnected = sv.disconnected
<1>1. Shape(sv) /\ Playing(sv) /\ Placed(sv)
  BY DEF Control
<1>2. PICK g : g = [sv.character EXCEPT ![c].inWorld = ~@]
  OBVIOUS
<1>3. /\ g \in [Characters -> [session : Sessions \cup {None}, inWorld : BOOLEAN]]
      /\ \A d \in Characters : g[d].session = sv.character[d].session
      /\ \A d \in Characters \ {c} : g[d] = sv.character[d]
  BY <1>1, <1>2 DEF Shape
<1>4. sw = [sv EXCEPT !.character = g]
  BY <1>2
<1>5. Shape(sw) /\ sw.session = sv.session /\ sw.character = g /\ sw.sessions = sv.sessions
      /\ sw.disconnected = sv.disconnected
  BY <1>1, <1>3, <1>4 DEF Shape
<1>6. Playing(sw)
  <2>1. \A d \in Characters : sw.character[d].inWorld => sw.character[d].session # None
    BY <1>1, <1>3, <1>5 DEF Playing
  <2>2. \A d \in Characters : sw.character[d].session # None =>
             /\ sw.session[sw.character[d].session].status = "added"
             /\ sw.session[sw.character[d].session].player = d
             /\ AccountOf[sw.character[d].session] = OwnerOf[d]
    <3>1. \A d \in Characters : sw.character[d].session = sv.character[d].session
      BY <1>3, <1>5
    <3>2. \A d \in Characters : sv.character[d].session # None =>
             /\ sv.session[sv.character[d].session].status = "added"
             /\ sv.session[sv.character[d].session].player = d
             /\ AccountOf[sv.character[d].session] = OwnerOf[d]
      BY <1>1 DEF Playing
    <3> QED BY <1>5, <3>1, <3>2
  <2>3. ASSUME NEW t \in Sessions, sw.session[t].player # None
        PROVE  /\ sw.session[t].status = "added" /\ ~sw.session[t].loading
               /\ sw.character[sw.session[t].player].session = t
    BY <1>1, <1>3, <1>5, <2>3, SessionRange DEF Playing
  <2> QED BY <2>1, <2>2, <2>3 DEF Playing
<1>7. Placed(sw)
  BY <1>1, <1>5 DEF Placed
<1> QED BY <1>5, <1>6, <1>7 DEF Control

(* Erasing one element of a sequence moves the later ones down. *)
LEMMA RemoveAtIndices ==
  ASSUME NEW S, NEW q \in Seq(S), NEW i \in DOMAIN q
  PROVE  /\ RemoveAt(q, i) \in Seq(S)
         /\ DOMAIN RemoveAt(q, i) = 1 .. (Len(q) - 1)
         /\ \A k \in 1 .. (Len(q) - 1) : RemoveAt(q, i)[k] = IF k < i THEN q[k] ELSE q[k + 1]
<1> DEFINE p == SubSeq(q, 1, i - 1)
           r == SubSeq(q, i + 1, Len(q))
<1>1. i \in 1 .. Len(q) /\ Len(q) \in Nat /\ DOMAIN q = 1 .. Len(q)
  OBVIOUS
<1>2. /\ p \in Seq(S) /\ Len(p) = i - 1 /\ \A k \in 1 .. (i - 1) : p[k] = q[k]
      /\ r \in Seq(S) /\ Len(r) = Len(q) - i /\ \A k \in 1 .. (Len(q) - i) : r[k] = q[i + k]
  <2>1. /\ p \in Seq(S) /\ Len(p) = IF 1 <= i - 1 THEN (i - 1) - 1 + 1 ELSE 0
        /\ \A k \in 1 .. (i - 1) - 1 + 1 : p[k] = q[1 + k - 1]
    <3>1. 1 \in Int /\ i - 1 \in Int /\ \A k \in 1 .. (i - 1) : q[k] \in S
      BY <1>1
    <3> QED BY <3>1, SubSeqProperties
  <2>2. /\ r \in Seq(S) /\ Len(r) = IF i + 1 <= Len(q) THEN Len(q) - (i + 1) + 1 ELSE 0
        /\ \A k \in 1 .. Len(q) - (i + 1) + 1 : r[k] = q[i + 1 + k - 1]
    <3>1. i + 1 \in Int /\ Len(q) \in Int /\ \A k \in i + 1 .. Len(q) : q[k] \in S
      BY <1>1
    <3> QED BY <3>1, SubSeqProperties
  <2> HIDE DEF p, r
  <2>3. Len(p) = i - 1 /\ (i - 1) - 1 + 1 = i - 1 /\ Len(r) = Len(q) - i
        /\ Len(q) - (i + 1) + 1 = Len(q) - i
    BY <1>1, <2>1, <2>2
  <2>4. \A k \in 1 .. (i - 1) : p[k] = q[k]
    BY <1>1, <2>1, <2>3
  <2>5. \A k \in 1 .. (Len(q) - i) : r[k] = q[i + k]
    <3>1. ASSUME NEW k \in 1 .. (Len(q) - i) PROVE r[k] = q[i + 1 + k - 1] /\ i + 1 + k - 1 = i + k
      BY <1>1, <2>2, <2>3
    <3> QED BY <3>1
  <2> QED BY <2>1, <2>2, <2>3, <2>4, <2>5
<1>3. RemoveAt(q, i) = p \o r
  BY DEF RemoveAt
<1> HIDE DEF p, r
<1>4. PICK z : z = RemoveAt(q, i)
  OBVIOUS
<1>5. /\ z \in Seq(S) /\ Len(z) = Len(q) - 1 /\ DOMAIN z = 1 .. (Len(q) - 1)
      /\ \A k \in 1 .. (Len(q) - 1) : z[k] = IF k < i THEN q[k] ELSE q[k + 1]
  <2>1. z \in Seq(S) /\ Len(z) = Len(q) - 1
    <3>1. z \in Seq(S) /\ Len(z) = Len(p) + Len(r)
      BY <1>2, <1>3, <1>4
    <3> QED BY <1>1, <1>2, <3>1
  <2>2. ASSUME NEW k \in 1 .. (Len(q) - 1)
        PROVE  z[k] = IF k < i THEN q[k] ELSE q[k + 1]
    <3>1. CASE k < i
      BY <1>1, <1>2, <1>3, <1>4, <3>1
    <3>2. CASE ~(k < i)
      <4>1. k - (i - 1) \in 1 .. (Len(q) - i)
        BY <1>1, <3>2
      <4>2. z[k] = r[k - (i - 1)]
        <5>1. k \in 1 .. (Len(p) + Len(r)) /\ ~(k <= Len(p))
          BY <1>1, <1>2, <3>2
        <5>2. p \in Seq(S) /\ r \in Seq(S) /\ z = p \o r
          BY <1>2, <1>3, <1>4
        <5>3. z[k] = IF k <= Len(p) THEN p[k] ELSE r[k - Len(p)]
          BY <5>1, <5>2, ConcatProperties
        <5> QED BY <1>2, <5>1, <5>3
      <4>3. r[k - (i - 1)] = q[i + (k - (i - 1))]
        BY <1>2, <4>1
      <4>4. i + (k - (i - 1)) = k + 1
        BY <1>1
      <4> QED BY <3>2, <4>2, <4>3, <4>4
    <3> QED BY <3>1, <3>2
  <2> QED BY <1>1, <2>1, <2>2
<1> QED BY <1>4, <1>5

(* Erasing one element of a sequence keeps the others. *)
LEMMA RemoveAtElements ==
  ASSUME NEW S, NEW q \in Seq(S), NEW i \in DOMAIN q
  PROVE  /\ RemoveAt(q, i) \in Seq(S)
         /\ \A k \in DOMAIN RemoveAt(q, i) : \E j \in DOMAIN q : RemoveAt(q, i)[k] = q[j]
         /\ \A j \in DOMAIN q \ {i} : \E k \in DOMAIN RemoveAt(q, i) : RemoveAt(q, i)[k] = q[j]
<1>1. i \in 1 .. Len(q) /\ Len(q) \in Nat /\ DOMAIN q = 1 .. Len(q)
  OBVIOUS
<1>4. PICK z : z = RemoveAt(q, i)
  OBVIOUS
<1>5. /\ z \in Seq(S) /\ DOMAIN z = 1 .. (Len(q) - 1)
      /\ \A k \in 1 .. (Len(q) - 1) : z[k] = IF k < i THEN q[k] ELSE q[k + 1]
  BY <1>4, RemoveAtIndices
<1>6. \A k \in DOMAIN z : \E j \in DOMAIN q : z[k] = q[j]
  <2>1. ASSUME NEW k \in DOMAIN z PROVE \E j \in DOMAIN q : z[k] = q[j]
    <3>1. CASE k < i
      BY <1>1, <1>5, <3>1
    <3>2. CASE ~(k < i)
      <4>1. k + 1 \in DOMAIN q /\ z[k] = q[k + 1]
        BY <1>1, <1>5, <3>2
      <4> QED BY <4>1
    <3> QED BY <3>1, <3>2
  <2> QED BY <2>1
<1>7. \A j \in DOMAIN q \ {i} : \E k \in DOMAIN z : z[k] = q[j]
  <2>1. ASSUME NEW j \in DOMAIN q \ {i} PROVE \E k \in DOMAIN z : z[k] = q[j]
    <3>1. CASE j < i
      <4>1. j \in DOMAIN z /\ z[j] = q[j]
        BY <1>1, <1>5, <3>1
      <4> QED BY <4>1
    <3>2. CASE ~(j < i)
      <4>1. j - 1 \in DOMAIN z /\ ~(j - 1 < i) /\ j - 1 + 1 = j
        BY <1>1, <1>5, <3>2
      <4>2. z[j - 1] = q[j]
        BY <1>5, <4>1
      <4> QED BY <4>1, <4>2
    <3> QED BY <3>1, <3>2
  <2> QED BY <2>1
<1> QED BY <1>4, <1>5, <1>6, <1>7

-----------------------------------------------------------------------------
(* The steps. *)

LEMMA QuietKeeps ==
  ASSUME HoldersInv, ArrivingInv, Quiet(server, server')
  PROVE  /\ UNCHANGED holders => HoldersInv'
         /\ UNCHANGED addSessQueue => ArrivingInv'
<1>1. ASSUME UNCHANGED holders PROVE HoldersInv'
  BY <1>1 DEF HoldersInv, Quiet
<1>2. ASSUME UNCHANGED addSessQueue PROVE ArrivingInv'
  <2>1. \A i \in DOMAIN addSessQueue : addSessQueue[i] \in Sessions
    BY DEF ArrivingInv
  <2> QED BY <1>2, <2>1 DEF ArrivingInv, Quiet
<1> QED BY <1>1, <1>2

LEMMA LoopKept ==
  ASSUME LoopInv, todo' = todo,
         \/ pc' \notin {"update", "disconnected"}
         \/ pc' = pc /\ server'.sessions = server.sessions
                     /\ server'.disconnected = server.disconnected
  PROVE  LoopInv'
BY DEF LoopInv

LEMMA SameStep ==
  ASSUME IInv, SameControl(server, server'), UNCHANGED <<addSessQueue, holders, todo>>,
         pc' = pc \/ pc' \notin {"update", "disconnected"}
  PROVE  IInv'
<1>1. Shape(server) /\ HoldersInv /\ ArrivingInv /\ LoopInv
  BY DEF IInv, Control
<1>2. PICK sw : sw = server'
  OBVIOUS
<1>3. Control(server')
  BY <1>2, SameKeepsControl DEF IInv
<1>4. Quiet(server, server')
  BY DEF SameControl, Quiet
<1>5. HoldersInv' /\ ArrivingInv'
  BY <1>1, <1>4, QuietKeeps
<1>6. LoopInv'
  BY <1>1, LoopKept DEF SameControl
<1> QED BY <1>3, <1>5, <1>6 DEF IInv

LEMMA AdmitStep == IInv /\ AdmitQueued => IInv'
<1> SUFFICES ASSUME IInv, AdmitQueued PROVE IInv'
  OBVIOUS
<1>1. Shape(server)
  BY DEF IInv, Control
<1>2. PICK l, pop, sv : /\ sv = [server EXCEPT !.playerLimit = l]
                        /\ server' = AdmitRegion(AdmitRegion(sv, 0, pop), 1, pop)
  BY DEF AdmitQueued
<1>3. SameControl(server, sv) /\ Shape(sv)
  <2>1. SameControl(server, server)
    BY <1>1, SameReflexive
  <2>2. SameControl(server, sv)
    BY <1>2, <2>1, SameOthers
  <2> QED BY <2>2 DEF SameControl
<1>4. PICK sa : sa = AdmitRegion(sv, 0, pop)
  OBVIOUS
<1>5. SameControl(sv, sa)
  BY <1>3, <1>4, AdmitRegionSame
<1>6. Shape(sa)
  BY <1>5 DEF SameControl
<1>7. SameControl(sa, server')
  BY <1>2, <1>4, <1>6, AdmitRegionSame
<1>8. PICK sw : sw = server'
  OBVIOUS
<1>9. SameControl(server, sa)
  BY <1>3, <1>5, SameTransitive
<1>10. SameControl(server, server')
  BY <1>7, <1>8, <1>9, SameTransitive
<1> QED BY <1>10, SameStep DEF AdmitQueued

LEMMA TailArriving ==
  ASSUME ArrivingInv, addSessQueue # << >>, addSessQueue' = Tail(addSessQueue),
         \A t \in Sessions : /\ t # Head(addSessQueue)
                             /\ server.session[t].status = "waiting"
                             => server'.session[t].status = "waiting"
  PROVE  ArrivingInv'
<1>1. /\ addSessQueue \in Seq(Sessions) /\ Tail(addSessQueue) \in Seq(Sessions)
      /\ Head(addSessQueue) = addSessQueue[1] /\ 1 \in DOMAIN addSessQueue
  BY DEF ArrivingInv
<1>2. \A i \in DOMAIN Tail(addSessQueue) :
        /\ i + 1 \in DOMAIN addSessQueue /\ i + 1 # 1
        /\ Tail(addSessQueue)[i] = addSessQueue[i + 1]
  BY <1>1
<1>3. ASSUME NEW i \in DOMAIN Tail(addSessQueue)
      PROVE  server'.session[Tail(addSessQueue)[i]].status = "waiting"
  <2>1. PICK j \in DOMAIN addSessQueue : j = i + 1 /\ j # 1 /\ Tail(addSessQueue)[i] = addSessQueue[j]
    BY <1>2
  <2>2. addSessQueue[j] # addSessQueue[1]
    BY <1>1, <2>1 DEF ArrivingInv
  <2>3. addSessQueue[j] \in Sessions /\ server.session[addSessQueue[j]].status = "waiting"
    BY <1>1 DEF ArrivingInv
  <2> QED BY <1>1, <2>1, <2>2, <2>3
<1>4. ASSUME NEW i \in DOMAIN Tail(addSessQueue), NEW j \in DOMAIN Tail(addSessQueue), i # j
      PROVE  Tail(addSessQueue)[i] # Tail(addSessQueue)[j]
  <2>1. i \in Nat /\ j \in Nat
    BY <1>1
  <2>2. i + 1 # j + 1
    BY <1>4, <2>1
  <2>3. addSessQueue[i + 1] # addSessQueue[j + 1]
    BY <1>2, <2>2 DEF ArrivingInv
  <2> QED BY <1>2, <2>3
<1> QED BY <1>1, <1>3, <1>4 DEF ArrivingInv

LEMMA AddNextStep == IInv /\ AddNext => IInv'
<1> SUFFICES ASSUME IInv, AddNext PROVE IInv'
  OBVIOUS
<1>1. Control(server) /\ Shape(server) /\ HoldersInv /\ ArrivingInv /\ LoopInv
  BY DEF IInv, Control
<1>2. PICK s \in Sessions : s = Head(addSessQueue) /\ server.session[s].status = "waiting"
  <2>1. addSessQueue \in Seq(Sessions) /\ addSessQueue # << >>
    BY <1>1 DEF ArrivingInv, AddNext
  <2>2. 1 \in DOMAIN addSessQueue /\ Head(addSessQueue) = addSessQueue[1]
        /\ addSessQueue[1] \in Sessions
    BY <2>1
  <2> QED BY <1>1, <2>2 DEF ArrivingInv
<1>3. PICK sv : sv = [server EXCEPT !.session[s].status = "added"]
  OBVIOUS
<1>4. PICK x : x = [server.session[s] EXCEPT !.status = "added"]
  OBVIOUS
<1>5. server.session[s].status # "added" /\ server.session[s].player = None
      /\ ~server.session[s].loading /\ s \notin server.disconnected
      /\ server.sessions[AccountOf[s]] # s
  BY <1>1, <1>2, OutsideUnused, AttributesAssumption
<1>6. x \in SessionState /\ x.status = "added" /\ x.player = None /\ ~x.loading
  <2>1. server.session[s] \in SessionState
    BY <1>1 DEF Shape
  <2> QED BY <1>4, <1>5, <2>1 DEF SessionState
<1>7. sv = [server EXCEPT !.session[s] = x]
  BY <1>3, <1>4
<1>8. Control(sv)
  BY <1>1, <1>5, <1>6, <1>7, StatusControl
<1>9. /\ sv.session[s] = x /\ \A t \in Sessions \ {s} : sv.session[t] = server.session[t]
      /\ sv.disconnected = server.disconnected /\ sv.sessions = server.sessions
  BY <1>1, <1>7 DEF Shape
<1>10. Fresh(sv, s)
  BY <1>5, <1>6, <1>9 DEF Fresh
<1>11. server' = AddSession_(sv, s)
  BY <1>2, <1>3 DEF AddNext
<1>12. PICK sw : sw = server'
  OBVIOUS
<1>13. Control(server') /\ Quiet(sv, server')
  BY <1>8, <1>10, <1>11, <1>12, AddSessionControl
<1>14. HoldersInv'
  <2>1. holders' = holders
    BY DEF AddNext
  <2>2. ASSUME NEW t \in Sessions, server'.session[t].loading
        PROVE  server.session[t].loading
    BY <1>6, <1>9, <1>13, <2>2 DEF Quiet
  <2> QED BY <1>1, <2>1, <2>2 DEF HoldersInv
<1>15. ArrivingInv'
  <2>1. \A t \in Sessions : t # s /\ server.session[t].status = "waiting"
                             => server'.session[t].status = "waiting"
    BY <1>9, <1>13 DEF Quiet
  <2> QED BY <1>1, <1>2, <2>1, TailArriving DEF AddNext
<1>16. LoopInv'
  BY <1>1, LoopKept DEF AddNext
<1> QED BY <1>13, <1>14, <1>15, <1>16 DEF IInv

(* The ends of the loops, and what only closes a socket or counts. *)
LEMMA LoopEndStep ==
  IInv /\ (AddEnd \/ UpdateEnd \/ DisconnectedEnd \/ StopNow \/ Stopped) => IInv'
<1> SUFFICES ASSUME IInv, AddEnd \/ UpdateEnd \/ DisconnectedEnd \/ StopNow \/ Stopped
             PROVE  IInv'
  OBVIOUS
<1>1. Control(server) /\ Shape(server) /\ Placed(server) /\ HoldersInv /\ ArrivingInv /\ LoopInv
  BY DEF IInv, Control
<1>2. UNCHANGED <<server, addSessQueue, holders>>
  BY DEF AddEnd, UpdateEnd, DisconnectedEnd, StopNow, Stopped, vars
<1>3. Control(server') /\ HoldersInv' /\ ArrivingInv'
  BY <1>1, <1>2 DEF HoldersInv, ArrivingInv
<1>4. CASE AddEnd
  <2>1. \A s \in InMap(server) : s \in Sessions /\ server.sessions[AccountOf[s]] = s
    BY <1>1, SessionRange DEF InMap, Placed
  <2> QED BY <1>2, <1>3, <1>4, <2>1 DEF AddEnd, LoopInv, IInv
<1>5. CASE UpdateEnd
  BY <1>1, <1>2, <1>3, <1>5 DEF UpdateEnd, LoopInv, IInv, Shape
<1>6. CASE DisconnectedEnd
  BY <1>1, <1>2, <1>3, <1>6 DEF DisconnectedEnd, LoopInv, IInv
<1>7. CASE StopNow \/ Stopped
  BY <1>1, <1>2, <1>3, <1>7 DEF StopNow, Stopped, vars, LoopInv, IInv
<1> QED BY <1>4, <1>5, <1>6, <1>7

LEMMA OutsideStep ==
  IInv /\ (TickEnd \/ (\E s \in Sessions : SocketClose(s) \/ KeepDisconnected(s))
                   \/ \E a \in Accounts : GraceEnds(a)) => IInv'
<1> SUFFICES ASSUME IInv, TickEnd \/ (\E s \in Sessions : SocketClose(s) \/ KeepDisconnected(s))
                          \/ \E a \in Accounts : GraceEnds(a)
             PROVE  IInv'
  OBVIOUS
<1>1. Shape(server) /\ SameControl(server, server)
  BY SameReflexive DEF IInv, Control
<1>2. CASE TickEnd
  <2>1. SameControl(server, server')
    BY <1>1, <1>2, KickAllSame DEF TickEnd
  <2> QED BY <1>2, <2>1, SameStep DEF TickEnd
<1>3. ASSUME NEW s \in Sessions, SocketClose(s) PROVE IInv'
  <2>1. PICK sw : sw = server'
    OBVIOUS
  <2>2. sw = [server EXCEPT !.session[s].socket = "closed"]
    BY <1>3, <2>1 DEF SocketClose
  <2>3. SameControl(server, server')
    BY <1>1, <2>1, <2>2, SessionFields
  <2> QED BY <1>3, <2>3, SameStep DEF SocketClose
<1>4. ASSUME NEW s \in Sessions, KeepDisconnected(s) PROVE IInv'
  <2>1. UNCHANGED <<server, addSessQueue, holders, pc>> /\ todo' \subseteq todo
    BY <1>4 DEF KeepDisconnected
  <2>2. LoopInv' /\ HoldersInv' /\ ArrivingInv'
    BY <2>1 DEF IInv, LoopInv, HoldersInv, ArrivingInv
  <2> QED BY <2>1, <2>2 DEF IInv
<1>5. ASSUME NEW a \in Accounts, GraceEnds(a) PROVE IInv'
  <2>1. PICK x : server' = [server EXCEPT !.lastLogout = x]
    BY <1>5 DEF GraceEnds
  <2>2. SameControl(server, server')
    BY <1>1, <2>1, SameOthers
  <2> QED BY <1>5, <2>2, SameStep DEF GraceEnds
<1> QED BY <1>2, <1>3, <1>4, <1>5

LEMMA DropStep ==
  ASSUME IInv, NEW s \in Sessions, DropDisconnected(s)
  PROVE  IInv'
<1>1. Control(server) /\ Shape(server) /\ Playing(server) /\ Placed(server)
      /\ HoldersInv /\ ArrivingInv /\ LoopInv
  BY DEF IInv, Control
<1>2. s \in server.disconnected /\ todo \subseteq server.disconnected
  BY <1>1 DEF DropDisconnected, LoopInv
<1>3. PICK D, sv : D = server.disconnected \ {s} /\ sv = [server EXCEPT !.disconnected = D]
  OBVIOUS
<1>4. /\ Shape(sv) /\ sv.session = server.session /\ sv.character = server.character
      /\ sv.sessions = server.sessions /\ sv.disconnected = D
  BY <1>1, <1>3 DEF Shape
<1>5. Control(sv)
  <2>1. Playing(sv)
    BY <1>1, <1>4 DEF Playing
  <2>2. Placed(sv)
    BY <1>1, <1>3, <1>4 DEF Placed
  <2> QED BY <1>4, <2>1, <2>2 DEF Control
<1>6. sv.sessions[AccountOf[s]] # s /\ s \notin sv.disconnected
      /\ sv.session[s].status = "added"
  BY <1>1, <1>2, <1>3, <1>4 DEF Placed
<1>7. PICK sw : sw = server'
  OBVIOUS
<1>8. sw = DeleteSession(sv, s)
  BY <1>3, <1>7 DEF DropDisconnected
<1>9. Deleted(sv, sw, s)
  BY <1>4, <1>8, DeleteEffect
<1>10. Control(server')
  BY <1>5, <1>6, <1>7, <1>9, DeletePlaceless
<1>11. Quiet(server, server')
  <2>1. Quiet(sv, sw)
    BY <1>4, <1>6, <1>9, QuietEffects
  <2> QED BY <1>4, <1>7, <2>1 DEF Quiet
<1>12. HoldersInv' /\ ArrivingInv'
  BY <1>1, <1>11, QuietKeeps DEF DropDisconnected
<1>13. LoopInv'
  <2>1. server'.disconnected = server.disconnected \ {s}
    BY <1>3, <1>4, <1>7, <1>9 DEF Deleted, SameRest
  <2> QED BY <1>1, <1>2, <2>1 DEF DropDisconnected, LoopInv
<1> QED BY <1>10, <1>12, <1>13 DEF IInv

(* A session leaves the map: the loop has only others left to update. *)
LEMMA LeaveStep ==
  ASSUME IInv, NEW s \in Sessions, pc = "update", s \in todo, Control(server'),
         Quiet(server, server'), todo' \subseteq todo \ {s},
         UNCHANGED <<addSessQueue, holders, pc>>,
         \/ server'.sessions = server.sessions
         \/ server'.sessions = [server.sessions EXCEPT ![AccountOf[s]] = None]
  PROVE  IInv'
<1>1. Shape(server) /\ HoldersInv /\ ArrivingInv /\ LoopInv
  BY DEF IInv, Control
<1>2. HoldersInv' /\ ArrivingInv'
  BY <1>1, QuietKeeps
<1>3. ASSUME NEW t \in todo'
      PROVE  t \in Sessions /\ server'.sessions[AccountOf[t]] = t
  <2>1. /\ t \in Sessions /\ t # s /\ server.sessions[AccountOf[t]] = t
        /\ server.sessions[AccountOf[s]] = s
        /\ AccountOf[t] \in Accounts /\ AccountOf[s] \in Accounts
    BY <1>1, AttributesAssumption DEF LoopInv
  <2>2. AccountOf[t] # AccountOf[s]
    BY <2>1
  <2> QED BY <1>1, <2>1, <2>2 DEF Shape
<1>4. LoopInv'
  BY <1>3 DEF LoopInv
<1> QED BY <1>2, <1>4 DEF IInv

LEMMA RequestStep ==
  ASSUME IInv, NEW s \in Sessions, pc = "update", s \in todo, NEW c \in Characters,
         LoginRequest(s, c), todo' = todo \ {s}, UNCHANGED <<addSessQueue, pc>>
  PROVE  IInv'
<1>1. Control(server) /\ Shape(server) /\ Placed(server) /\ HoldersInv /\ ArrivingInv /\ LoopInv
  BY DEF IInv, Control
<1>2. PICK x : x = [server.session[s] EXCEPT !.loading = TRUE]
  OBVIOUS
<1>3. /\ x \in SessionState /\ x.status = server.session[s].status /\ x.loading
      /\ x.player = server.session[s].player /\ x.player = None
  <2>1. server.session[s] \in SessionState
    BY <1>1 DEF Shape
  <2> QED BY <1>2, <2>1 DEF SessionState, LoginRequest
<1>4. server' = [server EXCEPT !.session[s] = x]
  BY <1>1, <1>2 DEF LoginRequest, Shape
<1>5. server.sessions[AccountOf[s]] = s
  BY <1>1 DEF LoopInv
<1>6. PICK sw : sw = server'
  OBVIOUS
<1>7. Control(server')
  BY <1>1, <1>3, <1>4, <1>5, <1>6, LoadingControl
<1>8. /\ server'.session[s] = x
      /\ \A t \in Sessions \ {s} : server'.session[t] = server.session[t]
      /\ server'.sessions = server.sessions
  BY <1>1, <1>4 DEF Shape
<1>9. PICK h \in [account : Accounts, char : Characters] :
        h.account = AccountOf[s] /\ h.account = OwnerOf[h.char] /\ holders' = Append(holders, h)
  BY AttributesAssumption DEF LoginRequest
<1>10. /\ holders' \in Seq([account : Accounts, char : Characters])
       /\ DOMAIN holders' = 1 .. (Len(holders) + 1) /\ DOMAIN holders = 1 .. Len(holders)
       /\ Len(holders) \in Nat
       /\ holders'[Len(holders) + 1] = h
       /\ \A i \in DOMAIN holders : holders'[i] = holders[i]
  BY <1>1, <1>9 DEF HoldersInv
<1>11. HoldersInv'
  <2>1. ASSUME NEW i \in DOMAIN holders'
        PROVE  holders'[i].account = OwnerOf[holders'[i].char]
    <3>1. CASE i = Len(holders) + 1
      BY <1>9, <1>10, <3>1
    <3>2. CASE i # Len(holders) + 1
      <4>1. i \in DOMAIN holders
        BY <1>10, <3>2
      <4> QED BY <1>1, <1>10, <4>1 DEF HoldersInv
    <3> QED BY <3>1, <3>2
  <2>2. ASSUME NEW t \in Sessions, server'.session[t].loading
        PROVE  \E i \in DOMAIN holders' : holders'[i].account = AccountOf[t]
    <3>1. CASE t = s
      <4>1. Len(holders) + 1 \in DOMAIN holders'
        BY <1>10
      <4> QED BY <1>9, <1>10, <3>1, <4>1
    <3>2. CASE t # s
      <4>1. PICK i \in DOMAIN holders : holders[i].account = AccountOf[t]
        BY <1>1, <1>8, <2>2, <3>2 DEF HoldersInv
      <4>2. i \in DOMAIN holders'
        BY <1>10
      <4> QED BY <1>10, <4>1, <4>2
    <3> QED BY <3>1, <3>2
  <2> QED BY <1>10, <2>1, <2>2 DEF HoldersInv
<1>12. ArrivingInv'
  <2>1. \A t \in Sessions : server'.session[t].status = server.session[t].status
    BY <1>3, <1>8
  <2>2. \A i \in DOMAIN addSessQueue : addSessQueue[i] \in Sessions
    BY <1>1 DEF ArrivingInv
  <2> QED BY <1>1, <2>1, <2>2 DEF ArrivingInv
<1>13. LoopInv'
  BY <1>1, <1>8 DEF LoopInv
<1> QED BY <1>7, <1>11, <1>12, <1>13 DEF IInv

LEMMA UpdateStep ==
  ASSUME IInv, NEW s \in Sessions, UpdateSession(s)
  PROVE  IInv'
<1>1. Control(server) /\ Shape(server) /\ Playing(server)
  BY DEF IInv, Control
<1>2. /\ pc = "update" /\ s \in todo /\ UNCHANGED <<addSessQueue, pc>>
      /\ server.sessions[AccountOf[s]] = s
  BY DEF UpdateSession, IInv, LoopInv
<1>3. PICK sw : sw = server'
  OBVIOUS
<1>4. CASE SocketGone(s)
  <2>1. PICK sv : sv = [server EXCEPT !.session[s].socket = "null"]
    OBVIOUS
  <2>2. SameControl(server, sv) /\ Shape(sv)
    <3>1. SameControl(server, sv)
      BY <1>1, <2>1, SessionFields
    <3> QED BY <3>1 DEF SameControl
  <2>3. Control(sv) /\ Quiet(server, sv)
    BY <1>1, <2>2, SameKeepsControl, QuietEffects
  <2>4. sv.sessions[AccountOf[s]] = s /\ sv.sessions = server.sessions
    BY <1>2, <2>2 DEF SameControl
  <2>5. UNCHANGED holders
    BY <1>4 DEF SocketGone
  <2>6. CASE CanDelayLogout(sv, s)
    <3>1. sw = SetSessionDisconnected(sv, s) /\ todo' \subseteq todo \ {s}
      BY <1>3, <1>4, <2>1, <2>6 DEF SocketGone
    <3>2. Moved(sv, sw, s)
      BY <2>2, <3>1, MoveEffect
    <3>3. ~sv.session[s].loading
      BY <2>3, <2>6 DEF CanDelayLogout, Control, Playing
    <3>4. Control(sw)
      BY <2>3, <2>4, <3>2, <3>3, MoveControl
    <3>5. Quiet(sv, sw)
      BY <2>2, <3>2, QuietEffects
    <3>6. Quiet(server, sw)
      BY <2>3, <3>5, QuietTransitive
    <3>7. sw.sessions = [server.sessions EXCEPT ![AccountOf[s]] = None]
      BY <2>4, <3>2 DEF Moved
    <3> QED BY <1>2, <1>3, <2>5, <3>1, <3>4, <3>6, <3>7, LeaveStep
  <2>7. CASE ~CanDelayLogout(sv, s)
    <3>1. sw = RemoveSession(sv, s) /\ todo' = todo \ {s}
      BY <1>3, <1>4, <2>1, <2>7 DEF SocketGone
    <3>2. Control(sw) /\ Quiet(sv, sw)
          /\ sw.sessions = [sv.sessions EXCEPT ![AccountOf[s]] = None]
      BY <2>3, <2>4, <3>1, RemoveControl
    <3>3. Quiet(server, sw)
      BY <2>3, <3>2, QuietTransitive
    <3> QED BY <1>2, <1>3, <2>4, <2>5, <3>1, <3>2, <3>3, LeaveStep
  <2> QED BY <2>6, <2>7
<1>5. ASSUME UNCHANGED <<server, holders>>, todo' = todo \ {s} PROVE IInv'
  BY <1>1, <1>2, <1>5, LeaveStep DEF Quiet
<1>6. ASSUME NEW c \in Characters, LoginRequest(s, c), todo' = todo \ {s} PROVE IInv'
  BY <1>2, <1>6, RequestStep
<1>7. ASSUME LogoutDue(s), UNCHANGED holders, todo' = todo \ {s} PROVE IInv'
  <2>1. LoggedOut(server, sw, s)
    BY <1>1, <1>3, <1>7, LogoutEffect DEF LogoutDue
  <2>2. Control(sw) /\ Quiet(server, sw)
    BY <1>1, <2>1, LogoutKeepsControl, QuietEffects
  <2>3. sw.sessions = server.sessions
    BY <2>1 DEF LoggedOut, SameRest
  <2> QED BY <1>2, <1>3, <1>7, <2>2, <2>3, LeaveStep
<1>8. ASSUME IdleKick(s), UNCHANGED holders, todo' = todo \ {s} PROVE IInv'
  <2>1. sw = RemoveSession(server, s)
    BY <1>3, <1>8 DEF IdleKick
  <2>2. Control(sw) /\ Quiet(server, sw)
        /\ sw.sessions = [server.sessions EXCEPT ![AccountOf[s]] = None]
    BY <1>1, <1>2, <2>1, RemoveControl
  <2> QED BY <1>2, <1>3, <1>8, <2>2, LeaveStep
<1> QED BY <1>4, <1>5, <1>6, <1>7, <1>8 DEF UpdateSession

(* What the callback of a login query makes of the server. *)
LEMMA EndLoadingEffect ==
  ASSUME NEW sv, Control(sv), NEW s \in Sessions, NEW sw, sw = EndLoading(sv, s)
  PROVE  /\ Control(sw) /\ Quiet(sv, sw) /\ ~sw.session[s].loading
         /\ sw.sessions = sv.sessions /\ sw.disconnected = sv.disconnected
<1>1. Shape(sv) /\ sv.session[s] \in SessionState
  BY DEF Control, Shape
<1>2. PICK x : x = [sv.session[s] EXCEPT !.loading = FALSE]
  OBVIOUS
<1>3. /\ x \in SessionState /\ x.status = sv.session[s].status /\ ~x.loading
      /\ x.player = sv.session[s].player
  BY <1>1, <1>2 DEF SessionState
<1>4. sw = [sv EXCEPT !.session[s] = x]
  BY <1>1, <1>2 DEF EndLoading, Shape
<1>5. Control(sw)
  BY <1>3, <1>4, LoadingControl
<1>6. /\ sw.session[s] = x /\ \A t \in Sessions \ {s} : sw.session[t] = sv.session[t]
      /\ sw.sessions = sv.sessions /\ sw.disconnected = sv.disconnected
  BY <1>1, <1>4 DEF Shape
<1> QED BY <1>3, <1>5, <1>6 DEF Quiet

LEMMA LoginEffect ==
  ASSUME Control(server), NEW h \in [account : Accounts, char : Characters],
         h.account = OwnerOf[h.char], NEW sw, HandlePlayerLogin(h, sw)
  PROVE  /\ Control(sw) /\ Quiet(server, sw)
         /\ sw.sessions = server.sessions /\ sw.disconnected = server.disconnected
         /\ \A t \in Sessions : sw.session[t].loading => AccountOf[t] # h.account
<1>1. Shape(server) /\ Playing(server) /\ Placed(server)
  BY DEF Control
<1>2. PICK s, c : s = server.sessions[h.account] /\ c = h.char
  OBVIOUS
<1>3. h.account \in Accounts /\ c \in Characters /\ h.account = OwnerOf[c]
  BY <1>2
<1>4. \A t \in Sessions : server.session[t].loading => server.sessions[AccountOf[t]] = t
  BY <1>1 DEF Placed
<1>5. CASE s = None
  <2>1. sw = server
    BY <1>2, <1>5 DEF HandlePlayerLogin
  <2>2. ASSUME NEW t \in Sessions, sw.session[t].loading PROVE AccountOf[t] # h.account
    <3>1. server.sessions[AccountOf[t]] = t
      BY <1>4, <2>1, <2>2
    <3>2. server.sessions[h.account] # t
      BY <1>2, <1>5, NoneAssumption
    <3> QED BY <3>1, <3>2
  <2>3. Quiet(server, sw)
    BY <2>1 DEF Quiet
  <2>4. Control(sw)
    BY <2>1
  <2> QED BY <2>1, <2>2, <2>3, <2>4
<1>6. CASE s # None
  <2>1. s \in Sessions /\ AccountOf[s] = h.account /\ server.sessions[AccountOf[s]] = s
    BY <1>1, <1>2, <1>3, <1>6, SessionRange DEF Placed
  <2>2. SUFFICES /\ Control(sw) /\ Quiet(server, sw) /\ ~sw.session[s].loading
                 /\ sw.sessions = server.sessions /\ sw.disconnected = server.disconnected
    BY <1>2, <1>4, <2>1 DEF Quiet
  <2>3. CASE sw = EndLoading(server, s)
    BY <2>1, <2>3, EndLoadingEffect
  <2>4. CASE sw = LoginRefused(server, s)
    <3>1. PICK sk : sk = KickPlayer(server, s)
      OBVIOUS
    <3>2. SameControl(server, sk)
      BY <1>1, <2>1, <3>1, KickPlayerSame
    <3>3. Control(sk) /\ Quiet(server, sk)
      BY <1>1, <2>1, <3>2, SameKeepsControl, QuietEffects
    <3>4. /\ Control(sw) /\ Quiet(sk, sw) /\ ~sw.session[s].loading
          /\ sw.sessions = sk.sessions /\ sw.disconnected = sk.disconnected
      BY <2>1, <2>4, <3>1, <3>3, EndLoadingEffect DEF LoginRefused
    <3>5. Quiet(server, sw)
      BY <3>3, <3>4, QuietTransitive
    <3> QED BY <3>2, <3>4, <3>5 DEF SameControl
  <2>5. ASSUME Plays(server, sw, s, c), server.session[s].player = None
        PROVE  /\ Control(sw) /\ Quiet(server, sw) /\ ~sw.session[s].loading
               /\ sw.sessions = server.sessions /\ sw.disconnected = server.disconnected
    <3>1. Control(sw)
      BY <1>3, <2>1, <2>5, PlaysControl
    <3> QED BY <2>5, <3>1 DEF Plays, Quiet
  <2>6. CASE sw = TakeOver(server, s, c) /\ server.character[c].inWorld
             /\ server.session[s].player = None
    BY <1>3, <2>1, <2>5, <2>6, TakeOverEffect
  <2>7. CASE sw = LoadFromDB(server, s, c) /\ server.character[c].session = None
             /\ server.session[s].player = None
    BY <1>3, <2>1, <2>5, <2>7, LoadEffect
  <2> QED BY <1>2, <1>6, <2>3, <2>4, <2>6, <2>7 DEF HandlePlayerLogin
<1> QED BY <1>5, <1>6

LEMMA CallbackStep ==
  ASSUME IInv, NEW i, LoginCallback(i)
  PROVE  IInv'
<1>1. Control(server) /\ HoldersInv /\ ArrivingInv /\ LoopInv
  BY DEF IInv
<1>2. PICK h, sw : h = holders[i] /\ sw = server'
  OBVIOUS
<1>3. /\ i \in DOMAIN holders /\ HandlePlayerLogin(h, sw) /\ holders' = RemoveAt(holders, i)
      /\ pc = "world" /\ UNCHANGED <<addSessQueue, pc, todo>>
  BY <1>2 DEF LoginCallback
<1>4. h \in [account : Accounts, char : Characters] /\ h.account = OwnerOf[h.char]
      /\ holders \in Seq([account : Accounts, char : Characters])
  <2>1. PICK R : R = [account : Accounts, char : Characters]
    OBVIOUS
  <2>2. holders \in Seq(R) /\ holders[i].account = OwnerOf[holders[i].char]
    BY <1>1, <1>3, <2>1 DEF HoldersInv
  <2>3. holders[i] \in R
    BY <1>3, <2>2
  <2> QED BY <1>2, <2>1, <2>2, <2>3
<1>5. /\ Control(sw) /\ Quiet(server, sw)
      /\ \A t \in Sessions : sw.session[t].loading => AccountOf[t] # h.account
  BY <1>1, <1>3, <1>4, LoginEffect
<1>6. /\ holders' \in Seq([account : Accounts, char : Characters])
      /\ \A k \in DOMAIN holders' : \E j \in DOMAIN holders : holders'[k] = holders[j]
      /\ \A j \in DOMAIN holders \ {i} : \E k \in DOMAIN holders' : holders'[k] = holders[j]
  BY <1>3, <1>4, RemoveAtElements
<1>7. HoldersInv'
  <2>1. \A k \in DOMAIN holders' : holders'[k].account = OwnerOf[holders'[k].char]
    BY <1>1, <1>6 DEF HoldersInv
  <2>2. ASSUME NEW t \in Sessions, server'.session[t].loading
        PROVE  \E k \in DOMAIN holders' : holders'[k].account = AccountOf[t]
    <3>1. server.session[t].loading /\ AccountOf[t] # h.account
      BY <1>2, <1>5, <2>2 DEF Quiet
    <3>2. PICK j \in DOMAIN holders : holders[j].account = AccountOf[t]
      BY <1>1, <3>1 DEF HoldersInv
    <3>3. j # i
      BY <1>2, <3>1, <3>2
    <3> QED BY <1>6, <3>2, <3>3
  <2> QED BY <1>6, <2>1, <2>2 DEF HoldersInv
<1>8. ArrivingInv'
  BY <1>1, <1>2, <1>3, <1>5, QuietKeeps
<1>9. LoopInv'
  BY <1>1, <1>3, LoopKept
<1> QED BY <1>2, <1>5, <1>7, <1>8, <1>9 DEF IInv

LEMMA WorldStep ==
  ASSUME IInv, NEW c \in Characters, WorldChanges(c)
  PROVE  IInv'
<1>1. Control(server) /\ HoldersInv /\ ArrivingInv /\ LoopInv
  BY DEF IInv
<1>2. PICK sw : sw = server'
  OBVIOUS
<1>3. Control(sw) /\ sw.session = server.session
  BY <1>1, <1>2, WorldControl DEF WorldChanges
<1>4. Quiet(server, server')
  BY <1>2, <1>3 DEF Quiet
<1>5. HoldersInv' /\ ArrivingInv'
  BY <1>1, <1>4, QuietKeeps DEF WorldChanges
<1>6. LoopInv'
  BY <1>1, LoopKept DEF WorldChanges
<1> QED BY <1>2, <1>3, <1>5, <1>6 DEF IInv

LEMMA ConnectStep ==
  ASSUME IInv, NEW s \in Sessions, Connect(s)
  PROVE  IInv'
<1>1. Control(server) /\ Shape(server) /\ HoldersInv /\ ArrivingInv /\ LoopInv
  BY DEF IInv, Control
<1>2. server.session[s].status = "unused"
  BY DEF Connect
<1>3. server.session[s].player = None /\ ~server.session[s].loading
  BY <1>1, <1>2, OutsideUnused
<1>4. PICK y, x : /\ y = [server.session[s] EXCEPT !.status = "waiting"]
                  /\ x = [y EXCEPT !.socket = "open"]
  OBVIOUS
<1>5. x \in SessionState /\ x.status = "waiting" /\ x.player = None /\ ~x.loading
  <2>1. server.session[s] \in SessionState
    BY <1>1 DEF Shape
  <2>2. y \in SessionState /\ y.status = "waiting" /\ y.player = None /\ ~y.loading
    BY <1>3, <1>4, <2>1 DEF SessionState
  <2> QED BY <1>4, <2>2 DEF SessionState
<1>6. PICK sw : sw = server'
  OBVIOUS
<1>7. sw = [server EXCEPT !.session[s] = x]
  BY <1>1, <1>4, <1>6 DEF Connect, Shape
<1>8. Control(sw)
  BY <1>1, <1>2, <1>5, <1>7, StatusControl
<1>9. /\ sw.session[s] = x /\ \A t \in Sessions \ {s} : sw.session[t] = server.session[t]
      /\ sw.sessions = server.sessions /\ sw.disconnected = server.disconnected
  BY <1>1, <1>7 DEF Shape
<1>10. Quiet(server, server')
  BY <1>2, <1>5, <1>6, <1>9 DEF Quiet
<1>11. HoldersInv'
  BY <1>1, <1>10, QuietKeeps DEF Connect
<1>12. ArrivingInv'
  <2>1. /\ addSessQueue' \in Seq(Sessions) /\ Len(addSessQueue) \in Nat
        /\ DOMAIN addSessQueue' = 1 .. (Len(addSessQueue) + 1)
        /\ DOMAIN addSessQueue = 1 .. Len(addSessQueue)
        /\ addSessQueue'[Len(addSessQueue) + 1] = s
        /\ \A i \in DOMAIN addSessQueue : /\ addSessQueue'[i] = addSessQueue[i]
                                          /\ addSessQueue[i] \in Sessions
    BY <1>1 DEF ArrivingInv, Connect
  <2>2. \A i \in DOMAIN addSessQueue : /\ server.session[addSessQueue[i]].status = "waiting"
                                       /\ addSessQueue[i] # s
    BY <1>1, <1>2 DEF ArrivingInv
  <2>3. ASSUME NEW i \in DOMAIN addSessQueue'
        PROVE  server'.session[addSessQueue'[i]].status = "waiting"
    <3>1. CASE i = Len(addSessQueue) + 1
      BY <1>5, <1>6, <1>9, <2>1, <3>1
    <3>2. CASE i # Len(addSessQueue) + 1
      <4>1. i \in DOMAIN addSessQueue
        BY <2>1, <3>2
      <4> QED BY <1>6, <1>9, <2>1, <2>2, <4>1
    <3> QED BY <3>1, <3>2
  <2>4. ASSUME NEW i \in DOMAIN addSessQueue', NEW j \in DOMAIN addSessQueue', i # j
        PROVE  addSessQueue'[i] # addSessQueue'[j]
    <3>1. CASE i \in DOMAIN addSessQueue /\ j \in DOMAIN addSessQueue
      BY <1>1, <2>1, <2>4, <3>1 DEF ArrivingInv
    <3>2. CASE i = Len(addSessQueue) + 1 /\ j \in DOMAIN addSessQueue
      BY <2>1, <2>2, <3>2
    <3>3. CASE i \in DOMAIN addSessQueue /\ j = Len(addSessQueue) + 1
      BY <2>1, <2>2, <3>3
    <3> QED BY <2>1, <2>4, <3>1, <3>2, <3>3
  <2> QED BY <2>1, <2>3, <2>4 DEF ArrivingInv
<1>13. LoopInv'
  BY <1>1, <1>6, <1>9, LoopKept DEF Connect
<1> QED BY <1>6, <1>8, <1>11, <1>12, <1>13 DEF IInv

-----------------------------------------------------------------------------
LEMMA InitControl == Init => IInv
<1> SUFFICES ASSUME Init PROVE IInv
  OBVIOUS
<1>1. NewSession \in SessionState /\ NewSession.status = "unused" /\ NewSession.player = None
      /\ ~NewSession.loading
  BY DEF NewSession, SessionState
<1>2. Shape(server) /\ \A s \in Sessions : server.session[s] = NewSession
  <2>1. server.session = [s \in Sessions |-> NewSession]
        /\ server.character = [c \in Characters |-> Offline]
        /\ server.sessions = [a \in Accounts |-> None] /\ server.disconnected = {}
    BY DEF Init
  <2>2. PICK q, l, n, i, z :
          server = [session |-> server.session, character |-> server.character,
                    sessions |-> server.sessions, disconnected |-> server.disconnected,
                    queue |-> q, playerLimit |-> l, logged |-> n, connections |-> i,
                    lastLogout |-> z]
    BY <2>1 DEF Init
  <2>3. Offline \in [session : Sessions \cup {None}, inWorld : BOOLEAN]
    BY DEF Offline
  <2> QED BY <1>1, <2>1, <2>2, <2>3 DEF Shape
<1>3. Playing(server) /\ Placed(server)
  <2>1. \A c \in Characters : server.character[c].session = None /\ ~server.character[c].inWorld
    BY DEF Init, Offline
  <2>2. \A a \in Accounts : server.sessions[a] = None
    BY DEF Init
  <2>3. server.disconnected = {}
    BY DEF Init
  <2> QED BY <1>1, <1>2, <2>1, <2>2, <2>3 DEF Playing, Placed
<1>4. HoldersInv /\ ArrivingInv /\ LoopInv
  BY <1>1, <1>2 DEF Init, HoldersInv, ArrivingInv, LoopInv
<1> QED BY <1>2, <1>3, <1>4 DEF IInv, Control

LEMMA StepControl == IInv /\ [Next]_vars => IInv'
<1> SUFFICES ASSUME IInv, [Next]_vars PROVE IInv'
  OBVIOUS
<1>1. CASE Tick
  <2>1. CASE AdmitQueued \/ AddNext
    BY <2>1, AdmitStep, AddNextStep
  <2>2. CASE AddEnd \/ UpdateEnd \/ DisconnectedEnd
    BY <2>2, LoopEndStep
  <2>3. CASE TickEnd \/ \E s \in Sessions : KeepDisconnected(s)
    BY <2>3, OutsideStep
  <2>4. ASSUME NEW s \in Sessions, UpdateSession(s) PROVE IInv'
    BY <2>4, UpdateStep
  <2>5. ASSUME NEW s \in Sessions, DropDisconnected(s) PROVE IInv'
    BY <2>5, DropStep
  <2> QED BY <1>1, <2>1, <2>2, <2>3, <2>4, <2>5 DEF Tick
<1>2. ASSUME NEW i \in 1 .. MaxHolders, LoginCallback(i) PROVE IInv'
  BY <1>2, CallbackStep
<1>3. ASSUME NEW c \in Characters, WorldChanges(c) PROVE IInv'
  BY <1>3, WorldStep
<1>4. ASSUME NEW s \in Sessions, Connect(s) PROVE IInv'
  BY <1>4, ConnectStep
<1>5. CASE (\E s \in Sessions : SocketClose(s)) \/ \E a \in Accounts : GraceEnds(a)
  BY <1>5, OutsideStep
<1>6. CASE StopNow \/ Stopped
  BY <1>6, LoopEndStep
<1>7. CASE UNCHANGED vars
  <2>1. /\ server' = server /\ addSessQueue' = addSessQueue /\ holders' = holders
        /\ pc' = pc /\ todo' = todo
    BY <1>7 DEF vars
  <2> QED BY <2>1 DEF IInv, HoldersInv, ArrivingInv, LoopInv
<1> QED BY <1>1, <1>2, <1>3, <1>4, <1>5, <1>6, <1>7 DEF Next

(* Whatever kicks, replacements, disconnections and relogins there are, a   *)
(* player in the world and the session that plays it point to each other,   *)
(* and a session that loads a character is in the map under its account     *)
(* while a query of that account is under way.                              *)
THEOREM ControlHolds == Spec => []ControlInv
<1>1. IInv => ControlInv
  BY DEF IInv, Control, Playing, Placed, HoldersInv, ControlInv, OneController,
         LoadingIsAnswered, Live
<1> QED BY <1>1, InitControl, StepControl, PTL DEF Spec

-----------------------------------------------------------------------------
(* Sequences of queue entries: what is taken out and ages keeps its order.   *)

(* Numbers: the least, the cap on the priorities.                           *)
LEMMA MinOfTwo ==
  ASSUME NEW a \in Int, NEW b \in Int, NEW T, \A z : z \in T <=> z = a \/ z = b
  PROVE  Min(T) = IF a <= b THEN a ELSE b
<1>1. \E z \in T : \A y \in T : z =< y
  OBVIOUS
<1>2. Min(T) \in T /\ \A y \in T : Min(T) =< y
  BY <1>1 DEF Min
<1> QED BY <1>2

LEMMA FiniteIsBounded ==
  ASSUME NEW S \in SUBSET Nat, IsFiniteSet(S)
  PROVE  \E b \in Nat : \A x \in S : x <= b
<1> DEFINE Unbounded == {T \in SUBSET S : ~\E b \in Nat : \A x \in T : x <= b}
<1>1. SUFFICES ASSUME S \in Unbounded PROVE FALSE
  OBVIOUS
<1>2. Unbounded \subseteq FiniteSubsetsOf(S)
  BY FS_Subset DEF FiniteSubsetsOf
<1>3. PICK T \in Unbounded : \A U \in Unbounded : ~(<<U, T>> \in StrictSubsetOrdering(S))
  <2>1. IsWellFoundedOn(StrictSubsetOrdering(S), FiniteSubsetsOf(S))
    BY FS_StrictSubsetOrderingWellFounded
  <2> HIDE DEF Unbounded
  <2> QED BY <1>1, <1>2, <2>1, WFMin
<1>4. PICK x \in T : TRUE
  <2>1. T # {}
    OBVIOUS
  <2> QED BY <2>1
<1>5. T \ {x} \notin Unbounded
  <2>1. T \ {x} \subseteq T /\ T \ {x} # T /\ T \in SUBSET S /\ T \ {x} \in SUBSET S
    BY <1>4
  <2>2. <<T \ {x}, T>> \in StrictSubsetOrdering(S)
    BY <2>1 DEF StrictSubsetOrdering
  <2> HIDE DEF Unbounded
  <2> QED BY <1>3, <2>2
<1>6. PICK b \in Nat : \A y \in T \ {x} : y <= b
  BY <1>5
<1>7. x \in Nat
  OBVIOUS
<1>8. PICK d \in Nat : x <= d /\ b <= d
  BY <1>7
<1>9. \A y \in T : y <= d
  <2>1. \A y \in T : y \in Nat
    OBVIOUS
  <2> QED BY <1>6, <1>7, <1>8, <2>1
<1> QED BY <1>9

(* A set of naturals has a least element: its initial segments are finite   *)
(* sets, which are well-founded under inclusion.                            *)
LEMMA LeastNumber ==
  ASSUME NEW T \in SUBSET Nat, T # {}
  PROVE  \E n \in T : \A m \in T : n <= m
<1> DEFINE Segments == {0 .. n : n \in T}
<1>1. Segments \subseteq FiniteSubsetsOf(Nat)
  <2>1. ASSUME NEW n \in T PROVE IsFiniteSet(0 .. n)
    BY FS_Interval
  <2> QED BY <2>1 DEF FiniteSubsetsOf
<1>2. PICK S \in Segments : \A U \in Segments : ~(<<U, S>> \in StrictSubsetOrdering(Nat))
  <2>1. IsWellFoundedOn(StrictSubsetOrdering(Nat), FiniteSubsetsOf(Nat))
    BY FS_StrictSubsetOrderingWellFounded
  <2>2. Segments # {}
    OBVIOUS
  <2> HIDE DEF Segments
  <2> QED BY <1>1, <2>1, <2>2, WFMin
<1>3. PICK n \in T : S = 0 .. n
  OBVIOUS
<1>4. ASSUME NEW m \in T, ~(n <= m) PROVE FALSE
  <2>1. 0 .. m \subseteq 0 .. n /\ 0 .. m \in SUBSET Nat /\ 0 .. n \in SUBSET Nat
    BY <1>4
  <2>2. 0 .. m # 0 .. n
    <3>1. n \in 0 .. n /\ n \notin 0 .. m
      BY <1>4
    <3> QED BY <3>1
  <2>3. <<0 .. m, 0 .. n>> \in StrictSubsetOrdering(Nat)
    BY <2>1, <2>2 DEF StrictSubsetOrdering
  <2> QED BY <1>2, <1>3, <2>3
<1> QED BY <1>4

LEMMA PriorityBounds ==
  ASSUME NEW s \in Sessions
  PROVE  PriorityCap \in Nat /\ BasePriority[s] \in Nat /\ BasePriority[s] < PriorityCap
<1> DEFINE P == {BasePriority[t] : t \in Sessions}
           f == [t \in Sessions |-> BasePriority[t]]
<1>1. P \in SUBSET Nat /\ BasePriority[s] \in P
  BY AttributesAssumption
<1>2. IsFiniteSet(P)
  <2>1. f \in Surjection(Sessions, P)
    BY DEF Surjection
  <2> HIDE DEF f, P
  <2> QED BY <2>1, SessionsAssumption, FS_Surjection
<1>3. PICK b \in Nat : \A x \in P : x <= b
  <2> HIDE DEF P
  <2> QED BY <1>1, <1>2, FiniteIsBounded
<1> DEFINE B == {n \in Nat : \A x \in P : x <= n}
<1>4. PICK n \in B : \A m \in B : n <= m
  <2>1. B \in SUBSET Nat /\ B # {}
    BY <1>3
  <2> HIDE DEF B
  <2> QED BY <2>1, LeastNumber
<1>5. n \in P
  <2>1. SUFFICES ASSUME n \notin P PROVE FALSE
    OBVIOUS
  <2> HIDE DEF P
  <2>2. \A x \in P : x < n /\ x \in Nat
    BY <1>1, <1>4, <2>1
  <2>3. n > 0
    <3>1. n \in Nat
      BY <1>4
    <3>2. PICK z \in Nat : z = BasePriority[s] /\ z < n
      BY <1>1, <2>2
    <3> QED BY <3>1, <3>2
  <2>4. n - 1 \in B
    BY <1>4, <2>2, <2>3
  <2> QED BY <1>4, <2>4
<1>6. \E x \in P : \A y \in P : x >= y
  <2> HIDE DEF P
  <2> QED BY <1>1, <1>4, <1>5
<1>7. Max(P) \in P /\ \A y \in P : Max(P) >= y
  <2> HIDE DEF P
  <2> QED BY <1>6 DEF Max
<1>8. PriorityCap = 1 + Max(P)
  BY DEF PriorityCap
<1>9. PICK m, z : m = Max(P) /\ z = BasePriority[s]
  OBVIOUS
<1> HIDE DEF P
<1>10. m \in Nat /\ z \in Nat /\ m >= z
  BY <1>1, <1>7, <1>9
<1>11. PriorityCap = 1 + m
  BY <1>8, <1>9
<1> QED BY <1>9, <1>10, <1>11

-----------------------------------------------------------------------------
(* Queues.  A line has one entry for each session, in the order of the      *)

(* priorities.                                                              *)
Line(q) ==
  /\ q \in Seq(Entry)
  /\ \A i, j \in DOMAIN q : i # j => q[i].sess # q[j].sess
  /\ \A i, j \in DOMAIN q : i <= j => q[i].prio >= q[j].prio

Members(q) == {q[i].sess : i \in DOMAIN q}

Behind(q, s, t) == \E i, j \in DOMAIN q : i < j /\ q[i].sess = s /\ q[j].sess = t

(* The sessions of S leave the line q, which becomes p. *)
Shrinks(q, p, S) ==
  /\ Line(p) /\ S \subseteq Members(q) /\ Members(p) = Members(q) \ S
  /\ \A s, t : Behind(p, s, t) => Behind(q, s, t)

LEMMA Selection ==
  ASSUME NEW q, Line(q), NEW p \in Seq(Entry), NEW f \in [DOMAIN p -> DOMAIN q],
         \A k, l \in DOMAIN p : k < l => f[k] < f[l],
         \A k \in DOMAIN p : p[k].sess = q[f[k]].sess,
         \A k, l \in DOMAIN p : k <= l => p[k].prio >= p[l].prio,
         NEW S, \A s \in S : \E i \in DOMAIN q : q[i].sess = s,
         \A i \in DOMAIN q : q[i].sess \in S <=> \A k \in DOMAIN p : f[k] # i
  PROVE  Shrinks(q, p, S)
<1>1. \A k \in DOMAIN p : k \in Nat /\ f[k] \in DOMAIN q
  OBVIOUS
<1>2. Line(p)
  <2>1. ASSUME NEW k \in DOMAIN p, NEW l \in DOMAIN p, k # l
        PROVE  p[k].sess # p[l].sess
    <3>1. k < l \/ l < k
      BY <1>1, <2>1
    <3>2. f[k] \in Nat /\ f[l] \in Nat
      BY <1>1 DEF Line
    <3>3. f[k] # f[l]
      BY <3>1, <3>2
    <3> QED BY <1>1, <3>3 DEF Line
  <2> QED BY <2>1 DEF Line
<1>3. S \subseteq Members(q)
  BY DEF Members
<1>4. Members(p) = Members(q) \ S
  <2>1. ASSUME NEW k \in DOMAIN p PROVE p[k].sess \in Members(q) \ S
    BY <1>1 DEF Members
  <2>2. ASSUME NEW i \in DOMAIN q, q[i].sess \notin S PROVE q[i].sess \in Members(p)
    BY <2>2 DEF Members
  <2>3. Members(p) \subseteq Members(q) \ S
    BY <2>1 DEF Members
  <2>4. Members(q) \ S \subseteq Members(p)
    BY <2>2 DEF Members
  <2> QED BY <2>3, <2>4
<1>5. ASSUME NEW s, NEW t, Behind(p, s, t) PROVE Behind(q, s, t)
  <2>1. PICK k \in DOMAIN p, l \in DOMAIN p : k < l /\ p[k].sess = s /\ p[l].sess = t
    BY <1>5 DEF Behind
  <2>2. f[k] \in DOMAIN q /\ f[l] \in DOMAIN q /\ f[k] < f[l]
        /\ q[f[k]].sess = s /\ q[f[l]].sess = t
    BY <1>1, <2>1
  <2> QED BY <2>2 DEF Behind
<1> QED BY <1>2, <1>3, <1>4, <1>5 DEF Shrinks

LEMMA ShrinksNot ==
  ASSUME NEW q, Line(q) PROVE Shrinks(q, q, {})
BY DEF Shrinks, Members

LEMMA ShrinksAll ==
  ASSUME NEW q, Line(q) PROVE Shrinks(q, << >>, Members(q))
BY DEF Shrinks, Members, Line, Behind

LEMMA RemoveAtShrinks ==
  ASSUME NEW q, Line(q), NEW i \in DOMAIN q
  PROVE  Shrinks(q, RemoveAt(q, i), {q[i].sess})
<1>1. i \in 1 .. Len(q) /\ Len(q) \in Nat /\ DOMAIN q = 1 .. Len(q) /\ q \in Seq(Entry)
  BY DEF Line
<1>4. PICK p : p = RemoveAt(q, i)
  OBVIOUS
<1>6. p \in Seq(Entry) /\ DOMAIN p = 1 .. (Len(q) - 1)
  BY <1>1, <1>4, RemoveAtIndices
<1>7. \A k \in DOMAIN p : p[k] = IF k < i THEN q[k] ELSE q[k + 1]
  BY <1>1, <1>4, RemoveAtIndices
<1>8. PICK f : f = [k \in DOMAIN p |-> IF k < i THEN k ELSE k + 1]
  OBVIOUS
<1>9. /\ f \in [DOMAIN p -> DOMAIN q]
      /\ \A k, m \in DOMAIN p : k <= m => f[k] <= f[m]
      /\ \A k, m \in DOMAIN p : k < m => f[k] < f[m]
      /\ \A k \in DOMAIN p : f[k] # i
  BY <1>1, <1>6, <1>8
<1>10. \A k \in DOMAIN p : p[k] = q[f[k]]
  BY <1>7, <1>8
<1>11. \A k, m \in DOMAIN p : k <= m => p[k].prio >= p[m].prio
  BY <1>9, <1>10 DEF Line
<1>12. PICK S : S = {q[i].sess}
  OBVIOUS
<1>13. \A j \in DOMAIN q : q[j].sess \in S <=> \A k \in DOMAIN p : f[k] # j
  <2>1. ASSUME NEW j \in DOMAIN q, j # i PROVE q[j].sess \notin S /\ \E k \in DOMAIN p : f[k] = j
    <3>1. q[j].sess \notin S
      BY <1>12, <2>1 DEF Line
    <3>2. CASE j < i
      BY <1>1, <1>6, <1>8, <3>1, <3>2
    <3>3. CASE ~(j < i)
      <4>1. j - 1 \in DOMAIN p /\ ~(j - 1 < i) /\ j - 1 + 1 = j
        BY <1>1, <1>6, <2>1, <3>3
      <4>2. f[j - 1] = j
        BY <1>8, <4>1
      <4> QED BY <3>1, <4>1, <4>2
    <3> QED BY <3>2, <3>3
  <2>2. q[i].sess \in S /\ \A k \in DOMAIN p : f[k] # i
    BY <1>9, <1>12
  <2> QED BY <2>1, <2>2
<1>14. \A s \in S : \E j \in DOMAIN q : q[j].sess = s
  BY <1>12
<1>15. \A k \in DOMAIN p : p[k].sess = q[f[k]].sess
  BY <1>10
<1>16. Shrinks(q, p, S)
  BY <1>6, <1>9, <1>11, <1>13, <1>14, <1>15, Selection
<1> QED BY <1>4, <1>12, <1>16

(* The first `n' entries leave, and the others get older. *)
LEMMA AgingShrinks ==
  ASSUME NEW q, Line(q), NEW n \in 0 .. Len(q), NEW a \in Nat,
         NEW rest, rest = SubSeq(q, n + 1, Len(q)),
         NEW p0, p0 = [i \in DOMAIN rest |-> [rest[i] EXCEPT !.prio = Min({@ + a, PriorityCap})]]
  PROVE  Shrinks(q, p0, {q[i].sess : i \in 1 .. n})
<1>0. PICK p : p = p0
  OBVIOUS
<1>1. Len(q) \in Nat /\ DOMAIN q = 1 .. Len(q) /\ q \in Seq(Entry) /\ n \in Nat /\ n <= Len(q)
  BY DEF Line
<1>2. rest \in Seq(Entry) /\ DOMAIN rest = 1 .. (Len(q) - n)
      /\ \A k \in 1 .. (Len(q) - n) : rest[k] = q[n + k]
  <2>1. PICK m : m = n + 1
    OBVIOUS
  <2>2. m \in Int /\ Len(q) \in Int /\ \A i \in m .. Len(q) : q[i] \in Entry
    BY <1>1, <2>1
  <2>3. /\ rest \in Seq(Entry)
        /\ Len(rest) = IF m <= Len(q) THEN Len(q) - m + 1 ELSE 0
        /\ \A k \in 1 .. Len(q) - m + 1 : rest[k] = q[m + k - 1]
    BY <2>1, <2>2, SubSeqProperties
  <2>4. Len(rest) = Len(q) - n /\ Len(q) - m + 1 = Len(q) - n
    BY <1>1, <2>1, <2>3
  <2>5. \A k \in 1 .. (Len(q) - n) : m + k - 1 = n + k
    BY <1>1, <2>1
  <2> QED BY <2>3, <2>4, <2>5
<1>3. PICK f : f = [k \in DOMAIN rest |-> n + k]
  OBVIOUS
<1>4. /\ f \in [DOMAIN rest -> DOMAIN q]
      /\ \A k, m \in DOMAIN rest : k <= m => f[k] <= f[m]
      /\ \A k, m \in DOMAIN rest : k < m => f[k] < f[m]
      /\ \A k \in DOMAIN rest : f[k] > n /\ rest[k] = q[f[k]]
  <2>1. PICK l \in Nat : l = Len(q)
    BY <1>1
  <2>2. DOMAIN q = 1 .. l /\ DOMAIN rest = 1 .. (l - n) /\ n \in Nat
    BY <1>1, <1>2, <2>1
  <2>3. \A k \in DOMAIN rest : k \in Nat /\ f[k] = n + k
    BY <1>3, <2>2
  <2>4. \A k \in DOMAIN rest : n + k \in DOMAIN q /\ n + k > n
    BY <2>1, <2>2
  <2>5. f \in [DOMAIN rest -> DOMAIN q]
    BY <1>3, <2>4
  <2>6. \A k \in DOMAIN rest : rest[k] = q[n + k]
    BY <1>2
  <2>7. \A k, m \in DOMAIN rest : (k <= m => f[k] <= f[m]) /\ (k < m => f[k] < f[m])
    BY <2>2, <2>3
  <2> QED BY <2>3, <2>4, <2>5, <2>6, <2>7
<1>5. ASSUME NEW k \in DOMAIN rest
      PROVE  /\ p[k] \in Entry /\ p[k].sess = q[f[k]].sess
             /\ q[f[k]].prio \in Nat /\ PriorityCap \in Nat
             /\ p[k].prio = IF q[f[k]].prio + a <= PriorityCap THEN q[f[k]].prio + a
                            ELSE PriorityCap
  <2>1. PICK e \in Entry : e = q[f[k]] /\ e = rest[k]
    BY <1>1, <1>4
  <2>2. PriorityCap \in Nat /\ e.prio \in 0 .. PriorityCap /\ e.sess \in Sessions
    BY <2>1, PriorityBounds DEF Entry
  <2>3. PICK b \in Nat : b = e.prio + a
    BY <2>2
  <2>4. PICK T : T = {b, PriorityCap}
    OBVIOUS
  <2>10. PICK x : x = Min(T)
    OBVIOUS
  <2>9. x = IF b <= PriorityCap THEN b ELSE PriorityCap
    <3>1. \A z : z \in T <=> z = b \/ z = PriorityCap
      BY <2>4
    <3>2. b \in Int /\ PriorityCap \in Int
      BY <2>2, <2>3
    <3> QED BY <2>10, <3>1, <3>2, MinOfTwo
  <2>5. p[k] = [e EXCEPT !.prio = x]
    BY <1>0, <2>1, <2>3, <2>4, <2>10
  <2>6. x \in 0 .. PriorityCap
    BY <2>2, <2>3, <2>9
  <2>7. p[k] \in Entry /\ p[k].sess = e.sess /\ p[k].prio = x
    BY <2>5, <2>6 DEF Entry
  <2>8. q[f[k]].prio \in Nat
    BY <2>1, <2>2
  <2> QED BY <2>1, <2>2, <2>3, <2>9, <2>7, <2>8
<1>6. p \in Seq(Entry) /\ DOMAIN p = DOMAIN rest
  <2>1. PICK m \in Nat : m = Len(q) - n
    BY <1>1
  <2>2. DOMAIN p = DOMAIN rest /\ p = [k \in DOMAIN p |-> p[k]]
    BY <1>0
  <2>3. \A k \in 1 .. m : p[k] \in Entry
    BY <1>2, <1>5, <2>1
  <2>4. p \in [1 .. m -> Entry]
    BY <1>2, <2>1, <2>2, <2>3
  <2>5. p \in Seq(Entry)
    BY <2>1, <2>4, SeqDef
  <2> QED BY <2>2, <2>5
<1>7. \A k, m \in DOMAIN p : k <= m => p[k].prio >= p[m].prio
  <2>1. ASSUME NEW k \in DOMAIN p, NEW m \in DOMAIN p, k <= m PROVE p[k].prio >= p[m].prio
    <3>1. PICK x, y : x = q[f[k]].prio /\ y = q[f[m]].prio
      OBVIOUS
    <3>2. x >= y
      BY <1>4, <1>6, <2>1, <3>1 DEF Line
    <3>3. x \in Nat /\ y \in Nat /\ PriorityCap \in Nat
          /\ p[k].prio = (IF x + a <= PriorityCap THEN x + a ELSE PriorityCap)
          /\ p[m].prio = (IF y + a <= PriorityCap THEN y + a ELSE PriorityCap)
      BY <1>5, <1>6, <3>1
    <3>4. CASE x + a <= PriorityCap /\ y + a <= PriorityCap
      BY <3>2, <3>3, <3>4
    <3>5. CASE x + a <= PriorityCap /\ ~(y + a <= PriorityCap)
      BY <3>2, <3>3, <3>5
    <3>6. CASE ~(x + a <= PriorityCap)
      <4>1. p[k].prio = PriorityCap /\ p[m].prio <= PriorityCap /\ p[m].prio \in Nat
        BY <3>3, <3>6
      <4> QED BY <3>3, <4>1
    <3> QED BY <3>4, <3>5, <3>6
  <2> QED BY <2>1
<1>8. PICK S : S = {q[i].sess : i \in 1 .. n}
  OBVIOUS
<1>9. \A j \in DOMAIN q : q[j].sess \in S <=> \A k \in DOMAIN p : f[k] # j
  <2>1. ASSUME NEW j \in DOMAIN q, j <= n PROVE q[j].sess \in S /\ \A k \in DOMAIN p : f[k] # j
    <3>1. j \in 1 .. n
      BY <1>1, <2>1
    <3>2. \A k \in DOMAIN p : f[k] # j
      BY <1>1, <1>4, <1>6, <2>1
    <3> QED BY <1>8, <3>1, <3>2
  <2>2. ASSUME NEW j \in DOMAIN q, ~(j <= n)
        PROVE  q[j].sess \notin S /\ \E k \in DOMAIN p : f[k] = j
    <3>1. ASSUME NEW i \in 1 .. n PROVE q[i].sess # q[j].sess
      <4>1. i \in DOMAIN q /\ i # j
        BY <1>1, <2>2
      <4> QED BY <4>1 DEF Line
    <3>2. j - n \in DOMAIN rest /\ n + (j - n) = j
      BY <1>1, <1>2, <2>2
    <3>3. f[j - n] = j
      BY <1>3, <3>2
    <3> QED BY <1>6, <1>8, <3>1, <3>2, <3>3
  <2> QED BY <2>1, <2>2
<1>10. \A s \in S : \E j \in DOMAIN q : q[j].sess = s
  BY <1>1, <1>8
<1>11. Shrinks(q, p, S)
  <2>1. f \in [DOMAIN p -> DOMAIN q]
    BY <1>4, <1>6
  <2>2. \A k, m \in DOMAIN p : k < m => f[k] < f[m]
    BY <1>4, <1>6
  <2>3. \A k \in DOMAIN p : p[k].sess = q[f[k]].sess
    BY <1>5, <1>6
  <2> QED BY <1>6, <1>7, <1>9, <1>10, <2>1, <2>2, <2>3, Selection
<1> QED BY <1>0, <1>8, <1>11

LEMMA TailShrinks ==
  ASSUME NEW q, Line(q), q # << >>
  PROVE  Shrinks(q, Tail(q), {Head(q).sess})
<1>1. Len(q) \in Nat /\ DOMAIN q = 1 .. Len(q) /\ q \in Seq(Entry) /\ Len(q) >= 1
      /\ 1 \in DOMAIN q
  BY DEF Line
<1>2. PICK p, f : p = Tail(q) /\ f = [k \in DOMAIN Tail(q) |-> k + 1]
  OBVIOUS
<1>3. p \in Seq(Entry) /\ DOMAIN p = 1 .. (Len(q) - 1) /\ \A k \in DOMAIN p : p[k] = q[k + 1]
  BY <1>1, <1>2
<1>4. /\ f \in [DOMAIN p -> DOMAIN q]
      /\ \A k, m \in DOMAIN p : k <= m => f[k] <= f[m]
      /\ \A k, m \in DOMAIN p : k < m => f[k] < f[m]
      /\ \A k \in DOMAIN p : f[k] # 1 /\ p[k] = q[f[k]]
  BY <1>1, <1>2, <1>3
<1>5. \A k, m \in DOMAIN p : k <= m => p[k].prio >= p[m].prio
  BY <1>4 DEF Line
<1>6. PICK S : S = {Head(q).sess}
  OBVIOUS
<1>7. Head(q) = q[1]
  BY <1>1
<1>8. \A j \in DOMAIN q : q[j].sess \in S <=> \A k \in DOMAIN p : f[k] # j
  <2>1. ASSUME NEW j \in DOMAIN q, j # 1 PROVE q[j].sess \notin S /\ \E k \in DOMAIN p : f[k] = j
    <3>1. q[j].sess \notin S
      BY <1>1, <1>6, <1>7, <2>1 DEF Line
    <3>2. j - 1 \in DOMAIN p /\ j - 1 + 1 = j
      BY <1>1, <1>3, <2>1
    <3>3. f[j - 1] = j
      BY <1>2, <3>2
    <3> QED BY <3>1, <3>2, <3>3
  <2>2. q[1].sess \in S /\ \A k \in DOMAIN p : f[k] # 1
    BY <1>4, <1>6, <1>7
  <2> QED BY <2>1, <2>2
<1>9. \A s \in S : \E j \in DOMAIN q : q[j].sess = s
  BY <1>1, <1>6, <1>7
<1>10. \A k \in DOMAIN p : p[k].sess = q[f[k]].sess
  BY <1>4
<1>11. Shrinks(q, p, S)
  <2>1. /\ p \in Seq(Entry) /\ f \in [DOMAIN p -> DOMAIN q]
        /\ \A k, m \in DOMAIN p : k < m => f[k] < f[m]
    BY <1>3, <1>4
  <2> QED BY <1>5, <1>8, <1>9, <1>10, <2>1, Selection
<1> QED BY <1>2, <1>6, <1>11

-----------------------------------------------------------------------------
(* The inductive invariant of admission.                                     *)

(* What admission rests on.  X are the sessions a function is in the middle *)
(* of placing; `f' is false once KickAll has emptied the queues.            *)
Typed(sv) ==
  /\ sv.queue \in [Regions \cup {Fifo} -> Seq(Entry)] /\ sv.playerLimit \in Nat
  /\ sv.logged \in [Regions -> Nat] /\ sv.connections \in [Ips -> Nat]
  /\ sv.lastLogout \subseteq Accounts

Lined(sv) == \A q \in Regions \cup {Fifo} : Line(sv.queue[q])

(* An entry belongs to a session of the map that waits, in its own queue. *)
Waits(sv) ==
  \A q \in Regions \cup {Fifo} : \A s \in Members(sv.queue[q]) :
    /\ QueueOf(s) = q /\ sv.sessions[AccountOf[s]] = s
    /\ sv.session[s].status = "added" /\ sv.session[s].inQueue

AllQueued(sv) ==
  \A s \in Sessions : sv.session[s].inQueue => s \in Members(sv.queue[QueueOf(s)])

(* A session that was taken over waits or was let in, and has its place. *)
Flagged(sv, X) ==
  /\ \A s \in Sessions :
       /\ sv.session[s].passedQueue => sv.session[s].status = "added" /\ ~sv.session[s].inQueue
       /\ sv.session[s].inQueue => /\ sv.session[s].status = "added"
                                   /\ sv.session[s].player = None /\ ~sv.session[s].loading
  /\ \A s \in Sessions \ X : sv.session[s].status = "added" =>
       /\ sv.session[s].passedQueue \/ sv.session[s].inQueue
       /\ sv.sessions[AccountOf[s]] = s \/ s \in sv.disconnected

(* The counters. *)
PassedIn(sv, r) == {s \in Sessions : RegionOf[s] = r /\ sv.session[s].passedQueue}
Present(sv, i) == {s \in Sessions : IpOf[s] = i /\ sv.sessions[AccountOf[s]] = s}
Inside(sv, X) == {s \in Sessions \ X : sv.sessions[AccountOf[s]] = s /\ ~sv.session[s].inQueue}

Counted(sv) ==
  /\ \A r \in Regions : sv.logged[r] = Cardinality(PassedIn(sv, r))
  /\ \A i \in Ips : Cardinality(Present(sv, i)) <= sv.connections[i]

(* Nobody skips the queue. *)
Limited == Privileged = {} /\ ~GracePeriod

Within(sv, X) ==
  Limited => sv.lastLogout = {} /\ Cardinality(Inside(sv, X)) <= Ceiling

Admission(sv, X, f) ==
  /\ Typed(sv) /\ Lined(sv) /\ Waits(sv) /\ Flagged(sv, X)
  /\ Counted(sv) /\ Within(sv, X) /\ (f => AllQueued(sv))

AdmissionIInv ==
  /\ Admission(server, {}, stop # "shutdown")
  /\ pc \in {"admit", "add", "update", "disconnected", "world", "stopped"}
  /\ stop \in {"no", "requested", "shutdown"}

LEMMA CeilingBounds ==
  /\ HardLimit \in Nat /\ LoginPerTick \in Nat /\ Ceiling \in Nat /\ HardLimit <= Ceiling
  /\ LoginPerTick <= 1 => Ceiling = HardLimit
  /\ LoginPerTick > 0 => HardLimit + LoginPerTick - 1 <= Ceiling
<1>1. HardLimit \in Nat /\ LoginPerTick \in Nat
  BY ConfigAssumption
<1> QED BY <1>1 DEF Ceiling

(* No two sessions that were queued before change places. *)
OrderKept(sv, sw, N) ==
  \A x, y \in Sessions \ N : Ahead(sw, x, y) => Ahead(sv, x, y)

LEMMA OrderCompose ==
  ASSUME NEW su, NEW sv, NEW sw, NEW N, OrderKept(su, sv, N), OrderKept(sv, sw, N)
  PROVE  OrderKept(su, sw, N)
BY DEF OrderKept

LEMMA OrderGrows ==
  ASSUME NEW su, NEW sv, NEW N, NEW M, OrderKept(su, sv, M), M \subseteq N
  PROVE  OrderKept(su, sv, N)
BY DEF OrderKept

LEMMA OrderSame ==
  ASSUME NEW su, NEW sv, NEW N, sv.queue = su.queue
  PROVE  OrderKept(su, sv, N)
BY DEF OrderKept, Ahead

LEMMA OrderShrinks ==
  ASSUME NEW sv, Typed(sv), NEW q \in Regions \cup {Fifo}, NEW p, NEW S,
         Shrinks(sv.queue[q], p, S), NEW sw, sw.queue = [sv.queue EXCEPT ![q] = p]
  PROVE  OrderKept(sv, sw, {})
<1> SUFFICES ASSUME NEW x, NEW y, NEW r \in DOMAIN sw.queue, Behind(sw.queue[r], x, y)
    PROVE  Behind(sv.queue[r], x, y) /\ r \in DOMAIN sv.queue
  BY DEF OrderKept, Ahead, Behind
<1>1. DOMAIN sv.queue = Regions \cup {Fifo} /\ DOMAIN sw.queue = DOMAIN sv.queue
  BY DEF Typed
<1>2. CASE r = q
  BY <1>1, <1>2 DEF Shrinks
<1>3. CASE r # q
  BY <1>1, <1>3
<1> QED BY <1>2, <1>3

LEMMA SessionSets ==
  /\ \A T \in SUBSET Sessions : IsFiniteSet(T) /\ Cardinality(T) \in Nat
  /\ \A T, U \in SUBSET Sessions : T \subseteq U => Cardinality(T) <= Cardinality(U)
  /\ \A T \in SUBSET Sessions : \A s \in Sessions \ T : Cardinality(T \cup {s}) = Cardinality(T) + 1
  /\ \A T \in SUBSET Sessions : \A s \in T : Cardinality(T \ {s}) = Cardinality(T) - 1
<1>1. ASSUME NEW T \in SUBSET Sessions PROVE IsFiniteSet(T) /\ Cardinality(T) \in Nat
  BY SessionsAssumption, FS_Subset, FS_CardinalityType
<1>2. ASSUME NEW T \in SUBSET Sessions, NEW U \in SUBSET Sessions, T \subseteq U
      PROVE  Cardinality(T) <= Cardinality(U)
  BY <1>1, <1>2, FS_Subset
<1>3. ASSUME NEW T \in SUBSET Sessions, NEW s \in Sessions \ T
      PROVE  Cardinality(T \cup {s}) = Cardinality(T) + 1
  BY <1>1, <1>3, FS_AddElement
<1>4. ASSUME NEW T \in SUBSET Sessions, NEW s \in T
      PROVE  Cardinality(T \ {s}) = Cardinality(T) - 1
  BY <1>1, <1>4, FS_RemoveElement
<1> QED BY <1>1, <1>2, <1>3, <1>4

LEMMA CountedSets ==
  ASSUME NEW sv
  PROVE  /\ \A r : PassedIn(sv, r) \in SUBSET Sessions
         /\ \A i : Present(sv, i) \in SUBSET Sessions
         /\ \A X : Inside(sv, X) \in SUBSET Sessions
BY DEF PassedIn, Present, Inside

LEMMA MembersAreSessions ==
  ASSUME NEW q, Line(q)
  PROVE  Members(q) \subseteq Sessions
<1>1. ASSUME NEW i \in DOMAIN q PROVE q[i].sess \in Sessions
  <2>1. q[i] \in Entry
    BY DEF Line
  <2> QED BY <2>1 DEF Entry
<1> QED BY <1>1 DEF Members

(* Changes of what does not matter for admission. *)
SameAdmission(sv, sw) ==
  /\ sw.queue = sv.queue /\ sw.logged = sv.logged /\ sw.connections = sv.connections
  /\ sw.sessions = sv.sessions /\ sw.disconnected = sv.disconnected
  /\ sw.playerLimit \in Nat /\ sw.lastLogout \subseteq Accounts
  /\ GracePeriod \/ sw.lastLogout \subseteq sv.lastLogout
  /\ \A s \in Sessions :
       /\ sw.session[s].inQueue = sv.session[s].inQueue
       /\ sw.session[s].passedQueue = sv.session[s].passedQueue
       /\ sw.session[s].status = "added" <=> sv.session[s].status = "added"
       /\ sw.session[s].inQueue => sw.session[s].player = None /\ ~sw.session[s].loading

LEMMA SameKeepsAdmission ==
  ASSUME NEW sv, NEW X, NEW f, Admission(sv, X, f), NEW sw, SameAdmission(sv, sw)
  PROVE  Admission(sw, X, f) /\ OrderKept(sv, sw, {})
<1>1. Typed(sw) /\ Lined(sw)
  BY DEF Admission, SameAdmission, Typed, Lined
<1>2. Waits(sw)
  <2>1. ASSUME NEW q \in Regions \cup {Fifo}, NEW s \in Members(sw.queue[q])
        PROVE  s \in Sessions /\ s \in Members(sv.queue[q])
    BY MembersAreSessions DEF Admission, SameAdmission, Lined
  <2> QED BY <2>1 DEF Admission, SameAdmission, Waits
<1>3. Flagged(sw, X)
  BY DEF Admission, SameAdmission, Flagged
<1>4. \A r : PassedIn(sw, r) = PassedIn(sv, r)
  BY DEF SameAdmission, PassedIn
<1>5. \A i : Present(sw, i) = Present(sv, i)
  BY DEF SameAdmission, Present
<1>6. Inside(sw, X) = Inside(sv, X)
  BY DEF SameAdmission, Inside
<1>7. Counted(sw)
  BY <1>4, <1>5 DEF Admission, SameAdmission, Counted
<1>8. Within(sw, X)
  BY <1>6 DEF Admission, SameAdmission, Within, Limited
<1>9. f => AllQueued(sw)
  BY DEF Admission, SameAdmission, AllQueued
<1>10. OrderKept(sv, sw, {})
  BY OrderSame DEF SameAdmission
<1> QED BY <1>1, <1>2, <1>3, <1>7, <1>8, <1>9, <1>10 DEF Admission

(* More sessions may be in the middle of being placed. *)
LEMMA AdmissionGrows ==
  ASSUME NEW sv, NEW X, NEW Y, NEW f, Admission(sv, X, f), X \subseteq Y
  PROVE  Admission(sv, Y, f)
<1>1. Flagged(sv, Y)
  BY DEF Admission, Flagged
<1>2. Inside(sv, Y) \subseteq Inside(sv, X)
  BY DEF Inside
<1>3. PICK a, b \in Nat : a = Cardinality(Inside(sv, Y)) /\ b = Cardinality(Inside(sv, X)) /\ a <= b
  BY <1>2, SessionSets, CountedSets
<1>4. Ceiling \in Nat
  BY CeilingBounds
<1>5. Within(sv, Y)
  BY <1>3, <1>4 DEF Admission, Within
<1> QED BY <1>1, <1>5 DEF Admission

(* A session that is gone is placed. *)
LEMMA GoneIsPlaced ==
  ASSUME NEW sv, NEW X, NEW f, NEW s \in Sessions, Admission(sv, X, f),
         sv.session[s].status # "added", sv.sessions[AccountOf[s]] # s
  PROVE  Admission(sv, X \ {s}, f)
<1>1. Flagged(sv, X \ {s})
  BY DEF Admission, Flagged
<1>2. Inside(sv, X \ {s}) = Inside(sv, X)
  BY DEF Inside
<1>3. Within(sv, X \ {s})
  BY <1>2 DEF Admission, Within
<1> QED BY <1>1, <1>3 DEF Admission

(* The world thread takes a new session over. *)
LEMMA ArrivalAdmission ==
  ASSUME NEW sv, Shape(sv), NEW X, NEW f, NEW s \in Sessions, Admission(sv, X, f),
         NEW sw, sw = [sv EXCEPT !.session[s].status = "added"]
  PROVE  Admission(sw, X \cup {s}, f) /\ OrderKept(sv, sw, {})
<1>1. Admission(sv, X \cup {s}, f)
  BY AdmissionGrows
<1>2. PICK Y : Y = X \cup {s}
  OBVIOUS
<1>3. /\ sw.queue = sv.queue /\ sw.logged = sv.logged /\ sw.connections = sv.connections
      /\ sw.sessions = sv.sessions /\ sw.disconnected = sv.disconnected
      /\ sw.playerLimit = sv.playerLimit /\ sw.lastLogout = sv.lastLogout
  BY DEF Shape
<1>4. ASSUME NEW t \in Sessions
      PROVE  /\ sw.session[t].inQueue = sv.session[t].inQueue
             /\ sw.session[t].passedQueue = sv.session[t].passedQueue
             /\ sw.session[t].player = sv.session[t].player
             /\ sw.session[t].loading = sv.session[t].loading
             /\ sw.session[t].status = IF t = s THEN "added" ELSE sv.session[t].status
  <2>1. sv.session \in [Sessions -> SessionState] /\ sv.session[s] \in SessionState
    BY DEF Shape
  <2>2. sw.session = [sv.session EXCEPT ![s] = [sv.session[s] EXCEPT !.status = "added"]]
    BY DEF Shape
  <2>3. CASE t = s
    BY <2>1, <2>2, <2>3 DEF SessionState
  <2>4. CASE t # s
    BY <2>1, <2>2, <2>4
  <2> QED BY <2>3, <2>4
<1>5. Typed(sw) /\ Lined(sw)
  BY <1>3 DEF Admission, Typed, Lined
<1>6. Waits(sw)
  <2>1. ASSUME NEW q \in Regions \cup {Fifo}, NEW t \in Members(sw.queue[q])
        PROVE  t \in Sessions /\ t \in Members(sv.queue[q])
    BY <1>3, MembersAreSessions DEF Admission, Lined
  <2> QED BY <1>3, <1>4, <2>1 DEF Admission, Waits
<1>7. Flagged(sw, Y)
  BY <1>1, <1>2, <1>3, <1>4 DEF Admission, Flagged
<1>8. (\A r : PassedIn(sw, r) = PassedIn(sv, r)) /\ (\A i : Present(sw, i) = Present(sv, i))
      /\ Inside(sw, Y) = Inside(sv, Y)
  BY <1>3, <1>4 DEF PassedIn, Present, Inside
<1>9. Counted(sw) /\ Within(sw, Y) /\ (f => AllQueued(sw))
  BY <1>1, <1>2, <1>3, <1>4, <1>8 DEF Admission, Counted, Within, AllQueued
<1>10. OrderKept(sv, sw, {})
  BY <1>3, OrderSame
<1> QED BY <1>2, <1>5, <1>6, <1>7, <1>9, <1>10 DEF Admission

-----------------------------------------------------------------------------
(* Sessions that are let in.                                                 *)

LEMMA UnionCount ==
  ASSUME NEW T \in SUBSET Sessions, NEW U \in SUBSET Sessions
  PROVE  /\ Cardinality(T \cup U) <= Cardinality(T) + Cardinality(U)
         /\ T \cap U = {} => Cardinality(T \cup U) = Cardinality(T) + Cardinality(U)
<1>1. IsFiniteSet(T) /\ IsFiniteSet(U) /\ T \cap U \in SUBSET Sessions
  BY SessionSets
<1>2. Cardinality(T \cup U) = Cardinality(T) + Cardinality(U) - Cardinality(T \cap U)
  BY <1>1, FS_Union
<1>3. PICK a, b, c \in Nat : a = Cardinality(T) /\ b = Cardinality(U) /\ c = Cardinality(T \cap U)
  BY <1>1, SessionSets
<1>4. T \cap U = {} => c = 0
  BY <1>3, FS_EmptySet
<1> QED BY <1>2, <1>3, <1>4

LEMMA OneCount == \A s \in Sessions : Cardinality({s}) = 1
BY FS_Singleton

(* What concerns admission in the sessions of T is as before. *)
SameFlags(sv, sw, T) ==
  \A t \in T : /\ sw.session[t].inQueue = sv.session[t].inQueue
               /\ sw.session[t].passedQueue = sv.session[t].passedQueue
               /\ sw.session[t].status = sv.session[t].status
               /\ sw.session[t].player = sv.session[t].player
               /\ sw.session[t].loading = sv.session[t].loading

(* The sessions of S, of region r, are let in. *)
LetIn(sv, sw, S, r) ==
  /\ sw.sessions = sv.sessions /\ sw.disconnected = sv.disconnected
  /\ sw.connections = sv.connections /\ sw.lastLogout = sv.lastLogout
  /\ sw.playerLimit \in Nat
  /\ sw.logged = [sv.logged EXCEPT ![r] = @ + Cardinality(S)]
  /\ SameFlags(sv, sw, Sessions \ S)
  /\ \A t \in S : /\ ~sw.session[t].inQueue /\ sw.session[t].passedQueue
                  /\ sw.session[t].status = sv.session[t].status

LEMMA LetInCounted ==
  ASSUME NEW sv, Typed(sv), Counted(sv), NEW r \in Regions, NEW S \in SUBSET Sessions,
         \A t \in S : RegionOf[t] = r /\ ~sv.session[t].passedQueue,
         NEW sw, LetIn(sv, sw, S, r)
  PROVE  Counted(sw) /\ sw.logged \in [Regions -> Nat]
<1>1. PassedIn(sw, r) = PassedIn(sv, r) \cup S
  BY DEF PassedIn, LetIn, SameFlags
<1>2. PassedIn(sv, r) \cap S = {}
  BY DEF PassedIn
<1>3. \A k \in Regions \ {r} : PassedIn(sw, k) = PassedIn(sv, k)
  BY DEF PassedIn, LetIn, SameFlags
<1>4. Cardinality(PassedIn(sw, r)) = Cardinality(PassedIn(sv, r)) + Cardinality(S)
  BY <1>1, <1>2, UnionCount, CountedSets
<1>5. \A i : Present(sw, i) = Present(sv, i)
  BY DEF Present, LetIn
<1>6. Cardinality(S) \in Nat
  BY SessionSets
<1>7. ASSUME NEW k \in Regions
      PROVE  sw.logged[k] = Cardinality(PassedIn(sw, k))
  <2>1. CASE k = r
    BY <1>4, <2>1 DEF LetIn, Typed, Counted
  <2>2. CASE k # r
    BY <1>3, <1>7, <2>2 DEF LetIn, Typed, Counted
  <2> QED BY <2>1, <2>2
<1>8. sw.logged \in [Regions -> Nat]
  BY <1>6 DEF LetIn, Typed
<1> QED BY <1>5, <1>7, <1>8 DEF Counted, LetIn

(* There is room for the sessions of S, which are of region r. *)
RoomFor(sv, X, S, r) ==
  /\ \A t \in S : RegionOf[t] = r
  /\ Limited => Cardinality(Inside(sv, X)) + Cardinality(S) <= Ceiling

(* The sessions of S, of region r, leave the queue q, which becomes p, and *)
(* are let in.                                                             *)
Admits(sv, sw, X, S, r, q, p) ==
  /\ r \in Regions /\ q \in Regions \cup {Fifo} /\ Shrinks(sv.queue[q], p, S)
  /\ RoomFor(sv, X, S, r) /\ sw.queue = [sv.queue EXCEPT ![q] = p] /\ LetIn(sv, sw, S, r)

LEMMA LetInAdmission ==
  ASSUME NEW sv, NEW X, NEW f, Admission(sv, X, f), NEW S, NEW r, NEW q, NEW p,
         NEW sw, Admits(sv, sw, X, S, r, q, p)
  PROVE  Admission(sw, X, f) /\ OrderKept(sv, sw, {})
<1> USE DEF Admits
<1>1. Typed(sv) /\ Lined(sv) /\ Waits(sv) /\ Flagged(sv, X) /\ Counted(sv) /\ Within(sv, X)
      /\ (f => AllQueued(sv))
  BY DEF Admission
<1>2. S \in SUBSET Sessions /\ Members(sv.queue[q]) \subseteq Sessions
  BY <1>1, MembersAreSessions DEF Shrinks, Lined
<1>3. \A t \in S : /\ sv.session[t].status = "added" /\ sv.session[t].inQueue
                   /\ ~sv.session[t].passedQueue /\ QueueOf(t) = q
                   /\ sv.sessions[AccountOf[t]] = t
  <2>1. ASSUME NEW t \in S PROVE t \in Members(sv.queue[q]) /\ t \in Sessions
    BY <1>2 DEF Shrinks
  <2> QED BY <1>1, <2>1 DEF Waits, Flagged
<1>4. Counted(sw) /\ sw.logged \in [Regions -> Nat]
  BY <1>1, <1>2, <1>3, LetInCounted DEF RoomFor
<1>5. sw.queue[q] = p /\ \A k \in (Regions \cup {Fifo}) \ {q} : sw.queue[k] = sv.queue[k]
  BY <1>1 DEF Typed
<1>6. Lined(sw)
  BY <1>1, <1>5 DEF Lined, Shrinks
<1>7. Typed(sw)
  BY <1>1, <1>4 DEF Typed, LetIn, Shrinks, Line
<1>8. ASSUME NEW k \in Regions \cup {Fifo}, NEW t \in Members(sw.queue[k])
      PROVE  t \in Sessions \ S /\ t \in Members(sv.queue[k]) /\ QueueOf(t) = k
  <2>1. CASE k = q
    BY <1>1, <1>2, <1>5, <1>8, <2>1 DEF Shrinks, Waits
  <2>2. CASE k # q
    <3>1. t \in Members(sv.queue[k]) /\ t \in Sessions /\ QueueOf(t) = k
      BY <1>1, <1>5, <1>8, <2>2, MembersAreSessions DEF Lined, Waits
    <3> QED BY <1>3, <2>2, <3>1
  <2> QED BY <2>1, <2>2
<1>9. Waits(sw)
  BY <1>1, <1>8 DEF Waits, LetIn, SameFlags
<1>10. Flagged(sw, X)
  BY <1>1, <1>2, <1>3 DEF Flagged, LetIn, SameFlags
<1>11. Within(sw, X)
  <2>1. SUFFICES ASSUME Limited PROVE sw.lastLogout = {} /\ Cardinality(Inside(sw, X)) <= Ceiling
    BY DEF Within
  <2>2. Inside(sw, X) \subseteq Inside(sv, X) \cup S
    BY DEF Inside, LetIn, SameFlags
  <2>3. PICK U : U = Inside(sv, X) \cup S
    OBVIOUS
  <2>4. U \in SUBSET Sessions /\ Inside(sw, X) \in SUBSET Sessions /\ Inside(sv, X) \in SUBSET Sessions
    BY <1>2, <2>3, CountedSets
  <2>5. PICK a, b, c, d \in Nat : /\ a = Cardinality(Inside(sw, X)) /\ b = Cardinality(U)
                                  /\ c = Cardinality(Inside(sv, X)) /\ d = Cardinality(S)
    BY <1>2, <2>4, SessionSets
  <2>6. a <= b
    BY <2>2, <2>3, <2>4, <2>5, SessionSets
  <2>7. b <= c + d
    BY <1>2, <2>3, <2>4, <2>5, UnionCount
  <2>8. c + d <= Ceiling /\ Ceiling \in Nat
    BY <2>1, <2>5, CeilingBounds DEF RoomFor
  <2> QED BY <1>1, <2>1, <2>5, <2>6, <2>7, <2>8 DEF Within, LetIn
<1>12. f => AllQueued(sw)
  <2>1. SUFFICES ASSUME f, NEW t \in Sessions, sw.session[t].inQueue
        PROVE  t \in Members(sw.queue[QueueOf(t)])
    BY DEF AllQueued
  <2>2. t \notin S /\ sv.session[t].inQueue
    BY <2>1 DEF LetIn, SameFlags
  <2>3. t \in Members(sv.queue[QueueOf(t)]) /\ QueueOf(t) \in Regions \cup {Fifo}
    BY <1>1, <2>1, <2>2, AttributesAssumption DEF AllQueued, QueueOf
  <2>4. CASE QueueOf(t) = q
    BY <1>5, <2>2, <2>3, <2>4 DEF Shrinks
  <2>5. CASE QueueOf(t) # q
    BY <1>5, <2>3, <2>5
  <2> QED BY <2>4, <2>5
<1>13. OrderKept(sv, sw, {})
  BY <1>1, OrderShrinks
<1> QED BY <1>4, <1>6, <1>7, <1>9, <1>10, <1>11, <1>12, <1>13 DEF Admission

-----------------------------------------------------------------------------
(* Sessions that leave their queue or are deleted.                           *)

(* A session leaves its queue. *)
Left(sv, sw, s) ==
  /\ sw.sessions = sv.sessions /\ sw.disconnected = sv.disconnected
  /\ sw.connections = sv.connections /\ sw.lastLogout = sv.lastLogout
  /\ sw.playerLimit = sv.playerLimit /\ sw.logged = sv.logged
  /\ SameFlags(sv, sw, Sessions \ {s})
  /\ ~sw.session[s].inQueue /\ sw.session[s].passedQueue = sv.session[s].passedQueue
  /\ sw.session[s].status = sv.session[s].status

(* A session is in none of the queues. *)
NotQueued(sv, s) == \A q \in Regions \cup {Fifo} : s \notin Members(sv.queue[q])

LEMMA LeftAdmission ==
  ASSUME NEW sv, NEW X, NEW f, Admission(sv, X, f), NEW s \in Sessions,
         NEW p, Shrinks(sv.queue[QueueOf(s)], p, {s}),
         NEW sw, sw.queue = [sv.queue EXCEPT ![QueueOf(s)] = p], Left(sv, sw, s)
  PROVE  Admission(sw, X \cup {s}, f) /\ OrderKept(sv, sw, {}) /\ NotQueued(sw, s)
<1>1. Typed(sv) /\ Lined(sv) /\ Waits(sv) /\ Flagged(sv, X) /\ Counted(sv) /\ Within(sv, X)
      /\ (f => AllQueued(sv))
  BY DEF Admission
<1>2. PICK q \in Regions \cup {Fifo} : q = QueueOf(s)
  BY AttributesAssumption DEF QueueOf
<1>3. PICK Y : Y = X \cup {s}
  OBVIOUS
<1>4. Shrinks(sv.queue[q], p, {s}) /\ sw.queue = [sv.queue EXCEPT ![q] = p]
  BY <1>2
<1>5. sw.queue[q] = p /\ \A k \in (Regions \cup {Fifo}) \ {q} : sw.queue[k] = sv.queue[k]
  BY <1>1, <1>4 DEF Typed
<1>6. Typed(sw) /\ Lined(sw)
  BY <1>1, <1>4, <1>5 DEF Typed, Lined, Left, Shrinks, Line
<1>7. ASSUME NEW k \in Regions \cup {Fifo}, NEW t \in Members(sw.queue[k])
      PROVE  t \in Sessions \ {s} /\ t \in Members(sv.queue[k])
  <2>1. CASE k = q
    BY <1>1, <1>4, <1>5, <1>7, <2>1, MembersAreSessions DEF Shrinks, Lined
  <2>2. CASE k # q
    <3>1. t \in Members(sv.queue[k]) /\ t \in Sessions /\ QueueOf(t) = k
      BY <1>1, <1>5, <1>7, <2>2, MembersAreSessions DEF Lined, Waits
    <3> QED BY <1>2, <2>2, <3>1
  <2> QED BY <2>1, <2>2
<1>8. Waits(sw)
  BY <1>1, <1>7 DEF Waits, Left, SameFlags
<1>9. Flagged(sw, Y)
  <2>1. sv.session[s].inQueue
    BY <1>1, <1>2, <1>4 DEF Waits, Shrinks
  <2> QED BY <1>1, <1>3, <2>1 DEF Flagged, Left, SameFlags
<1>10. (\A r : PassedIn(sw, r) = PassedIn(sv, r)) /\ (\A i : Present(sw, i) = Present(sv, i))
  BY DEF PassedIn, Present, Left, SameFlags
<1>11. Counted(sw)
  BY <1>1, <1>10 DEF Counted, Left
<1>12. Inside(sw, Y) \subseteq Inside(sv, X)
  BY <1>3 DEF Inside, Left, SameFlags
<1>13. Within(sw, Y)
  <2>1. PICK a, b \in Nat : a = Cardinality(Inside(sw, Y)) /\ b = Cardinality(Inside(sv, X)) /\ a <= b
    BY <1>12, SessionSets, CountedSets
  <2> QED BY <1>1, <2>1, CeilingBounds DEF Within, Left
<1>14. f => AllQueued(sw)
  <2>1. SUFFICES ASSUME f, NEW t \in Sessions, sw.session[t].inQueue
        PROVE  t \in Members(sw.queue[QueueOf(t)])
    BY DEF AllQueued
  <2>2. t # s /\ sv.session[t].inQueue
    BY <2>1 DEF Left, SameFlags
  <2>3. t \in Members(sv.queue[QueueOf(t)]) /\ QueueOf(t) \in Regions \cup {Fifo}
    BY <1>1, <2>1, <2>2, AttributesAssumption DEF AllQueued, QueueOf
  <2>4. CASE QueueOf(t) = q
    BY <1>4, <1>5, <2>2, <2>3, <2>4 DEF Shrinks
  <2>5. CASE QueueOf(t) # q
    BY <1>5, <2>3, <2>5
  <2> QED BY <2>4, <2>5
<1>15. OrderKept(sv, sw, {})
  BY <1>1, <1>4, OrderShrinks
<1>16. NotQueued(sw, s)
  BY <1>7 DEF NotQueued
<1> QED BY <1>3, <1>6, <1>8, <1>9, <1>11, <1>13, <1>14, <1>15, <1>16 DEF Admission

(* A session is deleted. *)
Erased(sv, sw, s) ==
  /\ sw.queue = sv.queue /\ sw.sessions = sv.sessions /\ sw.disconnected = sv.disconnected
  /\ sw.connections = sv.connections /\ sw.lastLogout = sv.lastLogout
  /\ sw.playerLimit = sv.playerLimit
  /\ sw.logged = [sv.logged EXCEPT ![RegionOf[s]] =
                    @ - (IF sv.session[s].passedQueue THEN 1 ELSE 0)]
  /\ SameFlags(sv, sw, Sessions \ {s})
  /\ sw.session[s].status = "deleted" /\ ~sw.session[s].inQueue /\ ~sw.session[s].passedQueue

LEMMA ErasedCounted ==
  ASSUME NEW sv, Typed(sv), Counted(sv), NEW s \in Sessions, NEW sw, Erased(sv, sw, s)
  PROVE  Counted(sw) /\ sw.logged \in [Regions -> Nat]
<1>1. PICK r \in Regions : r = RegionOf[s]
  BY AttributesAssumption
<1>2. \A k \in Regions \ {r} : PassedIn(sw, k) = PassedIn(sv, k)
  BY <1>1 DEF PassedIn, Erased, SameFlags
<1>3. PassedIn(sw, r) = PassedIn(sv, r) \ {s}
  BY <1>1 DEF PassedIn, Erased, SameFlags
<1>4. s \in PassedIn(sv, r) <=> sv.session[s].passedQueue
  BY <1>1 DEF PassedIn
<1>5. Cardinality(PassedIn(sw, r)) =
        Cardinality(PassedIn(sv, r)) - (IF sv.session[s].passedQueue THEN 1 ELSE 0)
  <2>1. CASE sv.session[s].passedQueue
    BY <1>3, <1>4, <2>1, SessionSets, CountedSets
  <2>2. CASE ~sv.session[s].passedQueue
    <3>1. PassedIn(sw, r) = PassedIn(sv, r)
      BY <1>3, <1>4, <2>2
    <3>2. PICK a \in Nat : a = Cardinality(PassedIn(sv, r))
      BY SessionSets, CountedSets
    <3> QED BY <2>2, <3>1, <3>2
  <2> QED BY <2>1, <2>2
<1>6. ASSUME NEW k \in Regions PROVE sw.logged[k] = Cardinality(PassedIn(sw, k))
  <2>1. CASE k = r
    <3>1. sw.logged[r] = sv.logged[r] - (IF sv.session[s].passedQueue THEN 1 ELSE 0)
      BY <1>1 DEF Erased, Typed
    <3> QED BY <1>5, <2>1, <3>1 DEF Counted
  <2>2. CASE k # r
    BY <1>1, <1>2, <1>6, <2>2 DEF Erased, Typed, Counted
  <2> QED BY <2>1, <2>2
<1>7. sw.logged \in [Regions -> Nat]
  <2>1. \A k \in Regions : sw.logged[k] \in Nat
    BY <1>6, SessionSets, CountedSets
  <2>2. DOMAIN sw.logged = Regions /\ sw.logged = [k \in DOMAIN sw.logged |-> sw.logged[k]]
    BY DEF Erased, Typed
  <2> QED BY <2>1, <2>2
<1>8. \A i : Present(sw, i) = Present(sv, i)
  BY DEF Present, Erased
<1> QED BY <1>6, <1>7, <1>8 DEF Counted, Erased

LEMMA ErasedAdmission ==
  ASSUME NEW sv, NEW X, NEW f, Admission(sv, X, f), NEW s \in Sessions, NotQueued(sv, s),
         s \in X \/ sv.sessions[AccountOf[s]] # s, NEW sw, Erased(sv, sw, s)
  PROVE  Admission(sw, X, f) /\ OrderKept(sv, sw, {}) /\ NotQueued(sw, s)
<1>1. Typed(sv) /\ Lined(sv) /\ Waits(sv) /\ Flagged(sv, X) /\ Counted(sv) /\ Within(sv, X)
      /\ (f => AllQueued(sv))
  BY DEF Admission
<1>2. Counted(sw) /\ sw.logged \in [Regions -> Nat]
  BY <1>1, ErasedCounted
<1>3. Typed(sw) /\ Lined(sw) /\ NotQueued(sw, s)
  BY <1>1, <1>2 DEF Typed, Lined, Erased, NotQueued
<1>4. Waits(sw)
  <2>1. ASSUME NEW q \in Regions \cup {Fifo}, NEW t \in Members(sw.queue[q])
        PROVE  t \in Sessions \ {s} /\ t \in Members(sv.queue[q])
    BY <1>1, <2>1, MembersAreSessions DEF Erased, Lined, NotQueued
  <2> QED BY <1>1, <2>1 DEF Waits, Erased, SameFlags
<1>5. Flagged(sw, X)
  BY <1>1 DEF Flagged, Erased, SameFlags
<1>6. Inside(sw, X) = Inside(sv, X)
  BY DEF Inside, Erased, SameFlags
<1>7. Within(sw, X)
  BY <1>1, <1>6 DEF Within, Erased
<1>8. f => AllQueued(sw)
  BY <1>1 DEF AllQueued, Erased, SameFlags
<1>9. OrderKept(sv, sw, {})
  BY OrderSame DEF Erased
<1> QED BY <1>2, <1>3, <1>4, <1>5, <1>7, <1>8, <1>9 DEF Admission

-----------------------------------------------------------------------------
(* The session map, and what ActiveCount bounds.                             *)

(* What a change of the session map leaves alone. *)
SameWaiting(sv, sw) ==
  /\ sw.queue = sv.queue /\ sw.logged = sv.logged /\ sw.playerLimit = sv.playerLimit
  /\ SameFlags(sv, sw, Sessions)

LEMMA WaitingKept ==
  ASSUME NEW sv, NEW X, NEW f, Admission(sv, X, f), NEW sw, SameWaiting(sv, sw)
  PROVE  /\ Lined(sw) /\ (f => AllQueued(sw)) /\ OrderKept(sv, sw, {})
         /\ \A r \in Regions : sw.logged[r] = Cardinality(PassedIn(sw, r))
         /\ \A q \in Regions \cup {Fifo} : \A t \in Members(sw.queue[q]) :
              /\ t \in Sessions /\ t \in Members(sv.queue[q])
              /\ QueueOf(t) = q /\ sv.sessions[AccountOf[t]] = t
              /\ sw.session[t].status = "added" /\ sw.session[t].inQueue
<1>1. Lined(sv) /\ Waits(sv) /\ Counted(sv) /\ (f => AllQueued(sv))
  BY DEF Admission
<1>2. Lined(sw) /\ (f => AllQueued(sw))
  BY <1>1 DEF Lined, AllQueued, SameWaiting, SameFlags
<1>3. OrderKept(sv, sw, {})
  BY OrderSame DEF SameWaiting
<1>4. \A r : PassedIn(sw, r) = PassedIn(sv, r)
  BY DEF PassedIn, SameWaiting, SameFlags
<1>5. ASSUME NEW q \in Regions \cup {Fifo}, NEW t \in Members(sw.queue[q])
      PROVE  /\ t \in Sessions /\ t \in Members(sv.queue[q])
             /\ QueueOf(t) = q /\ sv.sessions[AccountOf[t]] = t
             /\ sw.session[t].status = "added" /\ sw.session[t].inQueue
  <2>1. t \in Sessions /\ t \in Members(sv.queue[q])
    BY <1>1, <1>5, MembersAreSessions DEF SameWaiting, Lined
  <2> QED BY <1>1, <2>1 DEF Waits, SameWaiting, SameFlags
<1> QED BY <1>1, <1>2, <1>3, <1>4, <1>5 DEF Counted, SameWaiting

(* A session leaves the session map. *)
Vacated(sv, sw, s) ==
  /\ SameWaiting(sv, sw) /\ sw.sessions = [sv.sessions EXCEPT ![AccountOf[s]] = None]
  /\ sw.lastLogout \subseteq Accounts /\ (GracePeriod \/ sw.lastLogout \subseteq sv.lastLogout)
  /\ \/ sw.connections = sv.connections
     \/ sw.connections = [sv.connections EXCEPT ![IpOf[s]] = @ - 1]

LEMMA VacatedAdmission ==
  ASSUME NEW sv, Shape(sv), NEW X, NEW f, Admission(sv, X, f), NEW s \in Sessions,
         NotQueued(sv, s), sv.sessions[AccountOf[s]] = s, NEW sw, Vacated(sv, sw, s),
         \/ sw.disconnected = sv.disconnected \cup {s}
         \/ sw.disconnected = sv.disconnected /\ s \in X
  PROVE  Admission(sw, X, f) /\ OrderKept(sv, sw, {}) /\ NotQueued(sw, s)
<1>1. Typed(sv) /\ Lined(sv) /\ Waits(sv) /\ Flagged(sv, X) /\ Counted(sv) /\ Within(sv, X)
  BY DEF Admission
<1>2. SameWaiting(sv, sw)
  BY DEF Vacated
<1>3. \A a \in Accounts : sw.sessions[a] = IF a = AccountOf[s] THEN None ELSE sv.sessions[a]
  BY DEF Vacated, Shape
<1>4. \A t \in Sessions : AccountOf[t] \in Accounts /\ t # None
  BY AttributesAssumption, NoneAssumption
<1>5. \A t \in Sessions : sw.sessions[AccountOf[t]] = t <=> t # s /\ sv.sessions[AccountOf[t]] = t
  BY <1>3, <1>4
<1>6. Waits(sw)
  <2>1. ASSUME NEW q \in Regions \cup {Fifo}, NEW t \in Members(sw.queue[q])
        PROVE  /\ QueueOf(t) = q /\ sw.sessions[AccountOf[t]] = t
               /\ sw.session[t].status = "added" /\ sw.session[t].inQueue
    <3>1. /\ t \in Sessions /\ t \in Members(sv.queue[q])
          /\ QueueOf(t) = q /\ sv.sessions[AccountOf[t]] = t
          /\ sw.session[t].status = "added" /\ sw.session[t].inQueue
      BY <1>2, <2>1, WaitingKept
    <3>2. t # s
      BY <3>1 DEF NotQueued
    <3> QED BY <1>5, <3>1, <3>2
  <2> QED BY <2>1 DEF Waits
<1>7. Flagged(sw, X)
  <2>1. ASSUME NEW t \in Sessions
        PROVE  /\ sw.session[t].passedQueue => sw.session[t].status = "added" /\ ~sw.session[t].inQueue
               /\ sw.session[t].inQueue => /\ sw.session[t].status = "added"
                                           /\ sw.session[t].player = None /\ ~sw.session[t].loading
    BY <1>1, <1>2 DEF Flagged, SameWaiting, SameFlags
  <2>2. ASSUME NEW t \in Sessions \ X, sw.session[t].status = "added"
        PROVE  /\ sw.session[t].passedQueue \/ sw.session[t].inQueue
               /\ sw.sessions[AccountOf[t]] = t \/ t \in sw.disconnected
    <3>1. /\ sv.session[t].passedQueue \/ sv.session[t].inQueue
          /\ sv.sessions[AccountOf[t]] = t \/ t \in sv.disconnected
      BY <1>1, <1>2, <2>2 DEF Flagged, SameWaiting, SameFlags
    <3>2. sw.session[t].passedQueue \/ sw.session[t].inQueue
      BY <1>2, <3>1 DEF SameWaiting, SameFlags
    <3> QED BY <1>5, <3>1, <3>2
  <2> QED BY <2>1, <2>2 DEF Flagged
<1>8. /\ \A i \in Ips : Cardinality(Present(sw, i)) <= sw.connections[i]
      /\ sw.connections \in [Ips -> Nat]
  <2>1. PICK j \in Ips : j = IpOf[s]
    BY AttributesAssumption
  <2>2. Present(sw, j) = Present(sv, j) \ {s} /\ s \in Present(sv, j)
    BY <1>5, <2>1 DEF Present
  <2>3. \A i \in Ips \ {j} : Present(sw, i) = Present(sv, i)
    BY <1>5, <2>1 DEF Present
  <2>4. PICK a, b \in Nat : /\ a = Cardinality(Present(sv, j)) /\ b = Cardinality(Present(sw, j))
                            /\ b = a - 1
    BY <2>2, SessionSets, CountedSets
  <2>5. a <= sv.connections[j] /\ sv.connections[j] \in Nat
    BY <1>1, <2>4 DEF Counted, Typed
  <2>6. CASE sw.connections = sv.connections
    <3>1. Cardinality(Present(sw, j)) <= sw.connections[j]
      BY <2>4, <2>5, <2>6
    <3>2. ASSUME NEW i \in Ips \ {j} PROVE Cardinality(Present(sw, i)) <= sw.connections[i]
      BY <1>1, <2>3, <2>6, <3>2 DEF Counted
    <3> QED BY <1>1, <2>6, <3>1, <3>2 DEF Typed
  <2>7. CASE sw.connections = [sv.connections EXCEPT ![j] = @ - 1]
    <3>1. sw.connections[j] = sv.connections[j] - 1 /\ sv.connections[j] - 1 \in Nat
      BY <1>1, <2>4, <2>5, <2>7 DEF Typed
    <3>2. \A i \in Ips \ {j} : sw.connections[i] = sv.connections[i]
      BY <1>1, <2>7 DEF Typed
    <3>3. sw.connections \in [Ips -> Nat]
      BY <1>1, <2>7, <3>1 DEF Typed
    <3>4. b <= sw.connections[j]
      BY <2>4, <2>5, <3>1
    <3> QED BY <1>1, <2>3, <2>4, <3>2, <3>3, <3>4 DEF Counted
  <2> QED BY <2>1, <2>6, <2>7 DEF Vacated
<1>9. Inside(sw, X) \subseteq Inside(sv, X)
  BY <1>2, <1>5 DEF Inside, SameWaiting, SameFlags
<1>10. Within(sw, X)
  <2>1. PICK a, b \in Nat : a = Cardinality(Inside(sw, X)) /\ b = Cardinality(Inside(sv, X)) /\ a <= b
    BY <1>9, SessionSets, CountedSets
  <2> QED BY <1>1, <2>1, CeilingBounds DEF Within, Vacated, Limited
<1>11. Typed(sw)
  BY <1>1, <1>8 DEF Typed, SameWaiting, Vacated
<1>12. NotQueued(sw, s)
  BY <1>2 DEF NotQueued, SameWaiting
<1>13. Counted(sw)
  BY <1>2, <1>8, WaitingKept DEF Counted
<1> QED BY <1>2, <1>6, <1>7, <1>10, <1>11, <1>12, <1>13, WaitingKept DEF Admission

(* A session enters the session map, where no other one is any more. *)
Mapped(sv, sw, s) ==
  /\ SameWaiting(sv, sw) /\ sw.sessions = [sv.sessions EXCEPT ![AccountOf[s]] = s]
  /\ sw.lastLogout = sv.lastLogout /\ sw.disconnected = sv.disconnected
  /\ sw.connections = [sv.connections EXCEPT ![IpOf[s]] = @ + 1]

LEMMA MappedAdmission ==
  ASSUME NEW sv, Shape(sv), NEW X, NEW f, Admission(sv, X, f), NEW s \in X, s \in Sessions,
         NotQueued(sv, s),
         \A t \in Sessions : sv.sessions[AccountOf[s]] = t => sv.session[t].status # "added",
         NEW sw, Mapped(sv, sw, s)
  PROVE  Admission(sw, X, f) /\ OrderKept(sv, sw, {}) /\ NotQueued(sw, s)
<1>1. Typed(sv) /\ Lined(sv) /\ Waits(sv) /\ Flagged(sv, X) /\ Counted(sv) /\ Within(sv, X)
  BY DEF Admission
<1>2. SameWaiting(sv, sw)
  BY DEF Mapped
<1>3. \A a \in Accounts : sw.sessions[a] = IF a = AccountOf[s] THEN s ELSE sv.sessions[a]
  BY DEF Mapped, Shape
<1>4. \A t \in Sessions : AccountOf[t] \in Accounts
  BY AttributesAssumption
<1>5. \A t \in Sessions \ {s} :
        /\ sw.sessions[AccountOf[t]] = t => sv.sessions[AccountOf[t]] = t
        /\ sv.sessions[AccountOf[t]] = t /\ sv.session[t].status = "added"
           => sw.sessions[AccountOf[t]] = t
  BY <1>3, <1>4
<1>6. Waits(sw)
  <2>1. ASSUME NEW q \in Regions \cup {Fifo}, NEW t \in Members(sw.queue[q])
        PROVE  /\ QueueOf(t) = q /\ sw.sessions[AccountOf[t]] = t
               /\ sw.session[t].status = "added" /\ sw.session[t].inQueue
    <3>1. /\ t \in Sessions /\ t \in Members(sv.queue[q])
          /\ QueueOf(t) = q /\ sv.sessions[AccountOf[t]] = t
          /\ sw.session[t].status = "added" /\ sw.session[t].inQueue
      BY <1>2, <2>1, WaitingKept
    <3>2. t # s
      BY <3>1 DEF NotQueued
    <3>3. sv.session[t].status = "added"
      BY <1>2, <3>1 DEF SameWaiting, SameFlags
    <3> QED BY <1>5, <3>1, <3>2, <3>3
  <2> QED BY <2>1 DEF Waits
<1>7. Flagged(sw, X)
  <2>1. ASSUME NEW t \in Sessions
        PROVE  /\ sw.session[t].passedQueue => sw.session[t].status = "added" /\ ~sw.session[t].inQueue
               /\ sw.session[t].inQueue => /\ sw.session[t].status = "added"
                                           /\ sw.session[t].player = None /\ ~sw.session[t].loading
    BY <1>1, <1>2 DEF Flagged, SameWaiting, SameFlags
  <2>2. ASSUME NEW t \in Sessions \ X, sw.session[t].status = "added"
        PROVE  /\ sw.session[t].passedQueue \/ sw.session[t].inQueue
               /\ sw.sessions[AccountOf[t]] = t \/ t \in sw.disconnected
    <3>1. /\ sv.session[t].passedQueue \/ sv.session[t].inQueue
          /\ sv.sessions[AccountOf[t]] = t \/ t \in sv.disconnected
          /\ sv.session[t].status = "added"
      BY <1>1, <1>2, <2>2 DEF Flagged, SameWaiting, SameFlags
    <3>2. sw.session[t].passedQueue \/ sw.session[t].inQueue
      BY <1>2, <3>1 DEF SameWaiting, SameFlags
    <3>3. sw.disconnected = sv.disconnected /\ t # s
      BY <2>2 DEF Mapped
    <3> QED BY <1>5, <3>1, <3>2, <3>3
  <2> QED BY <2>1, <2>2 DEF Flagged
<1>8. /\ \A i \in Ips : Cardinality(Present(sw, i)) <= sw.connections[i]
      /\ sw.connections \in [Ips -> Nat]
  <2>1. PICK j \in Ips : j = IpOf[s]
    BY AttributesAssumption
  <2>2. Present(sw, j) \subseteq Present(sv, j) \cup {s}
    BY <1>5 DEF Present
  <2>3. \A i \in Ips \ {j} : Present(sw, i) \subseteq Present(sv, i)
    BY <1>5, <2>1 DEF Present
  <2>4. PICK a, b \in Nat : /\ a = Cardinality(Present(sv, j)) /\ b = Cardinality(Present(sw, j))
                            /\ b <= a + 1
    <3>1. PICK U, S : U = Present(sv, j) \cup S /\ S = {s} /\ Cardinality(S) = 1
      BY OneCount
    <3>2. U \in SUBSET Sessions /\ S \in SUBSET Sessions
      BY <3>1, CountedSets
    <3>3. PICK a, b, c \in Nat : /\ a = Cardinality(Present(sv, j)) /\ c = Cardinality(U)
                                 /\ b = Cardinality(Present(sw, j))
      BY <3>2, SessionSets, CountedSets
    <3>4. c <= a + 1
      BY <3>1, <3>2, <3>3, UnionCount, CountedSets
    <3>5. b <= c
      BY <2>2, <3>1, <3>2, <3>3, SessionSets, CountedSets
    <3> QED BY <3>3, <3>4, <3>5
  <2>5. a <= sv.connections[j] /\ sv.connections[j] \in Nat
    BY <1>1, <2>4 DEF Counted, Typed
  <2>6. sw.connections = [sv.connections EXCEPT ![j] = @ + 1]
    BY <2>1 DEF Mapped
  <2>7. sw.connections[j] = sv.connections[j] + 1
    BY <1>1, <2>6 DEF Typed
  <2>8. sw.connections \in [Ips -> Nat] /\ \A i \in Ips \ {j} : sw.connections[i] = sv.connections[i]
    BY <1>1, <2>5, <2>6 DEF Typed
  <2>9. ASSUME NEW i \in Ips PROVE Cardinality(Present(sw, i)) <= sw.connections[i]
    <3>1. CASE i = j
      BY <2>4, <2>5, <2>7, <3>1
    <3>2. CASE i # j
      <4>1. PICK x, y \in Nat : /\ x = Cardinality(Present(sv, i))
                                /\ y = Cardinality(Present(sw, i)) /\ y <= x
        BY <2>3, <3>2, SessionSets, CountedSets
      <4>2. x <= sv.connections[i] /\ sv.connections[i] \in Nat
        BY <1>1, <4>1 DEF Counted, Typed
      <4> QED BY <2>8, <3>2, <4>1, <4>2
    <3> QED BY <3>1, <3>2
  <2> QED BY <2>8, <2>9
<1>9. Inside(sw, X) \subseteq Inside(sv, X)
  BY <1>2, <1>5 DEF Inside, SameWaiting, SameFlags
<1>10. Within(sw, X)
  <2>1. PICK a, b \in Nat : a = Cardinality(Inside(sw, X)) /\ b = Cardinality(Inside(sv, X)) /\ a <= b
    BY <1>9, SessionSets, CountedSets
  <2> QED BY <1>1, <2>1, CeilingBounds DEF Within, Mapped
<1>11. Typed(sw)
  BY <1>1, <1>8 DEF Typed, SameWaiting, Mapped
<1>12. NotQueued(sw, s)
  BY <1>2 DEF NotQueued, SameWaiting
<1>13. Counted(sw)
  BY <1>2, <1>8, WaitingKept DEF Counted
<1> QED BY <1>2, <1>6, <1>7, <1>10, <1>11, <1>12, <1>13, WaitingKept DEF Admission

(* A new session that need not wait is let in. *)
LEMMA PassedAdmission ==
  ASSUME NEW sv, NEW X, NEW f, Admission(sv, X, f), NEW s \in Sessions,
         sv.sessions[AccountOf[s]] = s, sv.session[s].status = "added",
         NotQueued(sv, s), ~sv.session[s].passedQueue,
         Limited => Cardinality(Inside(sv, X) \cup {s}) <= Ceiling,
         NEW S, S = {s}, NEW sw, sw.queue = sv.queue, LetIn(sv, sw, S, RegionOf[s])
  PROVE  Admission(sw, X \ {s}, f) /\ OrderKept(sv, sw, {})
<1>1. Typed(sv) /\ Lined(sv) /\ Waits(sv) /\ Flagged(sv, X) /\ Counted(sv) /\ Within(sv, X)
      /\ (f => AllQueued(sv))
  BY DEF Admission
<1>2. PICK Y : Y = X \ {s}
  OBVIOUS
<1>3. /\ SameFlags(sv, sw, Sessions \ {s}) /\ ~sw.session[s].inQueue /\ sw.session[s].passedQueue
      /\ sw.session[s].status = "added"
  BY DEF LetIn
<1>4. Counted(sw) /\ sw.logged \in [Regions -> Nat]
  <2>1. S \in SUBSET Sessions /\ RegionOf[s] \in Regions
        /\ \A t \in S : RegionOf[t] = RegionOf[s] /\ ~sv.session[t].passedQueue
    BY AttributesAssumption
  <2> QED BY <1>1, <2>1, LetInCounted
<1>5. Typed(sw) /\ Lined(sw)
  BY <1>1, <1>4 DEF Typed, Lined, LetIn
<1>6. Waits(sw)
  <2>1. ASSUME NEW q \in Regions \cup {Fifo}, NEW t \in Members(sw.queue[q])
        PROVE  t \in Sessions \ {s} /\ t \in Members(sv.queue[q])
    BY <1>1, <2>1, MembersAreSessions DEF Lined, NotQueued
  <2> QED BY <1>1, <1>3, <2>1 DEF Waits, LetIn, SameFlags
<1>7. Flagged(sw, Y)
  BY <1>1, <1>2, <1>3 DEF Flagged, LetIn, SameFlags
<1>8. Inside(sw, Y) \subseteq Inside(sv, X) \cup {s}
  BY <1>2, <1>3 DEF Inside, LetIn, SameFlags
<1>9. Within(sw, Y)
  <2>1. PICK U : U = Inside(sv, X) \cup {s}
    OBVIOUS
  <2>2. U \in SUBSET Sessions
    BY <2>1, CountedSets
  <2>3. PICK a, b \in Nat : a = Cardinality(Inside(sw, Y)) /\ b = Cardinality(U) /\ a <= b
    BY <1>8, <2>1, <2>2, SessionSets, CountedSets
  <2>4. Limited => b <= Ceiling
    BY <2>1, <2>3
  <2> QED BY <1>1, <2>3, <2>4, CeilingBounds DEF Within, LetIn
<1>10. f => AllQueued(sw)
  BY <1>1, <1>3 DEF AllQueued, SameFlags
<1>11. OrderKept(sv, sw, {})
  BY OrderSame
<1> QED BY <1>2, <1>4, <1>5, <1>6, <1>7, <1>9, <1>10, <1>11 DEF Admission

(* The sessions that do not wait are no more than ActiveCount says. *)
LEMMA MemberCount ==
  ASSUME NEW q, Line(q)
  PROVE  Cardinality(Members(q)) = Len(q) /\ Len(q) \in Nat
<1>1. Len(q) \in Nat /\ DOMAIN q = 1 .. Len(q)
  BY DEF Line
<1>2. PICK g : g = [i \in 1 .. Len(q) |-> q[i].sess]
  OBVIOUS
<1>3. g \in Bijection(1 .. Len(q), Members(q))
  <2>1. g \in [1 .. Len(q) -> Members(q)]
    BY <1>1, <1>2 DEF Members
  <2>2. \A i, j \in 1 .. Len(q) : g[i] = g[j] => i = j
    BY <1>1, <1>2 DEF Line
  <2>3. \A s \in Members(q) : \E i \in 1 .. Len(q) : g[i] = s
    BY <1>1, <1>2 DEF Members
  <2> QED BY <2>1, <2>2, <2>3 DEF Bijection, Injection, Surjection, IsInjective
<1>4. PICK N : N = 1 .. Len(q)
  OBVIOUS
<1>5. ExistsBijection(N, Members(q))
  BY <1>3, <1>4 DEF ExistsBijection
<1>6. IsFiniteSet(N) /\ Cardinality(N) = Len(q)
  <2>1. PICK n : n = Len(q)
    OBVIOUS
  <2>3. n \in Int /\ n >= 0
    BY <1>1, <2>1
  <2>2. IsFiniteSet(1 .. n) /\ Cardinality(1 .. n) = IF 1 > n THEN 0 ELSE n - 1 + 1
    BY <2>3, FS_Interval
  <2> QED BY <1>4, <2>1, <2>2, <2>3
<1> QED BY <1>1, <1>5, <1>6, FS_Bijection

LEMMA QueuedCounts ==
  ASSUME NEW sv, Typed(sv), Lined(sv), Waits(sv)
  PROVE  \E M \in SUBSET Sessions :
           /\ QueuedCount(sv) = Cardinality(M)
           /\ \A s \in M : ~NotQueued(sv, s) /\ sv.sessions[AccountOf[s]] = s
<1>1. \A q \in Regions \cup {Fifo} : /\ Line(sv.queue[q]) /\ Members(sv.queue[q]) \subseteq Sessions
                                    /\ Cardinality(Members(sv.queue[q])) = Len(sv.queue[q])
  BY MembersAreSessions, MemberCount DEF Lined
<1>2. 0 \in Regions \cup {Fifo} /\ 1 \in Regions \cup {Fifo} /\ Fifo \in Regions \cup {Fifo}
  BY DEF Regions
<1>3. CASE PriorityQueue
  <2>1. PICK A, B : A = Members(sv.queue[0]) /\ B = Members(sv.queue[1])
    OBVIOUS
  <2>2. A \in SUBSET Sessions /\ B \in SUBSET Sessions /\ A \cap B = {}
    <3>1. (\A s \in A : QueueOf(s) = 0) /\ (\A s \in B : QueueOf(s) = 1)
      BY <1>2, <2>1 DEF Waits
    <3> QED BY <1>1, <1>2, <2>1, <3>1
  <2>3. Cardinality(A) = Len(sv.queue[0]) /\ Cardinality(B) = Len(sv.queue[1])
    BY <1>1, <1>2, <2>1
  <2>4. PICK M : M = A \cup B
    OBVIOUS
  <2>5. M \in SUBSET Sessions /\ Cardinality(M) = Cardinality(A) + Cardinality(B)
    BY <2>2, <2>4, UnionCount
  <2>6. QueuedCount(sv) = Cardinality(M)
    BY <1>3, <2>3, <2>5 DEF QueuedCount
  <2>7. \A s \in M : ~NotQueued(sv, s) /\ sv.sessions[AccountOf[s]] = s
    BY <1>2, <2>1, <2>4 DEF NotQueued, Waits
  <2> QED BY <2>5, <2>6, <2>7
<1>4. CASE ~PriorityQueue
  <2>1. QueuedCount(sv) = Len(sv.queue[Fifo])
    BY <1>4 DEF QueuedCount
  <2>2. \A s \in Members(sv.queue[Fifo]) : ~NotQueued(sv, s) /\ sv.sessions[AccountOf[s]] = s
    BY <1>2 DEF NotQueued, Waits
  <2> QED BY <1>1, <1>2, <2>1, <2>2
<1> QED BY <1>3, <1>4

LEMMA ActiveBounds ==
  ASSUME NEW sv, Shape(sv), NEW X, NEW f, Admission(sv, X, f), NEW T \in SUBSET Sessions,
         \A t \in T : sv.sessions[AccountOf[t]] = t /\ NotQueued(sv, t)
  PROVE  ActiveCount(sv) \in Int /\ Cardinality(T) <= ActiveCount(sv)
<1>1. PICK M \in SUBSET Sessions :
           /\ QueuedCount(sv) = Cardinality(M)
           /\ \A s \in M : ~NotQueued(sv, s) /\ sv.sessions[AccountOf[s]] = s
  BY QueuedCounts DEF Admission
<1>2. T \cap M = {}
  BY <1>1
<1>3. InMap(sv) \in SUBSET Sessions
  BY DEF InMap, Shape
<1>4. PICK U : U = T \cup M
  OBVIOUS
<1>5. U \subseteq InMap(sv) /\ U \in SUBSET Sessions
  BY <1>1, <1>4, AttributesAssumption, NoneAssumption DEF InMap
<1>6. PICK a, b, c, d \in Nat : /\ a = Cardinality(T) /\ b = Cardinality(M)
                                /\ c = Cardinality(U) /\ d = Cardinality(InMap(sv))
  BY <1>1, <1>3, <1>5, SessionSets
<1>7. c = a + b
  BY <1>1, <1>2, <1>4, <1>6, UnionCount
<1>8. c <= d
  BY <1>3, <1>5, <1>6, SessionSets
<1>9. ActiveCount(sv) = d - b
  BY <1>1, <1>6 DEF ActiveCount
<1> QED BY <1>6, <1>7, <1>8, <1>9

LEMMA InsideBounds ==
  ASSUME NEW sv, Shape(sv), NEW X, NEW f, Admission(sv, X, f)
  PROVE  ActiveCount(sv) \in Int /\ Cardinality(Inside(sv, X)) <= ActiveCount(sv)
<1>1. \A t \in Inside(sv, X) : sv.sessions[AccountOf[t]] = t /\ NotQueued(sv, t)
  BY DEF Inside, NotQueued, Admission, Waits
<1> QED BY <1>1, ActiveBounds, CountedSets

-----------------------------------------------------------------------------
(* Joining a queue.                                                          *)

(* p is the sequence q of elements of S with e at position i. *)
Inserted(p, q, S, i, e) ==
  /\ p \in Seq(S) /\ DOMAIN p = 1 .. (Len(q) + 1)
  /\ \A k \in 1 .. (Len(q) + 1) :
       p[k] = IF k < i THEN q[k] ELSE IF k = i THEN e ELSE q[k - 1]

LEMMA InsertAtIndices ==
  ASSUME NEW S, NEW q \in Seq(S), NEW i \in 1 .. (Len(q) + 1), NEW e \in S
  PROVE  Inserted(InsertAt(q, i, e), q, S, i, e)
<1>0. PICK p, r : p = SubSeq(q, 1, i - 1) /\ r = SubSeq(q, i, Len(q))
  OBVIOUS
<1>1. i \in Nat /\ i >= 1 /\ i <= Len(q) + 1 /\ Len(q) \in Nat /\ DOMAIN q = 1 .. Len(q)
  OBVIOUS
<1>2. /\ p \in Seq(S) /\ Len(p) = i - 1 /\ \A k \in 1 .. (i - 1) : p[k] = q[k]
      /\ r \in Seq(S) /\ Len(r) = Len(q) - i + 1
      /\ \A k \in 1 .. (Len(q) - i + 1) : r[k] = q[i + k - 1]
  <2>1. /\ p \in Seq(S) /\ Len(p) = IF 1 <= i - 1 THEN (i - 1) - 1 + 1 ELSE 0
        /\ \A k \in 1 .. (i - 1) - 1 + 1 : p[k] = q[1 + k - 1]
    <3>1. 1 \in Int /\ i - 1 \in Int /\ \A k \in 1 .. (i - 1) : q[k] \in S
      BY <1>1
    <3> QED BY <1>0, <3>1, SubSeqProperties
  <2>2. /\ r \in Seq(S) /\ Len(r) = IF i <= Len(q) THEN Len(q) - i + 1 ELSE 0
        /\ \A k \in 1 .. Len(q) - i + 1 : r[k] = q[i + k - 1]
    <3>1. i \in Int /\ Len(q) \in Int /\ \A k \in i .. Len(q) : q[k] \in S
      BY <1>1
    <3> QED BY <1>0, <3>1, SubSeqProperties
  <2>3. Len(p) = i - 1 /\ (i - 1) - 1 + 1 = i - 1 /\ Len(r) = Len(q) - i + 1
    BY <1>1, <2>1, <2>2
  <2>4. \A k \in 1 .. (i - 1) : p[k] = q[k]
    BY <1>1, <2>1, <2>3
  <2> QED BY <2>1, <2>2, <2>3, <2>4
<1>3. InsertAt(q, i, e) = (p \o <<e>>) \o r
  BY <1>0 DEF InsertAt
<1>4. PICK z, u : z = InsertAt(q, i, e) /\ u = p \o <<e>>
  OBVIOUS
<1>5. u \in Seq(S) /\ Len(u) = i /\ \A k \in 1 .. i : u[k] = IF k < i THEN q[k] ELSE e
  BY <1>1, <1>2, <1>4
<1>6. z = u \o r
  BY <1>3, <1>4
<1>7. z \in Seq(S) /\ Len(z) = Len(q) + 1
  <2>1. z \in Seq(S) /\ Len(z) = Len(u) + Len(r)
    <3>1. u \in Seq(S) /\ r \in Seq(S)
      BY <1>2, <1>5
    <3> QED BY <1>6, <3>1, ConcatProperties
  <2> QED BY <1>1, <1>2, <1>5, <2>1
<1>8. ASSUME NEW k \in 1 .. (Len(q) + 1)
      PROVE  z[k] = IF k < i THEN q[k] ELSE IF k = i THEN e ELSE q[k - 1]
  <2>1. CASE k <= i
    <3>1. z[k] = u[k]
      BY <1>1, <1>2, <1>5, <1>6, <2>1
    <3> QED BY <1>1, <1>5, <2>1, <3>1
  <2>2. CASE ~(k <= i)
    <3>1. z[k] = r[k - i] /\ k - i \in 1 .. (Len(q) - i + 1)
      BY <1>1, <1>2, <1>5, <1>6, <2>2
    <3>2. r[k - i] = q[i + (k - i) - 1]
      BY <1>2, <3>1
    <3>3. i + (k - i) - 1 = k - 1
      BY <1>1
    <3> QED BY <2>2, <3>1, <3>2, <3>3
  <2> QED BY <2>1, <2>2
<1>9. DOMAIN z = 1 .. (Len(q) + 1)
  BY <1>7
<1>10. Inserted(z, q, S, i, e)
  BY <1>7, <1>8, <1>9 DEF Inserted
<1> QED BY <1>4, <1>10

(* Where a newcomer of priority `c' goes. *)
LEMMA PlaceInLine ==
  ASSUME NEW q, Line(q), NEW c \in Nat,
         NEW P, \A i : i \in P <=> i \in DOMAIN q /\ \A j \in 1 .. i : q[j].prio >= c
  PROVE  \E m \in 1 .. (Len(q) + 1) :
           /\ Cardinality(P) = m - 1
           /\ \A j \in 1 .. (m - 1) : q[j].prio >= c
           /\ \A j \in m .. Len(q) : q[j].prio < c
<1>1. Len(q) \in Nat /\ DOMAIN q = 1 .. Len(q)
  BY DEF Line
<1>2. \A j \in 1 .. Len(q) : q[j].prio \in Nat
  <2>1. ASSUME NEW j \in 1 .. Len(q) PROVE q[j].prio \in Nat
    <3>1. q[j] \in Entry
      BY <1>1 DEF Line
    <3>2. PICK k \in Nat : k = PriorityCap
      <4>1. q[j].sess \in Sessions
        BY <3>1 DEF Entry
      <4> QED BY <4>1, PriorityBounds
    <3> QED BY <3>1, <3>2 DEF Entry
  <2> QED BY <2>1
<1> DEFINE B == {i \in 1 .. (Len(q) + 1) : i = Len(q) + 1 \/ q[i].prio < c}
<1>3. PICK m \in B : \A i \in B : m <= i
  <2>1. B \in SUBSET Nat /\ Len(q) + 1 \in B
    BY <1>1
  <2> HIDE DEF B
  <2> QED BY <2>1, LeastNumber
<1>4. m \in 1 .. (Len(q) + 1) /\ m \in Nat
  BY <1>1
<1>5. ASSUME NEW j \in 1 .. (m - 1) PROVE q[j].prio >= c
  <2>1. j \in 1 .. Len(q) /\ ~(m <= j)
    BY <1>1, <1>4
  <2>2. j \notin B
    BY <1>3, <2>1
  <2>3. ~(q[j].prio < c)
    BY <1>1, <2>1, <2>2
  <2> QED BY <1>2, <2>1, <2>3
<1>6. ASSUME NEW j \in m .. Len(q) PROVE q[j].prio < c
  <2>1. m \in 1 .. Len(q) /\ j \in 1 .. Len(q) /\ m <= j
    BY <1>1, <1>4
  <2>2. q[m].prio < c
    BY <1>1, <1>3, <2>1
  <2>3. q[m].prio >= q[j].prio
    BY <1>1, <2>1 DEF Line
  <2> QED BY <1>2, <2>1, <2>2, <2>3
<1>7. P = 1 .. (m - 1)
  <2>1. ASSUME NEW i \in P PROVE i \in 1 .. (m - 1)
    <3>1. i \in 1 .. Len(q) /\ \A j \in 1 .. i : q[j].prio >= c
      BY <1>1
    <3>2. SUFFICES ASSUME ~(i \in 1 .. (m - 1)) PROVE FALSE
      OBVIOUS
    <3>3. m \in 1 .. i /\ m \in m .. Len(q) /\ m \in 1 .. Len(q)
      BY <1>1, <1>4, <3>1, <3>2
    <3>4. q[m].prio >= c /\ q[m].prio < c
      BY <1>6, <3>1, <3>3
    <3> QED BY <1>2, <3>3, <3>4
  <2>2. ASSUME NEW i \in 1 .. (m - 1) PROVE i \in P
    <3>1. i \in DOMAIN q /\ \A j \in 1 .. i : j \in 1 .. (m - 1)
      BY <1>1, <1>4
    <3> QED BY <1>5, <3>1
  <2> QED BY <2>1, <2>2
<1>8. Cardinality(P) = m - 1
  <2>1. PICK n : n = m - 1
    OBVIOUS
  <2>2. n \in Int /\ n >= 0
    BY <1>4, <2>1
  <2>3. Cardinality(1 .. n) = IF 1 > n THEN 0 ELSE n - 1 + 1
    BY <2>2, FS_Interval
  <2> QED BY <1>7, <2>1, <2>2, <2>3
<1> QED BY <1>4, <1>5, <1>6, <1>8

(* The session `s' joins the line q, which becomes p. *)
Joins(q, p, s) ==
  /\ Line(p) /\ Members(p) = Members(q) \cup {s}
  /\ \A x, y : x # s /\ y # s /\ Behind(p, x, y) => Behind(q, x, y)

LEMMA InsertJoins ==
  ASSUME NEW q, Line(q), NEW e \in Entry, e.sess \notin Members(q),
         NEW m \in 1 .. (Len(q) + 1),
         \A j \in 1 .. (m - 1) : q[j].prio >= e.prio,
         \A j \in m .. Len(q) : q[j].prio < e.prio,
         NEW p, p = InsertAt(q, m, e)
  PROVE  Joins(q, p, e.sess)
<1>1. /\ q \in Seq(Entry) /\ Len(q) \in Nat /\ DOMAIN q = 1 .. Len(q)
      /\ m \in Nat /\ 1 <= m /\ m <= Len(q) + 1
  BY DEF Line
<1>2. /\ p \in Seq(Entry) /\ DOMAIN p = 1 .. (Len(q) + 1)
      /\ \A k \in 1 .. (Len(q) + 1) :
              p[k] = IF k < m THEN q[k] ELSE IF k = m THEN e ELSE q[k - 1]
  <2>1. q \in Seq(Entry) /\ m \in 1 .. (Len(q) + 1) /\ e \in Entry
    BY <1>1
  <2>2. Inserted(InsertAt(q, m, e), q, Entry, m, e)
    BY <2>1, InsertAtIndices
  <2>3. Inserted(p, q, Entry, m, e)
    BY <2>2
  <2> QED BY <2>3 DEF Inserted
<1>3. PICK g : g = [k \in DOMAIN p |-> IF k < m THEN k ELSE k - 1]
  OBVIOUS
<1>4. \A k \in DOMAIN p \ {m} : g[k] \in DOMAIN q /\ p[k] = q[g[k]]
  BY <1>1, <1>2, <1>3
<1>5. \A k, l \in DOMAIN p \ {m} : k < l => g[k] < g[l]
  BY <1>1, <1>2, <1>3
<1>6. p[m] = e /\ m \in DOMAIN p
  BY <1>1, <1>2
<1>7. \A j \in DOMAIN q : \E k \in DOMAIN p \ {m} : p[k] = q[j]
  <2>1. ASSUME NEW j \in DOMAIN q PROVE \E k \in DOMAIN p \ {m} : p[k] = q[j]
    <3>1. CASE j < m
      BY <1>1, <1>2, <3>1
    <3>2. CASE ~(j < m)
      <4>1. j + 1 \in DOMAIN p \ {m} /\ ~(j + 1 < m) /\ j + 1 # m /\ j + 1 - 1 = j
        BY <1>1, <1>2, <3>2
      <4>2. p[j + 1] = q[j]
        BY <1>2, <4>1
      <4> QED BY <4>1, <4>2
    <3> QED BY <3>1, <3>2
  <2> QED BY <2>1
<1>8. \A j \in DOMAIN q : q[j].sess # e.sess
  BY DEF Members
<1>9. Line(p)
  <2>1. ASSUME NEW k \in DOMAIN p, NEW l \in DOMAIN p, k # l PROVE p[k].sess # p[l].sess
    <3>1. CASE k = m \/ l = m
      BY <1>4, <1>6, <1>8, <2>1, <3>1
    <3>2. CASE k # m /\ l # m
      <4>1. k < l \/ l < k
        BY <1>1, <1>2, <2>1
      <4>2. g[k] # g[l]
        <5>1. g[k] \in Int /\ g[l] \in Int
          BY <1>1, <1>4, <3>2
        <5> QED BY <1>5, <3>2, <4>1, <5>1
      <4> QED BY <1>4, <3>2, <4>2 DEF Line
    <3> QED BY <3>1, <3>2
  <2>2. ASSUME NEW k \in DOMAIN p, NEW l \in DOMAIN p, k <= l PROVE p[k].prio >= p[l].prio
    <3>1. \A j \in DOMAIN q : q[j].prio \in Int
      <4>1. ASSUME NEW j \in DOMAIN q PROVE q[j].prio \in Int
        <5>1. q[j] \in Entry
          BY <1>1
        <5> QED BY <5>1, PriorityBounds DEF Entry
      <4> QED BY <4>1
    <3>2. e.prio \in Int
      BY PriorityBounds DEF Entry
    <3>3. CASE k = m /\ l = m
      BY <1>6, <3>2, <3>3
    <3>4. CASE k = m /\ l # m
      <4>1. l - 1 \in m .. Len(q) /\ p[l] = q[l - 1] /\ l - 1 \in DOMAIN q
        BY <1>1, <1>2, <2>2, <3>4
      <4>2. q[l - 1].prio < e.prio
        BY <4>1
      <4> QED BY <1>6, <3>1, <3>2, <3>4, <4>1, <4>2
    <3>5. CASE k # m /\ l = m
      <4>1. k \in 1 .. (m - 1) /\ p[k] = q[k]
        BY <1>1, <1>2, <2>2, <3>5
      <4> QED BY <1>6, <3>5, <4>1
    <3>6. CASE k # m /\ l # m
      <4>1. g[k] <= g[l] /\ g[k] \in DOMAIN q /\ g[l] \in DOMAIN q
        BY <1>1, <1>2, <1>3, <1>4, <2>2, <3>6
      <4> QED BY <1>4, <3>6, <4>1 DEF Line
    <3> QED BY <3>3, <3>4, <3>5, <3>6
  <2> QED BY <1>2, <2>1, <2>2 DEF Line
<1>10. Members(p) = Members(q) \cup {e.sess}
  <2>1. \A k \in DOMAIN p : p[k].sess \in Members(q) \cup {e.sess}
    BY <1>4, <1>6 DEF Members
  <2>2. \A j \in DOMAIN q : q[j].sess \in Members(p)
    BY <1>7 DEF Members
  <2>3. e.sess \in Members(p)
    BY <1>6 DEF Members
  <2>4. Members(p) \subseteq Members(q) \cup {e.sess}
    BY <2>1 DEF Members
  <2>5. Members(q) \subseteq Members(p)
    BY <2>2 DEF Members
  <2> QED BY <2>3, <2>4, <2>5
<1>11. ASSUME NEW x, NEW y, x # e.sess, y # e.sess, Behind(p, x, y) PROVE Behind(q, x, y)
  <2>1. PICK k \in DOMAIN p, l \in DOMAIN p : k < l /\ p[k].sess = x /\ p[l].sess = y
    BY <1>11 DEF Behind
  <2>2. k # m /\ l # m
    BY <1>6, <1>11, <2>1
  <2>3. /\ g[k] \in DOMAIN q /\ g[l] \in DOMAIN q /\ g[k] < g[l]
        /\ q[g[k]].sess = x /\ q[g[l]].sess = y
    BY <1>4, <1>5, <2>1, <2>2
  <2> QED BY <2>3 DEF Behind
<1> QED BY <1>9, <1>10, <1>11 DEF Joins

LEMMA PriorityRange ==
  ASSUME NEW sv, NEW s \in Sessions
  PROVE  Priority(sv, s) \in 0 .. PriorityCap
<1>1. /\ PriorityCap \in Nat /\ BasePriority[s] \in Nat /\ BasePriority[s] < PriorityCap
      /\ IpPenalty \in Nat
  BY PriorityBounds, ConfigAssumption
<1>2. PICK b, n, x \in Nat : b = BasePriority[s] /\ n = PriorityCap /\ x = IpPenalty /\ b < n
  BY <1>1
<1>3. \/ Priority(sv, s) = 0 \/ Priority(sv, s) = b
      \/ Priority(sv, s) = b - x /\ ~(x >= b)
  BY <1>2 DEF Priority
<1> QED BY <1>2, <1>3

(* A session joins its queue. *)
Joined(sv, sw, s) ==
  /\ sw.sessions = sv.sessions /\ sw.disconnected = sv.disconnected
  /\ sw.connections = sv.connections /\ sw.lastLogout = sv.lastLogout
  /\ sw.playerLimit = sv.playerLimit /\ sw.logged = sv.logged
  /\ SameFlags(sv, sw, Sessions \ {s})
  /\ sw.session[s].inQueue /\ sw.session[s].passedQueue = sv.session[s].passedQueue
  /\ sw.session[s].status = sv.session[s].status
  /\ sw.session[s].player = sv.session[s].player
  /\ sw.session[s].loading = sv.session[s].loading

LEMMA AddQueuedEffect ==
  ASSUME NEW sv, Shape(sv), NEW X, NEW f, Admission(sv, X, f), NEW s \in Sessions,
         NotQueued(sv, s), NEW sw, sw = AddQueuedSession(sv, s)
  PROVE  Joined(sv, sw, s) /\ \E p : /\ Joins(sv.queue[QueueOf(s)], p, s)
                                     /\ sw.queue = [sv.queue EXCEPT ![QueueOf(s)] = p]
<1>1. PICK q, k : k = QueueOf(s) /\ q = sv.queue[k]
  OBVIOUS
<1>2. k \in Regions \cup {Fifo}
  BY <1>1, AttributesAssumption DEF QueueOf
<1>3. Line(q) /\ s \notin Members(q)
  BY <1>1, <1>2 DEF Admission, Lined, NotQueued
<1>4. PICK e : e = [prio |-> Priority(sv, s), sess |-> s]
  OBVIOUS
<1>5. e \in Entry /\ e.sess = s /\ e.prio \in Nat
  <2>1. PICK n : n = Priority(sv, s)
    OBVIOUS
  <2>2. n \in 0 .. PriorityCap
    BY <2>1, PriorityRange
  <2>3. PriorityCap \in Nat
    BY PriorityBounds
  <2> QED BY <1>4, <2>1, <2>2, <2>3 DEF Entry
<1>6. PICK P : P = {i \in DOMAIN q : \A j \in 1 .. i : q[j].prio >= e.prio}
  OBVIOUS
<1>7. PICK m \in 1 .. (Len(q) + 1) :
           /\ Cardinality(P) = m - 1
           /\ \A j \in 1 .. (m - 1) : q[j].prio >= e.prio
           /\ \A j \in m .. Len(q) : q[j].prio < e.prio
  <2>1. \A i : i \in P <=> i \in DOMAIN q /\ \A j \in 1 .. i : q[j].prio >= e.prio
    BY <1>6
  <2>2. PICK c : c = e.prio
    OBVIOUS
  <2>3. c \in Nat /\ \A i : i \in P <=> i \in DOMAIN q /\ \A j \in 1 .. i : q[j].prio >= c
    BY <1>5, <2>1, <2>2
  <2>4. \E m \in 1 .. (Len(q) + 1) :
           /\ Cardinality(P) = m - 1
           /\ \A j \in 1 .. (m - 1) : q[j].prio >= c
           /\ \A j \in m .. Len(q) : q[j].prio < c
    BY <1>3, <2>3, PlaceInLine
  <2> QED BY <2>2, <2>4
<1>8. PICK p : p = InsertAt(q, m, e)
  OBVIOUS
<1>9. Joins(q, p, s)
  <2>1. Joins(q, p, e.sess)
    BY <1>3, <1>5, <1>7, <1>8, InsertJoins
  <2> QED BY <1>5, <2>1
<1>10. Cardinality(P) + 1 = m
  BY <1>3, <1>7 DEF Line
<1>11. PICK g : g = [sv.queue EXCEPT ![k] = p]
  OBVIOUS
<1>12. sw = [sv EXCEPT !.queue = g, !.session[s].inQueue = TRUE, !.session[s].hadQueue = TRUE]
  <2>1. sw = [sv EXCEPT !.queue[k] = InsertAt(@, Cardinality(P) + 1, e),
                        !.session[s].inQueue = TRUE, !.session[s].hadQueue = TRUE]
    BY <1>1, <1>4, <1>6 DEF AddQueuedSession
  <2> QED BY <1>1, <1>8, <1>10, <1>11, <2>1 DEF Shape
<1>13. PICK sa, sb : /\ sa = [sv EXCEPT !.queue = g]
                     /\ sb = [sa EXCEPT !.session[s].inQueue = TRUE]
  OBVIOUS
<1>14. sw = [sb EXCEPT !.session[s].hadQueue = TRUE]
  BY <1>12, <1>13
<1>15. Shape(sa) /\ Shape(sb)
  <2>1. Shape(sa)
    BY <1>13, SameReflexive, SameOthers DEF SameControl
  <2>2. SameControl(sa, sb)
    BY <1>13, <2>1, SessionFields
  <2> QED BY <2>1, <2>2 DEF SameControl
<1>16. /\ sw.queue = g /\ sw.sessions = sv.sessions /\ sw.disconnected = sv.disconnected
       /\ sw.connections = sv.connections /\ sw.lastLogout = sv.lastLogout
       /\ sw.playerLimit = sv.playerLimit /\ sw.logged = sv.logged
  BY <1>13, <1>14, <1>15 DEF Shape
<1>17. ASSUME NEW t \in Sessions
       PROVE  /\ sw.session[t].inQueue = IF t = s THEN TRUE ELSE sv.session[t].inQueue
              /\ sw.session[t].passedQueue = sv.session[t].passedQueue
              /\ sw.session[t].status = sv.session[t].status
              /\ sw.session[t].player = sv.session[t].player
              /\ sw.session[t].loading = sv.session[t].loading
  <2>1. sa.session = sv.session
    BY <1>13 DEF Shape
  <2>2. /\ sb.session[t].inQueue = IF t = s THEN TRUE ELSE sa.session[t].inQueue
        /\ sb.session[t].passedQueue = sa.session[t].passedQueue
        /\ sb.session[t].status = sa.session[t].status
        /\ sb.session[t].player = sa.session[t].player
        /\ sb.session[t].loading = sa.session[t].loading
    <3>1. PICK x : x = [sa.session[s] EXCEPT !.inQueue = TRUE]
      OBVIOUS
    <3>2. sb.session = [sa.session EXCEPT ![s] = x] /\ sa.session[s] \in SessionState
      BY <1>13, <1>15, <3>1 DEF Shape
    <3>3. /\ x.inQueue = TRUE /\ x.passedQueue = sa.session[s].passedQueue
          /\ x.status = sa.session[s].status /\ x.player = sa.session[s].player
          /\ x.loading = sa.session[s].loading
      BY <3>1, <3>2 DEF SessionState
    <3>4. sb.session[t] = IF t = s THEN x ELSE sa.session[t]
      BY <1>15, <3>2 DEF Shape
    <3> QED BY <3>3, <3>4
  <2>3. /\ sw.session[t].inQueue = sb.session[t].inQueue
        /\ sw.session[t].passedQueue = sb.session[t].passedQueue
        /\ sw.session[t].status = sb.session[t].status
        /\ sw.session[t].player = sb.session[t].player
        /\ sw.session[t].loading = sb.session[t].loading
    BY <1>14, <1>15 DEF Shape, SessionState
  <2> QED BY <2>1, <2>2, <2>3
<1>19. Joined(sv, sw, s)
  BY <1>16, <1>17 DEF Joined, SameFlags
<1> QED BY <1>1, <1>9, <1>11, <1>16, <1>19

LEMMA JoinedAdmission ==
  ASSUME NEW sv, NEW X, NEW f, Admission(sv, X, f), NEW s \in Sessions,
         NotQueued(sv, s), sv.sessions[AccountOf[s]] = s, sv.session[s].status = "added",
         ~sv.session[s].passedQueue, sv.session[s].player = None, ~sv.session[s].loading,
         NEW p, Joins(sv.queue[QueueOf(s)], p, s),
         NEW sw, sw.queue = [sv.queue EXCEPT ![QueueOf(s)] = p], Joined(sv, sw, s)
  PROVE  Admission(sw, X \ {s}, f) /\ OrderKept(sv, sw, {s})
<1>1. Typed(sv) /\ Lined(sv) /\ Waits(sv) /\ Flagged(sv, X) /\ Counted(sv) /\ Within(sv, X)
      /\ (f => AllQueued(sv))
  BY DEF Admission
<1>2. PICK q \in Regions \cup {Fifo} : q = QueueOf(s)
  BY AttributesAssumption DEF QueueOf
<1>3. PICK Y : Y = X \ {s}
  OBVIOUS
<1>4. Joins(sv.queue[q], p, s) /\ sw.queue = [sv.queue EXCEPT ![q] = p]
  BY <1>2
<1>5. sw.queue[q] = p /\ \A k \in (Regions \cup {Fifo}) \ {q} : sw.queue[k] = sv.queue[k]
  BY <1>1, <1>4 DEF Typed
<1>6. Typed(sw) /\ Lined(sw)
  <2>1. Line(p)
    BY <1>4 DEF Joins
  <2>2. Lined(sw)
    BY <1>1, <1>5, <2>1 DEF Lined
  <2>3. sw.queue \in [Regions \cup {Fifo} -> Seq(Entry)]
    <3>1. p \in Seq(Entry)
      BY <2>1 DEF Line
    <3>2. sv.queue \in [Regions \cup {Fifo} -> Seq(Entry)]
      BY <1>1 DEF Typed
    <3> QED BY <1>4, <3>1, <3>2
  <2> QED BY <1>1, <2>2, <2>3 DEF Typed, Joined
<1>7. ASSUME NEW k \in Regions \cup {Fifo}, NEW t \in Members(sw.queue[k])
      PROVE  \/ t \in Sessions \ {s} /\ t \in Members(sv.queue[k])
             \/ t = s /\ k = q
  <2>1. Members(sv.queue[k]) \subseteq Sessions
    BY <1>1, MembersAreSessions DEF Lined
  <2>2. CASE k = q
    BY <1>4, <1>5, <1>7, <2>1, <2>2 DEF Joins
  <2>3. CASE k # q
    BY <1>5, <1>7, <2>1, <2>3 DEF NotQueued
  <2> QED BY <2>2, <2>3
<1>8. Waits(sw)
  <2>1. ASSUME NEW k \in Regions \cup {Fifo}, NEW t \in Members(sw.queue[k])
        PROVE  /\ QueueOf(t) = k /\ sw.sessions[AccountOf[t]] = t
               /\ sw.session[t].status = "added" /\ sw.session[t].inQueue
    <3>1. CASE t \in Sessions \ {s} /\ t \in Members(sv.queue[k])
      BY <1>1, <3>1 DEF Waits, Joined, SameFlags
    <3>2. CASE t = s /\ k = q
      BY <1>2, <3>2 DEF Joined
    <3> QED BY <1>7, <2>1, <3>1, <3>2
  <2> QED BY <2>1 DEF Waits
<1>9. Flagged(sw, Y)
  BY <1>1, <1>3 DEF Flagged, Joined, SameFlags
<1>10. (\A r : PassedIn(sw, r) = PassedIn(sv, r)) /\ (\A i : Present(sw, i) = Present(sv, i))
  BY DEF PassedIn, Present, Joined, SameFlags
<1>11. Counted(sw)
  BY <1>1, <1>10 DEF Counted, Joined
<1>12. Inside(sw, Y) \subseteq Inside(sv, X)
  BY <1>3 DEF Inside, Joined, SameFlags
<1>13. Within(sw, Y)
  <2>1. PICK a, b \in Nat : a = Cardinality(Inside(sw, Y)) /\ b = Cardinality(Inside(sv, X)) /\ a <= b
    BY <1>12, SessionSets, CountedSets
  <2> QED BY <1>1, <2>1, CeilingBounds DEF Within, Joined
<1>14. f => AllQueued(sw)
  <2>1. SUFFICES ASSUME f, NEW t \in Sessions, sw.session[t].inQueue
        PROVE  t \in Members(sw.queue[QueueOf(t)])
    BY DEF AllQueued
  <2>2. CASE t = s
    BY <1>2, <1>4, <1>5, <2>2 DEF Joins
  <2>3. CASE t # s
    <3>1. t \in Members(sv.queue[QueueOf(t)]) /\ QueueOf(t) \in Regions \cup {Fifo}
      BY <1>1, <2>1, <2>3, AttributesAssumption DEF AllQueued, QueueOf, Joined, SameFlags
    <3>2. CASE QueueOf(t) = q
      BY <1>4, <1>5, <3>1, <3>2 DEF Joins
    <3>3. CASE QueueOf(t) # q
      BY <1>5, <3>1, <3>3
    <3> QED BY <3>2, <3>3
  <2> QED BY <2>2, <2>3
<1>15. OrderKept(sv, sw, {s})
  <2>1. SUFFICES ASSUME NEW x \in Sessions \ {s}, NEW y \in Sessions \ {s},
                        NEW k \in DOMAIN sw.queue, Behind(sw.queue[k], x, y)
        PROVE  Behind(sv.queue[k], x, y) /\ k \in DOMAIN sv.queue
    BY DEF OrderKept, Ahead, Behind
  <2>2. k \in DOMAIN sv.queue /\ k \in Regions \cup {Fifo}
    BY <1>1, <1>4, <2>1 DEF Typed
  <2>3. CASE k = q
    BY <1>4, <1>5, <2>1, <2>2, <2>3 DEF Joins
  <2>4. CASE k # q
    BY <1>5, <2>1, <2>2, <2>4
  <2> QED BY <2>3, <2>4
<1> QED BY <1>3, <1>6, <1>8, <1>9, <1>11, <1>13, <1>14, <1>15 DEF Admission

LEMMA AddQueuedAdmission ==
  ASSUME NEW sv, Shape(sv), NEW X, NEW f, Admission(sv, X, f), NEW s \in Sessions,
         NotQueued(sv, s), sv.sessions[AccountOf[s]] = s, sv.session[s].status = "added",
         ~sv.session[s].passedQueue, sv.session[s].player = None, ~sv.session[s].loading,
         NEW sw, sw = AddQueuedSession(sv, s)
  PROVE  Admission(sw, X \ {s}, f) /\ OrderKept(sv, sw, {s})
<1>1. Joined(sv, sw, s) /\ \E p : /\ Joins(sv.queue[QueueOf(s)], p, s)
                                  /\ sw.queue = [sv.queue EXCEPT ![QueueOf(s)] = p]
  BY AddQueuedEffect
<1>2. PICK p : /\ Joins(sv.queue[QueueOf(s)], p, s)
               /\ sw.queue = [sv.queue EXCEPT ![QueueOf(s)] = p]
  BY <1>1
<1> QED BY <1>1, <1>2, JoinedAdmission

-----------------------------------------------------------------------------
(* The functions of World, one after another.                                *)

LEMMA OnPassedEffect ==
  ASSUME NEW sv, Shape(sv), sv.playerLimit \in Nat, NEW S \in SUBSET Sessions, NEW r,
         NEW sw, sw = OnPassedQueue(sv, S, r)
  PROVE  LetIn(sv, sw, S, r) /\ sw.queue = sv.queue
<1>1. PICK F, L : /\ F = [s \in Sessions |->
                             IF s \in S THEN [sv.session[s] EXCEPT !.inQueue = FALSE,
                                                                   !.passedQueue = TRUE]
                             ELSE sv.session[s]]
                  /\ L = [sv.logged EXCEPT ![r] = @ + Cardinality(S)]
  OBVIOUS
<1>2. sw = [sv EXCEPT !.session = F, !.logged = L]
  BY <1>1 DEF OnPassedQueue, Shape
<1>3. /\ sw.session = F /\ sw.logged = L /\ sw.queue = sv.queue /\ sw.sessions = sv.sessions
      /\ sw.disconnected = sv.disconnected /\ sw.connections = sv.connections
      /\ sw.lastLogout = sv.lastLogout /\ sw.playerLimit = sv.playerLimit
  BY <1>2 DEF Shape
<1>4. ASSUME NEW t \in Sessions \ S PROVE sw.session[t] = sv.session[t]
  BY <1>1, <1>3
<1>5. ASSUME NEW t \in S
      PROVE  /\ ~sw.session[t].inQueue /\ sw.session[t].passedQueue
             /\ sw.session[t].status = sv.session[t].status
  <2>1. sv.session[t] \in SessionState
    BY DEF Shape
  <2>2. sw.session[t] = [sv.session[t] EXCEPT !.inQueue = FALSE, !.passedQueue = TRUE]
    BY <1>1, <1>3
  <2> QED BY <2>1, <2>2 DEF SessionState
<1> QED BY <1>1, <1>3, <1>4, <1>5 DEF LetIn, SameFlags

LEMMA LetInAfter ==
  ASSUME NEW sv, NEW su, NEW sw, NEW S, NEW r, LetIn(su, sw, S, r),
         su.session = sv.session, su.sessions = sv.sessions,
         su.disconnected = sv.disconnected, su.connections = sv.connections,
         su.lastLogout = sv.lastLogout, su.logged = sv.logged
  PROVE  LetIn(sv, sw, S, r)
BY DEF LetIn, SameFlags

LEMMA PopFrontAdmission ==
  ASSUME NEW sv, Shape(sv), NEW X, NEW f, Admission(sv, X, f), NEW q \in Regions \cup {Fifo},
         sv.queue[q] # << >>, ActiveCount(sv) < HardLimit,
         NEW sw, sw = PopFront(sv, q)
  PROVE  Admission(sw, X, f) /\ OrderKept(sv, sw, {})
<1>1. Typed(sv) /\ Line(sv.queue[q])
  BY DEF Admission, Lined
<1>2. PICK s, S, p : s = Head(sv.queue[q]).sess /\ S = {s} /\ p = Tail(sv.queue[q])
  OBVIOUS
<1>3. Shrinks(sv.queue[q], p, S)
  BY <1>1, <1>2, TailShrinks
<1>4. s \in Sessions /\ S \in SUBSET Sessions
  BY <1>1, <1>2, <1>3, MembersAreSessions DEF Shrinks
<1>5. PICK r \in Regions : r = RegionOf[s]
  BY <1>4, AttributesAssumption
<1>6. PICK g : g = [sv.queue EXCEPT ![q] = p]
  OBVIOUS
<1>7. PICK su : su = [sv EXCEPT !.queue = g]
  OBVIOUS
<1>8. sw = OnPassedQueue(su, S, r)
  BY <1>2, <1>5, <1>6, <1>7 DEF PopFront, Shape
<1>9. Shape(su)
  BY <1>7, SameReflexive, SameOthers DEF SameControl
<1>10. /\ su.queue = g /\ su.session = sv.session /\ su.sessions = sv.sessions
       /\ su.disconnected = sv.disconnected /\ su.connections = sv.connections
       /\ su.lastLogout = sv.lastLogout /\ su.logged = sv.logged
       /\ su.playerLimit = sv.playerLimit
  BY <1>7 DEF Shape
<1>11. LetIn(sv, sw, S, r) /\ sw.queue = g
  <2>1. su.playerLimit \in Nat
    BY <1>1, <1>10 DEF Typed
  <2>2. LetIn(su, sw, S, r) /\ sw.queue = su.queue
    BY <1>4, <1>8, <1>9, <2>1, OnPassedEffect
  <2> QED BY <1>10, <2>2, LetInAfter
<1>12. Cardinality(Inside(sv, X)) + Cardinality(S) <= Ceiling
  <2>1. PICK a : a = Cardinality(Inside(sv, X))
    OBVIOUS
  <2>2. PICK n : n = ActiveCount(sv)
    OBVIOUS
  <2>3. a \in Nat /\ n \in Int /\ a <= n /\ n < HardLimit
    BY <2>1, <2>2, InsideBounds, SessionSets, CountedSets
  <2>4. Cardinality(S) = 1
    BY <1>2, <1>4, OneCount
  <2> QED BY <2>1, <2>3, <2>4, CeilingBounds
<1>13. \A t \in S : RegionOf[t] = r
  BY <1>2, <1>5
<1>14. sw.queue = [sv.queue EXCEPT ![q] = p] /\ LetIn(sv, sw, S, r)
  BY <1>6, <1>11
<1>15. RoomFor(sv, X, S, r)
  BY <1>12, <1>13 DEF RoomFor
<1>16. Admits(sv, sw, X, S, r, q, p)
  BY <1>3, <1>14, <1>15 DEF Admits
<1> QED BY <1>16, LetInAdmission

LEMMA DequeueAdmission ==
  ASSUME NEW sv, Shape(sv), NEW X, NEW f, Admission(sv, X, f), NEW s \in Sessions,
         NEW sw, sw = Dequeue(sv, s)
  PROVE  Admission(sw, X \cup {s}, f) /\ OrderKept(sv, sw, {}) /\ NotQueued(sw, s)
<1>1. PICK k \in Regions \cup {Fifo} : k = QueueOf(s)
  BY AttributesAssumption DEF QueueOf
<1>2. PICK q : q = sv.queue[k]
  OBVIOUS
<1>3. Line(q)
  BY <1>2 DEF Admission, Lined
<1>4. Queued(sv, k) = Members(q)
  BY <1>2 DEF Queued, Members
<1>5. CASE ~IsQueued(sv, s)
  <2>1. sw = sv /\ s \notin Members(q)
    BY <1>1, <1>4, <1>5 DEF Dequeue, IsQueued
  <2>2. NotQueued(sv, s)
    <3>1. ASSUME NEW l \in Regions \cup {Fifo}, s \in Members(sv.queue[l]) PROVE l = k
      BY <1>1, <3>1 DEF Admission, Waits
    <3> QED BY <1>2, <2>1, <3>1 DEF NotQueued
  <2> QED BY <2>1, <2>2, AdmissionGrows, OrderSame
<1>6. CASE IsQueued(sv, s)
  <2>1. PICK i : i = CHOOSE n \in DOMAIN q : q[n].sess = s
    OBVIOUS
  <2>2. i \in DOMAIN q /\ q[i].sess = s
    BY <1>1, <1>4, <1>6, <2>1 DEF IsQueued, Members
  <2>3. PICK p : p = RemoveAt(q, i)
    OBVIOUS
  <2>4. Shrinks(q, p, {s})
    BY <1>3, <2>2, <2>3, RemoveAtShrinks
  <2>5. PICK g : g = [sv.queue EXCEPT ![k] = p]
    OBVIOUS
  <2>6. PICK su : su = [sv EXCEPT !.queue = g]
    OBVIOUS
  <2>7. sw = [su EXCEPT !.session[s].inQueue = FALSE]
    BY <1>1, <1>2, <1>6, <2>1, <2>3, <2>5, <2>6 DEF Dequeue, Shape
  <2>8. Shape(su)
    BY <2>6, SameReflexive, SameOthers DEF SameControl
  <2>9. PICK x : x = [sv.session[s] EXCEPT !.inQueue = FALSE]
    OBVIOUS
  <2>10. /\ sw.queue = g /\ sw.sessions = sv.sessions
         /\ sw.disconnected = sv.disconnected /\ sw.connections = sv.connections
         /\ sw.lastLogout = sv.lastLogout /\ sw.logged = sv.logged
         /\ sw.playerLimit = sv.playerLimit /\ sw.session = [sv.session EXCEPT ![s] = x]
    BY <2>6, <2>7, <2>8, <2>9 DEF Shape
  <2>11. sv.session[s] \in SessionState /\ sv.session \in [Sessions -> SessionState]
    BY DEF Shape
  <2>12. /\ ~x.inQueue /\ x.passedQueue = sv.session[s].passedQueue
         /\ x.status = sv.session[s].status
    BY <2>9, <2>11 DEF SessionState
  <2>13. sw.session[s] = x /\ \A t \in Sessions \ {s} : sw.session[t] = sv.session[t]
    BY <2>10, <2>11
  <2>14. Left(sv, sw, s)
    BY <2>10, <2>12, <2>13 DEF Left, SameFlags
  <2>15. Shrinks(sv.queue[QueueOf(s)], p, {s}) /\ sw.queue = [sv.queue EXCEPT ![QueueOf(s)] = p]
    BY <1>1, <1>2, <2>4, <2>5, <2>10
  <2> QED BY <2>14, <2>15, LeftAdmission
<1> QED BY <1>5, <1>6

LEMMA RemoveQueuedAdmission ==
  ASSUME NEW sv, Shape(sv), NEW X, NEW f, Admission(sv, X, f), NEW s \in Sessions,
         NEW sw, sw = RemoveQueuedSession(sv, s)
  PROVE  Admission(sw, X \cup {s}, f) /\ OrderKept(sv, sw, {}) /\ NotQueued(sw, s)
<1>1. PICK su : su = Dequeue(sv, s)
  OBVIOUS
<1>2. Shape(su)
  BY <1>1, DequeueSame DEF SameControl
<1>3. Admission(su, X \cup {s}, f) /\ OrderKept(sv, su, {}) /\ NotQueued(su, s)
  BY <1>1, DequeueAdmission
<1>4. CASE sw = su
  BY <1>3, <1>4
<1>5. CASE sw # su
  <2>1. sw = PopFront(su, Fifo) /\ su.queue[Fifo] # << >> /\ ActiveCount(su) < HardLimit
    BY <1>1, <1>5 DEF RemoveQueuedSession
  <2>2. Admission(sw, X \cup {s}, f) /\ OrderKept(su, sw, {})
    BY <1>2, <1>3, <2>1, PopFrontAdmission
  <2>3. NotQueued(sw, s)
    <3>1. Line(su.queue[Fifo]) /\ su.queue \in [Regions \cup {Fifo} -> Seq(Entry)]
      BY <1>3 DEF Admission, Lined, Typed
    <3>2. sw.queue = [su.queue EXCEPT ![Fifo] = Tail(@)]
      BY <1>2, <2>1 DEF PopFront, OnPassedQueue, Shape
    <3>3. Members(Tail(su.queue[Fifo])) \subseteq Members(su.queue[Fifo])
      BY <2>1, <3>1, TailShrinks DEF Shrinks
    <3> QED BY <1>3, <3>1, <3>2, <3>3 DEF NotQueued
  <2> QED BY <1>3, <2>2, <2>3, OrderCompose
<1> QED BY <1>4, <1>5

(* No more sessions are let in than entries are taken. *)
LEMMA FrontCount ==
  ASSUME NEW q, NEW n \in Nat
  PROVE  Cardinality({q[i].sess : i \in 1 .. n}) <= n
<1>1. PICK N, T : N = 1 .. n /\ T = {q[i].sess : i \in 1 .. n}
  OBVIOUS
<1>2. IsFiniteSet(N) /\ Cardinality(N) = n
  <2>1. IsFiniteSet(1 .. n) /\ Cardinality(1 .. n) = IF 1 > n THEN 0 ELSE n - 1 + 1
    BY FS_Interval
  <2> QED BY <1>1, <2>1
<1>3. PICK g : g = [i \in N |-> q[i].sess]
  OBVIOUS
<1>4. g \in Surjection(N, T)
  BY <1>1, <1>3 DEF Surjection
<1>5. Cardinality(T) <= Cardinality(N)
  BY <1>2, <1>4, FS_Surjection
<1> QED BY <1>1, <1>2, <1>5

LEMMA AdmitRegionAdmission ==
  ASSUME NEW sv, Shape(sv), NEW X, NEW f, Admission(sv, X, f), NEW r \in Regions,
         NEW pop \in [Regions -> Nat], NEW sw, sw = AdmitRegion(sv, r, pop)
  PROVE  Admission(sw, X, f) /\ OrderKept(sv, sw, {})
<1>1. SUFFICES ASSUME pop[r] < MaxPop[r] /\ sv.queue[r] # << >> /\ LoginPerTick > 0
      PROVE  Admission(sw, X, f) /\ OrderKept(sv, sw, {})
  <2>1. CASE ~(pop[r] < MaxPop[r] /\ sv.queue[r] # << >> /\ LoginPerTick > 0)
    BY <2>1, OrderSame DEF AdmitRegion
  <2> QED BY <1>1, <2>1
<1>2. PICK q : q = sv.queue[r]
  OBVIOUS
<1>3. Typed(sv) /\ Line(q) /\ q \in Seq(Entry) /\ Len(q) \in Nat /\ Within(sv, X)
  BY <1>2 DEF Admission, Lined, Line
<1>4. HardLimit \in Nat /\ LoginPerTick \in Nat /\ AgePerTick \in Nat
  BY ConfigAssumption
<1> DEFINE sum == pop[0] + pop[1] + LoginPerTick
<1>5. PICK raised : raised = Min({sv.playerLimit + LoginPerTick, sum})
  OBVIOUS
<1>6. raised \in Nat
  <2>1. PICK a, b \in Nat : a = sv.playerLimit + LoginPerTick /\ b = sum
    <3>1. sv.playerLimit \in Nat /\ pop[0] \in Nat /\ pop[1] \in Nat
      BY <1>3 DEF Typed, Regions
    <3>2. sv.playerLimit + LoginPerTick \in Nat /\ sum \in Nat
      BY <1>4, <3>1
    <3> QED BY <3>2
  <2>2. PICK T : T = {a, b}
    OBVIOUS
  <2>3. Min(T) = IF a <= b THEN a ELSE b
    <3>1. a \in Int /\ b \in Int /\ \A z : z \in T <=> z = a \/ z = b
      BY <2>1, <2>2
    <3> QED BY <3>1, MinOfTwo
  <2> QED BY <1>5, <2>1, <2>2, <2>3
<1>7. PICK full \in BOOLEAN : full <=> raised > HardLimit \/ HardLimit <= ActiveCount(sv)
  OBVIOUS
<1>8. PICK count : count = IF full THEN 0 ELSE Min({LoginPerTick, Len(q)})
  OBVIOUS
<1>9. count \in 0 .. Len(q) /\ (full => count = 0) /\ count <= LoginPerTick
  <2>1. PICK T : T = {LoginPerTick, Len(q)}
    OBVIOUS
  <2>2. PICK b \in Nat : b = Len(q)
    BY <1>3
  <2>3. Min(T) = IF LoginPerTick <= b THEN LoginPerTick ELSE b
    <3>1. LoginPerTick \in Int /\ b \in Int /\ \A z : z \in T <=> z = LoginPerTick \/ z = b
      BY <1>4, <2>1, <2>2
    <3> QED BY <3>1, MinOfTwo
  <2>4. count = IF full THEN 0 ELSE Min(T)
    BY <1>8, <2>1
  <2> QED BY <1>4, <2>2, <2>3, <2>4
<1>10. PICK limit : limit = IF full THEN HardLimit ELSE raised
  OBVIOUS
<1>11. PICK S, rest : S = {q[i].sess : i \in 1 .. count} /\ rest = SubSeq(q, count + 1, Len(q))
  OBVIOUS
<1>12. PICK p : p = [i \in DOMAIN rest |->
                       [rest[i] EXCEPT !.prio = Min({@ + AgePerTick, PriorityCap})]]
  OBVIOUS
<1>13. Shrinks(q, p, S)
  <2>1. Shrinks(q, p, {q[i].sess : i \in 1 .. count})
    BY <1>3, <1>4, <1>9, <1>11, <1>12, AgingShrinks
  <2> QED BY <1>11, <2>1
<1>14. S \in SUBSET Sessions
  BY <1>3, <1>13, MembersAreSessions DEF Shrinks
<1>15. PICK g : g = [sv.queue EXCEPT ![r] = p]
  OBVIOUS
<1>16. PICK su : su = [sv EXCEPT !.playerLimit = limit, !.queue = g]
  OBVIOUS
<1>17. sw = OnPassedQueue(su, S, r)
  <2>1. sw = OnPassedQueue([sv EXCEPT !.playerLimit = limit, !.queue[r] = p], S, r)
    BY <1>1, <1>2, <1>5, <1>7, <1>8, <1>10, <1>11, <1>12 DEF AdmitRegion
  <2>2. [sv EXCEPT !.playerLimit = limit, !.queue[r] = p] = su
    BY <1>15, <1>16 DEF Shape
  <2> QED BY <2>1, <2>2
<1>18. Shape(su)
  <2>1. PICK st : st = [sv EXCEPT !.playerLimit = limit]
    OBVIOUS
  <2>2. Shape(st) /\ SameControl(sv, st)
    <3>1. SameControl(sv, sv)
      BY SameReflexive
    <3>2. SameControl(sv, st)
      BY <2>1, <3>1, SameOthers
    <3> QED BY <3>2 DEF SameControl
  <2>3. su = [st EXCEPT !.queue = g]
    BY <1>16, <2>1
  <2>4. SameControl(sv, su)
    BY <2>2, <2>3, SameOthers
  <2> QED BY <2>4 DEF SameControl
<1>19. /\ su.queue = g /\ su.session = sv.session /\ su.sessions = sv.sessions
       /\ su.disconnected = sv.disconnected /\ su.connections = sv.connections
       /\ su.lastLogout = sv.lastLogout /\ su.logged = sv.logged
       /\ su.playerLimit = limit
  BY <1>16 DEF Shape
<1>20. LetIn(sv, sw, S, r) /\ sw.queue = g
  <2>1. su.playerLimit \in Nat
    BY <1>4, <1>6, <1>10, <1>19
  <2>2. LetIn(su, sw, S, r) /\ sw.queue = su.queue
    BY <1>14, <1>17, <1>18, <2>1, OnPassedEffect
  <2> QED BY <1>19, <2>2, LetInAfter
<1>21. RoomFor(sv, X, S, r)
  <2>1. \A t \in S : RegionOf[t] = r
    <3>1. ASSUME NEW t \in S PROVE RegionOf[t] = r
      <4>1. t \in Members(sv.queue[r])
        BY <1>2, <1>13 DEF Shrinks
      <4>2. QueueOf(t) = r
        BY <4>1 DEF Admission, Waits
      <4>3. r # Fifo
        BY DEF Regions, Fifo
      <4> QED BY <4>2, <4>3 DEF QueueOf
    <3> QED BY <3>1
  <2>2. ASSUME Limited PROVE Cardinality(Inside(sv, X)) + Cardinality(S) <= Ceiling
    <3>1. PICK a, b : a = Cardinality(Inside(sv, X)) /\ b = ActiveCount(sv)
      OBVIOUS
    <3>2. a \in Nat /\ b \in Int /\ a <= b /\ a <= Ceiling
      BY <1>3, <2>2, <3>1, InsideBounds, SessionSets, CountedSets DEF Within
    <3>3. CASE count = 0
      <4>1. S = {}
        BY <1>11, <3>3
      <4>2. Cardinality(S) = 0
        BY <4>1, FS_EmptySet
      <4> QED BY <3>1, <3>2, <4>2, CeilingBounds
    <3>4. CASE count # 0
      <4>1. ~full /\ b < HardLimit
        BY <1>4, <1>7, <1>9, <3>1, <3>2, <3>4
      <4>2. PICK d \in Nat : d = Cardinality(S)
        BY <1>14, SessionSets
      <4>3. d <= count /\ count \in Nat /\ count <= LoginPerTick
        BY <1>3, <1>9, <1>11, <4>2, FrontCount
      <4>4. a + d <= HardLimit + LoginPerTick - 1 /\ LoginPerTick > 0
        BY <1>1, <1>4, <3>2, <4>1, <4>2, <4>3
      <4> QED BY <3>1, <3>2, <4>2, <4>4, CeilingBounds
    <3> QED BY <3>3, <3>4
  <2> QED BY <2>1, <2>2 DEF RoomFor
<1>22. r \in Regions \cup {Fifo} /\ Shrinks(sv.queue[r], p, S)
       /\ sw.queue = [sv.queue EXCEPT ![r] = p]
  BY <1>2, <1>13, <1>15, <1>20
<1>23. Admits(sv, sw, X, S, r, r, p)
  BY <1>20, <1>21, <1>22 DEF Admits
<1> QED BY <1>23, LetInAdmission

LEMMA DeleteErases ==
  ASSUME NEW sv, Shape(sv), NEW s \in Sessions, NEW sw, sw = DeleteSession(sv, s)
  PROVE  Erased(sv, sw, s)
<1>1. PICK su : su = LogoutPlayer(sv, s)
  OBVIOUS
<1>2. Shape(su) /\ LoggedOut(sv, su, s)
  BY <1>1, LogoutEffect DEF LoggedOut, SameRest
<1>3. /\ su.queue = sv.queue /\ su.sessions = sv.sessions /\ su.disconnected = sv.disconnected
      /\ su.connections = sv.connections /\ su.lastLogout = sv.lastLogout
      /\ su.playerLimit = sv.playerLimit /\ su.logged = sv.logged
      /\ \A t \in Sessions \ {s} : su.session[t] = sv.session[t]
  BY <1>1 DEF LogoutPlayer, Shape
<1>4. PICK x : x = [NewSession EXCEPT !.status = "deleted"]
  OBVIOUS
<1>5. PICK n : n = IF sv.session[s].passedQueue THEN 1 ELSE 0
  OBVIOUS
<1>6. sw = [su EXCEPT !.session[s] = x, !.logged[RegionOf[s]] = @ - n]
  BY <1>1, <1>4, <1>5 DEF DeleteSession
<1>7. /\ sw.queue = su.queue /\ sw.sessions = su.sessions /\ sw.disconnected = su.disconnected
      /\ sw.connections = su.connections /\ sw.lastLogout = su.lastLogout
      /\ sw.playerLimit = su.playerLimit
      /\ sw.logged = [su.logged EXCEPT ![RegionOf[s]] = @ - n]
      /\ sw.session = [su.session EXCEPT ![s] = x]
  BY <1>2, <1>6 DEF Shape
<1>8. sw.session[s] = x /\ \A t \in Sessions \ {s} : sw.session[t] = su.session[t]
  BY <1>2, <1>7 DEF Shape
<1>9. x.status = "deleted" /\ ~x.inQueue /\ ~x.passedQueue
  BY <1>4 DEF NewSession
<1> QED BY <1>3, <1>5, <1>7, <1>8, <1>9 DEF Erased, SameFlags

LEMMA DeleteAdmission ==
  ASSUME NEW sv, Shape(sv), NEW X, NEW f, Admission(sv, X, f), NEW s \in Sessions,
         NotQueued(sv, s), s \in X \/ sv.sessions[AccountOf[s]] # s,
         NEW sw, sw = DeleteSession(sv, s)
  PROVE  /\ Admission(sw, X, f) /\ OrderKept(sv, sw, {}) /\ NotQueued(sw, s)
         /\ sw.sessions = sv.sessions /\ sw.session[s].status = "deleted"
         /\ \A t \in Sessions \ {s} : sw.session[t].status = sv.session[t].status
  <1>1. Erased(sv, sw, s)
    BY DeleteErases
  <1> QED BY <1>1, ErasedAdmission DEF Erased, SameFlags

(* Changes of a session that are none for admission. *)
LEMMA SessionSame ==
  ASSUME NEW sv, Shape(sv), NEW X, NEW f, Admission(sv, X, f), NEW s \in Sessions,
         NEW x, x.inQueue = sv.session[s].inQueue, x.passedQueue = sv.session[s].passedQueue,
         x.status = "added" <=> sv.session[s].status = "added",
         x.inQueue => x.player = None /\ ~x.loading,
         NEW sw, sw = [sv EXCEPT !.session[s] = x]
  PROVE  SameAdmission(sv, sw)
<1>1. /\ sw.queue = sv.queue /\ sw.logged = sv.logged /\ sw.connections = sv.connections
      /\ sw.sessions = sv.sessions /\ sw.disconnected = sv.disconnected
      /\ sw.playerLimit = sv.playerLimit /\ sw.lastLogout = sv.lastLogout
      /\ sw.session = [sv.session EXCEPT ![s] = x]
  BY DEF Shape
<1>2. sw.session[s] = x /\ \A t \in Sessions \ {s} : sw.session[t] = sv.session[t]
  BY <1>1 DEF Shape
<1>3. Typed(sv) /\ Flagged(sv, X)
  BY DEF Admission
<1>4. ASSUME NEW t \in Sessions
      PROVE  /\ sw.session[t].inQueue = sv.session[t].inQueue
             /\ sw.session[t].passedQueue = sv.session[t].passedQueue
             /\ sw.session[t].status = "added" <=> sv.session[t].status = "added"
             /\ sw.session[t].inQueue => sw.session[t].player = None /\ ~sw.session[t].loading
  <2>1. CASE t = s
    BY <1>2, <2>1
  <2>2. CASE t # s
    BY <1>2, <1>3, <2>2 DEF Flagged
  <2> QED BY <2>1, <2>2
<1> QED BY <1>1, <1>3, <1>4 DEF SameAdmission, Typed

LEMMA SocketSame ==
  ASSUME NEW sv, Shape(sv), NEW X, NEW f, Admission(sv, X, f), NEW s \in Sessions,
         NEW k, NEW sw, sw = [sv EXCEPT !.session[s].socket = k]
  PROVE  SameAdmission(sv, sw)
<1>1. PICK x : x = [sv.session[s] EXCEPT !.socket = k]
  OBVIOUS
<1>2. sw = [sv EXCEPT !.session[s] = x]
  BY <1>1 DEF Shape
<1>3. sv.session[s] \in SessionState
  BY DEF Shape
<1>4. /\ x.inQueue = sv.session[s].inQueue /\ x.passedQueue = sv.session[s].passedQueue
      /\ x.status = sv.session[s].status /\ x.player = sv.session[s].player
      /\ x.loading = sv.session[s].loading
  BY <1>1, <1>3 DEF SessionState
<1>5. x.inQueue => x.player = None /\ ~x.loading
  BY <1>4 DEF Admission, Flagged
<1>6. x.status = "added" <=> sv.session[s].status = "added"
  BY <1>4
<1> QED BY <1>2, <1>4, <1>5, <1>6, SessionSame

LEMMA KickAdmission ==
  ASSUME NEW sv, Shape(sv), NEW X, NEW f, Admission(sv, X, f), NEW s \in Sessions,
         NEW sw, sw = KickPlayer(sv, s)
  PROVE  Admission(sw, X, f) /\ OrderKept(sv, sw, {}) /\ sw.sessions = sv.sessions
<1>1. PICK k : sw = [sv EXCEPT !.session[s].socket = k]
  BY DEF KickPlayer
<1>2. SameAdmission(sv, sw)
  BY <1>1, SocketSame
<1> QED BY <1>2, SameKeepsAdmission DEF SameAdmission

LEMMA NoteAdmission ==
  ASSUME NEW sv, Shape(sv), NEW X, NEW f, Admission(sv, X, f), NEW s \in Sessions,
         NEW sw, sw = NoteLogout(sv, s)
  PROVE  /\ Admission(sw, X, f) /\ OrderKept(sv, sw, {})
         /\ \A t \in Sessions : NotQueued(sv, t) => NotQueued(sw, t)
         /\ sw.sessions = sv.sessions
<1>1. PICK L : L = IF sv.session[s].hadQueue /\ GracePeriod
                   THEN sv.lastLogout \cup {AccountOf[s]} ELSE sv.lastLogout
  OBVIOUS
<1>2. sw = [sv EXCEPT !.lastLogout = L]
  BY <1>1 DEF NoteLogout, Shape
<1>3. Typed(sv) /\ Flagged(sv, X)
  BY DEF Admission
<1>4. /\ sw.queue = sv.queue /\ sw.logged = sv.logged /\ sw.connections = sv.connections
      /\ sw.sessions = sv.sessions /\ sw.disconnected = sv.disconnected
      /\ sw.playerLimit = sv.playerLimit /\ sw.lastLogout = L /\ sw.session = sv.session
  BY <1>2 DEF Shape
<1>5. L \subseteq Accounts /\ (GracePeriod \/ L \subseteq sv.lastLogout)
  BY <1>1, <1>3, AttributesAssumption DEF Typed
<1>6. SameAdmission(sv, sw)
  BY <1>3, <1>4, <1>5 DEF SameAdmission, Typed, Flagged
<1> QED BY <1>4, <1>6, SameKeepsAdmission DEF NotQueued

LEMMA LogoutAdmission ==
  ASSUME NEW sv, Shape(sv), NEW X, NEW f, Admission(sv, X, f), NEW s \in Sessions,
         NEW sw, sw = LogoutPlayer(sv, s)
  PROVE  Admission(sw, X, f) /\ OrderKept(sv, sw, {})
<1>1. PICK c : c = sv.session[s].player
  OBVIOUS
<1>2. CASE c = None
  BY <1>1, <1>2, OrderSame DEF LogoutPlayer
<1>3. CASE c # None
  <2>1. PICK g : g = [sv.character EXCEPT ![c] = Offline]
    OBVIOUS
  <2>2. PICK x : x = [sv.session[s] EXCEPT !.player = None]
    OBVIOUS
  <2>3. sw = [sv EXCEPT !.character = g, !.session[s] = x]
    BY <1>1, <1>3, <2>1, <2>2 DEF LogoutPlayer, Shape
  <2>4. sv.session[s] \in SessionState
    BY DEF Shape
  <2>5. /\ x.inQueue = sv.session[s].inQueue /\ x.passedQueue = sv.session[s].passedQueue
        /\ x.status = sv.session[s].status /\ x.player = None
        /\ x.loading = sv.session[s].loading
    BY <2>2, <2>4 DEF SessionState
  <2>6. /\ sw.queue = sv.queue /\ sw.logged = sv.logged /\ sw.connections = sv.connections
        /\ sw.sessions = sv.sessions /\ sw.disconnected = sv.disconnected
        /\ sw.playerLimit = sv.playerLimit /\ sw.lastLogout = sv.lastLogout
        /\ sw.session = [sv.session EXCEPT ![s] = x]
    BY <2>3 DEF Shape
  <2>7. sw.session[s] = x /\ \A t \in Sessions \ {s} : sw.session[t] = sv.session[t]
    BY <2>6 DEF Shape
  <2>8. Typed(sv) /\ Flagged(sv, X)
    BY DEF Admission
  <2>9. ASSUME NEW t \in Sessions
        PROVE  /\ sw.session[t].inQueue = sv.session[t].inQueue
               /\ sw.session[t].passedQueue = sv.session[t].passedQueue
               /\ sw.session[t].status = "added" <=> sv.session[t].status = "added"
               /\ sw.session[t].inQueue => sw.session[t].player = None /\ ~sw.session[t].loading
    <3>1. CASE t = s
      BY <2>5, <2>7, <2>8, <3>1 DEF Flagged
    <3>2. CASE t # s
      BY <2>7, <2>8, <3>2 DEF Flagged
    <3> QED BY <3>1, <3>2
  <2>10. SameAdmission(sv, sw)
    BY <2>6, <2>8, <2>9 DEF SameAdmission, Typed
  <2> QED BY <2>10, SameKeepsAdmission
<1> QED BY <1>2, <1>3

LEMMA MoveAdmission ==
  ASSUME NEW sv, Shape(sv), NEW X, NEW f, Admission(sv, X, f), NEW s \in Sessions,
         NotQueued(sv, s), sv.sessions[AccountOf[s]] = s,
         NEW sw, sw = SetSessionDisconnected(sv, s)
  PROVE  /\ Admission(sw, X, f) /\ OrderKept(sv, sw, {}) /\ NotQueued(sw, s)
         /\ sw.sessions[AccountOf[s]] = None
<1>1. PICK su : su = NoteLogout(sv, s)
  OBVIOUS
<1>2. Shape(su)
  BY <1>1, NoteLogoutSame DEF SameControl
<1>3. /\ Admission(su, X, f) /\ OrderKept(sv, su, {}) /\ NotQueued(su, s)
      /\ su.sessions = sv.sessions
  BY <1>1, NoteAdmission
<1>4. sw = [su EXCEPT !.sessions[AccountOf[s]] = None, !.disconnected = @ \cup {s}]
  BY <1>1 DEF SetSessionDisconnected
<1>5. /\ sw.queue = su.queue /\ sw.logged = su.logged /\ sw.connections = su.connections
      /\ sw.playerLimit = su.playerLimit /\ sw.lastLogout = su.lastLogout
      /\ sw.session = su.session /\ sw.disconnected = su.disconnected \cup {s}
      /\ sw.sessions = [su.sessions EXCEPT ![AccountOf[s]] = None]
  BY <1>2, <1>4 DEF Shape
<1>6. Vacated(su, sw, s)
  BY <1>3, <1>5 DEF Vacated, SameWaiting, SameFlags, Admission, Typed
<1>7. Admission(sw, X, f) /\ OrderKept(su, sw, {}) /\ NotQueued(sw, s)
  <2>1. su.sessions[AccountOf[s]] = s
    BY <1>3
  <2> QED BY <1>2, <1>3, <1>5, <1>6, <2>1, VacatedAdmission
<1>8. sw.sessions[AccountOf[s]] = None
  BY <1>2, <1>5, AttributesAssumption DEF Shape
<1> QED BY <1>3, <1>7, <1>8, OrderCompose

LEMMA FlagsCompose ==
  ASSUME NEW su, NEW sv, NEW sw, NEW T, SameFlags(su, sv, T), SameFlags(sv, sw, T)
  PROVE  SameFlags(su, sw, T)
BY DEF SameFlags

LEMMA NotWaiting ==
  ASSUME NEW sv, NEW X, NEW f, Admission(sv, X, f), NEW s \in Sessions,
         ~sv.session[s].inQueue
  PROVE  NotQueued(sv, s)
BY DEF Admission, Waits, NotQueued

(* RemoveQueuedSession leaves alone the flags of a session that does not    *)
(* wait.                                                                    *)
LEMMA PopFrontFlags ==
  ASSUME NEW sv, Shape(sv), NEW X, NEW f, Admission(sv, X, f), NEW q \in Regions \cup {Fifo},
         sv.queue[q] # << >>, NEW t \in Sessions, ~sv.session[t].inQueue,
         NEW sw, sw = PopFront(sv, q)
  PROVE  sw.session[t] = sv.session[t]
<1>1. Line(sv.queue[q])
  BY DEF Admission, Lined
<1>2. PICK s, S : s = Head(sv.queue[q]).sess /\ S = {s}
  OBVIOUS
<1>3. Shrinks(sv.queue[q], Tail(sv.queue[q]), S)
  BY <1>1, <1>2, TailShrinks
<1>4. t \notin S
  <2>1. s \in Members(sv.queue[q])
    BY <1>2, <1>3 DEF Shrinks
  <2> QED BY <1>2, <2>1 DEF Admission, Waits
<1>5. PICK g : g = [sv.queue EXCEPT ![q] = Tail(@)]
  OBVIOUS
<1>6. PICK su : su = [sv EXCEPT !.queue = g]
  OBVIOUS
<1>7. sw = OnPassedQueue(su, S, RegionOf[s])
  BY <1>2, <1>5, <1>6 DEF PopFront, Shape
<1>8. su.session = sv.session /\ Shape(su)
  BY <1>6, SameReflexive, SameOthers DEF SameControl, Shape
<1>9. sw.session = [x \in Sessions |->
                      IF x \in S THEN [su.session[x] EXCEPT !.inQueue = FALSE,
                                                            !.passedQueue = TRUE]
                      ELSE su.session[x]]
  BY <1>7, <1>8 DEF OnPassedQueue, Shape
<1> QED BY <1>4, <1>8, <1>9

SameIdle(sv, sw, t) ==
  ~sv.session[t].inQueue => /\ sw.session[t].inQueue = FALSE
                            /\ sw.session[t].passedQueue = sv.session[t].passedQueue

LEMMA RemoveQueuedFlags ==
  ASSUME NEW sv, Shape(sv), NEW X, NEW f, Admission(sv, X, f), NEW s \in Sessions,
         NEW t \in Sessions, NEW sw, sw = RemoveQueuedSession(sv, s)
  PROVE  SameIdle(sv, sw, t)
<1> SUFFICES ASSUME ~sv.session[t].inQueue
    PROVE  sw.session[t].inQueue = FALSE /\ sw.session[t].passedQueue = sv.session[t].passedQueue
  BY DEF SameIdle
<1>1. PICK su : su = Dequeue(sv, s)
  OBVIOUS
<1>2. Shape(su)
  BY <1>1, DequeueSame DEF SameControl
<1>3. Admission(su, X \cup {s}, f)
  BY <1>1, DequeueAdmission
<1>4. ~su.session[t].inQueue /\ su.session[t].passedQueue = sv.session[t].passedQueue
  <2>1. CASE su = sv
    BY <2>1
  <2>2. CASE su # sv
    <3>1. PICK g : su = [sv EXCEPT !.queue = g, !.session[s].inQueue = FALSE]
      BY <1>1, <2>2 DEF Dequeue, Shape
    <3>2. PICK x : x = [sv.session[s] EXCEPT !.inQueue = FALSE]
      OBVIOUS
    <3>3. su.session = [sv.session EXCEPT ![s] = x]
      BY <3>1, <3>2 DEF Shape
    <3>4. sv.session[s] \in SessionState /\ sv.session \in [Sessions -> SessionState]
      BY DEF Shape
    <3>5. ~x.inQueue /\ x.passedQueue = sv.session[s].passedQueue
      BY <3>2, <3>4 DEF SessionState
    <3>6. su.session[t] = IF t = s THEN x ELSE sv.session[t]
      BY <3>3, <3>4
    <3> QED BY <3>5, <3>6
  <2> QED BY <2>1, <2>2
<1>5. CASE sw = su
  BY <1>2, <1>4, <1>5 DEF Shape, SessionState
<1>6. CASE sw # su
  <2>1. sw = PopFront(su, Fifo) /\ su.queue[Fifo] # << >>
    BY <1>1, <1>6 DEF RemoveQueuedSession
  <2>2. sw.session[t] = su.session[t]
    BY <1>2, <1>3, <1>4, <2>1, PopFrontFlags
  <2> QED BY <1>2, <1>4, <2>2 DEF Shape, SessionState
<1> QED BY <1>5, <1>6

(* A session that does not wait has nothing to be taken out of. *)
LEMMA RemoveIdleAdmission ==
  ASSUME NEW sv, Shape(sv), NEW X, NEW f, Admission(sv, X, f), NEW s \in Sessions,
         ~sv.session[s].inQueue, NEW sw, sw = RemoveQueuedSession(sv, s)
  PROVE  Admission(sw, X, f) /\ OrderKept(sv, sw, {})
<1>1. NotQueued(sv, s)
  BY NotWaiting
<1>2. ~IsQueued(sv, s)
  BY <1>1, AttributesAssumption DEF IsQueued, NotQueued, QueueOf, Queued, Members
<1>3. Dequeue(sv, s) = sv
  BY <1>2 DEF Dequeue
<1>4. CASE sw = sv
  BY <1>4, OrderSame
<1>5. CASE sw # sv
  <2>1. sw = PopFront(sv, Fifo) /\ sv.queue[Fifo] # << >> /\ ActiveCount(sv) < HardLimit
    BY <1>3, <1>5 DEF RemoveQueuedSession
  <2> QED BY <2>1, PopFrontAdmission
<1> QED BY <1>4, <1>5

(* The older session of the account is replaced. *)
Replaced(sv, sr, s) ==
  /\ OrderKept(sv, sr, {}) /\ SameFlags(sv, sr, {s})
  /\ \A t \in Sessions : sr.sessions[AccountOf[s]] = t => sr.session[t].status # "added"

LEMMA ReplaceAdmission ==
  ASSUME NEW sv, Control(sv), NEW s \in Sessions, NEW X, NEW f, Admission(sv, X, f),
         Fresh(sv, s), ~sv.session[s].inQueue,
         NEW old \in Sessions \ X, old = sv.sessions[AccountOf[s]], ~sv.session[old].loading,
         NEW sr, sr = Replace(sv, old)
  PROVE  /\ Replaced(sv, sr, s)
         /\ \/ Admission(sr, X, f)
            \/ Admission(sr, X \cup {old}, f) /\ sr.session[old].status # "added"
<1>1. /\ AccountOf[old] = AccountOf[s] /\ old # s /\ sv.session[old].status = "added"
      /\ AccountOf[s] \in Accounts /\ sv.sessions[AccountOf[old]] = old
      /\ Shape(sv)
  BY SessionRange, NoneAssumption DEF Control, Placed, Fresh
<1>2. PICK sk : sk = KickPlayer(sv, old)
  OBVIOUS
<1>3. SameControl(sv, sk) /\ Shape(sk)
  <2>1. SameControl(sv, sk)
    BY <1>1, <1>2, KickPlayerSame
  <2> QED BY <2>1 DEF SameControl
<1>4. Admission(sk, X, f) /\ OrderKept(sv, sk, {})
  BY <1>1, <1>2, KickAdmission
<1>5. sk.session[s] = sv.session[s] /\ sk.session[old].player = sv.session[old].player
  <2>1. PICK x : sk = [sv EXCEPT !.session[old].socket = x]
    BY <1>2 DEF KickPlayer
  <2> QED BY <1>1, <1>3, <2>1 DEF Shape, SameControl
<1>6. PICK sd : sd = RemoveQueuedSession(sk, old)
  OBVIOUS
<1>7. SameControl(sk, sd) /\ Shape(sd)
  <2>1. SameControl(sk, sd)
    BY <1>3, <1>6, RemoveQueuedSame
  <2> QED BY <2>1 DEF SameControl
<1>8. Admission(sd, X \cup {old}, f) /\ OrderKept(sv, sd, {}) /\ NotQueued(sd, old)
  BY <1>3, <1>4, <1>6, RemoveQueuedAdmission, OrderCompose
<1>9. SameFlags(sv, sd, {s})
  <2>1. ~sk.session[s].inQueue /\ sv.session[s].inQueue = FALSE
    BY <1>1, <1>5 DEF Shape, SessionState
  <2>2. sd.session[s].inQueue = FALSE /\ sd.session[s].passedQueue = sk.session[s].passedQueue
    <3>1. Shape(sk) /\ Admission(sk, X, f) /\ s \in Sessions /\ old \in Sessions
      BY <1>3, <1>4
    <3>2. SameIdle(sk, sd, s)
      BY <1>6, <3>1, RemoveQueuedFlags
    <3> QED BY <2>1, <3>2 DEF SameIdle
  <2> QED BY <1>5, <1>7, <2>1, <2>2 DEF SameControl, SameFlags
<1>10. sd.sessions[AccountOf[old]] = old /\ sd.session[old].player = sv.session[old].player
  BY <1>1, <1>3, <1>5, <1>7 DEF SameControl
<1>11. CASE CanDelayLogout(sd, old)
  <2>1. sr = SetSessionDisconnected(sd, old)
    BY <1>2, <1>6, <1>11 DEF Replace
  <2>2. sk.session[old].player # None
    BY <1>5, <1>10, <1>11 DEF CanDelayLogout
  <2>3. ~sk.session[old].inQueue
    BY <1>4, <2>2 DEF Admission, Flagged
  <2>4. Admission(sd, X, f)
    BY <1>3, <1>4, <1>6, <2>3, RemoveIdleAdmission
  <2>5. Admission(sr, X, f) /\ OrderKept(sd, sr, {}) /\ sr.sessions[AccountOf[old]] = None
    <3>1. Shape(sd) /\ NotQueued(sd, old) /\ old \in Sessions
      BY <1>7, <1>8
    <3>2. sd.sessions[AccountOf[old]] = old /\ AccountOf[old] = AccountOf[s]
      BY <1>1, <1>10
    <3>3. /\ Admission(sr, X, f) /\ OrderKept(sd, sr, {})
          /\ sr.sessions[AccountOf[old]] = None
      BY <2>1, <2>4, <3>1, <3>2, MoveAdmission
    <3> QED BY <3>2, <3>3
  <2>7. sr.session = sd.session
    BY <1>7, <2>1 DEF SetSessionDisconnected, NoteLogout, Shape
  <2>8. OrderKept(sv, sr, {})
    BY <1>8, <2>5, OrderCompose
  <2>9. SameFlags(sv, sr, {s})
    BY <1>9, <2>7 DEF SameFlags
  <2> QED BY <1>1, <2>5, <2>8, <2>9, NoneAssumption DEF Replaced
<1>12. CASE ~CanDelayLogout(sd, old)
  <2>1. sr = DeleteSession(sd, old)
    BY <1>2, <1>6, <1>12 DEF Replace
  <2>2. /\ Admission(sr, X \cup {old}, f) /\ OrderKept(sd, sr, {})
        /\ sr.sessions = sd.sessions /\ sr.session[old].status = "deleted"
    BY <1>7, <1>8, <2>1, DeleteAdmission
  <2>3. Erased(sd, sr, old)
    BY <1>7, <2>1, DeleteErases
  <2>4. SameFlags(sv, sr, {s})
    <3>1. SameFlags(sd, sr, {s})
      <4>1. SameFlags(sd, sr, Sessions \ {old}) /\ s \in Sessions \ {old}
        BY <1>1, <2>3 DEF Erased
      <4> QED BY <4>1 DEF SameFlags
    <3> QED BY <1>9, <3>1, FlagsCompose
  <2>5. OrderKept(sv, sr, {})
    BY <1>8, <2>2, OrderCompose
  <2> QED BY <1>1, <1>10, <2>2, <2>4, <2>5 DEF Replaced
<1> QED BY <1>11, <1>12

-----------------------------------------------------------------------------
(* AddSession_.                                                              *)

(* What AddSession_ knows of the new session. *)
Entering(sv, s) ==
  /\ sv.session[s].status = "added" /\ sv.session[s].player = None
  /\ ~sv.session[s].loading /\ ~sv.session[s].inQueue /\ ~sv.session[s].passedQueue

LEMMA EnterAdmission ==
  ASSUME NEW sv, Shape(sv), NEW X, NEW f, Admission(sv, X, f), NEW s \in Sessions, s \in X,
         Entering(sv, s),
         \A t \in Sessions : sv.sessions[AccountOf[s]] = t => sv.session[t].status # "added",
         NEW sw, sw = Enter(sv, s)
  PROVE  Admission(sw, X \ {s}, f) /\ OrderKept(sv, sw, {s})
<1>1. PICK g, h : /\ g = [sv.sessions EXCEPT ![AccountOf[s]] = s]
                  /\ h = [sv.connections EXCEPT ![IpOf[s]] = @ + 1]
  OBVIOUS
<1>2. PICK sb : sb = [sv EXCEPT !.sessions = g, !.connections = h]
  OBVIOUS
<1>3. sb = [sv EXCEPT !.sessions[AccountOf[s]] = s, !.connections[IpOf[s]] = @ + 1]
  BY <1>1, <1>2
<1> DEFINE full == sb.logged[RegionOf[s]] >= MaxPop[RegionOf[s]] \/ ActiveCount(sb) >= HardLimit
<1>5. sw = IF full /\ ~CanSkipQueue(sb, s) THEN AddQueuedSession(sb, s)
           ELSE OnPassedQueue(sb, {s}, RegionOf[s])
  BY <1>3 DEF Enter
<1>6. AccountOf[s] \in Accounts /\ g \in [Accounts -> Sessions \cup {None}]
  BY <1>1, AttributesAssumption DEF Shape
<1>7. Shape(sb) /\ Mapped(sv, sb, s)
  BY <1>1, <1>2, <1>6 DEF Shape, Mapped, SameWaiting, SameFlags, Admission, Typed
<1>8. NotQueued(sv, s)
  BY NotWaiting DEF Entering
<1>9. Admission(sb, X, f) /\ OrderKept(sv, sb, {}) /\ NotQueued(sb, s)
  BY <1>7, <1>8, MappedAdmission
<1>10. sb.session = sv.session /\ sb.sessions[AccountOf[s]] = s
  BY <1>1, <1>2, <1>6 DEF Shape
<1>11. /\ sb.session[s].status = "added" /\ sb.session[s].player = None
       /\ ~sb.session[s].loading /\ ~sb.session[s].inQueue /\ ~sb.session[s].passedQueue
  BY <1>10 DEF Entering
<1>12. OrderKept(sv, sb, {s})
  BY <1>9, OrderGrows
<1>13. CASE full /\ ~CanSkipQueue(sb, s)
  <2>1. sw = AddQueuedSession(sb, s)
    BY <1>5, <1>13
  <2>2. Admission(sw, X \ {s}, f) /\ OrderKept(sb, sw, {s})
    BY <1>7, <1>9, <1>10, <1>11, <2>1, AddQueuedAdmission
  <2> QED BY <1>12, <2>2, OrderCompose
<1>14. CASE ~(full /\ ~CanSkipQueue(sb, s))
  <2>1. PICK S : S = {s}
    OBVIOUS
  <2>2. sw = OnPassedQueue(sb, S, RegionOf[s])
    BY <1>5, <1>14, <2>1
  <2>3. LetIn(sb, sw, S, RegionOf[s]) /\ sw.queue = sb.queue
    BY <1>7, <1>9, <2>1, <2>2, OnPassedEffect DEF Admission, Typed
  <2>4. Limited => Cardinality(Inside(sb, X) \cup {s}) <= Ceiling
    <3> SUFFICES ASSUME Limited PROVE Cardinality(Inside(sb, X) \cup {s}) <= Ceiling
      OBVIOUS
    <3>1. sb.lastLogout = {} /\ Privileged = {}
      BY <1>9 DEF Admission, Within, Limited
    <3>2. ~full
      BY <1>14, <3>1 DEF CanSkipQueue
    <3>3. PICK T : T = Inside(sb, X) \cup {s}
      OBVIOUS
    <3>4. T \in SUBSET Sessions
      BY <3>3 DEF Inside
    <3>5. ASSUME NEW t \in T PROVE sb.sessions[AccountOf[t]] = t /\ NotQueued(sb, t)
      <4>1. t \in Sessions /\ sb.sessions[AccountOf[t]] = t /\ ~sb.session[t].inQueue
        BY <1>10, <1>11, <3>3 DEF Inside
      <4> QED BY <1>9, <4>1, NotWaiting
    <3>6. ActiveCount(sb) \in Int /\ Cardinality(T) <= ActiveCount(sb)
      BY <1>7, <1>9, <3>4, <3>5, ActiveBounds
    <3>7. ~(ActiveCount(sb) >= HardLimit)
      BY <3>2
    <3>8. PICK n, l : n = ActiveCount(sb) /\ l = Cardinality(T)
      OBVIOUS
    <3>9. l \in Nat /\ HardLimit \in Nat /\ Ceiling \in Nat /\ HardLimit <= Ceiling
      BY <3>4, <3>8, SessionSets, CeilingBounds
    <3> QED BY <3>3, <3>6, <3>7, <3>8, <3>9
  <2>5. Admission(sw, X \ {s}, f) /\ OrderKept(sb, sw, {})
    BY <1>9, <1>10, <1>11, <2>1, <2>3, <2>4, PassedAdmission
  <2>6. OrderKept(sb, sw, {s})
    BY <2>5, OrderGrows
  <2> QED BY <1>12, <2>5, <2>6, OrderCompose
<1> QED BY <1>13, <1>14

LEMMA AddSessionAdmission ==
  ASSUME NEW sv, Control(sv), NEW s \in Sessions, NEW X, X = {s}, NEW f, Admission(sv, X, f),
         Fresh(sv, s), Entering(sv, s), NEW sw, sw = AddSession_(sv, s)
  PROVE  Admission(sw, {}, f) /\ OrderKept(sv, sw, {s})
<1>1. Shape(sv) /\ X \ {s} = {} /\ s \in X
  BY DEF Control
<1>2. NotQueued(sv, s)
  BY NotWaiting DEF Entering
<1>3. PICK old : old = sv.sessions[AccountOf[s]]
  OBVIOUS
<1>4. old \in Sessions \cup {None} /\ old # s
  BY <1>1, <1>3, SessionRange DEF Fresh
<1>5. CASE old = None
  <2>1. sw = Enter(sv, s)
    BY <1>3, <1>5 DEF AddSession_
  <2>2. \A t \in Sessions : sv.sessions[AccountOf[s]] = t => sv.session[t].status # "added"
    BY <1>3, <1>5, NoneAssumption
  <2> QED BY <1>1, <2>1, <2>2, EnterAdmission
<1>6. CASE old # None /\ sv.session[old].loading
  <2>1. sw = DeleteSession(sv, s)
    BY <1>3, <1>6 DEF AddSession_
  <2>2. /\ Admission(sw, X, f) /\ OrderKept(sv, sw, {}) /\ sw.sessions = sv.sessions
        /\ sw.session[s].status = "deleted"
    BY <1>1, <1>2, <2>1, DeleteAdmission
  <2>3. sw.sessions[AccountOf[s]] # s
    BY <1>3, <1>4, <2>2
  <2>4. Admission(sw, X \ {s}, f)
    BY <2>2, <2>3, GoneIsPlaced
  <2> QED BY <1>1, <2>2, <2>4, OrderGrows
<1>7. CASE old # None /\ ~sv.session[old].loading
  <2>1. PICK sr : sr = Replace(sv, old)
    OBVIOUS
  <2>2. sw = Enter(sr, s)
    BY <1>3, <1>7, <2>1 DEF AddSession_
  <2>3. old \in Sessions \ X /\ old \in Sessions
    BY <1>4, <1>7
  <2>4. ~sv.session[s].inQueue
    BY DEF Entering
  <2>5. /\ Replaced(sv, sr, s)
        /\ \/ Admission(sr, X, f)
           \/ Admission(sr, X \cup {old}, f) /\ sr.session[old].status # "added"
    BY <1>3, <1>7, <2>1, <2>3, <2>4, ReplaceAdmission
  <2>6. Shape(sr)
    BY <1>3, <1>7, <2>1, <2>3, ReplaceControl
  <2>7. /\ Entering(sr, s) /\ OrderKept(sv, sr, {s})
        /\ \A t \in Sessions : sr.sessions[AccountOf[s]] = t => sr.session[t].status # "added"
    BY <2>5, OrderGrows DEF Replaced, SameFlags, Entering
  <2>8. CASE Admission(sr, X, f)
    <3>1. Admission(sw, X \ {s}, f) /\ OrderKept(sr, sw, {s})
      BY <1>1, <2>2, <2>6, <2>7, <2>8, EnterAdmission
    <3> QED BY <1>1, <2>7, <3>1, OrderCompose
  <2>9. CASE Admission(sr, X \cup {old}, f) /\ sr.session[old].status # "added"
    <3>1. PICK Y : Y = X \cup {old}
      OBVIOUS
    <3>2. Admission(sr, Y, f) /\ s \in Y
      BY <1>1, <2>9, <3>1
    <3>3. Admission(sw, Y \ {s}, f) /\ OrderKept(sr, sw, {s})
      BY <2>2, <2>6, <2>7, <3>2, EnterAdmission
    <3>4. Entered(sr, sw, s)
      BY <2>2, <2>6, EnterEffect
    <3>5. sw.session[old].status # "added"
      BY <2>3, <2>9, <3>4 DEF Entered, SameFields
    <3>6. sw.sessions[AccountOf[old]] # old
      <4>1. AccountOf[s] \in Accounts /\ AccountOf[old] \in Accounts
        BY <1>1, <2>3, SessionRange
      <4>2. AccountOf[old] = AccountOf[s]
        BY <1>3, <1>7, <4>1 DEF Control, Placed
      <4>3. sw.sessions[AccountOf[s]] = s
        BY <2>6, <3>4, <4>1 DEF Entered, Shape
      <4> QED BY <1>4, <4>2, <4>3
    <3>7. Admission(sw, (Y \ {s}) \ {old}, f)
      BY <2>3, <3>3, <3>5, <3>6, GoneIsPlaced
    <3>8. (Y \ {s}) \ {old} = {}
      BY <1>1, <3>1
    <3> QED BY <2>7, <3>3, <3>7, <3>8, OrderCompose
  <2> QED BY <2>5, <2>8, <2>9
<1> QED BY <1>4, <1>5, <1>6, <1>7

-----------------------------------------------------------------------------
(* RemoveSession, the third loop and KickAll.                                *)

(* A session of the map is removed. *)
LEMMA RemoveSessionAdmission ==
  ASSUME NEW sv, Shape(sv), NEW f, Admission(sv, {}, f), NEW s \in Sessions,
         sv.sessions[AccountOf[s]] = s, NEW sw, sw = RemoveSession(sv, s)
  PROVE  Admission(sw, {}, f) /\ OrderKept(sv, sw, {})
<1>1. PICK sd, X : sd = RemoveQueuedSession(sv, s) /\ X = {s}
  OBVIOUS
<1>2. SameControl(sv, sd) /\ Shape(sd)
  BY <1>1, RemoveQueuedSame DEF SameControl
<1>3. Admission(sd, X, f) /\ OrderKept(sv, sd, {}) /\ NotQueued(sd, s)
  <2>1. Admission(sd, {} \cup {s}, f) /\ OrderKept(sv, sd, {}) /\ NotQueued(sd, s)
    BY <1>1, RemoveQueuedAdmission
  <2>2. {} \cup {s} = X
    BY <1>1
  <2> QED BY <2>1, <2>2
<1>4. PICK sn : sn = IF IsQueued(sv, s) THEN sd ELSE NoteLogout(sd, s)
  OBVIOUS
<1>5. SameControl(sd, sn) /\ Shape(sn)
  BY <1>2, <1>4, NoteLogoutSame, SameReflexive DEF SameControl
<1>6. Admission(sn, X, f) /\ OrderKept(sv, sn, {}) /\ NotQueued(sn, s)
  <2>1. CASE IsQueued(sv, s)
    BY <1>3, <1>4, <2>1
  <2>2. CASE ~IsQueued(sv, s)
    <3>1. sn = NoteLogout(sd, s)
      BY <1>4, <2>2
    <3>2. Admission(sn, X, f) /\ OrderKept(sd, sn, {}) /\ NotQueued(sn, s)
      BY <1>2, <1>3, <3>1, NoteAdmission
    <3> QED BY <1>3, <3>2, OrderCompose
  <2> QED BY <2>1, <2>2
<1>7. sn.sessions = sv.sessions /\ AccountOf[s] \in Accounts
  BY <1>2, <1>5, AttributesAssumption DEF SameControl
<1>8. PICK g, h : /\ g = [sn.sessions EXCEPT ![AccountOf[s]] = None]
                  /\ h = [sn.connections EXCEPT ![IpOf[s]] = @ - 1]
  OBVIOUS
<1>9. PICK sm : sm = [sn EXCEPT !.sessions = g, !.connections = h]
  OBVIOUS
<1>10. sm = [sn EXCEPT !.sessions[AccountOf[s]] = None, !.connections[IpOf[s]] = @ - 1]
  BY <1>8, <1>9
<1>11. sw = DeleteSession(sm, s)
  BY <1>1, <1>4, <1>10 DEF RemoveSession
<1>12. g \in [Accounts -> Sessions \cup {None}] /\ g[AccountOf[s]] = None
  BY <1>5, <1>7, <1>8 DEF Shape
<1>13. /\ Shape(sm) /\ Vacated(sn, sm, s) /\ sm.disconnected = sn.disconnected
       /\ sm.sessions[AccountOf[s]] = None
  BY <1>5, <1>6, <1>8, <1>9, <1>12 DEF Shape, Vacated, SameWaiting, SameFlags, Admission, Typed
<1>14. Admission(sm, X, f) /\ OrderKept(sn, sm, {}) /\ NotQueued(sm, s)
  BY <1>1, <1>5, <1>6, <1>7, <1>13, VacatedAdmission
<1>15. /\ Admission(sw, X, f) /\ OrderKept(sm, sw, {}) /\ sw.sessions = sm.sessions
       /\ sw.session[s].status = "deleted"
  BY <1>1, <1>11, <1>13, <1>14, DeleteAdmission
<1>16. Admission(sw, X \ {s}, f)
  BY <1>13, <1>15, GoneIsPlaced, NoneAssumption
<1>17. X \ {s} = {}
  BY <1>1
<1> QED BY <1>6, <1>14, <1>15, <1>16, <1>17, OrderCompose

(* A disconnected session is deleted. *)
LEMMA DropAdmission ==
  ASSUME NEW sv, Control(sv), NEW f, Admission(sv, {}, f), NEW s \in sv.disconnected,
         NEW sw, sw = DeleteSession([sv EXCEPT !.disconnected = @ \ {s}], s)
  PROVE  Admission(sw, {}, f) /\ OrderKept(sv, sw, {})
<1>1. PICK su, X : su = [sv EXCEPT !.disconnected = @ \ {s}] /\ X = {s}
  OBVIOUS
<1>2. Shape(sv) /\ s \in Sessions /\ sv.sessions[AccountOf[s]] # s
  BY DEF Control, Shape, Placed
<1>3. Shape(su) /\ SameWaiting(sv, su) /\ su.sessions = sv.sessions
      /\ su.connections = sv.connections /\ su.lastLogout = sv.lastLogout
      /\ su.disconnected = sv.disconnected \ {s}
  BY <1>1, <1>2 DEF Shape, SameWaiting, SameFlags
<1>4. Admission(su, X, f) /\ OrderKept(sv, su, {})
  <2>1. /\ Lined(su) /\ (f => AllQueued(su)) /\ OrderKept(sv, su, {})
        /\ \A r \in Regions : su.logged[r] = Cardinality(PassedIn(su, r))
        /\ \A q \in Regions \cup {Fifo} : \A t \in Members(su.queue[q]) :
             /\ t \in Sessions /\ t \in Members(sv.queue[q])
             /\ QueueOf(t) = q /\ sv.sessions[AccountOf[t]] = t
             /\ su.session[t].status = "added" /\ su.session[t].inQueue
    BY <1>3, WaitingKept
  <2>2. Typed(su) /\ Waits(su)
    BY <1>3, <2>1 DEF Admission, Typed, Waits, SameWaiting
  <2>3. Flagged(su, X)
    BY <1>1, <1>3 DEF Admission, Flagged, SameWaiting, SameFlags
  <2>4. \A i : Present(su, i) = Present(sv, i)
    BY <1>3 DEF Present
  <2>5. Inside(su, X) = Inside(sv, {})
    BY <1>1, <1>2, <1>3 DEF Inside, SameWaiting, SameFlags
  <2>6. Counted(su) /\ Within(su, X)
    BY <1>3, <2>1, <2>4, <2>5 DEF Admission, Counted, Within
  <2> QED BY <2>1, <2>2, <2>3, <2>6 DEF Admission
<1>5. NotQueued(su, s)
  BY <1>2, <1>3 DEF Admission, Waits, NotQueued, SameWaiting
<1>6. /\ Admission(sw, X, f) /\ OrderKept(su, sw, {}) /\ sw.sessions = su.sessions
      /\ sw.session[s].status = "deleted"
  <2>1. sw = DeleteSession(su, s) /\ s \in X /\ s \in Sessions /\ Shape(su)
    BY <1>1, <1>2, <1>3
  <2> QED BY <1>4, <1>5, <2>1, DeleteAdmission
<1>7. Admission(sw, X \ {s}, f)
  BY <1>2, <1>3, <1>6, GoneIsPlaced
<1>8. X \ {s} = {}
  BY <1>1
<1> QED BY <1>4, <1>6, <1>7, <1>8, OrderCompose

(* KickAll empties the queues. *)
LEMMA KickAllAdmission ==
  ASSUME NEW sv, Shape(sv), NEW f, Admission(sv, {}, f), NEW sw, sw = KickAll(sv)
  PROVE  Admission(sw, {}, FALSE) /\ OrderKept(sv, sw, {})
<1> DEFINE h == [s \in Sessions |->
                  IF s \in InMap(sv) \cup sv.disconnected /\ sv.session[s].socket = "open"
                  THEN [sv.session[s] EXCEPT !.socket = "closed"] ELSE sv.session[s]]
           g == [q \in Regions \cup {Fifo} |-> << >>]
<1>1. sw = [sv EXCEPT !.queue = g, !.session = h]
  BY DEF KickAll, Shape, Admission, Typed
<1>2. ASSUME NEW t \in Sessions
      PROVE  /\ h[t].inQueue = sv.session[t].inQueue /\ h[t].status = sv.session[t].status
             /\ h[t].passedQueue = sv.session[t].passedQueue
             /\ h[t].player = sv.session[t].player /\ h[t].loading = sv.session[t].loading
  <2>1. sv.session[t] \in SessionState
    BY DEF Shape
  <2> QED BY <2>1 DEF SessionState
<1>3. /\ sw.queue = g /\ SameFlags(sv, sw, Sessions) /\ sw.sessions = sv.sessions
      /\ sw.disconnected = sv.disconnected /\ sw.logged = sv.logged
      /\ sw.connections = sv.connections /\ sw.lastLogout = sv.lastLogout
      /\ sw.playerLimit = sv.playerLimit
  <2> HIDE DEF g, h
  <2> QED BY <1>1, <1>2 DEF Shape, SameFlags
<1>4. ASSUME NEW q \in Regions \cup {Fifo}
      PROVE  sw.queue[q] = << >>
  BY <1>3
<1>5. << >> \in Seq(Entry) /\ Line(<< >>) /\ Members(<< >>) = {}
  BY DEF Line, Members
<1> HIDE DEF g, h
<1>6. sw.queue \in [Regions \cup {Fifo} -> Seq(Entry)]
  BY <1>3, <1>4, <1>5 DEF g
<1>7. Typed(sw)
  BY <1>3, <1>6 DEF Admission, Typed
<1>8. Lined(sw) /\ Waits(sw)
  BY <1>4, <1>5 DEF Lined, Waits
<1>9. Flagged(sw, {})
  BY <1>3 DEF Admission, Flagged, SameFlags
<1>10. (\A r : PassedIn(sw, r) = PassedIn(sv, r)) /\ (\A i : Present(sw, i) = Present(sv, i))
       /\ Inside(sw, {}) = Inside(sv, {})
  BY <1>3 DEF PassedIn, Present, Inside, SameFlags
<1>11. Counted(sw) /\ Within(sw, {})
  BY <1>3, <1>10 DEF Admission, Counted, Within
<1>12. OrderKept(sv, sw, {})
  <2>1. ASSUME NEW x, NEW y, Ahead(sw, x, y) PROVE FALSE
    <3>1. PICK q \in DOMAIN sw.queue : \E i, j \in DOMAIN sw.queue[q] : TRUE
      BY <2>1 DEF Ahead
    <3>2. sw.queue[q] = << >>
      BY <1>4, <1>6
    <3> QED BY <3>1, <3>2
  <2> QED BY <2>1 DEF OrderKept
<1> QED BY <1>7, <1>8, <1>9, <1>11, <1>12 DEF Admission

-----------------------------------------------------------------------------
(* The steps.                                                                *)

(* Every step keeps what admission rests on, and nobody who waited before   *)
(* it is overtaken in it.                                                   *)
Arriving(sv) == {s \in Sessions : sv.session[s].status = "waiting"}

Progress(sv, sw, f) == Admission(sw, {}, f) /\ OrderKept(sv, sw, Arriving(sv))

LEMMA Progresses ==
  ASSUME NEW sv, NEW sw, NEW f, Admission(sw, {}, f), OrderKept(sv, sw, {})
  PROVE  Progress(sv, sw, f)
BY OrderGrows DEF Progress

LEMMA SameProgress ==
  ASSUME NEW sv, NEW sw, NEW f, Admission(sv, {}, f), SameAdmission(sv, sw)
  PROVE  Progress(sv, sw, f)
BY Progresses, SameKeepsAdmission

LEMMA AdmitQueuedProgress ==
  ASSUME NEW sv, Shape(sv), NEW f, Admission(sv, {}, f), NEW pop, pop = sv.logged,
         NEW l, l = (IF HardLimit = 0 THEN sv.playerLimit ELSE Min({sv.playerLimit, HardLimit})),
         NEW su, su = [sv EXCEPT !.playerLimit = l],
         NEW sw, sw = AdmitRegion(AdmitRegion(su, 0, pop), 1, pop)
  PROVE  Progress(sv, sw, f)
<1>1. l \in Nat
  <2>1. sv.playerLimit \in Nat /\ HardLimit \in Nat
    BY ConfigAssumption DEF Admission, Typed
  <2>2. PICK T : T = {sv.playerLimit, HardLimit}
    OBVIOUS
  <2>3. \A z : z \in T <=> z = sv.playerLimit \/ z = HardLimit
    BY <2>2
  <2>4. Min(T) = IF sv.playerLimit <= HardLimit THEN sv.playerLimit ELSE HardLimit
    BY <2>1, <2>3, MinOfTwo
  <2> QED BY <2>1, <2>2, <2>4
<1>2. Shape(su) /\ SameAdmission(sv, su)
  BY <1>1 DEF Shape, SameAdmission, Admission, Typed, Flagged
<1>3. Admission(su, {}, f) /\ OrderKept(sv, su, {})
  BY <1>2, SameKeepsAdmission
<1>4. pop \in [Regions -> Nat] /\ 0 \in Regions /\ 1 \in Regions
  BY DEF Admission, Typed, Regions
<1>5. PICK sa : sa = AdmitRegion(su, 0, pop)
  OBVIOUS
<1>6. Shape(sa)
  BY <1>2, <1>5, AdmitRegionSame DEF SameControl
<1>7. Admission(sa, {}, f) /\ OrderKept(su, sa, {})
  BY <1>2, <1>3, <1>4, <1>5, AdmitRegionAdmission
<1>8. sw = AdmitRegion(sa, 1, pop)
  BY <1>5
<1>9. Admission(sw, {}, f) /\ OrderKept(sa, sw, {})
  BY <1>4, <1>6, <1>7, <1>8, AdmitRegionAdmission
<1>10. OrderKept(sv, sw, {})
  BY <1>3, <1>7, <1>9, OrderCompose
<1> QED BY <1>9, <1>10, Progresses

LEMMA AddProgress ==
  ASSUME NEW sv, Control(sv), NEW f, Admission(sv, {}, f), NEW s \in Sessions,
         sv.session[s].status = "waiting",
         NEW su, su = [sv EXCEPT !.session[s].status = "added"],
         NEW sw, sw = AddSession_(su, s)
  PROVE  Progress(sv, sw, f)
<1>1. Shape(sv) /\ sv.session[s] \in SessionState
  BY DEF Control, Shape
<1>2. PICK X : X = {s}
  OBVIOUS
<1>3. Admission(su, X, f) /\ OrderKept(sv, su, {})
  <2>1. Admission(su, {} \cup {s}, f) /\ OrderKept(sv, su, {})
    BY <1>1, ArrivalAdmission
  <2>2. {} \cup {s} = X
    BY <1>2
  <2> QED BY <2>1, <2>2
<1>4. /\ sv.session[s].player = None /\ ~sv.session[s].loading
      /\ s \notin sv.disconnected /\ sv.sessions[AccountOf[s]] # s
  BY OutsideUnused, AttributesAssumption
<1>5. ~sv.session[s].inQueue /\ ~sv.session[s].passedQueue
  BY DEF Admission, Flagged
<1>6. PICK x : x = [sv.session[s] EXCEPT !.status = "added"]
  OBVIOUS
<1>7. /\ x \in SessionState /\ x.status = "added" /\ x.player = None /\ ~x.loading
      /\ ~x.inQueue /\ ~x.passedQueue
  BY <1>1, <1>4, <1>5, <1>6 DEF SessionState
<1>8. su = [sv EXCEPT !.session[s] = x]
  BY <1>1, <1>6 DEF Shape
<1>9. Control(su)
  BY <1>7, <1>8, StatusControl
<1>10. su.session[s] = x /\ su.disconnected = sv.disconnected /\ su.sessions = sv.sessions
  BY <1>1, <1>8 DEF Shape
<1>11. Fresh(su, s) /\ Entering(su, s)
  BY <1>4, <1>7, <1>10 DEF Fresh, Entering
<1>12. Admission(sw, {}, f) /\ OrderKept(su, sw, {s})
  BY <1>2, <1>3, <1>9, <1>11, AddSessionAdmission
<1>13. OrderKept(sv, sw, {s})
  BY <1>3, <1>12, OrderGrows, OrderCompose
<1>14. {s} \subseteq Arriving(sv)
  BY DEF Arriving
<1>15. OrderKept(sv, sw, Arriving(sv))
  BY <1>13, <1>14, OrderGrows
<1> QED BY <1>12, <1>15 DEF Progress

LEMMA SocketGoneProgress ==
  ASSUME Control(server), NEW f, Admission(server, {}, f), NEW s \in Sessions,
         server.sessions[AccountOf[s]] = s, SocketGone(s), NEW sw, sw = server'
  PROVE  Progress(server, sw, f)
<1>1. PICK su : su = [server EXCEPT !.session[s].socket = "null"]
  OBVIOUS
<1>2. Shape(server)
  BY DEF Control
<1>3. SameControl(server, su) /\ Shape(su)
  BY <1>1, <1>2, SessionFields DEF SameControl
<1>4. SameAdmission(server, su)
  BY <1>1, <1>2, SocketSame
<1>5. Admission(su, {}, f) /\ OrderKept(server, su, {}) /\ su.sessions[AccountOf[s]] = s
  BY <1>4, SameKeepsAdmission DEF SameAdmission
<1>6. CASE CanDelayLogout(su, s)
  <2>1. sw = SetSessionDisconnected(su, s)
    BY <1>1, <1>6 DEF SocketGone
  <2>2. NotQueued(su, s)
    <3>1. ~su.session[s].inQueue
      BY <1>5, <1>6 DEF CanDelayLogout, Admission, Flagged
    <3> QED BY <1>5, <3>1, NotWaiting
  <2>3. Admission(sw, {}, f) /\ OrderKept(su, sw, {})
    BY <1>3, <1>5, <2>1, <2>2, MoveAdmission
  <2> QED BY <1>5, <2>3, OrderCompose, Progresses
<1>7. CASE ~CanDelayLogout(su, s)
  <2>1. sw = RemoveSession(su, s)
    BY <1>1, <1>7 DEF SocketGone
  <2>2. Admission(sw, {}, f) /\ OrderKept(su, sw, {})
    BY <1>3, <1>5, <2>1, RemoveSessionAdmission
  <2> QED BY <1>5, <2>2, OrderCompose, Progresses
<1> QED BY <1>6, <1>7

(* A session that does not wait begins or ends to load, or plays. *)
LEMMA LoadingSame ==
  ASSUME NEW sv, Shape(sv), NEW f, Admission(sv, {}, f), NEW s \in Sessions,
         NEW b \in BOOLEAN, ~sv.session[s].inQueue \/ b = FALSE,
         NEW sw, sw = [sv EXCEPT !.session[s].loading = b]
  PROVE  SameAdmission(sv, sw)
<1>1. sv.session[s] \in SessionState
  BY DEF Shape
<1>2. PICK x : x = [sv.session[s] EXCEPT !.loading = b]
  OBVIOUS
<1>3. /\ x.inQueue = sv.session[s].inQueue /\ x.passedQueue = sv.session[s].passedQueue
      /\ x.status = sv.session[s].status /\ x.player = sv.session[s].player
      /\ x.loading = b
  BY <1>1, <1>2 DEF SessionState
<1>4. x.inQueue => x.player = None /\ ~x.loading
  BY <1>3 DEF Admission, Flagged
<1>5. sw = [sv EXCEPT !.session[s] = x]
  BY <1>2 DEF Shape
<1> QED BY <1>3, <1>4, <1>5, SessionSame

LEMMA UpdateProgress ==
  ASSUME Control(server), NEW f, Admission(server, {}, f), NEW s \in Sessions,
         server.sessions[AccountOf[s]] = s, UpdateSession(s), NEW sw, sw = server'
  PROVE  Progress(server, sw, f)
<1>1. Shape(server)
  BY DEF Control
<1>2. CASE SocketGone(s)
  BY <1>2, SocketGoneProgress
<1>3. CASE UNCHANGED server
  BY <1>3, OrderSame, Progresses
<1>4. ASSUME NEW c \in Characters, LoginRequest(s, c)
      PROVE  Progress(server, sw, f)
  <2>1. sw = [server EXCEPT !.session[s].loading = TRUE] /\ ~server.session[s].inQueue
    BY <1>4 DEF LoginRequest
  <2>2. SameAdmission(server, sw)
    BY <1>1, <2>1, LoadingSame
  <2> QED BY <2>2, SameProgress
<1>5. CASE LogoutDue(s)
  <2>1. sw = LogoutPlayer(server, s)
    BY <1>5 DEF LogoutDue
  <2> QED BY <1>1, <2>1, LogoutAdmission, Progresses
<1>6. CASE IdleKick(s)
  <2>1. sw = RemoveSession(server, s)
    BY <1>6 DEF IdleKick
  <2> QED BY <1>1, <2>1, RemoveSessionAdmission, Progresses
<1> QED BY <1>2, <1>3, <1>4, <1>5, <1>6 DEF UpdateSession

(* The callback of a login query. *)
LEMMA LoadSame ==
  ASSUME NEW sv, Shape(sv), NEW f, Admission(sv, {}, f), NEW s \in Sessions,
         ~sv.session[s].inQueue, NEW c, NEW sw, sw = LoadFromDB(sv, s, c)
  PROVE  SameAdmission(sv, sw)
<1>1. sv.session[s] \in SessionState
  BY DEF Shape
<1>2. PICK x, g : /\ x = [sv.session[s] EXCEPT !.player = c, !.loading = FALSE]
                  /\ g = [sv.character EXCEPT ![c] = [session |-> s, inWorld |-> TRUE]]
  OBVIOUS
<1>3. /\ x.inQueue = sv.session[s].inQueue /\ x.passedQueue = sv.session[s].passedQueue
      /\ x.status = sv.session[s].status /\ ~x.inQueue
  BY <1>1, <1>2 DEF SessionState
<1>4. PICK su : su = [sv EXCEPT !.session[s] = x]
  OBVIOUS
<1>5. sw = [su EXCEPT !.character = g]
  BY <1>2, <1>4 DEF LoadFromDB, Shape
<1>6. SameAdmission(sv, su)
  BY <1>3, <1>4, SessionSame
<1>7. /\ sw.session = su.session /\ sw.queue = su.queue /\ sw.logged = su.logged
      /\ sw.connections = su.connections /\ sw.sessions = su.sessions
      /\ sw.disconnected = su.disconnected /\ sw.playerLimit = su.playerLimit
      /\ sw.lastLogout = su.lastLogout
  BY <1>4, <1>5 DEF Shape
<1> QED BY <1>6, <1>7 DEF SameAdmission

LEMMA TakeSame ==
  ASSUME NEW sv, Shape(sv), NEW f, Admission(sv, {}, f), NEW s \in Sessions,
         ~sv.session[s].inQueue, NEW c, NEW t \in Sessions, t = sv.character[c].session,
         NEW sw, sw = TakeOver(sv, s, c)
  PROVE  SameAdmission(sv, sw)
<1>1. sv.session[t] \in SessionState
  BY DEF Shape
<1>2. PICK x : x = [sv.session[t] EXCEPT !.player = None]
  OBVIOUS
<1>3. /\ x.inQueue = sv.session[t].inQueue /\ x.passedQueue = sv.session[t].passedQueue
      /\ x.status = sv.session[t].status /\ x.player = None
      /\ x.loading = sv.session[t].loading /\ x \in SessionState
  BY <1>1, <1>2 DEF SessionState
<1>4. PICK su : su = [sv EXCEPT !.session[t] = x]
  OBVIOUS
<1>5. SameAdmission(sv, su)
  <2>1. x.inQueue => x.player = None /\ ~x.loading
    BY <1>3 DEF Admission, Flagged
  <2> QED BY <1>3, <1>4, <2>1, SessionSame
<1>6. Shape(su) /\ su.session \in [Sessions -> SessionState]
  BY <1>3, <1>4 DEF Shape
<1>7. Admission(su, {}, f) /\ ~su.session[s].inQueue
  BY <1>5, SameKeepsAdmission DEF SameAdmission
<1>8. su.session[s] \in SessionState
  BY <1>6
<1>9. PICK y : y = [su.session[s] EXCEPT !.player = c, !.loading = FALSE]
  OBVIOUS
<1>10. /\ y.inQueue = su.session[s].inQueue /\ y.passedQueue = su.session[s].passedQueue
       /\ y.status = su.session[s].status /\ ~y.inQueue
  BY <1>7, <1>8, <1>9 DEF SessionState
<1>11. PICK sx : sx = [su EXCEPT !.session[s] = y]
  OBVIOUS
<1>12. SameAdmission(su, sx)
  BY <1>6, <1>7, <1>10, <1>11, SessionSame
<1>13. /\ sw.session = sx.session /\ sw.queue = sx.queue /\ sw.logged = sx.logged
       /\ sw.connections = sx.connections /\ sw.sessions = sx.sessions
       /\ sw.disconnected = sx.disconnected /\ sw.playerLimit = sx.playerLimit
       /\ sw.lastLogout = sx.lastLogout
  <2>1. sw = [sv EXCEPT !.session[t].player = None, !.session[s].player = c,
                        !.session[s].loading = FALSE, !.character[c].session = s]
    BY DEF TakeOver
  <2>2. sw.session = sx.session
    <3>1. PICK z : z = [[sv.session EXCEPT ![t] = x] EXCEPT ![s].player = c, ![s].loading = FALSE]
      OBVIOUS
    <3>2. su.session = [sv.session EXCEPT ![t] = x]
      BY <1>4 DEF Shape
    <3>3. z = [su.session EXCEPT ![s] = y]
      BY <1>6, <1>9, <3>1, <3>2
    <3>4. sx.session = [su.session EXCEPT ![s] = y]
      BY <1>6, <1>11 DEF Shape
    <3>5. sw.session = z
      <4>1. sv.session \in [Sessions -> SessionState]
        BY DEF Shape
      <4>2. PICK h : h = sv.session
        OBVIOUS
      <4>3. [h EXCEPT ![t].player = None] = [h EXCEPT ![t] = x]
        BY <1>2, <4>1, <4>2
      <4>4. PICK h1, h2, h3 :
              /\ h1 = [h EXCEPT ![t].player = None] /\ h2 = [h1 EXCEPT ![s].player = c]
              /\ h3 = [h2 EXCEPT ![s].loading = FALSE]
        OBVIOUS
      <4>5. PICK s1, s2, s3 :
              /\ s1 = [sv EXCEPT !.session[t].player = None]
              /\ s2 = [s1 EXCEPT !.session[s].player = c]
              /\ s3 = [s2 EXCEPT !.session[s].loading = FALSE]
        OBVIOUS
      <4>6. s1 = [sv EXCEPT !.session = h1]
        BY <4>2, <4>4, <4>5 DEF Shape
      <4>7. s2 = [sv EXCEPT !.session = h2]
        BY <4>4, <4>5, <4>6 DEF Shape
      <4>8. s3 = [sv EXCEPT !.session = h3]
        BY <4>4, <4>5, <4>7 DEF Shape
      <4>9. sw = [s3 EXCEPT !.character[c].session = s]
        BY <2>1, <4>5
      <4>10. sw.session = h3
        BY <4>8, <4>9 DEF Shape
      <4>11. z = [[[h EXCEPT ![t] = x] EXCEPT ![s].player = c] EXCEPT ![s].loading = FALSE]
        BY <3>1, <4>2
      <4> QED BY <4>3, <4>4, <4>10, <4>11
    <3> QED BY <3>3, <3>4, <3>5
  <2>3. /\ sw.queue = sv.queue /\ sw.logged = sv.logged
        /\ sw.connections = sv.connections /\ sw.sessions = sv.sessions
        /\ sw.disconnected = sv.disconnected /\ sw.playerLimit = sv.playerLimit
        /\ sw.lastLogout = sv.lastLogout
    BY <2>1 DEF Shape
  <2>4. /\ sx.queue = sv.queue /\ sx.logged = sv.logged
        /\ sx.connections = sv.connections /\ sx.sessions = sv.sessions
        /\ sx.disconnected = sv.disconnected /\ sx.playerLimit = sv.playerLimit
        /\ sx.lastLogout = sv.lastLogout
    BY <1>4, <1>11 DEF Shape
  <2> QED BY <2>2, <2>3, <2>4
<1> QED BY <1>5, <1>12, <1>13 DEF SameAdmission

LEMMA LoginProgress ==
  ASSUME Control(server), NEW f, Admission(server, {}, f),
         NEW h \in [account : Accounts, char : Characters],
         NEW sw, HandlePlayerLogin(h, sw)
  PROVE  Progress(server, sw, f)
<1>1. Shape(server)
  BY DEF Control
<1>2. PICK s, c : s = server.sessions[h.account] /\ c = h.char
  OBVIOUS
<1>3. s \in Sessions \cup {None} /\ c \in Characters
  BY <1>1, <1>2, SessionRange
<1>4. CASE sw = server
  BY <1>4, OrderSame, Progresses
<1>5. CASE s \in Sessions /\ sw = EndLoading(server, s)
  <2>1. PICK b \in BOOLEAN : b = FALSE
    OBVIOUS
  <2>2. sw = [server EXCEPT !.session[s].loading = b]
    BY <1>5, <2>1 DEF EndLoading
  <2>3. SameAdmission(server, sw)
    BY <1>1, <1>5, <2>1, <2>2, LoadingSame
  <2> QED BY <2>3, SameProgress
<1>6. CASE s \in Sessions /\ sw = LoginRefused(server, s)
  <2>1. PICK sk : sk = KickPlayer(server, s)
    OBVIOUS
  <2>2. Shape(sk)
    BY <1>1, <1>6, <2>1, KickPlayerSame DEF SameControl
  <2>3. Admission(sk, {}, f) /\ OrderKept(server, sk, {})
    BY <1>1, <1>6, <2>1, KickAdmission
  <2>4. PICK b \in BOOLEAN : b = FALSE
    OBVIOUS
  <2>5. sw = [sk EXCEPT !.session[s].loading = b]
    BY <1>6, <2>1, <2>4 DEF LoginRefused, EndLoading
  <2>6. SameAdmission(sk, sw)
    BY <1>6, <2>2, <2>3, <2>4, <2>5, LoadingSame
  <2>7. Admission(sw, {}, f) /\ OrderKept(sk, sw, {})
    BY <2>3, <2>6, SameKeepsAdmission
  <2> QED BY <2>3, <2>7, OrderCompose, Progresses
<1>7. ASSUME s \in Sessions, server.session[s].loading
      PROVE  ~server.session[s].inQueue
  BY <1>7 DEF Admission, Flagged
<1>8. CASE s \in Sessions /\ server.session[s].loading /\ sw = LoadFromDB(server, s, c)
  <2>1. SameAdmission(server, sw)
    BY <1>1, <1>7, <1>8, LoadSame
  <2> QED BY <2>1, SameProgress
<1>9. CASE s \in Sessions /\ server.session[s].loading /\ server.character[c].inWorld
           /\ sw = TakeOver(server, s, c)
  <2>1. PICK t \in Sessions : t = server.character[c].session
    BY <1>1, <1>3, <1>9, SessionRange DEF Control, Playing
  <2>2. SameAdmission(server, sw)
    BY <1>1, <1>7, <1>9, <2>1, TakeSame
  <2> QED BY <2>2, SameProgress
<1> QED BY <1>2, <1>3, <1>4, <1>5, <1>6, <1>8, <1>9 DEF HandlePlayerLogin

(* What only moves a player, connects, closes a socket or ends a grace. *)
LEMMA OutsideProgress ==
  ASSUME Control(server), NEW f, Admission(server, {}, f),
         \/ \E c \in Characters : WorldChanges(c)
         \/ \E s \in Sessions : Connect(s) \/ SocketClose(s)
         \/ \E a \in Accounts : GraceEnds(a),
         NEW sw, sw = server'
  PROVE  Progress(server, sw, f)
<1>1. Shape(server)
  BY DEF Control
<1>2. ASSUME NEW c \in Characters, WorldChanges(c) PROVE SameAdmission(server, sw)
  BY <1>1, <1>2 DEF WorldChanges, Shape, SameAdmission, Admission, Typed, Flagged
<1>3. ASSUME NEW s \in Sessions, Connect(s) PROVE SameAdmission(server, sw)
  <2>1. server.session[s].status = "unused" /\ server.session[s] \in SessionState
    BY <1>1, <1>3 DEF Connect, Shape
  <2>2. PICK y, x : /\ y = [server.session[s] EXCEPT !.status = "waiting"]
                    /\ x = [y EXCEPT !.socket = "open"]
    OBVIOUS
  <2>3. y \in SessionState /\ y.status = "waiting" /\ y.inQueue = server.session[s].inQueue
        /\ y.passedQueue = server.session[s].passedQueue
    BY <2>1, <2>2 DEF SessionState
  <2>4. /\ x.status = "waiting" /\ x.inQueue = server.session[s].inQueue
        /\ x.passedQueue = server.session[s].passedQueue
    BY <2>2, <2>3 DEF SessionState
  <2>5. ~server.session[s].inQueue
    BY <2>1 DEF Admission, Flagged
  <2>6. sw = [server EXCEPT !.session[s] = x]
    BY <1>1, <1>3, <2>2 DEF Connect, Shape
  <2> QED BY <1>1, <2>1, <2>4, <2>5, <2>6, SessionSame
<1>4. ASSUME NEW s \in Sessions, SocketClose(s) PROVE SameAdmission(server, sw)
  <2>1. sw = [server EXCEPT !.session[s].socket = "closed"]
    BY <1>4 DEF SocketClose
  <2> QED BY <1>1, <2>1, SocketSame
<1>5. ASSUME NEW a \in Accounts, GraceEnds(a) PROVE SameAdmission(server, sw)
  BY <1>1, <1>5 DEF GraceEnds, Shape, SameAdmission, Admission, Typed, Flagged
<1> QED BY <1>2, <1>3, <1>4, <1>5, SameProgress

LEMMA InitAdmission == Init => AdmissionIInv
<1> SUFFICES ASSUME Init PROVE AdmissionIInv
  OBVIOUS
<1>1. /\ server.session = [s \in Sessions |-> NewSession]
      /\ server.sessions = [a \in Accounts |-> None] /\ server.disconnected = {}
      /\ server.queue = [q \in Regions \cup {Fifo} |-> << >>]
      /\ server.playerLimit = PlayerLimit /\ server.logged = [r \in Regions |-> 0]
      /\ server.connections = [i \in Ips |-> 0] /\ server.lastLogout = {}
  BY DEF Init
<1>2. \A s \in Sessions : /\ server.session[s].status = "unused"
                          /\ ~server.session[s].inQueue /\ ~server.session[s].passedQueue
  BY <1>1 DEF NewSession
<1>3. \A s \in Sessions : server.sessions[AccountOf[s]] = None
  BY <1>1, AttributesAssumption
<1>4. << >> \in Seq(Entry) /\ Line(<< >>) /\ Members(<< >>) = {}
  BY DEF Line, Members
<1>5. Typed(server)
  BY <1>1, <1>4, ConfigAssumption DEF Typed
<1>6. Lined(server) /\ Waits(server)
  BY <1>1, <1>4 DEF Lined, Waits
<1>7. Flagged(server, {}) /\ AllQueued(server)
  BY <1>2 DEF Flagged, AllQueued
<1>8. /\ \A r : PassedIn(server, r) = {}
      /\ \A i : Present(server, i) = {}
      /\ Inside(server, {}) = {}
  BY <1>2, <1>3, NoneAssumption DEF PassedIn, Present, Inside
<1>9. Cardinality({}) = 0
  BY FS_EmptySet
<1>10. Counted(server) /\ Within(server, {})
  <2>1. Ceiling \in Nat
    BY CeilingBounds
  <2>2. /\ \A r \in Regions : server.logged[r] = 0
        /\ \A i \in Ips : server.connections[i] = 0
    BY <1>1
  <2>3. ASSUME NEW r \in Regions PROVE server.logged[r] = Cardinality(PassedIn(server, r))
    <3>1. PassedIn(server, r) = {}
      BY <1>8
    <3> QED BY <1>9, <2>2, <3>1
  <2>4. ASSUME NEW i \in Ips PROVE Cardinality(Present(server, i)) <= server.connections[i]
    <3>1. Present(server, i) = {}
      BY <1>8
    <3> QED BY <1>9, <2>2, <3>1
  <2>5. Cardinality(Inside(server, {})) <= Ceiling
    <3>1. Inside(server, {}) = {}
      BY <1>8
    <3> QED BY <1>9, <2>1, <3>1
  <2> QED BY <1>1, <2>3, <2>4, <2>5 DEF Counted, Within
<1> QED BY <1>5, <1>6, <1>7, <1>10 DEF Admission, AdmissionIInv, Init

LEMMA TickProgress ==
  ASSUME IInv, NEW f, Admission(server, {}, f), Tick, NEW sw, sw = server'
  PROVE  \/ Progress(server, sw, f)
         \/ Progress(server, sw, FALSE) /\ stop' = "shutdown"
<1>1. Control(server) /\ Shape(server) /\ ArrivingInv /\ LoopInv
  BY DEF IInv, Control
<1>2. CASE UNCHANGED server
  BY <1>2, OrderSame, Progresses
<1>3. CASE AdmitQueued
  <2>1. PICK pop, l : /\ pop = server.logged
                      /\ l = IF HardLimit = 0 THEN server.playerLimit
                             ELSE Min({server.playerLimit, HardLimit})
    OBVIOUS
  <2>2. PICK su : su = [server EXCEPT !.playerLimit = l]
    OBVIOUS
  <2>3. sw = AdmitRegion(AdmitRegion(su, 0, pop), 1, pop)
    BY <1>3, <2>1, <2>2 DEF AdmitQueued
  <2> QED BY <1>1, <2>1, <2>2, <2>3, AdmitQueuedProgress
<1>4. CASE AddNext
  <2>1. PICK s \in Sessions : s = Head(addSessQueue) /\ server.session[s].status = "waiting"
    <3>1. addSessQueue \in Seq(Sessions) /\ addSessQueue # << >>
      BY <1>1, <1>4 DEF ArrivingInv, AddNext
    <3>2. 1 \in DOMAIN addSessQueue /\ Head(addSessQueue) = addSessQueue[1]
          /\ addSessQueue[1] \in Sessions
      BY <3>1
    <3> QED BY <1>1, <3>2 DEF ArrivingInv
  <2>2. PICK su : su = [server EXCEPT !.session[s].status = "added"]
    OBVIOUS
  <2>3. sw = AddSession_(su, s)
    BY <1>4, <2>1, <2>2 DEF AddNext
  <2> QED BY <1>1, <2>1, <2>2, <2>3, AddProgress
<1>5. CASE TickEnd
  <2>1. CASE stop = "no"
    BY <1>2, <1>5, <2>1 DEF TickEnd
  <2>2. CASE stop # "no"
    <3>1. sw = KickAll(server) /\ stop' = "shutdown"
      BY <1>5, <2>2 DEF TickEnd
    <3> QED BY <1>1, <3>1, KickAllAdmission, Progresses
  <2> QED BY <2>1, <2>2
<1>6. ASSUME NEW s \in Sessions, UpdateSession(s)
      PROVE  Progress(server, sw, f)
  <2>1. server.sessions[AccountOf[s]] = s
    BY <1>1, <1>6 DEF UpdateSession, LoopInv
  <2> QED BY <1>1, <1>6, <2>1, UpdateProgress
<1>7. ASSUME NEW s \in Sessions, DropDisconnected(s)
      PROVE  Progress(server, sw, f)
  <2>1. s \in server.disconnected
    BY <1>1, <1>7 DEF DropDisconnected, LoopInv
  <2>2. sw = DeleteSession([server EXCEPT !.disconnected = @ \ {s}], s)
    BY <1>7 DEF DropDisconnected
  <2> QED BY <1>1, <2>1, <2>2, DropAdmission, Progresses
<1>8. CASE AddEnd \/ UpdateEnd \/ DisconnectedEnd \/ \E s \in Sessions : KeepDisconnected(s)
  BY <1>2, <1>8 DEF AddEnd, UpdateEnd, DisconnectedEnd, KeepDisconnected
<1> QED BY <1>3, <1>4, <1>5, <1>6, <1>7, <1>8 DEF Tick

LEMMA NextProgress ==
  ASSUME IInv, NEW f, Admission(server, {}, f), [Next]_vars, NEW sw, sw = server'
  PROVE  \/ Progress(server, sw, f)
         \/ Progress(server, sw, FALSE) /\ stop' = "shutdown"
<1>1. Control(server) /\ HoldersInv
  BY DEF IInv
<1>2. ASSUME NEW i \in 1 .. MaxHolders, LoginCallback(i)
      PROVE  Progress(server, sw, f)
  <2>1. PICK R, h : R = [account : Accounts, char : Characters] /\ h = holders[i]
    OBVIOUS
  <2>2. holders \in Seq(R) /\ i \in DOMAIN holders /\ HandlePlayerLogin(h, sw)
    BY <1>1, <1>2, <2>1 DEF HoldersInv, LoginCallback
  <2>3. h \in R
    <3>1. holders[i] \in R
      BY <2>2
    <3> QED BY <2>1, <3>1
  <2> QED BY <1>1, <2>1, <2>2, <2>3, LoginProgress
<1>3. CASE \/ \E c \in Characters : WorldChanges(c)
           \/ \E s \in Sessions : Connect(s) \/ SocketClose(s)
           \/ \E a \in Accounts : GraceEnds(a)
  BY <1>1, <1>3, OutsideProgress
<1>4. CASE UNCHANGED server
  BY <1>4, OrderSame, Progresses
<1>5. CASE StopNow \/ Stopped \/ UNCHANGED vars
  BY <1>4, <1>5 DEF StopNow, Stopped, vars
<1> QED BY <1>2, <1>3, <1>5, TickProgress DEF Next

(* Where the world thread is, and whether the server stops. *)
LEMMA StepPhases ==
  ASSUME pc \in {"admit", "add", "update", "disconnected", "world", "stopped"},
         stop \in {"no", "requested", "shutdown"}, [Next]_vars
  PROVE  /\ pc' \in {"admit", "add", "update", "disconnected", "world", "stopped"}
         /\ stop' \in {"no", "requested", "shutdown"}
         /\ stop = "shutdown" => stop' = "shutdown"
<1>1. CASE Tick
  BY <1>1 DEF Tick, AdmitQueued, AddNext, AddEnd, UpdateEnd, DisconnectedEnd, TickEnd,
              UpdateSession, DropDisconnected, KeepDisconnected
<1>2. CASE \E i \in 1 .. MaxHolders : LoginCallback(i)
  BY <1>2 DEF LoginCallback
<1>3. CASE \E c \in Characters : WorldChanges(c)
  BY <1>3 DEF WorldChanges
<1>4. CASE \E s \in Sessions : Connect(s) \/ SocketClose(s)
  BY <1>4 DEF Connect, SocketClose
<1>5. CASE \E a \in Accounts : GraceEnds(a)
  BY <1>5 DEF GraceEnds
<1>6. CASE StopNow \/ Stopped \/ UNCHANGED vars
  BY <1>6 DEF StopNow, Stopped, vars
<1> QED BY <1>1, <1>2, <1>3, <1>4, <1>5, <1>6 DEF Next

LEMMA StepAdmission ==
  IInv /\ AdmissionIInv /\ [Next]_vars =>
    AdmissionIInv' /\ OrderKept(server, server', Arriving(server))
<1> SUFFICES ASSUME IInv, AdmissionIInv, [Next]_vars
    PROVE  AdmissionIInv' /\ OrderKept(server, server', Arriving(server))
  OBVIOUS
<1>1. PICK f \in BOOLEAN : f = (stop # "shutdown")
  OBVIOUS
<1>2. PICK sw : sw = server'
  OBVIOUS
<1>3. Admission(server, {}, f)
  BY <1>1 DEF AdmissionIInv
<1>4. \/ Progress(server, sw, f)
      \/ Progress(server, sw, FALSE) /\ stop' = "shutdown"
  BY <1>2, <1>3, NextProgress
<1>5. /\ pc' \in {"admit", "add", "update", "disconnected", "world", "stopped"}
      /\ stop' \in {"no", "requested", "shutdown"}
      /\ stop = "shutdown" => stop' = "shutdown"
  BY StepPhases DEF AdmissionIInv
<1>6. Admission(sw, {}, stop' # "shutdown")
  BY <1>1, <1>4, <1>5 DEF Progress, Admission
<1>7. OrderKept(server, sw, Arriving(server))
  BY <1>4 DEF Progress
<1> QED BY <1>2, <1>5, <1>6, <1>7 DEF AdmissionIInv

-----------------------------------------------------------------------------
(* What follows for the sessions and their counters. *)

LEMMA QueuedMembers == \A sv, q : Queued(sv, q) = Members(sv.queue[q])
BY DEF Queued, Members

LEMMA TypesFollow == IInv /\ AdmissionIInv => TypeOK
BY DEF IInv, AdmissionIInv, Control, Shape, HoldersInv, ArrivingInv, LoopInv,
       Admission, Typed, TypeOK

LEMMA MapFollows ==
  ASSUME Control(server), NEW s \in Sessions
  PROVE  s \in InMap(server) <=> server.sessions[AccountOf[s]] = s
<1>1. ASSUME s \in InMap(server) PROVE server.sessions[AccountOf[s]] = s
  <2>1. PICK a \in Accounts : server.sessions[a] = s
    BY <1>1 DEF InMap
  <2> QED BY <2>1, NoneAssumption DEF Control, Placed
<1>2. ASSUME server.sessions[AccountOf[s]] = s PROVE s \in InMap(server)
  BY <1>2, AttributesAssumption, NoneAssumption DEF InMap
<1> QED BY <1>1, <1>2

LEMMA AccountsFollow == IInv /\ AdmissionIInv => AdmissionAccounts
<1> SUFFICES ASSUME IInv, AdmissionIInv, stop # "shutdown" PROVE
      /\ \A s \in Sessions : Live(s) =>
           /\ server.session[s].inQueue <=> ~server.session[s].passedQueue
           /\ server.session[s].inQueue <=> IsQueued(server, s)
           /\ server.session[s].inQueue => server.sessions[AccountOf[s]] = s
           /\ s \in InMap(server) <=> s \notin server.disconnected
      /\ \A q \in DOMAIN server.queue :
           Cardinality(Queued(server, q)) = Len(server.queue[q])
      /\ \A s \in InMap(server) \cup server.disconnected \cup
                  UNION {Queued(server, q) : q \in DOMAIN server.queue} : Live(s)
      /\ \A r \in Regions : server.logged[r] =
           Cardinality({s \in Sessions : Live(s) /\ RegionOf[s] = r
                                                  /\ server.session[s].passedQueue})
  BY DEF AdmissionAccounts
<1>1. /\ Control(server) /\ Shape(server) /\ Placed(server) /\ Typed(server) /\ Lined(server)
      /\ Waits(server) /\ Flagged(server, {}) /\ Counted(server) /\ AllQueued(server)
  BY DEF IInv, Control, AdmissionIInv, Admission
<1>2. DOMAIN server.queue = Regions \cup {Fifo} /\ \A s : QueueOf(s) \in Regions \cup {Fifo} \/ s \notin Sessions
  BY <1>1, AttributesAssumption DEF Typed, QueueOf
<1>3. ASSUME NEW s \in Sessions, Live(s)
      PROVE  /\ server.session[s].inQueue <=> ~server.session[s].passedQueue
             /\ server.session[s].inQueue <=> IsQueued(server, s)
             /\ server.session[s].inQueue => server.sessions[AccountOf[s]] = s
             /\ s \in InMap(server) <=> s \notin server.disconnected
  <2>1. server.session[s].inQueue <=> ~server.session[s].passedQueue
    BY <1>1, <1>3 DEF Flagged, Live
  <2>2. server.session[s].inQueue <=> IsQueued(server, s)
    BY <1>1, <1>2, QueuedMembers DEF AllQueued, Waits, IsQueued
  <2>3. server.session[s].inQueue => server.sessions[AccountOf[s]] = s
    BY <1>1, <1>2 DEF AllQueued, Waits
  <2>4. s \in InMap(server) <=> s \notin server.disconnected
    <3>1. s \in InMap(server) <=> server.sessions[AccountOf[s]] = s
      BY <1>1, MapFollows
    <3> QED BY <1>1, <1>3, <3>1 DEF Placed, Flagged, Live
  <2> QED BY <2>1, <2>2, <2>3, <2>4
<1>4. ASSUME NEW q \in DOMAIN server.queue
      PROVE  Cardinality(Queued(server, q)) = Len(server.queue[q])
  BY <1>1, <1>2, QueuedMembers, MemberCount DEF Lined
<1>5. ASSUME NEW s \in InMap(server) PROVE Live(s)
  <2>1. PICK a \in Accounts : s = server.sessions[a] /\ s # None
    BY DEF InMap
  <2> QED BY <1>1, <2>1 DEF Placed, Live
<1>6. ASSUME NEW s \in server.disconnected PROVE Live(s)
  BY <1>1 DEF Placed, Live
<1>7. ASSUME NEW s \in UNION {Queued(server, q) : q \in DOMAIN server.queue} PROVE Live(s)
  <2>1. PICK q \in DOMAIN server.queue : s \in Members(server.queue[q])
    BY QueuedMembers
  <2> QED BY <1>1, <1>2, <2>1 DEF Waits, Live
<1>8. ASSUME NEW r \in Regions
      PROVE  server.logged[r] =
               Cardinality({s \in Sessions : Live(s) /\ RegionOf[s] = r
                                                      /\ server.session[s].passedQueue})
  <2>1. {s \in Sessions : Live(s) /\ RegionOf[s] = r /\ server.session[s].passedQueue}
          = PassedIn(server, r)
    BY <1>1 DEF PassedIn, Flagged, Live
  <2> QED BY <1>1, <2>1 DEF Counted
<1> QED BY <1>3, <1>4, <1>5, <1>6, <1>7, <1>8

LEMMA QueuesFollow ==
  IInv /\ AdmissionIInv => QueueSorted /\ ActiveWithinCeiling
<1> SUFFICES ASSUME IInv, AdmissionIInv
    PROVE  QueueSorted /\ ActiveWithinCeiling
  OBVIOUS
<1>1. /\ Control(server) /\ Typed(server) /\ Lined(server) /\ Within(server, {})
  BY DEF IInv, AdmissionIInv, Admission
<1>2. QueueSorted
  <2>1. DOMAIN server.queue = Regions \cup {Fifo}
    BY <1>1 DEF Typed
  <2> QED BY <1>1, <2>1 DEF QueueSorted, Lined, Line
<1>3. {s \in InMap(server) : ~server.session[s].inQueue} = Inside(server, {})
  <2>1. InMap(server) \subseteq Sessions
    BY <1>1, SessionRange DEF InMap, Control
  <2> QED BY <1>1, <2>1, MapFollows DEF Inside
<1>4. ActiveWithinCeiling
  BY <1>1, <1>3 DEF ActiveWithinCeiling, Within, Limited
<1> QED BY <1>2, <1>4

LEMMA OvertakingFollows ==
  ASSUME AdmissionIInv, OrderKept(server, server', Arriving(server))
  PROVE  \A s, t \in Sessions : Ahead(server, s, t) => ~Ahead(server', t, s)
<1> SUFFICES ASSUME NEW s \in Sessions, NEW t \in Sessions,
                    Ahead(server, s, t), Ahead(server', t, s)
    PROVE  FALSE
  OBVIOUS
<1>1. Typed(server) /\ Lined(server) /\ Waits(server) /\ DOMAIN server.queue = Regions \cup {Fifo}
  BY DEF AdmissionIInv, Admission, Typed
<1>2. PICK q \in DOMAIN server.queue : \E i, j \in DOMAIN server.queue[q] :
        i < j /\ server.queue[q][i].sess = s /\ server.queue[q][j].sess = t
  BY DEF Ahead
<1>3. PICK i \in DOMAIN server.queue[q], j \in DOMAIN server.queue[q] :
        i < j /\ server.queue[q][i].sess = s /\ server.queue[q][j].sess = t
  BY <1>2
<1>4. s \in Members(server.queue[q]) /\ t \in Members(server.queue[q])
  BY <1>3 DEF Members
<1>5. QueueOf(t) = q /\ s \notin Arriving(server) /\ t \notin Arriving(server)
  BY <1>1, <1>4 DEF Waits, Arriving
<1>6. Ahead(server, t, s)
  BY <1>5 DEF OrderKept
<1>7. PICK r \in DOMAIN server.queue : \E k, l \in DOMAIN server.queue[r] :
        k < l /\ server.queue[r][k].sess = t /\ server.queue[r][l].sess = s
  BY <1>6 DEF Ahead
<1>8. PICK k \in DOMAIN server.queue[r], l \in DOMAIN server.queue[r] :
        k < l /\ server.queue[r][k].sess = t /\ server.queue[r][l].sess = s
  BY <1>7
<1>9. t \in Members(server.queue[r])
  BY <1>8 DEF Members
<1>10. r = q
  BY <1>1, <1>5, <1>9 DEF Waits
<1>11. k = j /\ l = i
  BY <1>1, <1>3, <1>8, <1>10 DEF Lined, Line
<1>12. server.queue[q] \in Seq(Entry)
  BY <1>1 DEF Typed
<1>13. i \in Nat /\ j \in Nat
  BY <1>3, <1>12
<1> QED BY <1>3, <1>8, <1>11, <1>13

(* Every session the world thread has taken over waits in exactly one place *)
(* of its queue or has been let in, the counters are what they count, and   *)
(* no queue or map points to a session that is gone, until Shutdown.        *)
THEOREM AdmissionHolds == Spec => []AdmissionInv
<1>1. Init => IInv /\ AdmissionIInv
  BY InitControl, InitAdmission
<1>2. IInv /\ AdmissionIInv /\ [Next]_vars => IInv' /\ AdmissionIInv'
  BY StepControl, StepAdmission
<1>3. IInv /\ AdmissionIInv => AdmissionInv
  BY TypesFollow, AccountsFollow DEF AdmissionInv
<1> QED BY <1>1, <1>2, <1>3, PTL DEF Spec

(* The queues stand in the order of their priorities; and as long as nobody *)
(* may skip the queue, the sessions that do not wait exceed PlayerHardLimit *)
(* by at most LoginPerTick - 1 (AdmitQueued tests once whether there is     *)
(* room for one, then lets LoginPerTick in).                                *)
THEOREM QueueHolds == Spec => []QueueInv
<1>1. Init => IInv /\ AdmissionIInv
  BY InitControl, InitAdmission
<1>2. IInv /\ AdmissionIInv /\ [Next]_vars => IInv' /\ AdmissionIInv'
  BY StepControl, StepAdmission
<1>3. IInv /\ AdmissionIInv => QueueInv
  BY QueuesFollow DEF QueueInv
<1> QED BY <1>1, <1>2, <1>3, PTL DEF Spec

(* Two sessions that wait in one queue never change places, however the     *)
(* priorities age and whoever joins or leaves.                              *)
THEOREM OvertakenHolds == Spec => NobodyIsOvertaken
<1>1. Init => IInv /\ AdmissionIInv
  BY InitControl, InitAdmission
<1>2. IInv /\ AdmissionIInv /\ [Next]_vars => IInv' /\ AdmissionIInv'
  BY StepControl, StepAdmission
<1>3. IInv /\ AdmissionIInv /\ [Next]_vars =>
        [\A s, t \in Sessions : Ahead(server, s, t) => ~Ahead(server', t, s)]_vars
  BY StepAdmission, OvertakingFollows
<1> QED BY <1>1, <1>2, <1>3, PTL DEF Spec, NobodyIsOvertaken
=============================================================================
