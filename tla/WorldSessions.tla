--------------------------- MODULE WorldSessions ---------------------------
(***************************************************************************)
(* The sessions of the world server (src/game/World.cpp, WorldSession.cpp, *)
(* Handlers/CharacterHandler.cpp): network threads hand new sessions over  *)
(* and close sockets at any time; once per tick the world thread runs      *)
(* World::UpdateSessions, which admits waiting sessions, takes the new     *)
(* ones over, updates each session and each disconnected session; later in *)
(* the tick it runs the callbacks of finished login queries.               *)
(*                                                                         *)
(* A session is one WorldSession object, made once and deleted once.  What *)
(* the world thread's functions change is one record, `server', so that a  *)
(* function that calls others is the composition of theirs.  Bots, who     *)
(* have sessions without a socket, are left out.                           *)
(***************************************************************************)
EXTENDS Integers, Sequences, SequencesExt, FiniteSets

CONSTANTS
  Sessions,        \* WorldSession objects, numbered in the order they are made
  Accounts, Ips, Characters,
  None,            \* a null pointer
  AccountOf,       \* account of each session
  RegionOf,        \* WorldSession::GetQueueIndex of each session
  IpOf,            \* remote address of each session
  BasePriority,    \* WorldSession::GetBasePriority of each session
  Privileged,      \* sessions of staff, or with CanQueueSkip
  OwnerOf,         \* account each character belongs to
  PriorityQueue,   \* PriorityQueue.Enable
  HardLimit,       \* PlayerHardLimit
  MaxPop,          \* share of HardLimit a region may fill, as a number
  LoginPerTick,    \* LoginPerTick
  PlayerLimit,     \* PlayerLimit
  AgePerTick,      \* diff times PriorityQueue.PriorityPerTick
  IpPenalty,       \* PriorityQueue.IpPenaltyPriorityReduction, 0 if disabled
  GracePeriod,     \* is LoginQueue.GracePeriodSecs set?
  LogoutDelay,     \* PlayerBot.ForceLogoutDelay
  MaxHolders,      \* bound on the login queries under way
  MayStop          \* may the server be stopped?

Regions == {0, 1}
Fifo == 2                        \* index of m_QueuedSessions in `queue'

ASSUME SessionsAssumption == Sessions \subseteq Nat /\ IsFiniteSet(Sessions)
ASSUME AttributesAssumption ==
  /\ AccountOf \in [Sessions -> Accounts] /\ IpOf \in [Sessions -> Ips]
  /\ RegionOf \in [Sessions -> Regions] /\ BasePriority \in [Sessions -> Nat]
  /\ Privileged \subseteq Sessions /\ OwnerOf \in [Characters -> Accounts]
ASSUME NoneAssumption == None \notin Sessions /\ None \notin Characters
ASSUME ConfigAssumption ==
  /\ {PriorityQueue, GracePeriod, LogoutDelay, MayStop} \subseteq BOOLEAN
  /\ {HardLimit, LoginPerTick, PlayerLimit, AgePerTick, IpPenalty,
      MaxHolders} \subseteq Nat
  /\ MaxPop \in [Regions -> Nat]

(* Priorities are only compared with base priorities, all of which are      *)
(* below the cap: an entry at the cap is ordered as one above it would be.  *)
PriorityCap == 1 + Max({BasePriority[s] : s \in Sessions})

VARIABLES
  server,       \* what the world thread owns, see TypeOK
  addSessQueue, \* World::addSessQueue, filled by network threads
  holders,      \* login queries given to the database: account and character
  pc,           \* where the world thread is in its tick
  todo,         \* sessions its current loop has not reached
  stop          \* "no", "requested" (m_stopEvent), "shutdown" (in World::Shutdown)

vars == <<server, addSessQueue, holders, pc, todo, stop>>

NewSession == [status |-> "unused", socket |-> "null", inQueue |-> FALSE,
               hadQueue |-> FALSE, passedQueue |-> FALSE, loading |-> FALSE,
               player |-> None]
Offline == [session |-> None, inWorld |-> FALSE]

Init ==
  /\ server = [session |-> [s \in Sessions |-> NewSession],
               character |-> [c \in Characters |-> Offline],
               sessions |-> [a \in Accounts |-> None],
               disconnected |-> {},
               queue |-> [q \in Regions \cup {Fifo} |-> << >>],
               playerLimit |-> PlayerLimit,
               logged |-> [r \in Regions |-> 0],
               connections |-> [i \in Ips |-> 0],
               lastLogout |-> {}]
  /\ addSessQueue = << >> /\ holders = << >>
  /\ pc = "admit" /\ todo = {} /\ stop = "no"

-----------------------------------------------------------------------------
(* Functions of World and WorldSession, as state to state                   *)

InMap(sv) == {sv.sessions[a] : a \in Accounts} \ {None}
QueueOf(s) == IF PriorityQueue THEN RegionOf[s] ELSE Fifo
Queued(sv, q) == {sv.queue[q][i].sess : i \in DOMAIN sv.queue[q]}
QueuedCount(sv) == IF PriorityQueue THEN Len(sv.queue[0]) + Len(sv.queue[1])
                                    ELSE Len(sv.queue[Fifo])
ActiveCount(sv) == Cardinality(InMap(sv)) - QueuedCount(sv)

KickPlayer(sv, s) == [sv EXCEPT !.session[s].socket =
                        IF @ = "open" THEN "closed" ELSE @]

(* Admission of a set of waiting sessions of one region: SetInQueue(false)  *)
(* and SendAuthWaitQue(0), which calls OnPassedQueue, for each.             *)
OnPassedQueue(sv, S, r) ==
  [sv EXCEPT !.session = [s \in Sessions |->
                 IF s \in S THEN [@[s] EXCEPT !.inQueue = FALSE, !.passedQueue = TRUE]
                 ELSE @[s]],
             !.logged[r] = @ + Cardinality(S)]

PopFront(sv, q) == LET s == Head(sv.queue[q]).sess
                   IN  OnPassedQueue([sv EXCEPT !.queue[q] = Tail(@)], {s}, RegionOf[s])

LogoutPlayer(sv, s) ==
  LET c == sv.session[s].player
  IN  IF c = None THEN sv
      ELSE [sv EXCEPT !.character[c] = Offline, !.session[s].player = None]

(* ~WorldSession *)
DeleteSession(sv, s) ==
  [LogoutPlayer(sv, s) EXCEPT
     !.session[s] = [NewSession EXCEPT !.status = "deleted"],
     !.logged[RegionOf[s]] = @ - (IF sv.session[s].passedQueue THEN 1 ELSE 0)]

(* ForcePlayerLogoutDelay: when its condition holds the session moves to    *)
(* m_disconnectedSessions, its player saved and left in the world.          *)
CanDelayLogout(sv, s) ==
  /\ stop = "no" /\ LogoutDelay
  /\ sv.session[s].player # None
  /\ sv.character[sv.session[s].player].inWorld

NoteLogout(sv, s) == [sv EXCEPT !.lastLogout =
                        IF sv.session[s].hadQueue /\ GracePeriod
                        THEN @ \cup {AccountOf[s]} ELSE @]

SetSessionDisconnected(sv, s) ==
  [NoteLogout(sv, s) EXCEPT !.sessions[AccountOf[s]] = None,
                            !.disconnected = @ \cup {s}]

IsQueued(sv, s) == s \in Queued(sv, QueueOf(s))

(* Mutant: the entry is erased by moving the last one into its place. *)
DequeueSwapsLast(sv, s) ==
  IF IsQueued(sv, s)
  THEN [sv EXCEPT !.queue[QueueOf(s)] = [i \in 1 .. (Len(@) - 1) |->
                                           IF @[i].sess = s THEN @[Len(@)] ELSE @[i]],
                  !.session[s].inQueue = FALSE]
  ELSE sv

(* RemoveQueuedSession: with one queue per region it only removes; with the *)
(* single queue it also lets the first one in when there is room.           *)
Dequeue(sv, s) ==
  IF IsQueued(sv, s)
  THEN [sv EXCEPT !.queue[QueueOf(s)] =
                    RemoveAt(@, CHOOSE i \in DOMAIN @ : @[i].sess = s),
                  !.session[s].inQueue = FALSE]
  ELSE sv

(* Mutant: a session that waits is not taken out of its queue. *)
RemoveQueuedSessionKeeps(sv, s) ==
  LET active == ActiveCount(sv)
      room   == active < HardLimit /\ (sv.playerLimit = 0 \/ active < sv.playerLimit)
  IN  IF ~PriorityQueue /\ room /\ sv.queue[Fifo] # << >> /\ ~IsQueued(sv, s)
      THEN PopFront(sv, Fifo) ELSE sv

RemoveQueuedSession(sv, s) ==
  LET active == ActiveCount(sv)
      others == IF ~IsQueued(sv, s) /\ active # 0 THEN active - 1 ELSE active
      after  == Dequeue(sv, s)
      room   == /\ ActiveCount(after) < HardLimit
                /\ after.playerLimit = 0 \/ others < after.playerLimit
  IN  IF ~PriorityQueue /\ room /\ after.queue[Fifo] # << >>
      THEN PopFront(after, Fifo) ELSE after

(* AddQueuedSession: before the first entry of a lower priority. *)
Priority(sv, s) ==
  IF ~PriorityQueue THEN 0
  ELSE IF sv.connections[IpOf[s]] > 1 /\ IpPenalty > 0
       THEN IF IpPenalty >= BasePriority[s] THEN 0 ELSE BasePriority[s] - IpPenalty
       ELSE BasePriority[s]

(* Mutant: looks at the last entry only. *)
AddQueuedSessionLastFirst(sv, s) ==
  LET entry == [prio |-> Priority(sv, s), sess |-> s]
      q     == sv.queue[QueueOf(s)]
      ahead == IF q # << >> /\ q[Len(q)].prio < entry.prio THEN Len(q) - 1 ELSE Len(q)
  IN  [sv EXCEPT !.queue[QueueOf(s)] = InsertAt(@, ahead + 1, entry),
                 !.session[s].inQueue = TRUE, !.session[s].hadQueue = TRUE]

AddQueuedSession(sv, s) ==
  LET entry == [prio |-> Priority(sv, s), sess |-> s]
      q     == sv.queue[QueueOf(s)]
      ahead == Cardinality({i \in DOMAIN q : \A j \in 1 .. i : q[j].prio >= entry.prio})
  IN  [sv EXCEPT !.queue[QueueOf(s)] = InsertAt(@, ahead + 1, entry),
                 !.session[s].inQueue = TRUE, !.session[s].hadQueue = TRUE]

CanSkipQueue(sv, s) == s \in Privileged \/ AccountOf[s] \in sv.lastLogout

(* AddSession_: a session of the same account is kicked and replaced, and   *)
(* if that one is loading a character the new session is refused.           *)
Replace(sv, old) ==
  LET kicked == RemoveQueuedSession(KickPlayer(sv, old), old)
  IN  IF CanDelayLogout(kicked, old) THEN SetSessionDisconnected(kicked, old)
                                     ELSE DeleteSession(kicked, old)

Enter(sv, s) ==
  LET r     == RegionOf[s]
      added == [sv EXCEPT !.sessions[AccountOf[s]] = s, !.connections[IpOf[s]] = @ + 1]
      full  == added.logged[r] >= MaxPop[r] \/ ActiveCount(added) >= HardLimit
  IN  IF full /\ ~CanSkipQueue(added, s) THEN AddQueuedSession(added, s)
                                         ELSE OnPassedQueue(added, {s}, r)

AddSession_(sv, s) ==
  LET old == sv.sessions[AccountOf[s]]
  IN  IF old = None THEN Enter(sv, s)
      ELSE IF sv.session[old].loading THEN DeleteSession(sv, s)
      ELSE Enter(Replace(sv, old), s)

-----------------------------------------------------------------------------
(* World::UpdateSessions, one loop after another.  Its first part admits    *)
(* from the queue of each region; both regions use the populations read at  *)
(* the start, and playerLimit as the region before left it.                 *)

(* Mutant: the limit is raised whatever the population is. *)
AdmitRegionRaises(sv, r, pop) ==
  LET raised == sv.playerLimit + LoginPerTick
      full   == raised > HardLimit \/ HardLimit <= ActiveCount(sv)
      count  == IF full THEN 0 ELSE Min({LoginPerTick, Len(sv.queue[r])})
      S      == {sv.queue[r][i].sess : i \in 1 .. count}
      limit  == IF full THEN HardLimit ELSE raised
      Aged(e) == [e EXCEPT !.prio = Min({@ + AgePerTick, PriorityCap})]
      rest   == SubSeq(sv.queue[r], count + 1, Len(sv.queue[r]))
  IN  IF pop[r] < MaxPop[r] /\ sv.queue[r] # << >> /\ LoginPerTick > 0
      THEN OnPassedQueue([sv EXCEPT !.playerLimit = limit,
                            !.queue[r] = [i \in DOMAIN rest |-> Aged(rest[i])]], S, r)
      ELSE sv

(* Mutant: lets them in without looking for room. *)
AdmitRegionAlways(sv, r, pop) ==
  LET count  == Min({LoginPerTick, Len(sv.queue[r])})
      S      == {sv.queue[r][i].sess : i \in 1 .. count}
      Aged(e) == [e EXCEPT !.prio = Min({@ + AgePerTick, PriorityCap})]
      rest   == SubSeq(sv.queue[r], count + 1, Len(sv.queue[r]))
  IN  IF pop[r] < MaxPop[r] /\ sv.queue[r] # << >>
      THEN OnPassedQueue([sv EXCEPT !.queue[r] = [i \in DOMAIN rest |-> Aged(rest[i])]], S, r)
      ELSE sv

(* One region. *)
AdmitRegion(sv, r, pop) ==
  LET raised == Min({sv.playerLimit + LoginPerTick, pop[0] + pop[1] + LoginPerTick})
      full   == raised > HardLimit \/ HardLimit <= ActiveCount(sv)
      count  == IF full THEN 0 ELSE Min({LoginPerTick, Len(sv.queue[r])})
      S      == {sv.queue[r][i].sess : i \in 1 .. count}
      limit  == IF full THEN HardLimit ELSE raised
      Aged(e) == [e EXCEPT !.prio = Min({@ + AgePerTick, PriorityCap})]
      rest   == SubSeq(sv.queue[r], count + 1, Len(sv.queue[r]))
  IN  IF pop[r] < MaxPop[r] /\ sv.queue[r] # << >> /\ LoginPerTick > 0
      THEN OnPassedQueue([sv EXCEPT !.playerLimit = limit,
                            !.queue[r] = [i \in DOMAIN rest |-> Aged(rest[i])]], S, r)
      ELSE sv

AdmitQueued ==
  /\ pc = "admit"
  /\ LET pop == server.logged
         sv  == [server EXCEPT !.playerLimit = IF HardLimit = 0 THEN @ ELSE Min({@, HardLimit})]
     IN  server' = AdmitRegion(AdmitRegion(sv, 0, pop), 1, pop)
  /\ pc' = "add"
  /\ UNCHANGED <<addSessQueue, holders, todo, stop>>

AddNext ==
  /\ pc = "add" /\ addSessQueue # << >>
  /\ server' = AddSession_([server EXCEPT !.session[Head(addSessQueue)].status = "added"],
                           Head(addSessQueue))
  /\ addSessQueue' = Tail(addSessQueue)
  /\ UNCHANGED <<holders, pc, todo, stop>>

AddEnd ==
  /\ pc = "add" /\ addSessQueue = << >>
  /\ pc' = "update" /\ todo' = InMap(server)
  /\ UNCHANGED <<server, addSessQueue, holders, stop>>

(* The second loop updates every session of m_sessions.  What a client's    *)
(* packets and timers make of the session in this update is `cause':        *)
(* nothing, a request to log a character in, a logout that is due, or the   *)
(* character screen having been left idle.                                  *)
Connected(s) == server.session[s].socket = "open"

LoginRequest(s, c) ==
  /\ Connected(s) /\ ~server.session[s].inQueue
  /\ ~server.session[s].loading /\ server.session[s].player = None
  /\ AccountOf[s] = OwnerOf[c]
  /\ Len(holders) < MaxHolders
  /\ server' = [server EXCEPT !.session[s].loading = TRUE]
  /\ holders' = Append(holders, [account |-> AccountOf[s], char |-> c])

(* Update returned false: the session is taken out and deleted. *)
RemoveSession(sv, s) ==
  LET dequeued == RemoveQueuedSession(sv, s)
      noted    == IF IsQueued(sv, s) THEN dequeued ELSE NoteLogout(dequeued, s)
  IN  DeleteSession([noted EXCEPT !.sessions[AccountOf[s]] = None,
                                  !.connections[IpOf[s]] = @ - 1], s)

LogoutDue(s) ==
  /\ server.session[s].player # None /\ ~server.session[s].loading
  /\ server' = LogoutPlayer(server, s)

IdleKick(s) ==
  /\ server.session[s].player = None
  /\ ~server.session[s].inQueue /\ ~server.session[s].loading
  /\ server' = RemoveSession(server, s)

(* A closed socket.  Moving the session to m_disconnectedSessions erases    *)
(* the entry the loop stands on, the following ones shift down, and         *)
(* advancing the iterator then passes over one of them.                     *)
SocketGone(s) ==
  /\ ~Connected(s)
  /\ LET sv == [server EXCEPT !.session[s].socket = "null"]
     IN  IF CanDelayLogout(sv, s)
         THEN /\ server' = SetSessionDisconnected(sv, s)
              /\ \/ todo' = todo \ {s}
                 \/ \E t \in todo \ {s} : todo' = todo \ {s, t}
         ELSE server' = RemoveSession(sv, s) /\ todo' = todo \ {s}
  /\ UNCHANGED holders

UpdateSession(s) ==
  /\ pc = "update" /\ s \in todo
  /\ \/ SocketGone(s)
     \/ /\ Connected(s) /\ todo' = todo \ {s}
        /\ \/ UNCHANGED <<server, holders>>
           \/ \E c \in Characters : LoginRequest(s, c)
           \/ (LogoutDue(s) \/ IdleKick(s)) /\ UNCHANGED holders
  /\ UNCHANGED <<addSessQueue, pc, stop>>

UpdateEnd ==
  /\ pc = "update" /\ todo = {}
  /\ pc' = "disconnected" /\ todo' = server.disconnected
  /\ UNCHANGED <<server, addSessQueue, holders, stop>>

(* Mutant: the timer is not counted down. *)
DropDisconnectedNoTimer(s) ==
  /\ pc = "disconnected" /\ s \in todo
  /\ server.session[s].player # None =>
       ~server.character[server.session[s].player].inWorld
  /\ server' = DeleteSession([server EXCEPT !.disconnected = @ \ {s}], s)
  /\ todo' = todo \ {s}
  /\ UNCHANGED <<addSessQueue, holders, pc, stop>>

(* The third loop, UpdateDisconnected: the session is deleted when its      *)
(* player has left it or the world, or when its timer has run down.         *)
DropDisconnected(s) ==
  /\ pc = "disconnected" /\ s \in todo
  /\ server' = DeleteSession([server EXCEPT !.disconnected = @ \ {s}], s)
  /\ todo' = todo \ {s}
  /\ UNCHANGED <<addSessQueue, holders, pc, stop>>

KeepDisconnected(s) ==
  /\ pc = "disconnected" /\ s \in todo
  /\ server.session[s].player # None
  /\ server.character[server.session[s].player].inWorld
  /\ todo' = todo \ {s}
  /\ UNCHANGED <<server, addSessQueue, holders, pc, stop>>

DisconnectedEnd ==
  /\ pc = "disconnected" /\ todo = {}
  /\ pc' = IF stop = "shutdown" THEN "stopped" ELSE "world"
  /\ UNCHANGED <<server, addSessQueue, holders, todo, stop>>

-----------------------------------------------------------------------------
(* The rest of the tick.  HandlePlayerLoginCallback and HandlePlayerLogin:  *)
(* the callback looks the session up by account.                            *)

(* Mutant: the session the player is taken from keeps its pointer. *)
TakeOverShares(sv, s, c) ==
  [sv EXCEPT !.session[s] = [@ EXCEPT !.player = c, !.loading = FALSE],
             !.character[c].session = s]

(* A character that is in the world is taken over from its session. *)
TakeOver(sv, s, c) ==
  [sv EXCEPT !.session[sv.character[c].session].player = None,
             !.session[s].player = c, !.session[s].loading = FALSE,
             !.character[c].session = s]

EndLoading(sv, s) == [sv EXCEPT !.session[s].loading = FALSE]

LoginRefused(sv, s) == EndLoading(KickPlayer(sv, s), s)

LoadFromDB(sv, s, c) ==
  [sv EXCEPT !.session[s] = [@ EXCEPT !.player = c, !.loading = FALSE],
             !.character[c] = [session |-> s, inWorld |-> TRUE]]

(* Mutant: an unexpected callback is dropped and nothing else. *)
HandlePlayerLoginDrops(h, sv) ==
  LET s == server.sessions[h.account]
      c == h.char
  IN  IF s = None THEN sv = server
      ELSE IF server.session[s].player # None \/ ~server.session[s].loading
      THEN sv = server
      ELSE IF server.character[c].inWorld THEN sv = server
      ELSE sv \in {LoadFromDB(server, s, c), LoginRefused(server, s)}

HandlePlayerLogin(h, sv) ==
  LET s == server.sessions[h.account]
      c == h.char
  IN  IF s = None THEN sv = server
      ELSE IF server.session[s].player # None \/ ~server.session[s].loading
      THEN sv = EndLoading(server, s)
      ELSE IF server.character[c].inWorld THEN sv = TakeOver(server, s, c)
      ELSE IF server.character[c].session # None THEN sv = LoginRefused(server, s)
      ELSE sv \in {LoadFromDB(server, s, c), LoginRefused(server, s)}

(* Queries about one character are answered in order (its guid is their     *)
(* serial id), others in any order.                                         *)
LoginCallback(i) ==
  /\ pc = "world" /\ i \in DOMAIN holders
  /\ \A j \in 1 .. (i - 1) : holders[j].char # holders[i].char
  /\ HandlePlayerLogin(holders[i], server')
  /\ holders' = RemoveAt(holders, i)
  /\ UNCHANGED <<addSessQueue, pc, todo, stop>>

(* A far teleport takes a player out of its map; the arrival, which a       *)
(* client has to acknowledge, brings it back.                               *)
WorldChanges(c) ==
  /\ pc = "world" /\ server.character[c].session # None
  /\ server.character[c].inWorld \/ Connected(server.character[c].session)
  /\ server' = [server EXCEPT !.character[c].inWorld = ~@]
  /\ UNCHANGED <<addSessQueue, holders, pc, todo, stop>>

(* The end of a tick.  Once World::IsStopped, Shutdown kicks everyone and   *)
(* runs UpdateSessions a last time.                                         *)
KickAll(sv) ==
  [sv EXCEPT !.queue = [q \in DOMAIN @ |-> << >>],
             !.session = [s \in Sessions |->
                IF s \in InMap(sv) \cup sv.disconnected /\ @[s].socket = "open"
                THEN [@[s] EXCEPT !.socket = "closed"] ELSE @[s]]]

TickEnd ==
  /\ pc = "world" /\ pc' = "admit"
  /\ IF stop = "no" THEN UNCHANGED <<server, stop>>
     ELSE server' = KickAll(server) /\ stop' = "shutdown"
  /\ UNCHANGED <<addSessQueue, holders, todo>>

-----------------------------------------------------------------------------
(* Other threads: the network and whoever stops the server; and the clock   *)
(* that ends a period of grace.                                             *)
Connect(s) ==
  /\ server.session[s].status = "unused"
  /\ \A t \in Sessions : t < s /\ AccountOf[t] = AccountOf[s] =>
                           server.session[t].status # "unused"
  /\ server' = [server EXCEPT !.session[s].status = "waiting", !.session[s].socket = "open"]
  /\ addSessQueue' = Append(addSessQueue, s)
  /\ UNCHANGED <<holders, pc, todo, stop>>

SocketClose(s) ==
  /\ server.session[s].socket = "open"
  /\ server' = [server EXCEPT !.session[s].socket = "closed"]
  /\ UNCHANGED <<addSessQueue, holders, pc, todo, stop>>

GraceEnds(a) ==
  /\ a \in server.lastLogout
  /\ server' = [server EXCEPT !.lastLogout = @ \ {a}]
  /\ UNCHANGED <<addSessQueue, holders, pc, todo, stop>>

StopNow ==
  /\ MayStop /\ stop = "no" /\ stop' = "requested"
  /\ UNCHANGED <<server, addSessQueue, holders, pc, todo>>

Stopped == pc = "stopped" /\ UNCHANGED vars

Tick == \/ AdmitQueued \/ AddNext \/ AddEnd \/ UpdateEnd \/ DisconnectedEnd \/ TickEnd
        \/ \E s \in Sessions : UpdateSession(s) \/ DropDisconnected(s) \/ KeepDisconnected(s)

Next == \/ Tick
        \/ \E i \in 1 .. MaxHolders : LoginCallback(i)
        \/ \E c \in Characters : WorldChanges(c)
        \/ \E s \in Sessions : Connect(s) \/ SocketClose(s)
        \/ \E a \in Accounts : GraceEnds(a)
        \/ StopNow \/ Stopped

Spec == Init /\ [][Next]_vars

(* The world thread keeps ticking; the oldest login query is answered in    *)
(* the end (AsyncDatabase), and a tick that finds its answer in the result  *)
(* queue runs the callback; the timers of disconnected sessions run down,   *)
(* each of them once.                                                       *)
Fairness ==
  /\ WF_vars(Tick)
  /\ SF_vars(LoginCallback(1))
  /\ SF_vars(\E s \in Sessions : DropDisconnected(s))

FairSpec == Spec /\ Fairness

-----------------------------------------------------------------------------
(* Properties *)

(* The variables have the values the code's types allow. *)
SessionState ==
  [status : {"unused", "waiting", "added", "deleted"},
   socket : {"open", "closed", "null"},
   inQueue : BOOLEAN, hadQueue : BOOLEAN, passedQueue : BOOLEAN, loading : BOOLEAN,
   player : Characters \cup {None}]

Entry == [prio : 0 .. PriorityCap, sess : Sessions]

TypeOK ==
  /\ server.session \in [Sessions -> SessionState]
  /\ server.character \in [Characters -> [session : Sessions \cup {None},
                                          inWorld : BOOLEAN]]
  /\ server.sessions \in [Accounts -> Sessions \cup {None}]
  /\ server.disconnected \subseteq Sessions
  /\ server.queue \in [Regions \cup {Fifo} -> Seq(Entry)]
  /\ server.playerLimit \in Nat
  /\ server.logged \in [Regions -> Nat]
  /\ server.connections \in [Ips -> Nat]
  /\ server.lastLogout \subseteq Accounts
  /\ addSessQueue \in Seq(Sessions)
  /\ holders \in Seq([account : Accounts, char : Characters])
  /\ pc \in {"admit", "add", "update", "disconnected", "world", "stopped"}
  /\ todo \subseteq Sessions
  /\ stop \in {"no", "requested", "shutdown"}

Live(s) == server.session[s].status = "added"

(* A session the world thread has taken over either waits, with exactly one *)
(* entry in its queue and its place in m_sessions, or has been let in; and  *)
(* the population counters count those let in, the disconnected ones that   *)
(* still hold a player in the world included.  No queue entry and no entry  *)
(* of m_sessions points to a deleted session.  (World::m_priorityQueue,     *)
(* m_QueuedSessions, loggedRegionSessions, ~WorldSession.)                  *)
AdmissionAccounts ==
  stop # "shutdown" =>
  /\ \A s \in Sessions : Live(s) =>
       /\ server.session[s].inQueue <=> ~server.session[s].passedQueue
       /\ server.session[s].inQueue <=> IsQueued(server, s)
       /\ server.session[s].inQueue => server.sessions[AccountOf[s]] = s
       /\ s \in InMap(server) <=> s \notin server.disconnected
  /\ \A q \in DOMAIN server.queue :
       Cardinality(Queued(server, q)) = Len(server.queue[q])
  /\ \A s \in InMap(server) \cup server.disconnected \cup
              UNION {Queued(server, q) : q \in DOMAIN server.queue} : Live(s)
  /\ \A r \in Regions : server.logged[r] =
       Cardinality({s \in Sessions : Live(s) /\ RegionOf[s] = r
                                              /\ server.session[s].passedQueue})

(* The entries of a queue stand in the order of their priorities, although  *)
(* they age while they wait and newcomers are inserted by base priority     *)
(* (AddQueuedSession, UpdateSessions).                                      *)
QueueSorted ==
  \A q \in DOMAIN server.queue : \A i, j \in DOMAIN server.queue[q] :
    i <= j => server.queue[q][i].prio >= server.queue[q][j].prio

(* Two sessions that wait in one queue never change places. *)
Ahead(sv, s, t) ==
  \E q \in DOMAIN sv.queue : \E i, j \in DOMAIN sv.queue[q] :
    i < j /\ sv.queue[q][i].sess = s /\ sv.queue[q][j].sess = t

NobodyIsOvertaken ==
  [][\A s, t \in Sessions : Ahead(server, s, t) => ~Ahead(server', t, s)]_vars

(* The sessions that do not wait, if nobody skips the queue.  UpdateSessions *)
(* tests once whether there is room for one and then lets up to LoginPerTick *)
(* in, so that the last of them may find none: PlayerHardLimit is exceeded, *)
(* by LoginPerTick - 1 at most, whatever reconnections, replacements and    *)
(* direct entries come between two ticks.                                   *)
Ceiling == IF LoginPerTick <= 1 THEN HardLimit ELSE HardLimit + LoginPerTick - 1

ActiveWithinCeiling ==
  Privileged = {} /\ ~GracePeriod =>
    Cardinality({s \in InMap(server) : ~server.session[s].inQueue}) <= Ceiling

(* A player in the world and the session that plays it point to each other, *)
(* whatever kicks, replacements, disconnections and relogins there were:    *)
(* no player is played twice, and none is left to a deleted session         *)
(* (HandlePlayerLogin, ForcePlayerLogoutDelay, ~WorldSession).              *)
OneController ==
  /\ \A c \in Characters : LET s == server.character[c].session IN
       s # None => Live(s) /\ server.session[s].player = c /\ AccountOf[s] = OwnerOf[c]
  /\ \A s \in Sessions : LET c == server.session[s].player IN
       c # None => Live(s) /\ server.character[c].session = s

(* A session that is loading a character is the one its account's callback  *)
(* will find, and that callback is still to come: otherwise it would load   *)
(* for ever, and refuse every new connection of the account as well         *)
(* (World::RemoveSession, HandlePlayerLogin).                               *)
LoadingIsAnswered ==
  \A s \in Sessions : server.session[s].loading =>
    /\ server.sessions[AccountOf[s]] = s
    /\ \E i \in DOMAIN holders : holders[i].account = AccountOf[s]

(* What ties sessions, characters and queries together. *)
ControlInv == OneController /\ LoadingIsAnswered

(* What ties sessions, queues, the session map and the counters together. *)
AdmissionInv == TypeOK /\ AdmissionAccounts

(* The queues are sorted, and the limit is kept as far as it is. *)
QueueInv == QueueSorted /\ ActiveWithinCeiling

(* A login ends: the session plays, or is back at its character screen, or  *)
(* is gone.                                                                 *)
LoginEnds == \A s \in Sessions :
  server.session[s].loading /\ stop = "no" ~> ~server.session[s].loading \/ stop # "no"

(* A player whose client is gone does not stay in the world for ever: its   *)
(* disconnected session is deleted (World::UpdateSessions).                 *)
DisconnectedLeave == \A s \in Sessions :
  s \in server.disconnected /\ stop = "no" ~> s \notin server.disconnected \/ stop # "no"

(* When nobody but waiting sessions is left, the first ones are let in.     *)
WaitingAlone == ActiveCount(server) = 0 /\ QueuedCount(server) > 0 /\ stop = "no"
QueueMoves == WaitingAlone ~> ~WaitingAlone

(* "Kick (and save) all players": when Shutdown has ended every player has  *)
(* been logged out, which is what saves it (World::KickAll).                *)
ShutdownSaves ==
  pc = "stopped" => \A c \in Characters : server.character[c].session = None

=============================================================================
