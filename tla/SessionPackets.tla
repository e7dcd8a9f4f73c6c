--------------------------- MODULE SessionPackets ---------------------------
(***************************************************************************)
(* The packets of the sessions and the threads that handle them.  A        *)
(* network thread puts a packet into the queue of its kind                 *)
(* (WorldSession::QueuePacket); WorldSession::ProcessPackets empties one   *)
(* queue, called by World::UpdateSessions, by the player's map, or by the  *)
(* async packet thread (World::ProcessAsyncPackets).  The async thread     *)
(* goes through m_sessions, which UpdateSessions changes, and is told by   *)
(* the plain flag m_canProcessAsyncPackets when to stay away: nothing      *)
(* waits for what it has begun.  A session may be deleted meanwhile; the   *)
(* thread that then uses it has no defined behaviour, and is lost here.    *)
(*                                                                         *)
(* What else UpdateSessions does is the module WorldSessions.  The maps    *)
(* are updated by the world thread or while it waits: one thread here.     *)
(***************************************************************************)
EXTENDS Integers, Sequences, FiniteSets

CONSTANTS
  Sessions,     \* WorldSession objects
  None,
  Kind,         \* of an opcode: PacketProcessing
  Requeued,     \* opcodes that AllowPacket puts off, the others it may deny
  RequeueLimit, \* how many of one of them are counted within four seconds
  PassLimit,    \* MaxPacketsPerUpdate
  Traffic,      \* bound, for each session: what it may receive, sequences of opcodes
  MayLeave      \* bound: sessions whose player may come and go, and whose connection may

Opcodes == DOMAIN Kind
Kinds   == {"WORLD", "MAP", "DB_QUERY"}
Threads == {"world", "async"}
Packets == [n : Nat, op : Opcodes]
Calls   == [session : Sessions, kind : Kinds, packet : Packets \union {None}, total : Nat,
            over : BOOLEAN, aside : Seq(Packets)]

ASSUME PacketsAssumption ==
  /\ None \notin Sessions
  /\ Kind \in [Opcodes -> Kinds] /\ Requeued \subseteq Opcodes
  /\ RequeueLimit \in Nat /\ PassLimit \in Nat
  /\ \A s \in Sessions : Traffic[s] \subseteq Seq(Opcodes)
  /\ MayLeave \subseteq Sessions

ASSUME NoneAssumption == None \notin Packets \union Calls

VARIABLES
  wpc,        \* world thread: "start", "tick", "update", "shutdown", "ended"
  apc,        \* async thread: "loop", "wait", "next", "handle", "ended", "undefined"
  mpc,        \* main thread: "run", "joined"
  m_sessions, \* sessions in World::m_sessions
  removed,    \* sessions taken out of it that are not deleted: in m_disconnectedSessions, or next
  deleted,    \* WorldSession objects that are no more
  m_stopEvent, m_canProcessAsyncPackets,
  left,       \* what the async thread's iteration may still meet, None for freed memory
  late,       \* sessions it has begun while, or since, the last UpdateSessions has run
  socket,     \* of a session: whether its socket is open
  inWorld,    \* sessions whose player is in the world
  _recvQueue, \* of a session and a kind
  count,      \* of a session and an opcode: m_requeuePacketCount, None after four seconds
  pass,       \* of a thread: the call of ProcessPackets it is in, or None
  handled,    \* history, of a session: the packets handled or denied
  received,   \* history, of a session: how many packets it has received
  traffic     \* of a session: which of Traffic it is

threadVars == <<wpc, apc, mpc, m_sessions, removed, deleted, m_stopEvent,
                m_canProcessAsyncPackets, left, late>>
objectVars == <<m_sessions, removed, deleted>>
worldVars  == <<wpc, objectVars, m_canProcessAsyncPackets>>
asyncVars  == <<apc, left>>
packetVars == <<_recvQueue, count, handled, received, traffic>>
vars == <<threadVars, socket, inWorld, pass, packetVars>>

NewPass(s, kind) == [session |-> s, kind |-> kind, packet |-> None, total |-> 0,
                     over |-> FALSE, aside |-> <<>>]

Init ==
  /\ wpc = "start" /\ apc = "loop" /\ mpc = "run"
  /\ m_sessions = {} /\ removed = {} /\ deleted = {}
  /\ m_stopEvent = FALSE /\ m_canProcessAsyncPackets = FALSE
  /\ left = {} /\ late = 0
  /\ socket = [s \in Sessions |-> TRUE] /\ inWorld = {}
  /\ _recvQueue = [s \in Sessions |-> [k \in Kinds |-> <<>>]]
  /\ count = [s \in Sessions |-> [op \in Requeued |-> None]] /\ pass = [t \in Threads |-> None]
  /\ handled = [s \in Sessions |-> <<>>] /\ received = [s \in Sessions |-> 0]
  /\ traffic \in [Sessions -> UNION {Traffic[s] : s \in Sessions}]
  /\ \A s \in Sessions : traffic[s] \in Traffic[s]
-----------------------------------------------------------------------------
(* The world thread *)

Between == pass["world"] = None

UpdateBegin ==
  /\ wpc \in {"start", "tick"} /\ ~m_stopEvent /\ Between
  /\ wpc' = "update"
  /\ m_canProcessAsyncPackets' = FALSE /\ late' = 0
  /\ UNCHANGED <<mpc, objectVars, m_stopEvent, asyncVars, socket, inWorld, pass, packetVars>>

Updating == wpc \in {"update", "shutdown"} /\ Between

(* m_sessions is a flat table.  An element that is put in or taken out      *)
(* moves others, so that an iteration meanwhile may meet them again, not at *)
(* all, or the one taken out; a table that grows is freed.                  *)
Iteration(found, freed) ==
  left' \in IF apc \in {"next", "handle"} THEN (SUBSET found) \union freed ELSE {left}

AddSession(s) ==
  /\ Updating
  /\ s \notin m_sessions \union removed \union deleted /\ socket[s]
  /\ m_sessions' = m_sessions \union {s} /\ Iteration(m_sessions \union {s}, {{None}})
  /\ UNCHANGED <<wpc, apc, mpc, removed, deleted, m_stopEvent, m_canProcessAsyncPackets, late,
                 socket, inWorld, pass, packetVars>>

\* WorldSession::Update has found its connection lost
RemoveSession(s) ==
  /\ Updating
  /\ s \in m_sessions /\ ~socket[s]
  /\ m_sessions' = m_sessions \ {s} /\ removed' = removed \union {s}
  /\ Iteration(m_sessions, {})
  /\ UNCHANGED <<wpc, apc, mpc, deleted, m_stopEvent, m_canProcessAsyncPackets, late, socket,
                 inWorld, pass, packetVars>>

\* the destructor logs the player out and empties the queues
Deleted(s) ==
  /\ deleted' = deleted \union {s}
  /\ inWorld' = inWorld \ {s} /\ socket' = [socket EXCEPT ![s] = FALSE]
  /\ _recvQueue' = [_recvQueue EXCEPT ![s] = [k \in Kinds |-> <<>>]]
  /\ UNCHANGED <<count, handled, received, traffic>>

\* at once, or from m_disconnectedSessions when its player has left
DeleteSession(s) ==
  /\ Updating
  /\ s \in removed /\ removed' = removed \ {s} /\ Deleted(s)
  /\ UNCHANGED <<wpc, mpc, m_sessions, m_stopEvent, m_canProcessAsyncPackets, late, asyncVars,
                 pass>>

\* logins and logouts in UpdateSessions, teleports in the tick
PlayerMoves(s) ==
  /\ wpc \in {"update", "tick"} /\ Between /\ s \in m_sessions
  /\ s \in MayLeave
  /\ inWorld' = IF s \in inWorld THEN inWorld \ {s} ELSE inWorld \union {s}
  /\ UNCHANGED <<threadVars, socket, pass, packetVars>>

(* Mutant: the flag is not raised again. *)
UpdateEndKeepsFlag ==
  /\ wpc = "update" /\ Between
  /\ wpc' = "tick"
  /\ UNCHANGED <<mpc, objectVars, m_stopEvent, m_canProcessAsyncPackets, late, asyncVars,
                 socket, inWorld, pass, packetVars>>

UpdateEnd ==
  /\ wpc = "update" /\ Between
  /\ wpc' = "tick"
  /\ m_canProcessAsyncPackets' = TRUE
  /\ UNCHANGED <<mpc, objectVars, m_stopEvent, late, asyncVars, socket, inWorld, pass, packetVars>>

(* The loop of WorldRunnable ends; Shutdown kicks everybody and updates the *)
(* sessions once more, whatever the flag.                                   *)
ShutdownBegin ==
  /\ wpc \in {"start", "tick"} /\ m_stopEvent /\ Between
  /\ wpc' = "shutdown" /\ late' = 0
  /\ socket' = [s \in Sessions |-> socket[s] /\ s \notin m_sessions]
  /\ UNCHANGED <<mpc, objectVars, m_stopEvent, m_canProcessAsyncPackets, asyncVars, inWorld,
                 pass, packetVars>>

ShutdownEnd ==
  /\ wpc = "shutdown" /\ Between
  /\ wpc' = "ended"
  /\ UNCHANGED <<mpc, objectVars, m_stopEvent, m_canProcessAsyncPackets, late, asyncVars,
                 socket, inWorld, pass, packetVars>>
-----------------------------------------------------------------------------
(* Packets: the network, and the world thread's calls of ProcessPackets. *)

CloseSocket(s) ==
  /\ s \in MayLeave /\ socket[s]
  /\ socket' = [socket EXCEPT ![s] = FALSE]
  /\ UNCHANGED <<threadVars, inWorld, pass, packetVars>>

QueuePacket(s) ==
  /\ wpc # "ended" /\ socket[s] /\ received[s] < Len(traffic[s])
  /\ received' = [received EXCEPT ![s] = @ + 1]
  /\ LET op == traffic[s][received[s] + 1]
     IN  _recvQueue' = [_recvQueue EXCEPT ![s][Kind[op]] =
                           Append(@, [n |-> received[s] + 1, op |-> op])]
  /\ UNCHANGED <<threadVars, socket, inWorld, pass, count, handled, traffic>>

\* CanProcessPackets, and MapSessionFilter::Process
MayProcess(s, kind) ==
  /\ _recvQueue[s][kind] # <<>>
  /\ socket[s] /\ (kind # "WORLD" => s \in inWorld)

\* a pass that would take nothing is left out
Starts(t, s, kind) ==
  /\ pass[t] = None /\ MayProcess(s, kind)
  /\ pass' = [pass EXCEPT ![t] = NewPass(s, kind)]

\* WorldSession::Update with a WorldSessionFilter
WorldPass(s) ==
  /\ wpc \in {"update", "shutdown"} /\ s \in m_sessions /\ Starts("world", s, "WORLD")
  /\ UNCHANGED <<threadVars, socket, inWorld, packetVars>>

\* Map::Update, for the players who are in the world
MapPass(s) ==
  /\ wpc = "tick" /\ s \in inWorld /\ Starts("world", s, "MAP")
  /\ UNCHANGED <<threadVars, socket, inWorld, packetVars>>
-----------------------------------------------------------------------------
(* ProcessPackets *)

Session(t) == pass[t].session
Queue(t)   == _recvQueue[Session(t)][pass[t].kind]

\* a pass goes on as long as its session exists
Passing(t) == pass[t] # None /\ Session(t) \notin deleted

MayTake(t) == ~pass[t].over /\ MayProcess(Session(t), pass[t].kind)

Popped(t) == [_recvQueue EXCEPT ![Session(t)][pass[t].kind] = Tail(@)]

\* AllowPacket: four seconds without a new start, or too many since
PutsOff(t) ==
  LET op == Head(Queue(t)).op IN op \in Requeued /\ count[Session(t)][op] = RequeueLimit

Counted(t) ==
  LET op == Head(Queue(t)).op
  IN  IF op \notin Requeued THEN count
      ELSE [count EXCEPT ![Session(t)][op] = IF @ = None THEN 0 ELSE @ + 1]

Take(t) ==
  /\ Passing(t) /\ pass[t].packet = None /\ MayTake(t) /\ ~PutsOff(t)
  /\ pass' = [pass EXCEPT ![t].packet = Head(Queue(t)), ![t].total = @ + 1]
  /\ _recvQueue' = Popped(t) /\ count' = Counted(t)
  /\ UNCHANGED <<threadVars, socket, inWorld, handled, received, traffic>>

(* Mutant: a packet that is put off goes back to the queue at once. *)
RequeueAtOnce(t) ==
  /\ Passing(t) /\ pass[t].packet = None /\ MayTake(t) /\ PutsOff(t)
  /\ _recvQueue' = [_recvQueue EXCEPT ![Session(t)][pass[t].kind] = Append(Tail(@), Head(@))]
  /\ UNCHANGED <<threadVars, socket, inWorld, pass, count, handled, received, traffic>>

\* requeuePackets: put off until the end of the pass
Requeue(t) ==
  /\ Passing(t) /\ pass[t].packet = None /\ MayTake(t) /\ PutsOff(t)
  /\ pass' = [pass EXCEPT ![t].aside = Append(@, Head(Queue(t))), ![t].total = @ + 1]
  /\ _recvQueue' = Popped(t)
  /\ UNCHANGED <<threadVars, socket, inWorld, count, handled, received, traffic>>

\* the limit ends a pass only after a packet that was handled
Handle(t) ==
  /\ Passing(t) /\ pass[t].packet # None
  /\ pass' = [pass EXCEPT ![t].packet = None, ![t].over = pass[t].total > PassLimit]
  /\ handled' = [handled EXCEPT ![Session(t)] = Append(@, pass[t].packet)]
  /\ UNCHANGED <<threadVars, socket, inWorld, _recvQueue, count, received, traffic>>

Returned(t, queues) == [queues EXCEPT ![Session(t)][pass[t].kind] = @ \o pass[t].aside]

(* Mutant: a denied packet ends the call, not the loop. *)
DenyReturns(t) ==
  /\ Passing(t) /\ pass[t].packet = None /\ MayTake(t) /\ Head(Queue(t)).op \notin Requeued
  /\ handled' = [handled EXCEPT ![Session(t)] = Append(@, Head(Queue(t)))]
  /\ _recvQueue' = Popped(t)
  /\ pass' = [pass EXCEPT ![t] = None]
  /\ UNCHANGED <<threadVars, socket, inWorld, count, received, traffic>>

\* the packet is dropped and the loop ends
Deny(t) ==
  /\ Passing(t) /\ pass[t].packet = None /\ MayTake(t) /\ Head(Queue(t)).op \notin Requeued
  /\ handled' = [handled EXCEPT ![Session(t)] = Append(@, Head(Queue(t)))]
  /\ _recvQueue' = Returned(t, Popped(t))
  /\ pass' = [pass EXCEPT ![t] = None]
  /\ UNCHANGED <<threadVars, socket, inWorld, count, received, traffic>>

EndPass(t) ==
  /\ Passing(t) /\ pass[t].packet = None /\ ~MayTake(t)
  /\ _recvQueue' = Returned(t, _recvQueue)
  /\ pass' = [pass EXCEPT ![t] = None]
  /\ UNCHANGED <<threadVars, socket, inWorld, count, handled, received, traffic>>

\* no pass over s looks at the clock it has read when it began
Unread(s) == \A t \in Threads : pass[t] # None => Session(t) # s

(* Mutant: every packet that is put off starts the four seconds anew. *)
WindowSlides(s) ==
  /\ Unread(s) /\ \A k \in Kinds : _recvQueue[s][k] = <<>>
  /\ \E op \in Requeued :
        count[s][op] # None /\ count' = [count EXCEPT ![s] = [@ EXCEPT ![op] = None]]
  /\ UNCHANGED <<threadVars, socket, inWorld, pass, _recvQueue, handled, received, traffic>>

\* time passes: the next packet that may be put off starts a new count
WindowEnds(s) ==
  /\ Unread(s)
  /\ \E op \in Requeued :
        count[s][op] # None /\ count' = [count EXCEPT ![s] = [@ EXCEPT ![op] = None]]
  /\ UNCHANGED <<threadVars, socket, inWorld, pass, _recvQueue, handled, received, traffic>>
-----------------------------------------------------------------------------
(* The async thread *)

AsyncLoop ==
  /\ apc = "loop"
  /\ apc' = IF m_stopEvent THEN "ended" ELSE "wait"
  /\ UNCHANGED <<worldVars, mpc, m_stopEvent, left, late, socket, inWorld, pass, packetVars>>

AsyncWait ==
  /\ apc = "wait" /\ m_canProcessAsyncPackets
  /\ apc' = "next" /\ left' = m_sessions
  /\ UNCHANGED <<worldVars, mpc, m_stopEvent, late, socket, inWorld, pass, packetVars>>

AsyncPoll == apc = "wait" /\ ~m_canProcessAsyncPackets /\ UNCHANGED vars

\* the queue that ProcessPackets is called for
Begun(s, kind) ==
  IF MayProcess(s, kind) THEN [pass EXCEPT !["async"] = NewPass(s, kind)] ELSE pass

Meets(s, passes) ==
  /\ apc = "next" /\ s \in left \ deleted
  /\ apc' = "handle" /\ left' = left \ {s} /\ pass' = passes
  /\ late' = IF wpc \in {"update", "shutdown"} THEN late + 1 ELSE late
  /\ UNCHANGED <<worldVars, mpc, m_stopEvent, socket, inWorld, packetVars>>

(* Mutant: SetProcessType is forgotten, and the filter stands for the map's packets. *)
AsyncNextMap(s) == Meets(s, Begun(s, "MAP"))

(* Sessions are met in no particular order. *)
AsyncNext(s) == Meets(s, Begun(s, "DB_QUERY"))

AsyncEnd ==
  /\ apc = "next" /\ left = {}
  /\ apc' = "loop"
  /\ UNCHANGED <<worldVars, mpc, m_stopEvent, left, late, socket, inWorld, pass, packetVars>>

(* Mutant: the flag is looked at only between two iterations. *)
AsyncHandledAll ==
  /\ apc = "handle" /\ pass["async"] = None
  /\ apc' = "next"
  /\ UNCHANGED <<worldVars, mpc, m_stopEvent, left, late, socket, inWorld, pass, packetVars>>

AsyncHandled ==
  /\ apc = "handle" /\ pass["async"] = None
  /\ IF m_canProcessAsyncPackets THEN apc' = "next" /\ left' = left
                                 ELSE apc' = "loop" /\ left' = {}
  /\ UNCHANGED <<worldVars, mpc, m_stopEvent, late, socket, inWorld, pass, packetVars>>

(* It uses a session that is deleted, or a table that is freed: it may do   *)
(* anything, and nothing more is said of it.                                *)
AsyncLost ==
  /\ \/ apc = "next" /\ left \intersect (deleted \union {None}) # {}
     \/ apc = "handle" /\ pass["async"] # None /\ Session("async") \in deleted
  /\ apc' = "undefined" /\ left' = {}
  /\ UNCHANGED <<worldVars, mpc, m_stopEvent, late, socket, inWorld, pass, packetVars>>
-----------------------------------------------------------------------------
(* The main thread, and whoever stops the server                            *)
StopNow ==
  /\ ~m_stopEvent
  /\ m_stopEvent' = TRUE
  /\ UNCHANGED <<worldVars, mpc, late, asyncVars, socket, inWorld, pass, packetVars>>

(* InternalShutdown, after the world thread and the databases have ended,   *)
(* deletes the sessions that are left and joins the thread.                 *)
DeleteLeft(s) ==
  /\ mpc = "run" /\ wpc = "ended" /\ s \in m_sessions
  /\ m_sessions' = m_sessions \ {s} /\ Deleted(s) /\ Iteration(m_sessions, {})
  /\ UNCHANGED <<wpc, apc, mpc, removed, m_stopEvent, m_canProcessAsyncPackets, late, pass>>

Join ==
  /\ mpc = "run" /\ wpc = "ended" /\ m_sessions = {} /\ apc = "ended"
  /\ mpc' = "joined"
  /\ UNCHANGED <<worldVars, m_stopEvent, late, asyncVars, socket, inWorld, pass, packetVars>>

\* for ever, if the flag was never raised or the thread is lost
JoinWaits ==
  /\ mpc = "run" /\ wpc = "ended" /\ m_sessions = {} /\ apc # "ended"
  /\ UNCHANGED vars

Done == mpc = "joined" /\ UNCHANGED vars

Passes(t) == Take(t) \/ Requeue(t) \/ Handle(t) \/ Deny(t) \/ EndPass(t)

NextPhase == UpdateBegin \/ UpdateEnd \/ ShutdownBegin \/ ShutdownEnd

AsyncStep ==
  \/ AsyncLoop \/ AsyncWait \/ AsyncEnd \/ AsyncHandled \/ AsyncLost
  \/ \E s \in Sessions : AsyncNext(s)

MainStep == Join \/ \E s \in Sessions : DeleteLeft(s)

Receivers == {s \in Sessions : Traffic[s] # {<<>>}}

Next ==
  \/ NextPhase
  \/ AsyncStep \/ AsyncPoll
  \/ \E s \in Sessions :
        \/ AddSession(s) \/ RemoveSession(s) \/ DeleteSession(s)
        \/ PlayerMoves(s) \/ CloseSocket(s) \/ WorldPass(s) \/ MapPass(s)
        \/ WindowEnds(s) \/ QueuePacket(s)
  \/ \E t \in Threads : Passes(t)
  \/ StopNow \/ MainStep \/ JoinWaits \/ Done

Spec == Init /\ [][Next]_vars

(* Threads keep running.  The loops of the world thread are finite: an      *)
(* update ends and has met every session, a tick every player.  The clock   *)
(* goes on: once four seconds are over every pass finds them over.          *)
Fairness ==
  /\ SF_vars(NextPhase) /\ WF_vars(AsyncStep) /\ WF_vars(MainStep)
  /\ \A t \in Threads : WF_vars(Passes(t))
  /\ \A s \in Receivers : SF_vars(WorldPass(s)) /\ SF_vars(MapPass(s)) /\ SF_vars(WindowEnds(s))

FairSpec == Spec /\ Fairness
-----------------------------------------------------------------------------
(* Properties *)

(* The variables have the values of their types. *)
TypeOK ==
  /\ wpc \in {"start", "tick", "update", "shutdown", "ended"}
  /\ apc \in {"loop", "wait", "next", "handle", "ended", "undefined"}
  /\ mpc \in {"run", "joined"}
  /\ m_sessions \subseteq Sessions /\ removed \subseteq Sessions /\ deleted \subseteq Sessions
  /\ left \subseteq Sessions \union {None} /\ late \in Nat
  /\ m_stopEvent \in BOOLEAN /\ m_canProcessAsyncPackets \in BOOLEAN
  /\ socket \in [Sessions -> BOOLEAN] /\ inWorld \subseteq Sessions
  /\ count \in [Sessions -> [Requeued -> 0 .. RequeueLimit \union {None}]]
  /\ _recvQueue \in [Sessions -> [Kinds -> Seq(Packets)]]
  /\ pass \in [Threads -> Calls \union {None}] /\ handled \in [Sessions -> Seq(Packets)]
  /\ received \in [Sessions -> Nat]

(* What the flag does give: while it is down the async thread begins at     *)
(* most one session, the one it had already decided on.  Nothing like it    *)
(* holds of the UpdateSessions of World::Shutdown, which leaves it raised.  *)
AtMostOneLate == ~m_canProcessAsyncPackets => late <= 1

\* where the packets of a session are: its queues, the passes, and the history
Places(s) ==
  {_recvQueue[s][k] : k \in Kinds} \union {handled[s]}
    \union UNION {{pass[t].aside, IF pass[t].packet = None THEN <<>> ELSE <<pass[t].packet>>} :
                     t \in {x \in Threads : pass[x] # None /\ Session(x) = s}}

Held(s, n) ==
  {x \in UNION {{packets} \X DOMAIN packets : packets \in Places(s)} : x[1][x[2]].n = n}

(* A packet received is in one queue, put aside, being handled, or done     *)
(* with, until its session is deleted: ProcessPackets neither loses nor     *)
(* doubles what it puts off.                                                *)
EachOnce == \A s \in Sessions \ deleted : \A n \in 1 .. received[s] : Cardinality(Held(s, n)) = 1

(* What holds of every state: the types, that one session, and the packets  *)
(* of the sessions that exist.                                              *)
Inv == TypeOK /\ AtMostOneLate /\ EachOnce

(* Packets of one kind are handled in the order in which they came, but for *)
(* those that may be put off: each kind has one thread at a time.           *)
InOrder ==
  \A s \in Sessions : \A i, j \in DOMAIN handled[s] :
    LET p == handled[s][i]
        q == handled[s][j]
    IN  i < j /\ Kind[p.op] = Kind[q.op] /\ {p.op, q.op} \intersect Requeued = {} => p.n < q.n

(* Once the server is stopped the async thread ends, and with it the server *)
(* (World::InternalShutdown), also when packets are put off: unless it was  *)
(* stopped before its first tick, so that the flag that the thread polls is *)
(* never raised, or the thread is lost with a session deleted under it.     *)
StopEnds ==
  m_stopEvent /\ (wpc = "update" \/ m_canProcessAsyncPackets)
    ~> mpc = "joined" \/ apc = "undefined"

\* packets of one kind are received, and neither handled nor denied
Waiting(s, kind) ==
  \E n \in 1 .. received[s] :
    Kind[traffic[s][n]] = kind /\ \A i \in DOMAIN handled[s] : handled[s][i].n # n

AsyncMeets(s) == pass["async"] # None /\ Session("async") = s

(* The packets of a player who stays in the world and connected are handled *)
(* some time, also those that are put off; those for the async thread if it *)
(* gets to the session again and again, which nothing guarantees.           *)
Served ==
  \A s \in Sessions : \A k \in Kinds :
    /\ <>[](s \in m_sessions /\ socket[s] /\ s \in inWorld /\ ~m_stopEvent)
    /\ k = "DB_QUERY" => []<>AsyncMeets(s)
    => []<>~Waiting(s, k)
=============================================================================
