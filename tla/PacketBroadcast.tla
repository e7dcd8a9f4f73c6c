-------------------------- MODULE PacketBroadcast --------------------------
(***************************************************************************)
(* Movement packets of players (game/PacketBroadcast).  A player's         *)
(* PlayerBroadcaster queues what the player's movement has to tell; a few  *)
(* broadcaster threads, each with a share of the players, empty the queues *)
(* into the sockets of the listeners, the players who see this one.  Map   *)
(* threads queue packets and change listeners meanwhile, the world thread  *)
(* logs players in and out, reattaches them to a new socket, and changes   *)
(* the number of threads when the configuration is reloaded.               *)
(***************************************************************************)
EXTENDS Integers, Sequences, FiniteSets, Functions

CONSTANTS Players,      \* Player objects; each logs in at most once
          Guid,         \* their raw GUIDs
          Counts,       \* values of the PacketBroadcast.Threads option
          FirstCount,   \* its value when the server starts
          MaxQueue,     \* MAX_QUEUE_SIZE
          Addressing,   \* pairs of the sendToSelf and except arguments in use
          MaxPackets,   \* bound, for each player: packets queued
          MaxReloads,   \* bound: changes of the number of threads
          MaySplit,     \* bound: players whose connection may break
          None

ASSUME BroadcastAssumption ==
    /\ IsFiniteSet(Players) /\ Guid \in [Players -> Nat] /\ None \notin Players
    /\ Counts \subseteq Nat /\ IsFiniteSet(Counts) /\ FirstCount \in Counts
    /\ MaxQueue \in Nat \ {0} /\ MaxReloads \in Nat /\ MaxPackets \in [Players -> Nat]
    /\ Addressing \subseteq BOOLEAN \X (Players \union {None}) /\ MaySplit \subseteq Players

Threads == UNION {0 .. n - 1 : n \in Counts}

VARIABLES
    stage,      \* where the life of a player is: see TypeOK
    m_socket,   \* 0 for null, else how many sockets the player has had
    released,   \* whose broadcaster has given back its reference to the socket it still
                \* points to, or None: ChangeSocket, FreeAtLogout
    m_queue, m_listeners,
    m_num_threads, m_thread_players,
    m_stop,
    reload,     \* the new number of threads while UpdateConfiguration runs, or None
    pc,         \* of a broadcaster thread
    my_players, \* BroadcastPackets: players still to be processed
    source,     \* ProcessQueue: whose two locks the thread holds, or None
    queue,      \* ProcessQueue: the packets still to be sent
    addressees, \* ProcessQueue: who is still to get the first of them
    made,       \* history: packets a player has queued
    solid,      \* history: those of them that may not be skipped and go to the player, too
    got,        \* history: packets sent to a listener, by source
    reloads     \* history: changes of the number of threads

vars == <<stage, m_socket, released, m_queue, m_listeners, m_num_threads, m_thread_players,
          m_stop, reload, pc, my_players, source, queue, addressees, made, solid, got,
          reloads>>
locals  == <<pc, my_players, source, queue, addressees>>
config  == <<m_num_threads, m_stop, reload, reloads>>
sockets == <<m_socket, released>>
history == <<made, solid, got>>

Index(p, n)   == Guid[p] % n
Locked(p)     == \E t \in Threads : source[t] = p
InWorld       == {p \in Players : stage[p] \in {"in", "linkdead"}}
Has_m_socket  == {p \in Players : stage[p] \in {"in", "linkdead", "leaving"}}
HasReference  == Has_m_socket \ {released}

\* the world thread is neither within one of its calls nor done; map threads run only while it
\* waits for them in Map::Update, so that of all threads only the broadcasters see a call half
\* done
Running == reload = None /\ ~m_stop /\ released = None

Init ==
    /\ stage = [p \in Players |-> "new"] /\ m_socket = [p \in Players |-> 0]
    /\ released = None
    /\ m_queue = [p \in Players |-> <<>>] /\ m_listeners = [p \in Players |-> {}]
    /\ m_num_threads = FirstCount /\ m_thread_players = [t \in Threads |-> {}]
    /\ m_stop = FALSE /\ reload = None
    /\ pc = [t \in Threads |-> IF t < FirstCount THEN "work" ELSE "none"]
    /\ my_players = [t \in Threads |-> {}] /\ source = [t \in Threads |-> None]
    /\ queue = [t \in Threads |-> <<>>] /\ addressees = [t \in Threads |-> {}]
    /\ made = [p \in Players |-> 0] /\ solid = [p \in Players |-> {}]
    /\ got = [p \in Players |-> [s \in Players |-> <<>>]]
    /\ reloads = 0
-----------------------------------------------------------------------------
(* The world thread: login, lost connection, logout. *)

Registered(p) == [m_thread_players EXCEPT ![Index(p, m_num_threads)] = @ \union {p}]

\* CreatePacketBroadcaster, with RegisterPlayer
CreatePacketBroadcaster(p) ==
    /\ Running /\ stage[p] = "new"
    /\ stage' = [stage EXCEPT ![p] = "in"] /\ m_socket' = [m_socket EXCEPT ![p] = 1]
    /\ m_thread_players' = IF m_num_threads = 0 THEN m_thread_players ELSE Registered(p)
    /\ UNCHANGED <<released, m_queue, m_listeners, locals, config, history>>

\* the session goes to m_disconnectedSessions, the player stays
Disconnect(p) ==
    /\ Running /\ stage[p] = "in" /\ p \in MaySplit /\ m_socket[p] = 1
    /\ stage' = [stage EXCEPT ![p] = "linkdead"]
    /\ UNCHANGED <<sockets, m_queue, m_listeners, m_thread_players, locals, config, history>>

\* a new session takes the player over: ChangeSocket gives back the reference to the old
\* socket, then takes one to the new socket and points to it, all without a lock
RemoveReference(p) ==
    /\ Running /\ stage[p] = "linkdead"
    /\ released' = p
    /\ UNCHANGED <<stage, m_socket, m_queue, m_listeners, m_thread_players, locals, config,
                   history>>

ChangeSocket(p) ==
    /\ released = p /\ stage[p] = "linkdead"
    /\ stage' = [stage EXCEPT ![p] = "in"] /\ m_socket' = [m_socket EXCEPT ![p] = @ + 1]
    /\ released' = None
    /\ UNCHANGED <<m_queue, m_listeners, m_thread_players, locals, config, history>>

\* logout: Map::Remove takes the player off the lists of those it sees
Leave(p) ==
    /\ Running /\ p \in InWorld
    /\ stage' = [stage EXCEPT ![p] = "leaving"]
    /\ UNCHANGED <<sockets, m_queue, m_listeners, m_thread_players, locals, config, history>>

\* DeletePacketBroadcaster, from ~Player: out of the share of the thread that has the player
\* now, then FreeAtLogout, which first gives back the reference to the socket
DeletePacketBroadcaster(p) ==
    /\ Running /\ stage[p] = "leaving"
    /\ \A q \in Players : p \notin m_listeners[q]
    /\ stage' = [stage EXCEPT ![p] = "closed"] /\ released' = p
    /\ m_thread_players' =
         IF m_num_threads = 0 THEN m_thread_players
         ELSE [m_thread_players EXCEPT ![Index(p, m_num_threads)] = @ \ {p}]
    /\ UNCHANGED <<m_socket, m_queue, m_listeners, locals, config, history>>

\* then points to none, without a lock
ForgetSocket(p) ==
    /\ released = p /\ stage[p] = "closed"
    /\ m_socket' = [m_socket EXCEPT ![p] = 0] /\ released' = None
    /\ UNCHANGED <<stage, m_queue, m_listeners, m_thread_players, locals, config, history>>

\* and then, with both locks, frees the queue and the listeners
FreeAtLogout(p) ==
    /\ Running /\ stage[p] = "closed" /\ ~Locked(p)
    /\ stage' = [stage EXCEPT ![p] = "gone"]
    /\ m_queue' = [m_queue EXCEPT ![p] = <<>>]
    /\ m_listeners' = [m_listeners EXCEPT ![p] = {}]
    /\ UNCHANGED <<sockets, m_thread_players, locals, config, history>>
-----------------------------------------------------------------------------
(* Map threads, or the world thread. *)

\* q comes into view of p
AddListener(q, p) ==
    /\ Running /\ p # q /\ {p, q} \subseteq InWorld
    /\ p \notin m_listeners[q] /\ ~Locked(q)
    /\ m_listeners' = [m_listeners EXCEPT ![q] = @ \union {p}]
    /\ UNCHANGED <<stage, sockets, m_queue, m_thread_players, locals, config, history>>

\* Mutant: the listeners change while a thread goes through them.
RemoveListenerUnlocked(q, p) ==
    /\ Running /\ p \in m_listeners[q]
    /\ m_listeners' = [m_listeners EXCEPT ![q] = @ \ {p}]
    /\ UNCHANGED <<stage, sockets, m_queue, m_thread_players, locals, config, history>>

\* q goes out of view of p, or one of them leaves
RemoveListener(q, p) ==
    /\ Running /\ p \in m_listeners[q] /\ ~Locked(q)
    /\ m_listeners' = [m_listeners EXCEPT ![q] = @ \ {p}]
    /\ UNCHANGED <<stage, sockets, m_queue, m_thread_players, locals, config, history>>

\* Mutant: the packet that waits is replaced whatever it is.
QueuedOver(waiting, data) ==
    IF Len(waiting) >= MaxQueue /\ data.skip
    THEN [waiting EXCEPT ![Len(waiting)] = data]
    ELSE Append(waiting, data)

\* what QueuePacket makes of a queue: a full one loses its last packet, if both may be skipped
Queued(waiting, data) ==
    IF Len(waiting) >= MaxQueue /\ waiting[Len(waiting)].skip /\ data.skip
    THEN [waiting EXCEPT ![Len(waiting)] = data]
    ELSE Append(waiting, data)

\* SendMovementMessageToSet, QueuePacket; skip is CanSkipPacket of the opcode
QueuePacket(p, skip, self, except) ==
    /\ Running /\ p \in InWorld /\ m_num_threads > 0 /\ made[p] < MaxPackets[p]
    /\ ~Locked(p)
    /\ made' = [made EXCEPT ![p] = @ + 1]
    /\ solid' = [solid EXCEPT ![p] =
         IF ~skip /\ self /\ except # p THEN @ \union {made[p] + 1} ELSE @]
    /\ m_queue' = [m_queue EXCEPT ![p] =
         Queued(@, [n |-> made[p] + 1, skip |-> skip, self |-> self, except |-> except])]
    /\ UNCHANGED <<stage, sockets, m_listeners, m_thread_players, locals, config, got>>
-----------------------------------------------------------------------------
(* A broadcaster thread: Work, and what it calls. *)

\* BroadcastPackets copies the set under the lock of the share
BroadcastPackets(t) ==
    /\ pc[t] = "work" /\ ~m_stop
    /\ pc' = [pc EXCEPT ![t] = "each"]
    /\ my_players' = [my_players EXCEPT ![t] = m_thread_players[t]]
    /\ UNCHANGED <<stage, sockets, m_queue, m_listeners, m_thread_players, config, source,
                   queue, addressees, history>>

\* ProcessQueue returns at once when it finds the queue empty; it looks without a lock
SkipEmpty(t) ==
    /\ pc[t] = "each"
    /\ \E p \in my_players[t] :
          /\ m_queue[p] = <<>>
          /\ my_players' = [my_players EXCEPT ![t] = @ \ {p}]
    /\ UNCHANGED <<stage, sockets, m_queue, m_listeners, m_thread_players, config, pc, source,
                   queue, addressees, history>>

Addressees(p, data) ==
    ((IF data.self THEN {p} ELSE {}) \union m_listeners[p]) \ {data.except}

\* Mutant: the packets are copied and stay in the queue.
ProcessQueueCopies(t) ==
    /\ pc[t] = "each"
    /\ \E p \in my_players[t] :
          /\ m_queue[p] # <<>> /\ ~Locked(p)
          /\ source' = [source EXCEPT ![t] = p]
          /\ queue' = [queue EXCEPT ![t] = m_queue[p]]
          /\ addressees' = [addressees EXCEPT ![t] = Addressees(p, Head(m_queue[p]))]
    /\ pc' = [pc EXCEPT ![t] = "send"]
    /\ UNCHANGED <<stage, sockets, m_queue, m_listeners, m_thread_players, config, my_players,
                   history>>

\* ProcessQueue takes both locks and the queue
ProcessQueue(t) ==
    /\ pc[t] = "each"
    /\ \E p \in my_players[t] :
          /\ m_queue[p] # <<>> /\ ~Locked(p)
          /\ source' = [source EXCEPT ![t] = p]
          /\ queue' = [queue EXCEPT ![t] = m_queue[p]]
          /\ addressees' = [addressees EXCEPT ![t] = Addressees(p, Head(m_queue[p]))]
          /\ m_queue' = [m_queue EXCEPT ![p] = <<>>]
    /\ pc' = [pc EXCEPT ![t] = "send"]
    /\ UNCHANGED <<stage, sockets, m_listeners, m_thread_players, config, my_players,
                   history>>

\* the player itself comes first, then the listeners in the order of the map
Addressee(t) ==
    CHOOSE d \in addressees[t] :
        \/ d = source[t]
        \/ source[t] \notin addressees[t] /\ \A e \in addressees[t] : Guid[d] <= Guid[e]

\* SendPacket looks whether there is a socket, and sends
SendPacket(t) ==
    /\ pc[t] = "send" /\ addressees[t] # {}
    /\ got' = IF m_socket[Addressee(t)] = 0 THEN got
              ELSE [got EXCEPT ![Addressee(t)][source[t]] = Append(@, Head(queue[t]).n)]
    /\ addressees' = [addressees EXCEPT ![t] = @ \ {Addressee(t)}]
    /\ UNCHANGED <<stage, sockets, m_queue, m_listeners, m_thread_players, config, pc,
                   my_players, source, queue, made, solid>>

\* the next packet of the queue
NextPacket(t) ==
    /\ pc[t] = "send" /\ addressees[t] = {} /\ Len(queue[t]) > 1
    /\ queue' = [queue EXCEPT ![t] = Tail(@)]
    /\ addressees' = [addressees EXCEPT ![t] = Addressees(source[t], queue[t][2])]
    /\ UNCHANGED <<stage, sockets, m_queue, m_listeners, m_thread_players, config, pc,
                   my_players, source, history>>

\* the end of ProcessQueue, which lets both locks go
Processed(t) ==
    /\ pc[t] = "send" /\ addressees[t] = {} /\ Len(queue[t]) = 1
    /\ pc' = [pc EXCEPT ![t] = "each"]
    /\ my_players' = [my_players EXCEPT ![t] = @ \ {source[t]}]
    /\ source' = [source EXCEPT ![t] = None] /\ queue' = [queue EXCEPT ![t] = <<>>]
    /\ UNCHANGED <<stage, sockets, m_queue, m_listeners, m_thread_players, config, addressees,
                   history>>

Sleep(t) ==
    /\ pc[t] = "each" /\ my_players[t] = {}
    /\ pc' = [pc EXCEPT ![t] = "work"]
    /\ UNCHANGED <<stage, sockets, m_queue, m_listeners, m_thread_players, config, my_players,
                   source, queue, addressees, history>>

\* while (!m_stop)
Return(t) ==
    /\ pc[t] = "work" /\ m_stop
    /\ pc' = [pc EXCEPT ![t] = "none"]
    /\ UNCHANGED <<stage, sockets, m_queue, m_listeners, m_thread_players, config, my_players,
                   source, queue, addressees, history>>
-----------------------------------------------------------------------------
(* The world thread: a reloaded configuration, and the end. *)

\* UpdateConfiguration, up to Stop, which joins the threads
UpdateConfiguration(n) ==
    /\ Running /\ n # m_num_threads /\ reloads < MaxReloads
    /\ \A p \in Players : stage[p] \in {"new", "in", "linkdead", "gone"}
    /\ m_stop' = TRUE /\ reload' = n /\ reloads' = reloads + 1
    /\ UNCHANGED <<stage, sockets, m_queue, m_listeners, m_num_threads, m_thread_players,
                   locals, history>>

\* Mutant: the shares are made anew, and nobody is registered again.
StartThreadsOnly ==
    /\ reload # None /\ \A t \in Threads : pc[t] = "none"
    /\ m_num_threads' = reload /\ m_stop' = FALSE /\ reload' = None
    /\ pc' = [t \in Threads |-> IF t < reload THEN "work" ELSE "none"]
    /\ m_thread_players' = [t \in Threads |-> {}]
    /\ UNCHANGED <<stage, sockets, m_queue, m_listeners, reloads, my_players, source, queue,
                   addressees, history>>

\* the rest: the shares are resized, and the players of m_sessions registered once more
StartThreads ==
    /\ reload # None /\ \A t \in Threads : pc[t] = "none"
    /\ m_num_threads' = reload /\ m_stop' = FALSE /\ reload' = None
    /\ pc' = [t \in Threads |-> IF t < reload THEN "work" ELSE "none"]
    /\ m_thread_players' = [t \in Threads |->
         IF t < reload
         THEN m_thread_players[t]
                \union {p \in Players : stage[p] = "in" /\ Index(p, reload) = t}
         ELSE {}]
    /\ UNCHANGED <<stage, sockets, m_queue, m_listeners, reloads, my_players, source, queue,
                   addressees, history>>

\* ~MovementBroadcaster, when the sessions are deleted
Stop ==
    /\ Running
    /\ \A p \in Players : stage[p] \in {"new", "linkdead", "gone"}
    /\ m_stop' = TRUE
    /\ UNCHANGED <<stage, sockets, m_queue, m_listeners, m_num_threads, m_thread_players, reload,
                   reloads, locals, history>>
-----------------------------------------------------------------------------
ThreadStep(t) ==
    \/ BroadcastPackets(t) \/ SkipEmpty(t) \/ ProcessQueue(t) \/ SendPacket(t)
    \/ NextPacket(t) \/ Processed(t) \/ Sleep(t) \/ Return(t)

Next ==
    \/ \E p \in Players :
          \/ CreatePacketBroadcaster(p) \/ Disconnect(p) \/ Leave(p)
          \/ RemoveReference(p) \/ ChangeSocket(p)
          \/ DeletePacketBroadcaster(p) \/ ForgetSocket(p) \/ FreeAtLogout(p)
          \/ \E q \in Players : AddListener(q, p) \/ RemoveListener(q, p)
          \/ \E skip \in BOOLEAN, a \in Addressing : QueuePacket(p, skip, a[1], a[2])
    \/ \E t \in Threads : ThreadStep(t)
    \/ \E n \in Counts : UpdateConfiguration(n)
    \/ StartThreads \/ Stop

\* The threads run as long as they are not stopped, and the world thread waits for them.
Fairness == (\A t \in Threads : WF_vars(ThreadStep(t))) /\ WF_vars(StartThreads)

Spec == Init /\ [][Next]_vars /\ Fairness
-----------------------------------------------------------------------------
Packets == [n : Nat, skip : BOOLEAN, self : BOOLEAN, except : Players \union {None}]

TypeOK ==
    /\ stage \in [Players ->
          {"new", "in", "linkdead", "leaving", "closed", "gone"}]
    /\ m_socket \in [Players -> 0 .. 2] /\ released \in Players \union {None}
    /\ m_queue \in [Players -> Seq(Packets)] /\ m_listeners \in [Players -> SUBSET Players]
    /\ m_num_threads \in Counts /\ m_thread_players \in [Threads -> SUBSET Players]
    /\ m_stop \in BOOLEAN /\ reload \in Counts \union {None}
    /\ pc \in [Threads -> {"none", "work", "each", "send"}]
    /\ my_players \in [Threads -> SUBSET Players]
    /\ source \in [Threads -> Players \union {None}]
    /\ queue \in [Threads -> Seq(Packets)] /\ addressees \in [Threads -> SUBSET Players]
    /\ made \in [Players -> Nat] /\ solid \in [Players -> SUBSET Nat]
    /\ got \in [Players -> [Players -> Seq(Nat)]]
    /\ reloads \in 0 .. MaxReloads

\* beyond its limit a queue grows only by packets that may not be skipped, or follow one
QueueBound ==
    \A p \in Players : \A i \in MaxQueue .. Len(m_queue[p]) - 1 :
        ~(m_queue[p][i].skip /\ m_queue[p][i + 1].skip)

Numbers(packets) == {packets[i].n : i \in DOMAIN packets}

\* the packets a thread has taken and not yet sent to the player they come from
Unsent(p) ==
    UNION {Numbers(IF p \in addressees[t] THEN queue[t] ELSE Tail(queue[t])) :
              t \in {u \in Threads : source[u] = p}}

\* a packet that may not be skipped waits, is being sent, or has been sent
SolidKept ==
    \A p \in Players : stage[p] \in {"in", "linkdead", "leaving"} =>
        solid[p] \subseteq Numbers(m_queue[p]) \union Unsent(p) \union Range(got[p][p])

(***************************************************************************)
(* A full queue drops movement and nothing else: until the player is gone, *)
(* a packet that may not be skipped waits, is on its way or has been sent, *)
(* and a queue passes MAX_QUEUE_SIZE only by such packets and those that   *)
(* follow them (QueuePacket, ProcessQueue).                                *)
(***************************************************************************)
Inv == TypeOK /\ QueueBound /\ SolidKept

(***************************************************************************)
(* Every listener gets the packets of a player in the order in which they  *)
(* were queued and none of them twice, also when after a change of the     *)
(* number of threads two of them have the player in their share (both      *)
(* locks are held from taking the queue to the last packet sent).          *)
(***************************************************************************)
InOrder ==
    \A l, p \in Players : \A i \in 1 .. Len(got[l][p]) - 1 : got[l][p][i] < got[l][p][i + 1]

(***************************************************************************)
(* While a thread is still to send a packet of one player to another, that *)
(* one's broadcaster has its reference to the socket it points to, or is   *)
(* between the two steps of ChangeSocket.  At logout a player is first     *)
(* taken off all lists, each under the lock the sending thread holds, and  *)
(* only then gives up the socket without a lock (Map::Remove, ~Player);    *)
(* ChangeSocket does so while the player is on the lists.                  *)
(***************************************************************************)
ListenerHasSocket ==
    \A t \in Threads : \A d \in addressees[t] \ {source[t]} :
        d \in HasReference \/ (d = released /\ stage[d] = "linkdead")

(***************************************************************************)
(* A packet queued by a player whose connection never broke is taken out   *)
(* by some thread, unless the player leaves or the threads are switched    *)
(* off, however often the number of threads changes.                       *)
(***************************************************************************)
QueuesServed ==
    \A p \in Players :
        (m_queue[p] # <<>> /\ stage[p] = "in" /\ m_socket[p] = 1)
            ~> (m_queue[p] = <<>> \/ stage[p] # "in" \/ m_num_threads = 0)

(***************************************************************************)
(* "Reregister all players" (MovementBroadcaster.cpp:157): when the number *)
(* of threads has changed, each player in the world is in the share of its *)
(* thread.                                                                 *)
(***************************************************************************)
AllRegistered ==
    Running /\ m_num_threads > 0
        => \A p \in InWorld : p \in m_thread_players[Index(p, m_num_threads)]
=============================================================================
