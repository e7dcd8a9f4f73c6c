------------------------ MODULE PacketBroadcastProofs ------------------------
(***************************************************************************)
(* Proofs about PacketBroadcast, for any number of players and threads and *)
(* any reloads: a full queue drops movement only, every listener gets the  *)
(* packets of a player in their order, and whoever is still on a list has  *)
(* its socket.                                                             *)
(***************************************************************************)
EXTENDS PacketBroadcast, FiniteSetTheorems, SequenceTheorems, TLAPS

-----------------------------------------------------------------------------
(* The inductive invariant. *)

\* a player on a list or in the world has its socket
StageInv ==
    \A p \in Players :
        /\ stage[p] = "new" => solid[p] = {}
        /\ stage[p] = "linkdead" => m_socket[p] = 1
        /\ p \in Has_m_socket => m_socket[p] # 0
        /\ m_listeners[p] \subseteq Has_m_socket
        /\ p = released => stage[p] \in {"linkdead", "closed"}

\* a thread that sends holds the locks of one player, alone, and its list with them
LockInv ==
    /\ \A t \in Threads :
          /\ pc[t] = "send" <=> source[t] # None
          /\ pc[t] # "send" => addressees[t] = {}
          /\ pc[t] = "send" =>
                /\ queue[t] # <<>>
                /\ addressees[t] \ {source[t]} \subseteq m_listeners[source[t]]
    /\ \A t, u \in Threads : source[t] # None /\ source[t] = source[u] => t = u

Ascending(s, last) ==
    /\ \A i, j \in 1 .. Len(s) : i < j => s[i].n < s[j].n
    /\ \A i \in 1 .. Len(s) : s[i].n <= last

\* Packets carry their numbers from m_queue through the queue of a thread to the
\* listeners; those that got the first packet of the queue are not addressees.
OrderInv ==
    \A p \in Players :
        /\ Ascending(m_queue[p], made[p])
        /\ \A l \in Players : \A k \in 1 .. Len(got[l][p]) :
              /\ got[l][p][k] <= made[p]
              /\ \A j \in 1 .. Len(m_queue[p]) : got[l][p][k] < m_queue[p][j].n
        /\ \A t \in Threads : source[t] = p =>
              /\ Ascending(queue[t], made[p])
              /\ \A i \in 1 .. Len(queue[t]), j \in 1 .. Len(m_queue[p]) :
                    queue[t][i].n < m_queue[p][j].n
              /\ \A l \in Players : \A k \in 1 .. Len(got[l][p]) :
                    /\ got[l][p][k] <= queue[t][1].n
                    /\ l \in addressees[t] => got[l][p][k] < queue[t][1].n

\* what may be dropped, or does not go to the player
Plain(p, data) == data.skip \/ ~data.self \/ data.except = p

NoneSolid(p, s) == \A i \in 1 .. Len(s) : Plain(p, s[i]) => s[i].n \notin solid[p]

SolidInv ==
    \A p \in Players :
        /\ solid[p] \subseteq 1 .. made[p]
        /\ NoneSolid(p, m_queue[p])
        /\ \A t \in Threads : source[t] = p => NoneSolid(p, queue[t])

\* where a packet that may not be skipped is
Waits(p, n)   == \E i \in 1 .. Len(m_queue[p]) : m_queue[p][i].n = n
OnItsWay(p, n) ==
    \E t \in Threads : source[t] = p /\ \E i \in 1 .. Len(queue[t]) :
        queue[t][i].n = n /\ (i > 1 \/ p \in addressees[t])
Sent(p, n)    == \E k \in 1 .. Len(got[p][p]) : got[p][p][k] = n

Kept ==
    \A p \in Has_m_socket : \A n \in solid[p] : Waits(p, n) \/ OnItsWay(p, n) \/ Sent(p, n)

IInv ==
    /\ TypeOK /\ StageInv /\ LockInv
    /\ OrderInv /\ InOrder
    /\ SolidInv /\ QueueBound /\ Kept

-----------------------------------------------------------------------------
LEMMA LeastNumber ==
    ASSUME NEW T \in SUBSET Nat, T # {}
    PROVE  \E n \in T : \A m \in T : n <= m
<1> DEFINE Segments == {0 .. n : n \in T}
<1>1. Segments \subseteq FiniteSubsetsOf(Nat)
  <2>1. ASSUME NEW n \in T PROVE IsFiniteSet(0 .. n)
    BY FS_Interval
  <2> QED BY <2>1 DEF FiniteSubsetsOf
<1>2. PICK S \in Segments : \A U \in Segments : ~(<<U, S>> \in StrictSubsetOrdering(Nat))
  <2>1. IsWellFoundedOn(StrictSubsetOrdering(Nat), FiniteSubsetsOf(Nat))
    BY FS_StrictSubsetOrderingWellFounded
  <2>2. Segments # {}
    OBVIOUS
  <2> HIDE DEF Segments
  <2> QED BY <1>1, <2>1, <2>2, WFMin
<1>3. PICK n \in T : S = 0 .. n
  OBVIOUS
<1>4. ASSUME NEW m \in T, ~(n <= m) PROVE FALSE
  <2>1. 0 .. m \subseteq 0 .. n /\ 0 .. m \in SUBSET Nat /\ 0 .. n \in SUBSET Nat
    BY <1>4
  <2>2. 0 .. m # 0 .. n
    <3>1. n \in 0 .. n /\ n \notin 0 .. m
      BY <1>4
    <3> QED BY <3>1
  <2>3. <<0 .. m, 0 .. n>> \in StrictSubsetOrdering(Nat)
    BY <2>1, <2>2 DEF StrictSubsetOrdering
  <2> QED BY <1>2, <1>3, <2>3
<1> QED BY <1>4

\* the addressee that is next is one of the addressees
LEMMA AddresseeIsOne ==
    ASSUME TypeOK, NEW t \in Threads, addressees[t] # {}
    PROVE  Addressee(t) \in addressees[t]
<1>1. addressees[t] \subseteq Players /\ Guid \in [Players -> Nat]
  BY BroadcastAssumption DEF TypeOK
<1>2. \E d \in addressees[t] :
         \/ d = source[t]
         \/ source[t] \notin addressees[t] /\ \A e \in addressees[t] : Guid[d] <= Guid[e]
  <2>1. CASE source[t] \in addressees[t]
    BY <2>1
  <2>2. CASE source[t] \notin addressees[t]
    <3> DEFINE G == {Guid[e] : e \in addressees[t]}
    <3>1. G \in SUBSET Nat /\ G # {}
      BY <1>1
    <3> HIDE DEF G
    <3>2. PICK n \in G : \A m \in G : n <= m
      BY <3>1, LeastNumber
    <3>3. PICK d \in addressees[t] : Guid[d] = n
      BY DEF G
    <3>4. \A e \in addressees[t] : Guid[d] <= Guid[e]
      BY <3>2, <3>3 DEF G
    <3> QED BY <2>2, <3>4
  <2> QED BY <2>1, <2>2
<1> QED BY <1>2 DEF Addressee

LEMMA AppendFacts ==
    ASSUME NEW S, NEW s \in Seq(S), NEW e \in S
    PROVE  /\ Append(s, e) \in Seq(S) /\ Append(s, e) # <<>>
           /\ Len(s) \in Nat /\ Len(Append(s, e)) = Len(s) + 1
           /\ \A i \in 1 .. Len(s) : Append(s, e)[i] = s[i]
           /\ Append(s, e)[Len(s) + 1] = e
<1>1. Len(s) \in Nat
  OBVIOUS
<1> QED BY <1>1, AppendProperties

LEMMA TailFacts ==
    ASSUME NEW S, NEW s \in Seq(S), s # <<>>
    PROVE  /\ Head(s) = s[1] /\ Head(s) \in S /\ Tail(s) \in Seq(S) /\ Len(s) \in Nat \ {0}
           /\ Len(Tail(s)) = Len(s) - 1
           /\ \A i \in 1 .. Len(s) - 1 : Tail(s)[i] = s[i + 1]
<1>1. Len(s) \in Nat \ {0}
  BY EmptySeq
<1> QED BY <1>1, HeadTailProperties

LEMMA NumbersOf ==
    ASSUME NEW s \in Seq(Packets), NEW x
    PROVE  /\ x \in Numbers(s) <=> \E i \in 1 .. Len(s) : s[i].n = x
           /\ s # <<>> => (x \in Numbers(Tail(s)) <=> \E i \in 1 .. Len(s) : i > 1 /\ s[i].n = x)
<1>1. DOMAIN s = 1 .. Len(s)
  OBVIOUS
<1>2. ASSUME s # <<>>
      PROVE  x \in Numbers(Tail(s)) <=> \E i \in 1 .. Len(s) : i > 1 /\ s[i].n = x
  <2>1. /\ Tail(s) \in Seq(Packets) /\ Len(s) \in Nat \ {0} /\ Len(Tail(s)) = Len(s) - 1
        /\ \A i \in 1 .. Len(s) - 1 : Tail(s)[i] = s[i + 1]
    BY <1>2, TailFacts
  <2>2. DOMAIN Tail(s) = 1 .. Len(s) - 1
    BY <2>1, LenProperties
  <2>3. x \in Numbers(Tail(s)) <=> \E i \in 1 .. Len(s) - 1 : s[i + 1].n = x
    BY <2>1, <2>2 DEF Numbers
  <2>4. ASSUME NEW i \in 1 .. Len(s), i > 1, s[i].n = x
        PROVE  \E j \in 1 .. Len(s) - 1 : s[j + 1].n = x
    <3>1. i - 1 \in 1 .. Len(s) - 1 /\ (i - 1) + 1 = i
      BY <2>1, <2>4
    <3> QED BY <2>4, <3>1
  <2>5. ASSUME NEW j \in 1 .. Len(s) - 1, s[j + 1].n = x
        PROVE  \E i \in 1 .. Len(s) : i > 1 /\ s[i].n = x
    <3>1. j + 1 \in 1 .. Len(s) /\ j + 1 > 1
      BY <2>1
    <3> QED BY <2>5, <3>1
  <2> QED BY <2>3, <2>4, <2>5
<1> QED BY <1>1, <1>2 DEF Numbers

LEMMA KeptElementwise ==
    ASSUME TypeOK, LockInv
    PROVE  SolidKept <=> Kept
<1>1. ASSUME NEW p \in Players, NEW n
      PROVE  /\ n \in Numbers(m_queue[p]) <=> Waits(p, n)
             /\ n \in Unsent(p) <=> OnItsWay(p, n)
             /\ n \in Range(got[p][p]) <=> Sent(p, n)
  <2>1. m_queue[p] \in Seq(Packets) /\ got[p][p] \in Seq(Nat)
    BY DEF TypeOK
  <2>2. n \in Numbers(m_queue[p]) <=> Waits(p, n)
    BY <2>1, NumbersOf DEF Waits
  <2>3. n \in Range(got[p][p]) <=> Sent(p, n)
    <3>1. DOMAIN got[p][p] = 1 .. Len(got[p][p])
      BY <2>1
    <3> QED BY <3>1 DEF Range, Sent
  <2>4. ASSUME NEW t \in Threads, source[t] = p
        PROVE  n \in Numbers(IF p \in addressees[t] THEN queue[t] ELSE Tail(queue[t])) <=>
                 \E i \in 1 .. Len(queue[t]) : queue[t][i].n = n /\ (i > 1 \/ p \in addressees[t])
    <3>1. queue[t] \in Seq(Packets) /\ queue[t] # <<>>
      BY <2>4, BroadcastAssumption DEF TypeOK, LockInv
    <3>2. CASE p \in addressees[t]
      BY <3>1, <3>2, NumbersOf
    <3>3. CASE p \notin addressees[t]
      BY <3>1, <3>3, NumbersOf
    <3> QED BY <3>2, <3>3
  <2>5. n \in Unsent(p) <=>
           \E t \in Threads : source[t] = p /\
              n \in Numbers(IF p \in addressees[t] THEN queue[t] ELSE Tail(queue[t]))
    BY DEF Unsent
  <2> QED BY <2>2, <2>3, <2>4, <2>5 DEF OnItsWay
<1>2. \A p \in Players : p \in Has_m_socket <=> stage[p] \in {"in", "linkdead", "leaving"}
  BY DEF Has_m_socket
<1>3. Has_m_socket \subseteq Players
  BY DEF Has_m_socket
<1> QED BY <1>1, <1>2, <1>3 DEF SolidKept, Kept

-----------------------------------------------------------------------------
(* Steps that leave the packets alone. *)

LEMMA QuietStep ==
    ASSUME IInv, UNCHANGED <<m_queue, source, queue, addressees, made, solid, got>>,
           TypeOK', StageInv', LockInv',
           \A p \in Players : p \in Has_m_socket' => p \in Has_m_socket \/ solid[p] = {}
    PROVE  IInv'
<1>1. OrderInv' /\ InOrder'
  BY DEF IInv, OrderInv, InOrder, Ascending
<1>2. SolidInv' /\ QueueBound'
  BY DEF IInv, SolidInv, QueueBound, NoneSolid
<1>3. Kept'
  <2>1. ASSUME NEW p \in Players, NEW n
        PROVE  /\ Waits(p, n)' <=> Waits(p, n)
               /\ OnItsWay(p, n)' <=> OnItsWay(p, n)
               /\ Sent(p, n)' <=> Sent(p, n)
    BY DEF Waits, OnItsWay, Sent
  <2>2. Has_m_socket' \subseteq Players
    BY DEF Has_m_socket
  <2> QED BY <2>1, <2>2 DEF IInv, Kept
<1> QED BY <1>1, <1>2, <1>3 DEF IInv

\* the life of a player, on the world thread
LEMMA StageStep ==
    ASSUME IInv, NEW p \in Players,
           \/ CreatePacketBroadcaster(p) \/ Disconnect(p) \/ Leave(p)
           \/ RemoveReference(p) \/ ChangeSocket(p)
           \/ DeletePacketBroadcaster(p) \/ ForgetSocket(p)
    PROVE  IInv'
<1>1. TypeOK /\ StageInv /\ LockInv
  BY DEF IInv
<1>2. /\ UNCHANGED <<m_queue, m_listeners, locals, config, history>>
      /\ \A q \in Players \ {p} : stage'[q] = stage[q] /\ m_socket'[q] = m_socket[q]
      /\ stage' \in [Players -> {"new", "in", "linkdead", "leaving", "closed", "gone"}]
      /\ m_socket' \in [Players -> 0 .. 2] /\ released' \in {released, p, None}
      /\ released' # None => released' = p /\ stage'[p] \in {"linkdead", "closed"}
      /\ m_thread_players' \in [Threads -> SUBSET Players]
      /\ \/ stage[p] = "new" /\ stage'[p] = "in" /\ m_socket'[p] = 1
         \/ stage[p] = "in" /\ stage'[p] = "linkdead" /\ m_socket'[p] = 1
         \/ stage[p] = "linkdead" /\ stage'[p] = "linkdead" /\ m_socket'[p] = 1
         \/ stage[p] = "linkdead" /\ stage'[p] = "in" /\ m_socket'[p] = 2
         \/ stage[p] = "closed" /\ stage'[p] = "closed"
         \/ stage[p] \in {"in", "linkdead"} /\ stage'[p] = "leaving" /\ m_socket'[p] = m_socket[p]
         \/ /\ stage[p] = "leaving" /\ stage'[p] = "closed"
            /\ \A q \in Players : p \notin m_listeners[q]
  <2>1. CASE CreatePacketBroadcaster(p)
    <3>1. m_thread_players' \in [Threads -> SUBSET Players]
      <4>1. m_thread_players' \in {m_thread_players, Registered(p)}
        BY <2>1 DEF CreatePacketBroadcaster
      <4>2. m_thread_players \in [Threads -> SUBSET Players]
        BY <1>1 DEF TypeOK
      <4>3. PICK t : t = Index(p, m_num_threads)
        OBVIOUS
      <4>4. [m_thread_players EXCEPT ![t] = @ \union {p}] \in [Threads -> SUBSET Players]
        BY <4>2
      <4> QED BY <4>1, <4>2, <4>3, <4>4 DEF Registered
    <3> QED BY <1>1, <2>1, <3>1 DEF CreatePacketBroadcaster, TypeOK, Running
  <2>2. CASE Disconnect(p)
    BY <1>1, <2>2 DEF Disconnect, TypeOK, Running, sockets
  <2>3. CASE RemoveReference(p) \/ ChangeSocket(p)
    <3>1. CASE RemoveReference(p)
      BY <1>1, <3>1 DEF RemoveReference, TypeOK, StageInv
    <3>2. CASE ChangeSocket(p)
      <4>1. stage[p] = "linkdead" /\ m_socket[p] = 1
        BY <1>1, <3>2 DEF ChangeSocket, StageInv
      <4> QED BY <1>1, <3>2, <4>1 DEF ChangeSocket, TypeOK
    <3> QED BY <2>3, <3>1, <3>2
  <2>4. CASE Leave(p)
    BY <1>1, <2>4 DEF Leave, InWorld, TypeOK, Running, sockets
  <2>6. CASE ForgetSocket(p)
    BY <1>1, <2>6 DEF ForgetSocket, TypeOK
  <2>5. CASE DeletePacketBroadcaster(p)
    <3>1. m_thread_players' \in [Threads -> SUBSET Players]
      <4>1. m_thread_players' \in
              {m_thread_players, [m_thread_players EXCEPT ![Index(p, m_num_threads)] = @ \ {p}]}
        BY <2>5 DEF DeletePacketBroadcaster
      <4>2. m_thread_players \in [Threads -> SUBSET Players]
        BY <1>1 DEF TypeOK
      <4>3. PICK t : t = Index(p, m_num_threads)
        OBVIOUS
      <4>4. [m_thread_players EXCEPT ![t] = @ \ {p}] \in [Threads -> SUBSET Players]
        BY <4>2
      <4> QED BY <4>1, <4>2, <4>3, <4>4
    <3> QED BY <1>1, <2>5, <3>1 DEF DeletePacketBroadcaster, TypeOK
  <2> QED BY <2>1, <2>2, <2>3, <2>4, <2>5, <2>6
<1>3. \A q \in Players \ {p} : q \in Has_m_socket' <=> q \in Has_m_socket
  BY <1>2 DEF Has_m_socket
<1>4. /\ p \in Has_m_socket' => p \in Has_m_socket \/ solid[p] = {}
      /\ p \in Has_m_socket /\ p \notin Has_m_socket' => \A q \in Players : p \notin m_listeners[q]
      /\ p \in Has_m_socket' => m_socket'[p] # 0
  BY <1>1, <1>2 DEF Has_m_socket, StageInv
<1>5. TypeOK'
  BY <1>1, <1>2 DEF TypeOK, locals, config, history
<1>6. LockInv'
  BY <1>1, <1>2 DEF LockInv, locals
<1>7. StageInv'
  <2>1. \A q \in Players : m_listeners[q] \subseteq Has_m_socket'
    BY <1>1, <1>3, <1>4 DEF StageInv, TypeOK
  <2>2. \A q \in Players \ {p} : q \in Has_m_socket' => m_socket'[q] # 0
    BY <1>1, <1>2, <1>3 DEF StageInv
  <2>3. \A q \in Players : /\ stage'[q] = "new" => solid[q] = {}
                           /\ stage'[q] = "linkdead" => m_socket'[q] = 1
                           /\ q = released' => stage'[q] \in {"linkdead", "closed"}
    BY <1>1, <1>2, BroadcastAssumption DEF StageInv
  <2> QED BY <1>2, <1>4, <2>1, <2>2, <2>3 DEF StageInv, history
<1> QED BY <1>2, <1>3, <1>4, <1>5, <1>6, <1>7, QuietStep DEF locals, history

\* the lists, which change under the lock of the player
LEMMA ListStep ==
    ASSUME IInv, NEW p \in Players, NEW q \in Players, AddListener(q, p) \/ RemoveListener(q, p)
    PROVE  IInv'
<1>1. TypeOK /\ StageInv /\ LockInv
  BY DEF IInv
<1>2. /\ UNCHANGED <<stage, sockets, m_queue, m_thread_players, locals, config, history>>
      /\ \A t \in Threads : source[t] # q
      /\ \A r \in Players \ {q} : m_listeners'[r] = m_listeners[r]
      /\ m_listeners' \in [Players -> SUBSET Players]
      /\ m_listeners'[q] \subseteq Has_m_socket
  <2>1. CASE AddListener(q, p)
    <3>1. p \in Has_m_socket
      BY <2>1 DEF AddListener, InWorld, Has_m_socket
    <3> QED BY <1>1, <2>1, <3>1 DEF AddListener, Locked, TypeOK, StageInv
  <2>2. CASE RemoveListener(q, p)
    BY <1>1, <2>2 DEF RemoveListener, Locked, TypeOK, StageInv
  <2> QED BY <2>1, <2>2
<1>3. Has_m_socket' = Has_m_socket
  BY <1>2 DEF Has_m_socket
<1>4. TypeOK'
  BY <1>1, <1>2 DEF TypeOK, locals, config, history, sockets
<1>5. StageInv'
  BY <1>1, <1>2, <1>3 DEF StageInv, history, sockets
<1>6. LockInv'
  <2>1. \A t \in Threads : source[t] # None => m_listeners'[source[t]] = m_listeners[source[t]]
    BY <1>1, <1>2 DEF TypeOK
  <2> QED BY <1>1, <1>2, <2>1 DEF LockInv, locals
<1> QED BY <1>2, <1>3, <1>4, <1>5, <1>6, QuietStep DEF locals, history

\* the loop of a thread, and the threads as a whole
LEMMA LoopStep ==
    ASSUME IInv,
           \/ \E t \in Threads : BroadcastPackets(t) \/ SkipEmpty(t) \/ Sleep(t) \/ Return(t)
           \/ \E n \in Counts : UpdateConfiguration(n)
           \/ StartThreads \/ Stop
    PROVE  IInv'
<1>1. TypeOK /\ StageInv /\ LockInv
  BY DEF IInv
<1> DEFINE Loops ==
             /\ UNCHANGED <<stage, sockets, m_queue, m_listeners, source, queue, addressees,
                            history>>
             /\ m_num_threads' \in Counts /\ m_thread_players' \in [Threads -> SUBSET Players]
             /\ m_stop' \in BOOLEAN /\ reload' \in Counts \union {None} /\ reloads' \in 0 .. MaxReloads
             /\ my_players' \in [Threads -> SUBSET Players]
             /\ pc' \in [Threads -> {"none", "work", "each", "send"}]
             /\ \A t \in Threads : pc'[t] = pc[t] \/ (pc[t] # "send" /\ pc'[t] # "send")
<1>2. ASSUME NEW t \in Threads, BroadcastPackets(t) PROVE Loops
  BY <1>1, <1>2 DEF BroadcastPackets, TypeOK, config
<1>3. ASSUME NEW t \in Threads, SkipEmpty(t) PROVE Loops
  BY <1>1, <1>3 DEF SkipEmpty, TypeOK, config
<1>4. ASSUME NEW t \in Threads, Sleep(t) PROVE Loops
  BY <1>1, <1>4 DEF Sleep, TypeOK, config
<1>5. ASSUME NEW t \in Threads, Return(t) PROVE Loops
  BY <1>1, <1>5 DEF Return, TypeOK, config
<1>6. ASSUME NEW n \in Counts, UpdateConfiguration(n) PROVE Loops
  BY <1>1, <1>6, BroadcastAssumption DEF UpdateConfiguration, TypeOK, locals
<1>7. ASSUME StartThreads PROVE Loops
  <2>1. reload \in Counts
    BY <1>1, <1>7 DEF StartThreads, TypeOK
  <2> QED BY <1>1, <1>7, <2>1 DEF StartThreads, TypeOK
<1>8. ASSUME Stop PROVE Loops
  BY <1>1, <1>8 DEF Stop, TypeOK, locals
<1>9. Loops
  <2> HIDE DEF Loops
  <2> QED BY <1>2, <1>3, <1>4, <1>5, <1>6, <1>7, <1>8
<1>10. Has_m_socket' = Has_m_socket
  BY <1>9 DEF Has_m_socket
<1>11. TypeOK'
  BY <1>1, <1>9 DEF TypeOK, history, sockets
<1>12. StageInv'
  BY <1>1, <1>9, <1>10 DEF StageInv, history, sockets
<1>13. LockInv'
  BY <1>1, <1>9 DEF LockInv
<1> QED BY <1>9, <1>10, <1>11, <1>12, <1>13, QuietStep DEF history

LEMMA FreeStep ==
    ASSUME IInv, NEW p \in Players, FreeAtLogout(p)
    PROVE  IInv'
<1>1. TypeOK /\ StageInv /\ LockInv
  BY DEF IInv
<1>2. /\ UNCHANGED <<sockets, m_thread_players, locals, config, history>>
      /\ stage[p] = "closed" /\ stage'[p] = "gone"
      /\ \A q \in Players \ {p} : /\ stage'[q] = stage[q] /\ m_queue'[q] = m_queue[q]
                                  /\ m_listeners'[q] = m_listeners[q]
      /\ m_queue'[p] = <<>> /\ m_listeners'[p] = {} /\ released = None
      /\ \A t \in Threads : source[t] # p
  BY <1>1 DEF FreeAtLogout, Locked, TypeOK, Running
<1>3. /\ stage' \in [Players -> {"new", "in", "linkdead", "leaving", "closed", "gone"}]
      /\ m_queue' \in [Players -> Seq(Packets)] /\ m_listeners' \in [Players -> SUBSET Players]
  <2>1. <<>> \in Seq(Packets)
    OBVIOUS
  <2> QED BY <1>1, <2>1 DEF FreeAtLogout, TypeOK
<1>4. Has_m_socket' = Has_m_socket /\ p \notin Has_m_socket
  BY <1>2 DEF Has_m_socket
<1>5. TypeOK'
  BY <1>1, <1>2, <1>3 DEF TypeOK, locals, config, history, sockets
<1>6. StageInv'
  BY <1>1, <1>2, <1>4, BroadcastAssumption DEF StageInv, history, sockets
<1>7. LockInv'
  <2>1. \A t \in Threads : source[t] # None => m_listeners'[source[t]] = m_listeners[source[t]]
    BY <1>1, <1>2 DEF TypeOK
  <2> QED BY <1>1, <1>2, <2>1 DEF LockInv, locals
<1>8. \A q \in Players : m_queue'[q] = m_queue[q] \/ Len(m_queue'[q]) = 0
  BY <1>2
<1>9. OrderInv' /\ InOrder'
  <2>1. OrderInv /\ InOrder
    BY DEF IInv
  <2>2. InOrder'
    BY <1>2, <2>1 DEF InOrder, history
  <2>3. ASSUME NEW q \in Players
        PROVE  /\ Ascending(m_queue'[q], made[q])
               /\ \A l \in Players : \A k \in 1 .. Len(got[l][q]) :
                     /\ got[l][q][k] <= made[q]
                     /\ \A j \in 1 .. Len(m_queue'[q]) : got[l][q][k] < m_queue'[q][j].n
               /\ \A t \in Threads : source[t] = q =>
                     \A i \in 1 .. Len(queue[t]), j \in 1 .. Len(m_queue'[q]) :
                        queue[t][i].n < m_queue'[q][j].n
    <3>1. CASE m_queue'[q] = m_queue[q]
      BY <2>1, <3>1 DEF OrderInv
    <3>2. CASE Len(m_queue'[q]) = 0
      BY <2>1, <3>2 DEF OrderInv, Ascending
    <3> QED BY <1>8, <3>1, <3>2
  <2>4. UNCHANGED <<source, queue, addressees, got, made>>
    BY <1>2 DEF locals, history
  <2> QED BY <2>1, <2>2, <2>3, <2>4 DEF OrderInv, Ascending
<1>10. SolidInv' /\ QueueBound'
  <2>1. SolidInv /\ QueueBound
    BY DEF IInv
  <2>2. UNCHANGED <<source, queue, solid, made>>
    BY <1>2 DEF locals, history
  <2>3. ASSUME NEW q \in Players
        PROVE  /\ \A i \in 1 .. Len(m_queue'[q]) :
                     Plain(q, m_queue'[q][i]) => m_queue'[q][i].n \notin solid[q]
               /\ \A i \in MaxQueue .. Len(m_queue'[q]) - 1 :
                     ~(m_queue'[q][i].skip /\ m_queue'[q][i + 1].skip)
    <3>1. CASE m_queue'[q] = m_queue[q]
      BY <2>1, <3>1 DEF SolidInv, QueueBound, NoneSolid
    <3>2. CASE Len(m_queue'[q]) = 0
      BY <3>2, BroadcastAssumption
    <3> QED BY <1>8, <3>1, <3>2
  <2> QED BY <2>1, <2>2, <2>3 DEF SolidInv, QueueBound, NoneSolid
<1>11. Kept'
  <2>1. ASSUME NEW q \in Has_m_socket, NEW n
        PROVE  /\ Waits(q, n)' <=> Waits(q, n)
               /\ OnItsWay(q, n)' <=> OnItsWay(q, n)
               /\ Sent(q, n)' <=> Sent(q, n)
    BY <1>2, <1>4 DEF Waits, OnItsWay, Sent, Has_m_socket, locals, history
  <2> QED BY <1>2, <1>4, <2>1 DEF IInv, Kept, history
<1> QED BY <1>5, <1>6, <1>7, <1>9, <1>10, <1>11 DEF IInv

\* the new packet comes last; it takes the place of the last one only if both may be skipped
LEMMA QueuedFacts ==
    ASSUME NEW w \in Seq(Packets), NEW d \in Packets
    PROVE  \E s \in Seq(Packets), k \in Nat, m \in Nat \ {0} :
              /\ s = Queued(w, d) /\ k = Len(w) /\ m = Len(s) /\ s[m] = d
              /\ \A i \in 1 .. m - 1 : i \in 1 .. k /\ s[i] = w[i]
              /\ \/ m = k + 1 /\ ~(k >= MaxQueue /\ w[k].skip /\ d.skip)
                 \/ m = k /\ k >= MaxQueue /\ w[k].skip /\ d.skip
<1>1. PICK k \in Nat : k = Len(w)
  OBVIOUS
<1>2. CASE k >= MaxQueue /\ w[k].skip /\ d.skip
  <2>1. PICK s : s = [w EXCEPT ![k] = d]
    OBVIOUS
  <2>2. s = Queued(w, d) /\ k \in 1 .. k /\ k \in Nat \ {0}
    BY <1>1, <1>2, <2>1, BroadcastAssumption DEF Queued
  <2>3. s \in Seq(Packets) /\ Len(s) = k /\ s[k] = d /\ \A i \in 1 .. k - 1 : s[i] = w[i]
    <3>1. w \in [1 .. k -> Packets]
      BY <1>1
    <3>2. s \in [1 .. k -> Packets] /\ s[k] = d /\ \A i \in 1 .. k - 1 : s[i] = w[i]
      BY <2>1, <2>2, <3>1
    <3> QED BY <1>1, <3>2
  <2> QED BY <1>1, <1>2, <2>2, <2>3
<1>3. CASE ~(k >= MaxQueue /\ w[k].skip /\ d.skip)
  <2>1. PICK s : s = Append(w, d)
    OBVIOUS
  <2>2. s = Queued(w, d)
    BY <1>1, <1>3, <2>1 DEF Queued
  <2>3. /\ s \in Seq(Packets) /\ Len(s) = k + 1 /\ s[k + 1] = d
        /\ \A i \in 1 .. k : s[i] = w[i]
    BY <1>1, <2>1, AppendFacts
  <2>4. PICK m \in Nat \ {0} : m = k + 1
    OBVIOUS
  <2> QED BY <1>1, <1>3, <2>2, <2>3, <2>4
<1> QED BY <1>2, <1>3

LEMMA QueueStep ==
    ASSUME IInv, NEW p \in Players, NEW skip \in BOOLEAN, NEW a \in Addressing,
           QueuePacket(p, skip, a[1], a[2])
    PROVE  IInv'
<1>1. TypeOK /\ StageInv /\ LockInv /\ OrderInv /\ InOrder /\ SolidInv /\ QueueBound /\ Kept
  BY DEF IInv
<1>2. a[1] \in BOOLEAN /\ a[2] \in Players \union {None}
  BY BroadcastAssumption
<1>3. PICK N \in Nat : N = made[p] + 1
  BY <1>1 DEF TypeOK
<1>4. PICK d \in Packets : d = [n |-> N, skip |-> skip, self |-> a[1], except |-> a[2]]
  BY <1>2 DEF Packets
<1>5. d.n = N /\ d.skip = skip /\ d.self = a[1] /\ d.except = a[2]
  BY <1>4
<1>6. m_queue[p] \in Seq(Packets)
  BY <1>1 DEF TypeOK
<1>7. PICK s \in Seq(Packets), k \in Nat, m \in Nat \ {0} :
         /\ s = Queued(m_queue[p], d) /\ k = Len(m_queue[p]) /\ m = Len(s) /\ s[m] = d
         /\ \A i \in 1 .. m - 1 : i \in 1 .. k /\ s[i] = m_queue[p][i]
         /\ \/ m = k + 1 /\ ~(k >= MaxQueue /\ m_queue[p][k].skip /\ d.skip)
            \/ m = k /\ k >= MaxQueue /\ m_queue[p][k].skip /\ d.skip
  BY <1>6, QueuedFacts
<1>8. s = Queued(m_queue[p], d) /\ k = Len(m_queue[p])
  BY <1>7
<1>9. m = Len(s)
  BY <1>7
<1>10. /\ s \in Seq(Packets) /\ s[m] = d
       /\ \A i \in 1 .. m - 1 : i \in 1 .. k /\ s[i] = m_queue[p][i]
       /\ \/ m = k + 1 /\ ~(k >= MaxQueue /\ m_queue[p][k].skip /\ skip)
          \/ m = k /\ k >= MaxQueue /\ m_queue[p][k].skip /\ skip
  BY <1>5, <1>7
<1>11. \A i \in 1 .. k : m_queue[p][i] \in Packets /\ m_queue[p][i].n \in Nat
  <2>1. \A i \in 1 .. k : m_queue[p][i] \in Packets
    BY <1>6, <1>7
  <2> QED BY <2>1 DEF Packets
<1>12. /\ UNCHANGED <<stage, sockets, m_listeners, m_thread_players, locals, config, got>>
       /\ \A q \in Players \ {p} : /\ made'[q] = made[q] /\ solid'[q] = solid[q]
                                   /\ m_queue'[q] = m_queue[q]
       /\ made'[p] = N /\ m_queue'[p] = s
       /\ solid'[p] = IF ~skip /\ a[1] /\ a[2] # p THEN solid[p] \union {N} ELSE solid[p]
       /\ \A t \in Threads : source[t] # p
       /\ p \in Has_m_socket
  BY <1>1, <1>3, <1>4, <1>8
     DEF QueuePacket, TypeOK, Locked, InWorld, Has_m_socket
<1>13. Has_m_socket' = Has_m_socket
  BY <1>12 DEF Has_m_socket
<1>14. TypeOK'
  <2>1. m_queue' \in [Players -> Seq(Packets)]
    BY <1>1, <1>4, <1>8, <1>3, <1>10 DEF QueuePacket, TypeOK
  <2>2. made' \in [Players -> Nat]
    BY <1>1 DEF QueuePacket, TypeOK
  <2>3. solid' \in [Players -> SUBSET Nat]
    <3>1. solid' = [solid EXCEPT ![p] = solid'[p]]
      BY <1>1 DEF QueuePacket, TypeOK
    <3>2. solid'[p] \in SUBSET Nat
      BY <1>1, <1>12 DEF TypeOK
    <3>3. PICK e \in SUBSET Nat : e = solid'[p]
      BY <3>2
    <3> QED BY <1>1, <3>1, <3>3 DEF TypeOK
  <2> QED BY <1>1, <1>12, <2>1, <2>2, <2>3 DEF TypeOK, locals, config, sockets
<1>15. StageInv'
  <2>1. stage[p] # "new"
    BY <1>12 DEF Has_m_socket
  <2> QED BY <1>1, <1>12, <1>13, <2>1 DEF StageInv, sockets
<1>16. LockInv'
  BY <1>1, <1>12 DEF LockInv, locals
<1>17. OrderInv'
  <2>1. ASSUME NEW q \in Players \ {p}
        PROVE  made'[q] = made[q] /\ m_queue'[q] = m_queue[q]
    BY <1>12
  <2>2. UNCHANGED <<source, queue, addressees, got>>
    BY <1>12 DEF locals
  <2>3. made[p] < N
    BY <1>1, <1>3 DEF TypeOK
  <2>4. /\ \A i, j \in 1 .. m : i < j => s[i].n < s[j].n
        /\ \A i \in 1 .. m : s[i].n <= N
    <3>1. ASSUME NEW i \in 1 .. m - 1 PROVE s[i].n < N /\ s[i].n \in Nat
      <4>1. i \in 1 .. k /\ s[i] = m_queue[p][i]
        BY <1>10
      <4>2. m_queue[p][i].n <= made[p] /\ m_queue[p][i].n \in Nat
        BY <1>1, <1>7, <1>11, <4>1 DEF OrderInv, Ascending
      <4>3. made[p] \in Nat /\ made[p] < N
        BY <1>1, <1>3 DEF TypeOK
      <4> QED BY <4>1, <4>2, <4>3
    <3>2. \A i, j \in 1 .. m - 1 : i < j => s[i].n < s[j].n
      BY <1>1, <1>7, <1>10 DEF OrderInv, Ascending
    <3>3. s[m].n = N
      BY <1>5, <1>10
    <3>4. \A i \in 1 .. m : i = m \/ i \in 1 .. m - 1
      OBVIOUS
    <3>5. ASSUME NEW i \in 1 .. m, NEW j \in 1 .. m, i < j PROVE s[i].n < s[j].n
      <4>1. i \in 1 .. m - 1
        BY <3>5
      <4> QED BY <3>1, <3>2, <3>3, <3>4, <3>5, <4>1
    <3>6. ASSUME NEW i \in 1 .. m PROVE s[i].n <= N
      BY <3>1, <3>3, <3>4
    <3> QED BY <3>5, <3>6
  <2>5. ASSUME NEW l \in Players, NEW i \in 1 .. Len(got[l][p])
        PROVE  got[l][p][i] <= N /\ \A j \in 1 .. m : got[l][p][i] < s[j].n
    <3>1. got[l][p][i] <= made[p] /\ got[l][p][i] \in Nat /\ made[p] \in Nat
      <4>1. got[l][p][i] <= made[p]
        BY <1>1 DEF OrderInv
      <4>2. got[l][p] \in Seq(Nat) /\ made[p] \in Nat
        BY <1>1 DEF TypeOK
      <4> QED BY <4>1, <4>2
    <3>2. \A j \in 1 .. k : got[l][p][i] < m_queue[p][j].n
      BY <1>1, <1>7 DEF OrderInv
    <3>3. ASSUME NEW j \in 1 .. m PROVE got[l][p][i] < s[j].n
      <4>1. CASE j = m
        <5>1. s[j].n = N
          BY <1>5, <1>10, <4>1
        <5>2. made[p] < N
          BY <2>3
        <5> QED BY <3>1, <5>1, <5>2
      <4>2. CASE j \in 1 .. m - 1
        BY <1>10, <3>2, <4>2
      <4> QED BY <4>1, <4>2
    <3> QED BY <1>3, <3>1, <3>3
  <2>6. /\ Ascending(m_queue'[p], made'[p])
        /\ \A l \in Players : \A i \in 1 .. Len(got[l][p]) :
              got[l][p][i] <= made'[p] /\ \A j \in 1 .. Len(m_queue'[p]) : got[l][p][i] < m_queue'[p][j].n
    BY <1>9, <1>12, <2>4, <2>5 DEF Ascending
  <2>7. ASSUME NEW q \in Players
        PROVE  /\ Ascending(m_queue'[q], made'[q])
               /\ \A l \in Players : \A i \in 1 .. Len(got[l][q]) :
                     /\ got[l][q][i] <= made'[q]
                     /\ \A j \in 1 .. Len(m_queue'[q]) : got[l][q][i] < m_queue'[q][j].n
               /\ \A t \in Threads : source[t] = q =>
                     /\ Ascending(queue[t], made'[q])
                     /\ \A i \in 1 .. Len(queue[t]), j \in 1 .. Len(m_queue'[q]) :
                           queue[t][i].n < m_queue'[q][j].n
                     /\ \A l \in Players : \A i \in 1 .. Len(got[l][q]) :
                           /\ got[l][q][i] <= queue[t][1].n
                           /\ l \in addressees[t] => got[l][q][i] < queue[t][1].n
    <3>1. CASE q = p
      BY <1>12, <2>6, <3>1
    <3>2. CASE q # p
      <4>1. made'[q] = made[q] /\ m_queue'[q] = m_queue[q]
        BY <2>1, <3>2
      <4> QED BY <1>1, <4>1 DEF OrderInv
    <3> QED BY <3>1, <3>2
  <2> QED BY <2>2, <2>7 DEF OrderInv, Ascending
<1>18. InOrder'
  BY <1>1, <1>12 DEF InOrder
<1>19. SolidInv'
  <2>1. UNCHANGED <<source, queue>>
    BY <1>12 DEF locals
  <2>2. solid'[p] \subseteq 1 .. N
    BY <1>1, <1>3, <1>12 DEF SolidInv, TypeOK
  <2>3. ASSUME NEW i \in 1 .. m, Plain(p, s[i]) PROVE s[i].n \notin solid'[p]
    <3>1. CASE i = m
      <4>1. N \notin solid[p]
        BY <1>1, <1>3 DEF SolidInv, TypeOK
      <4> QED BY <1>5, <1>10, <1>12, <2>3, <3>1, <4>1 DEF Plain
    <3>2. CASE i \in 1 .. m - 1
      <4>1. s[i].n \notin solid[p]
        BY <1>1, <1>7, <1>10, <2>3, <3>2 DEF SolidInv, NoneSolid
      <4>2. s[i].n # N
        <5>1. i \in 1 .. k /\ s[i] = m_queue[p][i]
          BY <1>10, <3>2
        <5>2. m_queue[p][i].n <= made[p] /\ m_queue[p][i].n \in Nat
          BY <1>1, <1>7, <1>11, <5>1 DEF OrderInv, Ascending
        <5>3. made[p] \in Nat /\ made[p] < N
          BY <1>1, <1>3 DEF TypeOK
        <5> QED BY <5>1, <5>2, <5>3
      <4> QED BY <1>12, <4>1, <4>2
    <3> QED BY <3>1, <3>2
  <2> QED BY <1>1, <1>9, <1>12, <2>1, <2>2, <2>3 DEF SolidInv, NoneSolid
<1>20. QueueBound'
  <2>1. ASSUME NEW i \in MaxQueue .. m - 1 PROVE ~(s[i].skip /\ s[i + 1].skip)
    <3>1. i \in 1 .. m - 1 /\ MaxQueue \in Nat \ {0}
      BY BroadcastAssumption
    <3>2. CASE i + 1 = m /\ m = k + 1
      BY <1>5, <1>10, <3>1, <3>2
    <3>3. CASE i + 1 = m /\ m = k
      <4>1. i \in MaxQueue .. k - 1 /\ s[i] = m_queue[p][i] /\ m_queue[p][i + 1].skip
        BY <1>10, <3>1, <3>3
      <4>2. ~m_queue[p][i].skip
        BY <1>1, <1>7, <4>1 DEF QueueBound
      <4> QED BY <4>1, <4>2
    <3>4. CASE i + 1 # m
      <4>1. i + 1 \in 1 .. m - 1 /\ i \in MaxQueue .. k - 1
        BY <1>10, <3>1, <3>4
      <4> QED BY <1>1, <1>7, <1>10, <3>1, <4>1 DEF QueueBound
    <3> QED BY <1>10, <3>2, <3>3, <3>4
  <2> QED BY <1>1, <1>9, <1>12, <2>1 DEF QueueBound
<1>21. Kept'
  <2>1. \A n : \A q \in Players :
           /\ OnItsWay(q, n)' <=> OnItsWay(q, n)
           /\ Sent(q, n)' <=> Sent(q, n)
    BY <1>12 DEF OnItsWay, Sent, locals
  <2>2. \A n : \A q \in Players \ {p} : Waits(q, n)' <=> Waits(q, n)
    BY <1>12 DEF Waits
  <2>3. ASSUME NEW n \in solid'[p] PROVE Waits(p, n)' \/ OnItsWay(p, n) \/ Sent(p, n)
    <3>1. CASE n = N
      BY <1>5, <1>9, <1>10, <1>12, <3>1 DEF Waits
    <3>2. CASE n # N /\ Waits(p, n)
      <4>1. PICK i \in 1 .. k : m_queue[p][i].n = n
        BY <1>7, <3>2 DEF Waits
      <4>2. CASE i \in 1 .. m - 1
        <5>1. s[i].n = n /\ i \in 1 .. m
          BY <1>10, <4>1, <4>2
        <5> QED BY <1>9, <1>12, <5>1 DEF Waits
      <4>3. CASE i \notin 1 .. m - 1
        <5>1. i = k /\ m_queue[p][i].skip
          BY <1>10, <4>1, <4>3
        <5>2. n \notin solid[p]
          BY <1>1, <1>7, <4>1, <5>1 DEF SolidInv, NoneSolid, Plain
        <5> QED BY <1>12, <3>2, <5>2
      <4> QED BY <4>2, <4>3
    <3>3. CASE n # N /\ ~Waits(p, n)
      BY <1>1, <1>12, <3>3 DEF Kept
    <3> QED BY <3>1, <3>2, <3>3
  <2> QED BY <1>1, <1>12, <1>13, <2>1, <2>2, <2>3 DEF Kept, Has_m_socket
<1> QED BY <1>14, <1>15, <1>16, <1>17, <1>18, <1>19, <1>20, <1>21 DEF IInv

\* a thread takes the queue of a player, with both locks
LEMMA ProcessStep ==
    ASSUME IInv, NEW t \in Threads, ProcessQueue(t)
    PROVE  IInv'
<1>1. TypeOK /\ StageInv /\ LockInv /\ OrderInv /\ InOrder /\ SolidInv /\ QueueBound /\ Kept
  BY DEF IInv
<1>2. PICK p \in my_players[t] :
         /\ m_queue[p] # <<>> /\ ~Locked(p)
         /\ source' = [source EXCEPT ![t] = p]
         /\ queue' = [queue EXCEPT ![t] = m_queue[p]]
         /\ addressees' = [addressees EXCEPT ![t] = Addressees(p, Head(m_queue[p]))]
         /\ m_queue' = [m_queue EXCEPT ![p] = <<>>]
  BY DEF ProcessQueue
<1>3. p \in Players
  BY <1>1 DEF TypeOK
<1>4. PICK w \in Seq(Packets) : w = m_queue[p]
  BY <1>1, <1>3 DEF TypeOK
<1>5. w # <<>> /\ Head(w) = w[1] /\ w[1] \in Packets /\ Len(w) \in Nat \ {0}
  BY <1>2, <1>4, TailFacts
<1>6. PICK A \in SUBSET Players : A = Addressees(p, w[1])
  BY <1>1, <1>3 DEF Addressees, TypeOK
<1>7. A \ {p} \subseteq m_listeners[p]
  BY <1>6 DEF Addressees
<1>8. p \in A \/ Plain(p, w[1])
  BY <1>5, <1>6 DEF Addressees, Plain, Packets
<1>9. /\ UNCHANGED <<stage, sockets, m_listeners, m_thread_players, config, my_players, history>>
      /\ pc[t] = "each" /\ pc' = [pc EXCEPT ![t] = "send"]
      /\ source[t] = None /\ \A u \in Threads : source[u] # p
      /\ source'[t] = p /\ queue'[t] = w /\ addressees'[t] = A /\ pc'[t] = "send"
      /\ \A u \in Threads \ {t} : /\ source'[u] = source[u] /\ queue'[u] = queue[u]
                                  /\ addressees'[u] = addressees[u] /\ pc'[u] = pc[u]
      /\ m_queue'[p] = <<>> /\ \A q \in Players \ {p} : m_queue'[q] = m_queue[q]
  BY <1>1, <1>2, <1>3, <1>4, <1>5, <1>6 DEF ProcessQueue, Locked, TypeOK, LockInv
<1>10. p # None
  BY <1>3, BroadcastAssumption
<1>11. Has_m_socket' = Has_m_socket
  BY <1>9 DEF Has_m_socket
<1>12. TypeOK'
  <2>1. m_queue' \in [Players -> Seq(Packets)]
    <3>1. <<>> \in Seq(Packets)
      OBVIOUS
    <3> QED BY <1>1, <1>2, <3>1 DEF TypeOK
  <2>2. source' \in [Threads -> Players \union {None}]
    BY <1>1, <1>2, <1>3 DEF TypeOK
  <2>3. queue' \in [Threads -> Seq(Packets)]
    BY <1>1, <1>2, <1>4 DEF TypeOK
  <2>4. addressees' \in [Threads -> SUBSET Players]
    BY <1>1, <1>2, <1>4, <1>5, <1>6 DEF TypeOK
  <2>5. pc' \in [Threads -> {"none", "work", "each", "send"}]
    BY <1>1, <1>9 DEF TypeOK
  <2> QED BY <1>1, <1>9, <2>1, <2>2, <2>3, <2>4, <2>5 DEF TypeOK, config, history, sockets
<1>13. StageInv'
  BY <1>1, <1>9, <1>11 DEF StageInv, history, sockets
<1>14. LockInv'
  <2>1. ASSUME NEW u \in Threads
        PROVE  /\ pc'[u] = "send" <=> source'[u] # None
               /\ pc'[u] # "send" => addressees'[u] = {}
               /\ pc'[u] = "send" =>
                     /\ queue'[u] # <<>>
                     /\ addressees'[u] \ {source'[u]} \subseteq m_listeners[source'[u]]
    <3>1. CASE u = t
      BY <1>5, <1>7, <1>9, <1>10, <3>1
    <3>2. CASE u # t
      BY <1>1, <1>9, <3>2 DEF LockInv
    <3> QED BY <3>1, <3>2
  <2>2. \A u, v \in Threads : source'[u] # None /\ source'[u] = source'[v] => u = v
    BY <1>1, <1>9 DEF LockInv
  <2> QED BY <1>9, <2>1, <2>2 DEF LockInv
<1>15. OrderInv'
  <2>1. ASSUME NEW q \in Players
        PROVE  /\ Ascending(m_queue'[q], made[q])
               /\ \A l \in Players : \A k \in 1 .. Len(got[l][q]) :
                     /\ got[l][q][k] <= made[q]
                     /\ \A j \in 1 .. Len(m_queue'[q]) : got[l][q][k] < m_queue'[q][j].n
    <3>1. CASE q = p
      BY <1>1, <1>3, <1>9, <3>1 DEF OrderInv, Ascending
    <3>2. CASE q # p
      BY <1>1, <1>9, <3>2 DEF OrderInv
    <3> QED BY <3>1, <3>2
  <2>2. ASSUME NEW q \in Players, NEW u \in Threads, source'[u] = q
        PROVE  /\ Ascending(queue'[u], made[q])
               /\ \A i \in 1 .. Len(queue'[u]), j \in 1 .. Len(m_queue'[q]) :
                     queue'[u][i].n < m_queue'[q][j].n
               /\ \A l \in Players : \A k \in 1 .. Len(got[l][q]) :
                     /\ got[l][q][k] <= queue'[u][1].n
                     /\ l \in addressees'[u] => got[l][q][k] < queue'[u][1].n
    <3>1. CASE u = t
      <4>1. q = p
        BY <1>9, <2>2, <3>1
      <4>2. Ascending(w, made[p])
        BY <1>1, <1>3, <1>4 DEF OrderInv
      <4>3. ASSUME NEW l \in Players, NEW k \in 1 .. Len(got[l][p])
            PROVE  got[l][p][k] < w[1].n /\ got[l][p][k] <= w[1].n
        <5>1. got[l][p][k] < w[1].n
          BY <1>1, <1>3, <1>4, <1>5 DEF OrderInv
        <5>2. got[l][p] \in Seq(Nat)
          BY <1>1, <1>3 DEF TypeOK
        <5>3. got[l][p][k] \in Nat
          BY <5>2
        <5>4. w[1].n \in Nat
          BY <1>5 DEF Packets
        <5> QED BY <5>1, <5>3, <5>4
      <4>4. queue'[u] = w /\ addressees'[u] = A /\ Len(m_queue'[q]) = 0
        BY <1>9, <3>1, <4>1
      <4> QED BY <4>1, <4>2, <4>3, <4>4
    <3>2. CASE u # t
      <4>1. /\ queue'[u] = queue[u] /\ addressees'[u] = addressees[u] /\ source[u] = q
            /\ m_queue'[q] = m_queue[q]
        BY <1>9, <2>2, <3>2
      <4> QED BY <1>1, <4>1 DEF OrderInv
    <3> QED BY <3>1, <3>2
  <2> QED BY <1>9, <2>1, <2>2 DEF OrderInv, Ascending, history
<1>16. InOrder'
  BY <1>1, <1>9 DEF InOrder, history
<1>17. SolidInv'
  <2>1. ASSUME NEW q \in Players
        PROVE  \A i \in 1 .. Len(m_queue'[q]) :
                  Plain(q, m_queue'[q][i]) => m_queue'[q][i].n \notin solid[q]
    <3>1. CASE q = p
      BY <1>9, <3>1
    <3>2. CASE q # p
      BY <1>1, <1>9, <3>2 DEF SolidInv, NoneSolid
    <3> QED BY <3>1, <3>2
  <2>2. ASSUME NEW q \in Players, NEW u \in Threads, source'[u] = q
        PROVE  \A i \in 1 .. Len(queue'[u]) :
                  Plain(q, queue'[u][i]) => queue'[u][i].n \notin solid[q]
    <3>1. CASE u = t
      BY <1>1, <1>3, <1>4, <1>9, <2>2, <3>1 DEF SolidInv, NoneSolid
    <3>2. CASE u # t
      BY <1>1, <1>9, <2>2, <3>2 DEF SolidInv, NoneSolid
    <3> QED BY <3>1, <3>2
  <2> QED BY <1>1, <1>9, <2>1, <2>2 DEF SolidInv, NoneSolid, history
<1>18. QueueBound'
  <2>1. Len(m_queue'[p]) = 0 /\ MaxQueue \in Nat \ {0}
    BY <1>9, BroadcastAssumption
  <2> QED BY <1>1, <1>9, <2>1 DEF QueueBound
<1>19. Kept'
  <2>1. ASSUME NEW q \in Has_m_socket, NEW n \in solid[q]
        PROVE  Waits(q, n)' \/ OnItsWay(q, n)' \/ Sent(q, n)'
    <3>1. q \in Players
      BY DEF Has_m_socket
    <3>2. CASE Sent(q, n)
      BY <1>9, <3>2 DEF Sent, history
    <3>3. CASE OnItsWay(q, n)
      <4>1. PICK u \in Threads : source[u] = q /\ \E i \in 1 .. Len(queue[u]) :
               queue[u][i].n = n /\ (i > 1 \/ q \in addressees[u])
        BY <3>3 DEF OnItsWay
      <4>2. u # t
        BY <1>9, <3>1, <4>1, BroadcastAssumption
      <4> QED BY <1>9, <4>1, <4>2 DEF OnItsWay
    <3>4. CASE Waits(q, n) /\ q # p
      BY <1>9, <3>1, <3>4 DEF Waits
    <3>5. CASE Waits(q, n) /\ q = p
      <4>1. PICK i \in 1 .. Len(w) : w[i].n = n
        BY <1>4, <3>5 DEF Waits
      <4>2. i > 1 \/ p \in A
        <5>1. i = 1 => ~Plain(p, w[1])
          BY <1>1, <1>3, <1>4, <2>1, <3>5, <4>1 DEF SolidInv, NoneSolid
        <5> QED BY <1>5, <1>8, <5>1
      <4> QED BY <1>9, <3>5, <4>1, <4>2 DEF OnItsWay
    <3> QED BY <1>1, <2>1, <3>2, <3>3, <3>4, <3>5 DEF Kept
  <2> QED BY <1>9, <1>11, <2>1 DEF Kept, history
<1> QED BY <1>12, <1>13, <1>14, <1>15, <1>16, <1>17, <1>18, <1>19 DEF IInv

\* a thread sends the first packet of the queue to one of those who are to get it
LEMMA SendStep ==
    ASSUME IInv, NEW t \in Threads, SendPacket(t)
    PROVE  IInv'
<1>1. TypeOK /\ StageInv /\ LockInv /\ OrderInv /\ InOrder /\ SolidInv /\ QueueBound /\ Kept
  BY DEF IInv
<1>2. PICK d \in addressees[t] : d = Addressee(t)
  BY <1>1, AddresseeIsOne DEF SendPacket
<1>3. d \in Players /\ addressees[t] \in SUBSET Players
  BY <1>1 DEF TypeOK
<1>4. PICK p \in Players : p = source[t]
  BY <1>1 DEF SendPacket, LockInv, TypeOK
<1>5. PICK w \in Seq(Packets) : w = queue[t]
  BY <1>1 DEF TypeOK
<1>6. w # <<>> /\ Head(w) = w[1] /\ w[1] \in Packets /\ Len(w) \in Nat \ {0}
  BY <1>1, <1>5, TailFacts DEF SendPacket, LockInv
<1>7. PICK n \in Nat : n = w[1].n
  BY <1>6 DEF Packets
<1>8. PICK g \in Seq(Nat) : g = got[d][p]
  BY <1>1, <1>3 DEF TypeOK
<1>9. PICK k \in Nat : k = Len(g)
  OBVIOUS
<1>10. PICK h \in Seq(Nat) : h = Append(g, n)
  BY <1>7, <1>8, AppendFacts
<1>11. Len(h) = k + 1 /\ h[k + 1] = n /\ \A i \in 1 .. k : h[i] = g[i]
  BY <1>7, <1>8, <1>9, <1>10, AppendFacts
<1>12. UNCHANGED <<stage, sockets, m_queue, m_listeners, m_thread_players, config, pc,
                   my_players, source, queue, made, solid>>
  BY DEF SendPacket
<1>13. got' \in {got, [got EXCEPT ![d][p] = h]} /\ (m_socket[d] # 0 => got' = [got EXCEPT ![d][p] = h])
  BY <1>1, <1>2, <1>3, <1>4, <1>5, <1>6, <1>7, <1>8, <1>10 DEF SendPacket, TypeOK
<1>14. /\ \A l, q \in Players : l # d \/ q # p => got'[l][q] = got[l][q]
       /\ got'[d][p] = g \/ got'[d][p] = h
       /\ m_socket[d] # 0 => got'[d][p] = h
       /\ got' \in [Players -> [Players -> Seq(Nat)]]
  <2>1. CASE got' = got
    BY <1>1, <1>8, <1>13, <2>1 DEF TypeOK
  <2>2. CASE got' = [got EXCEPT ![d][p] = h]
    <3>1. PICK r \in [Players -> Seq(Nat)] : r = [got[d] EXCEPT ![p] = h]
      BY <1>1, <1>3 DEF TypeOK
    <3>2. r[p] = h /\ \A q \in Players \ {p} : r[q] = got[d][q]
      BY <1>1, <1>3, <3>1 DEF TypeOK
    <3>3. got' = [got EXCEPT ![d] = r]
      BY <2>2, <3>1
    <3>4. got'[d] = r /\ \A l \in Players \ {d} : got'[l] = got[l]
      BY <1>1, <1>3, <3>3 DEF TypeOK
    <3>5. got' \in [Players -> [Players -> Seq(Nat)]]
      BY <1>1, <3>3 DEF TypeOK
    <3>6. \A l, q \in Players : l # d \/ q # p => got'[l][q] = got[l][q]
      BY <3>2, <3>4
    <3> QED BY <3>2, <3>4, <3>5, <3>6
  <2> QED BY <1>13, <2>1, <2>2
<1>15. /\ addressees'[t] = addressees[t] \ {d}
       /\ \A u \in Threads \ {t} : addressees'[u] = addressees[u]
       /\ addressees' \in [Threads -> SUBSET Players]
  BY <1>1, <1>2 DEF SendPacket, TypeOK
<1>16. \A u \in Threads : source[u] = p => u = t
  BY <1>1, <1>4, BroadcastAssumption DEF LockInv
<1>17. Has_m_socket' = Has_m_socket
  BY <1>12 DEF Has_m_socket
<1>18. TypeOK'
  BY <1>1, <1>12, <1>14, <1>15 DEF TypeOK, config, sockets
<1>19. StageInv'
  BY <1>1, <1>12, <1>17 DEF StageInv, sockets
<1>20. LockInv'
  BY <1>1, <1>12, <1>15 DEF LockInv, SendPacket
<1>21. /\ \A i \in 1 .. k : g[i] < n /\ g[i] \in Nat
       /\ n <= made[p]
       /\ \A j \in 1 .. Len(m_queue[p]) : n < m_queue[p][j].n
  <2>1. \A i \in 1 .. k : g[i] < n
    BY <1>1, <1>2, <1>3, <1>4, <1>5, <1>7, <1>8, <1>9 DEF OrderInv
  <2>2. \A i \in 1 .. k : g[i] \in Nat
    BY <1>9
  <2>3. n <= made[p] /\ \A j \in 1 .. Len(m_queue[p]) : n < m_queue[p][j].n
    <3>1. 1 \in 1 .. Len(w)
      BY <1>6
    <3>2. Ascending(w, made[p])
      BY <1>1, <1>4, <1>5 DEF OrderInv
    <3>3. \A j \in 1 .. Len(m_queue[p]) : w[1].n < m_queue[p][j].n
      BY <1>1, <1>4, <1>5, <3>1 DEF OrderInv
    <3> QED BY <1>7, <3>1, <3>2, <3>3 DEF Ascending
  <2> QED BY <2>1, <2>2, <2>3
\* what holds of each number that a listener has got, and of the new one
<1>22. OrderInv'
  <2>1. ASSUME NEW q \in Players, NEW l \in Players, NEW i \in 1 .. Len(got'[l][q])
        PROVE  /\ got'[l][q][i] <= made[q]
               /\ \A j \in 1 .. Len(m_queue[q]) : got'[l][q][i] < m_queue[q][j].n
               /\ \A u \in Threads : source[u] = q =>
                     /\ got'[l][q][i] <= queue[u][1].n
                     /\ l \in addressees'[u] => got'[l][q][i] < queue[u][1].n
    <3>1. CASE i \in 1 .. Len(got[l][q]) /\ got'[l][q][i] = got[l][q][i]
      <4>1. \A u \in Threads : l \in addressees'[u] => l \in addressees[u]
        BY <1>15
      <4> QED BY <1>1, <3>1, <4>1 DEF OrderInv
    <3>2. CASE l = d /\ q = p /\ got'[l][q] = h /\ i = k + 1
      <4>1. got'[l][q][i] = n
        BY <1>11, <3>2
      <4>2. \A u \in Threads : source[u] = q => u = t /\ queue[u][1].n = n /\ l \notin addressees'[u]
        BY <1>5, <1>7, <1>15, <1>16, <3>2
      <4> QED BY <1>7, <1>21, <3>2, <4>1, <4>2
    <3>3. CASE got'[l][q] = got[l][q]
      BY <3>1, <3>3
    <3>4. CASE l = d /\ q = p /\ got'[l][q] = h
      <4>1. i \in 1 .. k + 1 /\ got[l][q] = g /\ Len(got[l][q]) = k
        BY <1>8, <1>9, <1>11, <3>4
      <4>2. i = k + 1 \/ i \in 1 .. k
        BY <4>1
      <4>3. i \in 1 .. k => got'[l][q][i] = got[l][q][i]
        BY <1>11, <3>4, <4>1
      <4> QED BY <3>1, <3>2, <3>4, <4>1, <4>2, <4>3
    <3> QED BY <1>8, <1>14, <3>3, <3>4
  <2> QED BY <1>1, <1>12, <2>1 DEF OrderInv, Ascending
<1>23. InOrder'
  <2>1. ASSUME NEW l \in Players, NEW q \in Players, NEW i \in 1 .. Len(got'[l][q]) - 1
        PROVE  got'[l][q][i] < got'[l][q][i + 1]
    <3>1. CASE got'[l][q] = got[l][q]
      BY <1>1, <3>1 DEF InOrder
    <3>2. CASE l = d /\ q = p /\ got'[l][q] = h
      <4>1. \A j \in 1 .. k - 1 : g[j] < g[j + 1]
        BY <1>1, <1>3, <1>8, <1>9 DEF InOrder
      <4>2. got'[l][q][i] = h[i] /\ got'[l][q][i + 1] = h[i + 1] /\ i \in 1 .. k
        BY <1>11, <3>2
      <4>3. h[i] = g[i]
        BY <1>11, <4>2
      <4>4. CASE i = k
        <5>1. h[i + 1] = n /\ g[i] < n
          BY <1>11, <1>21, <4>2, <4>4
        <5> QED BY <4>2, <4>3, <5>1
      <4>5. CASE i # k
        <5>1. i \in 1 .. k - 1 /\ i + 1 \in 1 .. k
          BY <4>2, <4>5
        <5>2. h[i + 1] = g[i + 1] /\ g[i] < g[i + 1]
          BY <1>11, <4>1, <5>1
        <5> QED BY <4>2, <4>3, <5>2
      <4> QED BY <4>4, <4>5
    <3> QED BY <1>8, <1>14, <3>1, <3>2
  <2> QED BY <2>1 DEF InOrder
<1>24. SolidInv' /\ QueueBound'
  BY <1>1, <1>12 DEF SolidInv, QueueBound, NoneSolid
<1>25. Kept'
  <2>1. ASSUME NEW q \in Has_m_socket, NEW m \in solid[q]
        PROVE  Waits(q, m) \/ OnItsWay(q, m)' \/ Sent(q, m)'
    <3>1. q \in Players
      BY DEF Has_m_socket
    <3>2. CASE Sent(q, m)
      <4>1. PICK i \in 1 .. Len(got[q][q]) : got[q][q][i] = m
        BY <3>2 DEF Sent
      <4>2. i \in 1 .. Len(got'[q][q]) /\ got'[q][q][i] = m
        <5>1. CASE got'[q][q] = got[q][q]
          BY <4>1, <5>1
        <5>2. CASE q = d /\ q = p /\ got'[q][q] = h
          <6>1. i \in 1 .. k /\ g[i] = m
            BY <1>8, <1>9, <4>1, <5>2
          <6>2. i \in 1 .. k + 1 /\ h[i] = m
            BY <1>11, <6>1
          <6> QED BY <1>11, <5>2, <6>2
        <5> QED BY <1>8, <1>14, <3>1, <5>1, <5>2
      <4> QED BY <4>2 DEF Sent
    <3>3. CASE OnItsWay(q, m)
      <4>0. PICK u \in Threads : source[u] = q /\ \E i \in 1 .. Len(queue[u]) :
               queue[u][i].n = m /\ (i > 1 \/ q \in addressees[u])
        BY <3>3 DEF OnItsWay
      <4>1. PICK i \in 1 .. Len(queue[u]) :
               source[u] = q /\ queue[u][i].n = m /\ (i > 1 \/ q \in addressees[u])
        BY <4>0
      <4>2. CASE i > 1 \/ q \in addressees'[u]
        BY <1>12, <4>1, <4>2 DEF OnItsWay
      <4>3. CASE ~(i > 1) /\ q \notin addressees'[u]
        <5>1. u = t /\ q = d /\ q = p /\ i = 1
          BY <1>4, <1>15, <4>1, <4>3
        <5>2. got'[q][q] = h /\ m = n
          BY <1>1, <1>5, <1>7, <1>14, <4>1, <5>1 DEF StageInv
        <5>3. k + 1 \in 1 .. Len(h) /\ h[k + 1] = m
          BY <1>11, <5>2
        <5> QED BY <5>2, <5>3 DEF Sent
      <4> QED BY <4>2, <4>3
    <3> QED BY <1>1, <2>1, <3>2, <3>3 DEF Kept
  <2>2. \A m : \A q \in Players : Waits(q, m)' <=> Waits(q, m)
    BY <1>12 DEF Waits
  <2> QED BY <1>12, <1>17, <2>1, <2>2 DEF Kept, Has_m_socket
<1> QED BY <1>18, <1>19, <1>20, <1>22, <1>23, <1>24, <1>25 DEF IInv

\* the next packet of the queue; the player has got the first if it had to
LEMMA NextPacketStep ==
    ASSUME IInv, NEW t \in Threads, NextPacket(t)
    PROVE  IInv'
<1>1. TypeOK /\ StageInv /\ LockInv /\ OrderInv /\ InOrder /\ SolidInv /\ QueueBound /\ Kept
  BY DEF IInv
<1>2. PICK p \in Players : p = source[t]
  BY <1>1 DEF NextPacket, LockInv, TypeOK
<1>3. PICK w \in Seq(Packets) : w = queue[t]
  BY <1>1 DEF TypeOK
<1>4. PICK m \in Nat \ {0} : m = Len(w) /\ m > 1
  BY <1>3 DEF NextPacket
<1>5. PICK v \in Seq(Packets) : v = Tail(w)
  BY <1>4, TailFacts, EmptySeq
<1>6. Len(v) = m - 1 /\ v # <<>> /\ \A i \in 1 .. m - 1 : v[i] = w[i + 1]
  <2>1. w # <<>>
    BY <1>4
  <2>2. Len(v) = m - 1 /\ \A i \in 1 .. m - 1 : v[i] = w[i + 1]
    BY <1>4, <1>5, <2>1, TailFacts
  <2>3. Len(v) # 0
    BY <1>4, <2>2
  <2> QED BY <2>2, <2>3
<1>7. w[2] \in Packets /\ v[1] = w[2] /\ w[1] \in Packets
  BY <1>4, <1>6
<1>8. PICK A \in SUBSET Players : A = Addressees(p, w[2])
  BY <1>1 DEF Addressees, TypeOK
<1>9. A \ {p} \subseteq m_listeners[p]
  BY <1>8 DEF Addressees
<1>10. p \in A \/ Plain(p, w[2])
  BY <1>7, <1>8 DEF Addressees, Plain, Packets
<1>11. /\ UNCHANGED <<stage, sockets, m_queue, m_listeners, m_thread_players, config, pc,
                      my_players, source, history>>
       /\ pc[t] = "send" /\ addressees[t] = {}
       /\ queue'[t] = v /\ addressees'[t] = A
       /\ \A u \in Threads \ {t} : queue'[u] = queue[u] /\ addressees'[u] = addressees[u]
       /\ queue' \in [Threads -> Seq(Packets)] /\ addressees' \in [Threads -> SUBSET Players]
  BY <1>1, <1>2, <1>3, <1>5, <1>8 DEF NextPacket, TypeOK
<1>12. Has_m_socket' = Has_m_socket
  BY <1>11 DEF Has_m_socket
<1>13. TypeOK'
  BY <1>1, <1>11 DEF TypeOK, config, history, sockets
<1>14. StageInv'
  BY <1>1, <1>11, <1>12 DEF StageInv, history, sockets
<1>15. LockInv'
  <2>1. ASSUME NEW u \in Threads
        PROVE  /\ pc[u] # "send" => addressees'[u] = {}
               /\ pc[u] = "send" =>
                     /\ queue'[u] # <<>>
                     /\ addressees'[u] \ {source[u]} \subseteq m_listeners[source[u]]
    <3>1. CASE u = t
      BY <1>2, <1>6, <1>9, <1>11, <3>1
    <3>2. CASE u # t
      BY <1>1, <1>11, <3>2 DEF LockInv
    <3> QED BY <3>1, <3>2
  <2> QED BY <1>1, <1>11, <2>1 DEF LockInv
<1>16. OrderInv'
  <2>1. ASSUME NEW q \in Players, NEW u \in Threads, source[u] = q
        PROVE  /\ Ascending(queue'[u], made[q])
               /\ \A i \in 1 .. Len(queue'[u]), j \in 1 .. Len(m_queue[q]) :
                     queue'[u][i].n < m_queue[q][j].n
               /\ \A l \in Players : \A k \in 1 .. Len(got[l][q]) :
                     /\ got[l][q][k] <= queue'[u][1].n
                     /\ l \in addressees'[u] => got[l][q][k] < queue'[u][1].n
    <3>1. CASE u = t
      <4>1. q = p /\ queue'[u] = v
        BY <1>2, <1>11, <2>1, <3>1
      <4>2. Ascending(w, made[p])
        BY <1>1, <1>2, <1>3 DEF OrderInv
      <4>3. Ascending(v, made[p])
        <5>1. \A i \in 1 .. m - 1 : i + 1 \in 1 .. m
          BY <1>4
        <5>2. \A i, j \in 1 .. m - 1 : i < j => v[i].n < v[j].n
          <6>1. ASSUME NEW i \in 1 .. m - 1, NEW j \in 1 .. m - 1, i < j PROVE v[i].n < v[j].n
            <7>1. i + 1 < j + 1
              BY <6>1
            <7> QED BY <1>4, <1>6, <4>2, <5>1, <7>1 DEF Ascending
          <6> QED BY <6>1
        <5>3. \A i \in 1 .. m - 1 : v[i].n <= made[p]
          BY <1>4, <1>6, <4>2, <5>1 DEF Ascending
        <5> QED BY <1>6, <5>2, <5>3 DEF Ascending
      <4>4. \A i \in 1 .. m - 1, j \in 1 .. Len(m_queue[p]) : v[i].n < m_queue[p][j].n
        <5>1. \A i \in 1 .. m, j \in 1 .. Len(m_queue[p]) : w[i].n < m_queue[p][j].n
          BY <1>1, <1>2, <1>3, <1>4 DEF OrderInv
        <5>2. \A i \in 1 .. m - 1 : i + 1 \in 1 .. m
          BY <1>4
        <5> QED BY <1>6, <5>1, <5>2
      <4>5. ASSUME NEW l \in Players, NEW k \in 1 .. Len(got[l][p])
            PROVE  got[l][p][k] < v[1].n /\ got[l][p][k] <= v[1].n
        <5>1. got[l][p][k] <= w[1].n
          BY <1>1, <1>2, <1>3 DEF OrderInv
        <5>2. w[1].n < w[2].n
          BY <1>4, <4>2 DEF Ascending
        <5>3. got[l][p] \in Seq(Nat)
          BY <1>1 DEF TypeOK
        <5>4. got[l][p][k] \in Nat
          BY <5>3
        <5>5. w[1].n \in Nat /\ w[2].n \in Nat
          BY <1>7 DEF Packets
        <5> QED BY <1>7, <5>1, <5>2, <5>4, <5>5
      <4> QED BY <1>6, <4>1, <4>3, <4>4, <4>5
    <3>2. CASE u # t
      <4>1. queue'[u] = queue[u] /\ addressees'[u] = addressees[u]
        BY <1>11, <3>2
      <4> QED BY <1>1, <2>1, <4>1 DEF OrderInv
    <3> QED BY <3>1, <3>2
  <2> QED BY <1>1, <1>11, <2>1 DEF OrderInv, Ascending, history
<1>17. InOrder'
  BY <1>1, <1>11 DEF InOrder, history
<1>18. SolidInv'
  <2>1. ASSUME NEW q \in Players, NEW u \in Threads, source[u] = q
        PROVE  \A i \in 1 .. Len(queue'[u]) :
                  Plain(q, queue'[u][i]) => queue'[u][i].n \notin solid[q]
    <3>1. CASE u = t
      <4>1. \A i \in 1 .. m : Plain(p, w[i]) => w[i].n \notin solid[p]
        BY <1>1, <1>2, <1>3, <1>4 DEF SolidInv, NoneSolid
      <4>2. \A i \in 1 .. m - 1 : i + 1 \in 1 .. m
        BY <1>4
      <4> QED BY <1>2, <1>6, <1>11, <2>1, <3>1, <4>1, <4>2
    <3>2. CASE u # t
      BY <1>1, <1>11, <2>1, <3>2 DEF SolidInv, NoneSolid
    <3> QED BY <3>1, <3>2
  <2> QED BY <1>1, <1>11, <2>1 DEF SolidInv, NoneSolid, history
<1>19. QueueBound'
  BY <1>1, <1>11 DEF QueueBound
<1>20. Kept'
  <2>1. ASSUME NEW q \in Has_m_socket, NEW n \in solid[q], OnItsWay(q, n)
        PROVE  OnItsWay(q, n)'
    <3>1. q \in Players
      BY DEF Has_m_socket
    <3>2. PICK u \in Threads : source[u] = q /\ \E i \in 1 .. Len(queue[u]) :
             queue[u][i].n = n /\ (i > 1 \/ q \in addressees[u])
      BY <2>1 DEF OnItsWay
    <3>3. CASE u # t
      BY <1>11, <3>2, <3>3 DEF OnItsWay
    <3>4. CASE u = t
      <4>1. PICK i \in 1 .. m : w[i].n = n /\ i > 1
        BY <1>3, <1>4, <1>11, <3>2, <3>4
      <4>2. i - 1 \in 1 .. m - 1 /\ (i - 1) + 1 = i /\ v[i - 1].n = n
        BY <1>6, <4>1
      <4>3. i - 1 > 1 \/ p \in A
        <5>1. i = 2 => ~Plain(p, w[2])
          BY <1>1, <1>2, <1>3, <1>4, <2>1, <3>2, <3>4, <4>1 DEF SolidInv, NoneSolid
        <5> QED BY <1>10, <4>1, <5>1
      <4> QED BY <1>2, <1>6, <1>11, <3>2, <3>4, <4>2, <4>3 DEF OnItsWay
    <3> QED BY <3>3, <3>4
  <2>2. \A n : \A q \in Players : (Waits(q, n)' <=> Waits(q, n)) /\ (Sent(q, n)' <=> Sent(q, n))
    BY <1>11 DEF Waits, Sent, history
  <2> QED BY <1>1, <1>11, <1>12, <2>1, <2>2 DEF Kept, Has_m_socket, history
<1> QED BY <1>13, <1>14, <1>15, <1>16, <1>17, <1>18, <1>19, <1>20 DEF IInv

\* the last packet has been sent, and the locks are let go
LEMMA ProcessedStep ==
    ASSUME IInv, NEW t \in Threads, Processed(t)
    PROVE  IInv'
<1>1. TypeOK /\ StageInv /\ LockInv /\ OrderInv /\ InOrder /\ SolidInv /\ QueueBound /\ Kept
  BY DEF IInv
<1>2. /\ UNCHANGED <<stage, sockets, m_queue, m_listeners, m_thread_players, config, addressees,
                     history>>
      /\ pc[t] = "send" /\ addressees[t] = {} /\ Len(queue[t]) = 1
      /\ pc'[t] = "each" /\ source'[t] = None
      /\ \A u \in Threads \ {t} : /\ source'[u] = source[u] /\ queue'[u] = queue[u]
                                  /\ pc'[u] = pc[u]
  BY <1>1 DEF Processed, TypeOK
<1>3. Has_m_socket' = Has_m_socket
  BY <1>2 DEF Has_m_socket
<1>4. TypeOK'
  <2>1. queue' \in [Threads -> Seq(Packets)]
    <3>1. <<>> \in Seq(Packets)
      OBVIOUS
    <3> QED BY <1>1, <3>1 DEF Processed, TypeOK
  <2>2. /\ source' \in [Threads -> Players \union {None}]
        /\ my_players' \in [Threads -> SUBSET Players]
        /\ pc' \in [Threads -> {"none", "work", "each", "send"}]
    BY <1>1 DEF Processed, TypeOK
  <2> QED BY <1>1, <1>2, <2>1, <2>2 DEF TypeOK, config, history, sockets
<1>5. StageInv'
  BY <1>1, <1>2, <1>3 DEF StageInv, history, sockets
<1>6. LockInv'
  BY <1>1, <1>2 DEF LockInv
<1>7. \A u \in Threads, q \in Players : source'[u] = q => u # t /\ source[u] = q /\ queue'[u] = queue[u]
  BY <1>2, BroadcastAssumption
<1>8. OrderInv' /\ InOrder'
  <2>1. ASSUME NEW q \in Players, NEW u \in Threads, source'[u] = q
        PROVE  /\ Ascending(queue'[u], made[q])
               /\ \A i \in 1 .. Len(queue'[u]), j \in 1 .. Len(m_queue[q]) :
                     queue'[u][i].n < m_queue[q][j].n
               /\ \A l \in Players : \A k \in 1 .. Len(got[l][q]) :
                     /\ got[l][q][k] <= queue'[u][1].n
                     /\ l \in addressees[u] => got[l][q][k] < queue'[u][1].n
    <3>1. source[u] = q /\ queue'[u] = queue[u]
      BY <1>7, <2>1
    <3> QED BY <1>1, <3>1 DEF OrderInv
  <2>2. UNCHANGED <<m_queue, made, got, addressees>>
    BY <1>2 DEF history
  <2> QED BY <1>1, <2>1, <2>2 DEF OrderInv, InOrder, Ascending
<1>9. SolidInv' /\ QueueBound'
  BY <1>1, <1>2, <1>7 DEF SolidInv, QueueBound, NoneSolid, history
<1>10. Kept'
  <2>1. ASSUME NEW q \in Players, NEW n, OnItsWay(q, n)
        PROVE  OnItsWay(q, n)'
    <3>1. PICK u \in Threads : source[u] = q /\ \E i \in 1 .. Len(queue[u]) :
             queue[u][i].n = n /\ (i > 1 \/ q \in addressees[u])
      BY <2>1 DEF OnItsWay
    <3>2. u # t
      BY <1>2, <3>1
    <3> QED BY <1>2, <3>1, <3>2 DEF OnItsWay
  <2>2. \A n : \A q \in Players : (Waits(q, n)' <=> Waits(q, n)) /\ (Sent(q, n)' <=> Sent(q, n))
    BY <1>2 DEF Waits, Sent, history
  <2>3. Has_m_socket \subseteq Players
    BY DEF Has_m_socket
  <2> QED BY <1>1, <1>2, <1>3, <2>1, <2>2, <2>3 DEF Kept, history
<1> QED BY <1>4, <1>5, <1>6, <1>8, <1>9, <1>10 DEF IInv

-----------------------------------------------------------------------------
LEMMA InvInit == Init => IInv
<1> SUFFICES ASSUME Init PROVE IInv
  OBVIOUS
<1>1. TypeOK
  <2>1. /\ stage \in [Players -> {"new", "in", "linkdead", "leaving", "closed", "gone"}]
        /\ m_socket \in [Players -> 0 .. 2] /\ m_listeners \in [Players -> SUBSET Players]
        /\ m_thread_players \in [Threads -> SUBSET Players]
        /\ released \in Players \union {None}
    BY DEF Init
  <2>2. /\ pc \in [Threads -> {"none", "work", "each", "send"}]
        /\ my_players \in [Threads -> SUBSET Players]
        /\ source \in [Threads -> Players \union {None}]
        /\ addressees \in [Threads -> SUBSET Players]
    BY DEF Init
  <2>3. <<>> \in Seq(Packets) /\ <<>> \in Seq(Nat)
    OBVIOUS
  <2>4. m_queue \in [Players -> Seq(Packets)] /\ queue \in [Threads -> Seq(Packets)]
    BY <2>3 DEF Init
  <2>5. /\ made \in [Players -> Nat] /\ solid \in [Players -> SUBSET Nat]
        /\ reloads \in 0 .. MaxReloads
    BY BroadcastAssumption DEF Init
  <2>6. got \in [Players -> [Players -> Seq(Nat)]]
    BY <2>3 DEF Init
  <2>7. m_num_threads \in Counts /\ m_stop \in BOOLEAN /\ reload \in Counts \union {None}
    BY BroadcastAssumption DEF Init
  <2> QED BY <2>1, <2>2, <2>4, <2>5, <2>6, <2>7 DEF TypeOK
<1>2. StageInv
  BY BroadcastAssumption DEF Init, StageInv, Has_m_socket
<1>3. LockInv
  BY DEF Init, LockInv
<1>4. \A p \in Players : /\ Len(m_queue[p]) = 0 /\ solid[p] = {}
                         /\ \A l \in Players : Len(got[l][p]) = 0
                         /\ \A t \in Threads : source[t] # p
  BY BroadcastAssumption DEF Init
<1>5. OrderInv /\ InOrder
  BY <1>4 DEF OrderInv, InOrder, Ascending
<1>6. SolidInv /\ QueueBound
  BY <1>4, BroadcastAssumption DEF SolidInv, NoneSolid, QueueBound
<1>7. Kept
  BY <1>4 DEF Kept, Has_m_socket
<1> QED BY <1>1, <1>2, <1>3, <1>5, <1>6, <1>7 DEF IInv

LEMMA InvNext == IInv /\ [Next]_vars => IInv'
<1> SUFFICES ASSUME IInv, [Next]_vars PROVE IInv'
  OBVIOUS
<1>1. ASSUME NEW p \in Players,
             \/ CreatePacketBroadcaster(p) \/ Disconnect(p) \/ Leave(p)
             \/ RemoveReference(p) \/ ChangeSocket(p)
             \/ DeletePacketBroadcaster(p) \/ ForgetSocket(p)
      PROVE  IInv'
  BY <1>1, StageStep
<1>2. ASSUME NEW p \in Players, FreeAtLogout(p) PROVE IInv'
  BY <1>2, FreeStep
<1>3. ASSUME NEW p \in Players, NEW q \in Players, AddListener(q, p) \/ RemoveListener(q, p)
      PROVE  IInv'
  BY <1>3, ListStep
<1>4. ASSUME NEW p \in Players, NEW skip \in BOOLEAN, NEW a \in Addressing,
             QueuePacket(p, skip, a[1], a[2])
      PROVE  IInv'
  BY <1>4, QueueStep
<1>5. ASSUME NEW t \in Threads, ThreadStep(t) PROVE IInv'
  <2>1. CASE BroadcastPackets(t) \/ SkipEmpty(t) \/ Sleep(t) \/ Return(t)
    BY <2>1, LoopStep
  <2>2. CASE ProcessQueue(t)
    BY <2>2, ProcessStep
  <2>3. CASE SendPacket(t)
    BY <2>3, SendStep
  <2>4. CASE NextPacket(t)
    BY <2>4, NextPacketStep
  <2>5. CASE Processed(t)
    BY <2>5, ProcessedStep
  <2> QED BY <1>5, <2>1, <2>2, <2>3, <2>4, <2>5 DEF ThreadStep
<1>6. CASE (\E n \in Counts : UpdateConfiguration(n)) \/ StartThreads \/ Stop
  BY <1>6, LoopStep
<1>7. CASE UNCHANGED vars
  <2>1. UNCHANGED <<m_queue, source, queue, addressees, made, solid, got>>
    BY <1>7 DEF vars
  <2>2. TypeOK' /\ StageInv' /\ LockInv' /\ Has_m_socket' = Has_m_socket
    BY <1>7 DEF vars, IInv, TypeOK, StageInv, LockInv, Has_m_socket
  <2> QED BY <2>1, <2>2, QuietStep
<1> QED BY <1>1, <1>2, <1>3, <1>4, <1>5, <1>6, <1>7 DEF Next

(***************************************************************************)
(* The invariant from which the theorems below follow holds throughout:    *)
(* who sends holds the locks of one player alone, packets go through       *)
(* m_queue and the queue of that thread in the order of their numbers, and *)
(* what QueuePacket may not drop is in one of the two or has been sent.    *)
(***************************************************************************)
THEOREM Invariance == Spec => []IInv
<1> QED BY InvInit, InvNext, PTL DEF Spec

(***************************************************************************)
(* A full queue drops movement and nothing else (QueuePacket): until the   *)
(* player is gone, a packet that may not be skipped waits, is on its way   *)
(* or has been sent to the player itself, and beyond MAX_QUEUE_SIZE no two *)
(* neighbours of a queue may both be skipped.                              *)
(***************************************************************************)
THEOREM NothingSolidIsDropped == Spec => []Inv
<1>1. IInv => Inv
  BY KeptElementwise DEF IInv, Inv
<1> QED BY <1>1, Invariance, PTL

(***************************************************************************)
(* Every listener gets the packets of a player in the order in which they  *)
(* were queued, none of them twice, also while two threads have the player *)
(* in their share (ProcessQueue).                                          *)
(***************************************************************************)
THEOREM DeliveryInOrder == Spec => []InOrder
<1>1. IInv => InOrder
  BY DEF IInv
<1> QED BY <1>1, Invariance, PTL

(***************************************************************************)
(* The broadcaster of a listener a thread is still to send to has its      *)
(* reference to the socket it points to, unless it is between the two      *)
(* steps of ChangeSocket (PlayerBroadcaster.cpp:19-28): FreeAtLogout comes *)
(* after the player is off all lists (Map::Remove, ~Player), ChangeSocket  *)
(* while it is on them.                                                    *)
(***************************************************************************)
THEOREM ListenersHaveSockets == Spec => []ListenerHasSocket
<1>1. ASSUME IInv, NEW t \in Threads, NEW d \in addressees[t] \ {source[t]}
      PROVE  d \in HasReference \/ (d = released /\ stage[d] = "linkdead")
  <2>1. TypeOK /\ StageInv /\ LockInv
    BY <1>1 DEF IInv
  <2>2. CASE pc[t] = "send"
    <3>1. source[t] \in Players
      BY <2>1, <2>2 DEF TypeOK, LockInv
    <3> QED BY <2>1, <2>2, <3>1 DEF StageInv, LockInv, HasReference, Has_m_socket
  <2>3. CASE pc[t] # "send"
    BY <2>1, <2>3 DEF LockInv
  <2> QED BY <2>2, <2>3
<1>2. IInv => ListenerHasSocket
  BY <1>1 DEF ListenerHasSocket
<1> QED BY <1>2, Invariance, PTL
=============================================================================
