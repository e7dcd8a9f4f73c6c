----------------------------- MODULE MapUpdate ------------------------------
(***************************************************************************)
(* MapManager::Update and far teleports (game/Maps/MapManager.cpp, Map.cpp,*)
(* Objects/Player.cpp, Handlers/MovementHandler.cpp).  In each tick the    *)
(* world thread updates all maps on two pools, one thread per part of a    *)
(* continent and a few for dungeons.  While they run, nobody may change    *)
(* map: far teleports are put off and executed when all updates are over,  *)
(* instances are created then, and the client acknowledges the new world   *)
(* to the world thread in some later tick.                                 *)
(***************************************************************************)
EXTENDS Integers, FiniteSets

CONSTANTS Players,       \* Player objects, members of one group that does not change
          Parts,         \* the WorldMaps: continents, or parts of them
          MapIdOf,       \* the continent a part belongs to
          Dungeon,       \* the map id of the one dungeon
          Homebind,      \* the part all players have their home in
          MaxInstances,  \* bound: instance ids
          MaxMoves,      \* bound, for each player: calls of TeleportTo, and switches
          None

Instances == 1 .. MaxInstances

ASSUME MapAssumption ==
    /\ MaxInstances \in Nat \ {0} /\ MaxMoves \in [Players -> Nat] /\ Homebind \in Parts
    /\ IsFiniteSet(Parts) /\ Parts \intersect Nat = {}
    /\ DOMAIN MapIdOf = Parts /\ \A k \in Parts : MapIdOf[k] # Dungeon
    /\ Dungeon \notin Parts /\ None \notin Parts \union {Dungeon}

Places == Parts \union Instances         \* Map objects
Dests  == Parts \union {Dungeon}         \* what a WorldLocation tells apart

VARIABLES
    player,    \* see TypeOK
    i_maps,    \* the dungeon maps that are loaded
    bound,     \* the instance the group is bound to, 0 if none
    maxId,     \* i_MaxInstanceId
    phase,     \* where the world thread is
    tpc,       \* what happens to a map in the current update
    finished,  \* i_continentUpdateFinished
    expected,  \* i_maxContinentThread
    moves      \* history: teleports and switches of a player, for the bound

vars  == <<player, i_maps, bound, maxId, phase, tpc, finished, expected, moves>>
dungeons == <<i_maps, bound, maxId>>
threads  == <<phase, tpc, finished, expected>>

MapId(x)    == IF x \in Parts THEN MapIdOf[x] ELSE Dungeon
DestOf(x)   == IF x \in Parts THEN x ELSE Dungeon          \* GetPosition
asyncMapUpdating == phase \in {"instances", "continents"}
Inside(x)   == {p \in Players : player[p].inWorld /\ player[p].loc = x}
Loaded      == bound \in i_maps
Active(x)   == tpc[x] \in {"run", "wait"}

Gone == [online |-> FALSE, inWorld |-> FALSE, loc |-> Homebind, near |-> FALSE, far |-> FALSE,
         dest |-> Homebind, told |-> None, scheduled |-> None, switch |-> None,
         creating |-> "no", early |-> FALSE]

\* players who have logged in at their home
Init ==
    /\ player = [p \in Players |-> [Gone EXCEPT !.online = TRUE, !.inWorld = TRUE]]
    /\ i_maps = {} /\ bound = 0 /\ maxId = 0
    /\ phase = "world" /\ tpc = [x \in Places |-> "idle"]
    /\ finished = 0 /\ expected = 0
    /\ moves = [p \in Players |-> 0]
-----------------------------------------------------------------------------
(* Parts of a teleport, on the record of the player. *)

\* SMSG_NEW_WORLD
SendNewWorld(r) == [r EXCEPT !.told = r.dest]

\* only a dungeon may have to be created first
ScheduleNewWorldOnFarTeleport(r) ==
    IF r.dest = Dungeon /\ ~Loaded
    THEN [r EXCEPT !.creating = "scheduled"]
    ELSE SendNewWorld(r)

\* once the destination lets the player in
ExecuteTeleportFar(r) ==
    ScheduleNewWorldOnFarTeleport(
        [r EXCEPT !.near = FALSE, !.inWorld = FALSE, !.far = TRUE])

\* Mutant: the teleport is executed although maps are being updated.
ScheduleFarTeleportAtOnce(r, d) == ExecuteTeleportFar([r EXCEPT !.dest = d])

\* TeleportTo writes m_teleport_dest at once, the rest may have to wait
ScheduleFarTeleport(r, d) ==
    IF asyncMapUpdating THEN [r EXCEPT !.dest = d, !.scheduled = d]
                        ELSE ExecuteTeleportFar([r EXCEPT !.dest = d])

\* CanPlayerEnter and Map::CanEnter: only a dungeon turns anybody away
CanEnter(d, ok) == ok \/ d = Dungeon

\* back where the player was, or home if that is refused
HandleReturnOnTeleportFail(r, old, ok) ==
    LET back == [r EXCEPT !.far = FALSE, !.told = None]
    IN  ScheduleFarTeleport(back, IF ok THEN old ELSE Homebind)

\* CreateInstance finds the map of the group's bind, loads it, or makes up an
\* instance
InstanceFor == IF bound # 0 THEN bound ELSE maxId + 1

\* DungeonMap::CanEnter: a map nobody was in yet refuses nobody
InstanceAdmits(ok) == ok \/ Loaded
-----------------------------------------------------------------------------
(* What players and scripts do, in the thread of their map or, between    *)
(* updates, in the world thread.                                           *)

MayAct(p) == /\ player[p].inWorld
             /\ phase = "world" \/ Active(player[p].loc)

\* TeleportTo another map, or home, which is always treated as another map
TeleportFar(p, d) ==
    /\ MayAct(p)
    /\ d = Homebind \/ MapId(player[p].loc) # MapId(d)
    /\ moves[p] < MaxMoves[p]
    /\ moves' = [moves EXCEPT ![p] = @ + 1]
    /\ player' = [player EXCEPT ![p] = ScheduleFarTeleport(@, d)]
    /\ UNCHANGED <<dungeons, threads>>

\* TeleportTo on the same map
TeleportNear(p, d) ==
    /\ MayAct(p)
    /\ MapId(player[p].loc) = MapId(d)
    /\ moves[p] < MaxMoves[p]
    /\ moves' = [moves EXCEPT ![p] = @ + 1]
    /\ player' = [player EXCEPT ![p] = [@ EXCEPT !.far = FALSE, !.near = TRUE, !.dest = d]]
    /\ UNCHANGED <<dungeons, threads>>

\* the client has landed; movement packets are read by the thread of the map
HandleMoveTeleportAck(p) ==
    /\ player[p].inWorld /\ Active(player[p].loc) /\ player[p].near
    /\ player' = [player EXCEPT ![p].near = FALSE]
    /\ UNCHANGED <<dungeons, threads, moves>>

IsBeingTeleported(r) == r.near \/ r.far \/ r.scheduled # None

\* Player::Update finds the player in another part of its continent
ScheduleInstanceSwitch(p, k) ==
    /\ player[p].inWorld /\ Active(player[p].loc)
    /\ ~IsBeingTeleported(player[p])
    /\ k # player[p].loc /\ MapId(k) = MapId(player[p].loc)
    /\ moves[p] < MaxMoves[p] /\ moves' = [moves EXCEPT ![p] = @ + 1]
    /\ player' = [player EXCEPT ![p].switch = k]
    /\ UNCHANGED <<dungeons, threads>>
-----------------------------------------------------------------------------
(* The world thread outside of the map update: packets of the sessions.    *)

\* MSG_MOVE_WORLDPORT_ACK, whether or not the client was told its new world; who
\* waits for an instance goes on waiting for it
HandleMoveWorldportAck(p, ok) ==
    LET r == [player[p] EXCEPT !.early = @ \/ player[p].told = None]
        i == InstanceFor
    IN  /\ phase = "world" /\ r.far
        /\ \/ /\ r.dest \in Parts /\ ok
              /\ player' = [player EXCEPT ![p] =
                     [r EXCEPT !.loc = r.dest, !.inWorld = TRUE, !.far = FALSE, !.told = None]]
              /\ UNCHANGED dungeons
           \/ /\ r.dest = Dungeon /\ ok
              /\ player' = [player EXCEPT ![p] =
                     [r EXCEPT !.loc = i, !.inWorld = TRUE, !.far = FALSE, !.told = None]]
              /\ i_maps' = i_maps \union {i} /\ bound' = i
              /\ maxId' = IF bound = 0 THEN i ELSE maxId
           \/ /\ r.dest = Dungeon /\ ~ok /\ InstanceAdmits(ok)
              /\ \E back \in BOOLEAN :
                    /\ CanEnter(DestOf(r.loc), back)
                    /\ player' = [player EXCEPT ![p] =
                           HandleReturnOnTeleportFail([r EXCEPT !.loc = i], DestOf(r.loc), back)]
              /\ UNCHANGED dungeons
        /\ UNCHANGED <<threads, moves>>

\* Mutant: the player stays among those an instance is to be created for.
LogoutPlayerKeeps(p, ok) ==
    /\ phase = "world" /\ player[p].online /\ ok
    /\ player' = [player EXCEPT ![p] = [Gone EXCEPT !.creating = player[p].creating]]
    /\ UNCHANGED <<dungeons, threads, moves>>

\* a player in transit is put into its new world first, then removed from it;
\* a refused dungeon changes nothing that stays
LogoutPlayer(p, ok) ==
    /\ phase = "world" /\ player[p].online
    /\ player' = [player EXCEPT ![p] = Gone]
    /\ \/ /\ player[p].far /\ player[p].dest = Dungeon /\ ok
          /\ i_maps' = i_maps \union {InstanceFor} /\ bound' = InstanceFor
          /\ maxId' = IF bound = 0 THEN InstanceFor ELSE maxId
       \/ /\ IF player[p].far /\ player[p].dest = Dungeon
             THEN ~ok /\ InstanceAdmits(ok) ELSE ok
          /\ UNCHANGED dungeons
    /\ UNCHANGED <<threads, moves>>

\* Mutant: an instance is reset while members of the group are in it.
ResetInstancesAlways(p) ==
    /\ phase = "world" /\ player[p].inWorld /\ bound # 0 /\ maxId < MaxInstances
    /\ \A q \in Players : player[q].online
    /\ bound' = 0
    /\ UNCHANGED <<player, i_maps, maxId, threads, moves>>

\* CMSG_RESET_INSTANCES: the leader, all members online, nobody inside; the map
\* unloads later
ResetInstances(p) ==
    /\ phase = "world" /\ player[p].inWorld /\ bound # 0 /\ maxId < MaxInstances
    /\ \A q \in Players : player[q].online
    /\ Inside(bound) = {}
    /\ bound' = 0
    /\ UNCHANGED <<player, i_maps, maxId, threads, moves>>
-----------------------------------------------------------------------------
(* MapManager::Update.  No teleport is put off outside of an update, so    *)
(* its first ExecuteDelayedPlayerTeleports has nothing to do.              *)

\* maps with players are updated, empty ones until they have been so too long
UpdateBegin(S) ==
    /\ phase = "world"
    /\ S \subseteq Parts \union i_maps
    /\ \A x \in Parts \union i_maps : Inside(x) # {} => x \in S
    /\ tpc' = [x \in Places |-> IF x \in S THEN "run" ELSE "idle"]
    /\ expected' = Cardinality(S \intersect Parts) /\ finished' = 0
    /\ phase' = "instances"
    /\ UNCHANGED <<player, dungeons, moves>>

\* a continent has been updated; it goes on with players and packets until all
\* are, then with scripts
MarkContinentUpdateFinished(k) ==
    /\ tpc[k] = "run"
    /\ tpc' = [tpc EXCEPT ![k] = "wait"] /\ finished' = finished + 1
    /\ UNCHANGED <<player, dungeons, phase, expected, moves>>

ContinentDone(k) ==
    /\ tpc[k] = "wait" /\ finished = expected
    /\ tpc' = [tpc EXCEPT ![k] = "done"]
    /\ UNCHANGED <<player, dungeons, phase, finished, expected, moves>>

InstanceDone(i) ==
    /\ tpc[i] = "run"
    /\ tpc' = [tpc EXCEPT ![i] = "done"]
    /\ UNCHANGED <<player, dungeons, phase, finished, expected, moves>>

\* dungeons are updated again as long as continents are
InstancesDone ==
    /\ phase = "instances"
    /\ \A i \in Instances : tpc[i] # "run"
    /\ IF finished = expected \/ \A i \in Instances : tpc[i] = "idle"
       THEN phase' = "continents" /\ UNCHANGED tpc
       ELSE /\ tpc' = [x \in Places |-> IF x \in Instances /\ tpc[x] = "done" THEN "run"
                                                                            ELSE tpc[x]]
            /\ UNCHANGED phase
    /\ UNCHANGED <<player, dungeons, finished, expected, moves>>

SwitchInstance(r) ==
    IF r.switch = None THEN r
    ELSE [r EXCEPT !.switch = None,
                   !.loc = IF r.inWorld /\ MapId(r.loc) = MapId(r.switch) THEN r.switch ELSE @]

\* all threads have returned: SwitchPlayersInstances, then the set of
\* CreateNewInstancesForPlayersSync is swapped out
ContinentsDone ==
    /\ phase = "continents"
    /\ \A k \in Parts : tpc[k] \in {"idle", "done"}
    /\ player' = [p \in Players |->
                     LET r == SwitchInstance(player[p])
                     IN  IF r.creating = "no" THEN r ELSE [r EXCEPT !.creating = "taken"]]
    /\ tpc' = [x \in Places |-> "idle"] /\ phase' = "create"
    /\ UNCHANGED <<dungeons, finished, expected, moves>>

\* no longer in m_scheduledNewInstancesForPlayers
Unlisted(r) == [r EXCEPT !.creating = "no", !.early = FALSE]

\* Mutant: nobody is sent back when the new instance is full.
CreateNewInstanceForgets(p, ok) ==
    /\ phase = "create" /\ player[p].creating = "taken"
    /\ \/ player[p].far /\ player[p].dest = Dungeon /\ InstanceAdmits(ok)
       \/ ~player[p].far /\ ~ok
    /\ player' = [player EXCEPT ![p] = IF ok THEN SendNewWorld(Unlisted(@)) ELSE Unlisted(@)]
    /\ IF ok
       THEN /\ i_maps' = i_maps \union {InstanceFor} /\ bound' = InstanceFor
            /\ maxId' = IF bound = 0 THEN InstanceFor ELSE maxId
       ELSE UNCHANGED dungeons
    /\ UNCHANGED <<threads, moves>>

\* for one player: find or create its instance, bind its group and tell the client;
\* nothing for one who has answered early and arrived
CreateNewInstance(p, ok) ==
    LET r == Unlisted(player[p])
    IN  /\ phase = "create" /\ player[p].creating = "taken"
        /\ \/ /\ ~r.far /\ ok
              /\ player' = [player EXCEPT ![p] = r]
              /\ UNCHANGED dungeons
           \/ /\ r.far /\ r.dest = Dungeon /\ ok
              /\ player' = [player EXCEPT ![p] = SendNewWorld(r)]
              /\ i_maps' = i_maps \union {InstanceFor} /\ bound' = InstanceFor
              /\ maxId' = IF bound = 0 THEN InstanceFor ELSE maxId
           \/ /\ r.far /\ r.dest = Dungeon /\ ~ok /\ InstanceAdmits(ok)
              /\ \E back \in BOOLEAN :
                    /\ CanEnter(DestOf(r.loc), back)
                    /\ player' = [player EXCEPT ![p] =
                                     HandleReturnOnTeleportFail(r, DestOf(r.loc), back)]
              /\ UNCHANGED dungeons
        /\ UNCHANGED <<threads, moves>>

\* MANGOS_ASSERT(pMapEntry->IsDungeon()) throws, and nobody catches it
DungeonAssertFails(p) ==
    /\ phase = "create" /\ player[p].creating = "taken"
    /\ player[p].far /\ player[p].dest # Dungeon
    /\ phase' = "crashed"
    /\ UNCHANGED <<player, dungeons, tpc, finished, expected, moves>>

Crashed == phase = "crashed" /\ UNCHANGED vars

CreateEnd ==
    /\ phase = "create" /\ \A p \in Players : player[p].creating # "taken"
    /\ phase' = "teleports"
    /\ UNCHANGED <<player, dungeons, tpc, finished, expected, moves>>

\* ExecuteSingleDelayedTeleport; the destination may have become closed
ExecuteDelayedTeleport(p, ok) ==
    LET r == player[p]
        done == [r EXCEPT !.scheduled = None]
    IN  /\ phase = "teleports" /\ r.scheduled # None
        /\ CanEnter(r.scheduled, ok)
        /\ player' = [player EXCEPT ![p] =
               IF ok THEN ExecuteTeleportFar(done) ELSE [done EXCEPT !.far = FALSE]]
        /\ UNCHANGED <<dungeons, threads, moves>>

\* empty dungeons whose unload timer has run out are deleted
UpdateEnd(U) ==
    /\ phase = "teleports" /\ \A p \in Players : player[p].scheduled = None
    /\ U \subseteq i_maps /\ \A i \in U : Inside(i) = {}
    /\ i_maps' = i_maps \ U /\ phase' = "world"
    /\ UNCHANGED <<player, bound, maxId, tpc, finished, expected, moves>>
-----------------------------------------------------------------------------
WorldStep == \/ \E S \in SUBSET Places : UpdateBegin(S)
             \/ InstancesDone \/ ContinentsDone \/ CreateEnd
             \/ \E p \in Players, ok \in BOOLEAN :
                   CreateNewInstance(p, ok) \/ ExecuteDelayedTeleport(p, ok)
             \/ \E p \in Players : DungeonAssertFails(p)
             \/ \E U \in SUBSET i_maps : UpdateEnd(U)

Continent(k) == MarkContinentUpdateFinished(k) \/ ContinentDone(k)

\* the answer to SMSG_NEW_WORLD, and not one before it
AnswerNewWorld(p) == player[p].told # None /\ HandleMoveWorldportAck(p, TRUE)

Next == \/ WorldStep \/ Crashed
        \/ \E k \in Parts : Continent(k)
        \/ \E i \in Instances : InstanceDone(i)
        \/ \E p \in Players :
              \/ \E d \in Dests : TeleportFar(p, d) \/ TeleportNear(p, d)
              \/ HandleMoveTeleportAck(p)
              \/ \E k \in Parts : ScheduleInstanceSwitch(p, k)
              \/ \E ok \in BOOLEAN : HandleMoveWorldportAck(p, ok) \/ LogoutPlayer(p, ok)
              \/ ResetInstances(p)

\* every thread goes on; a client that is told its new world answers, and is not
\* turned away for ever by an instance that let it come
Fairness == /\ WF_vars(WorldStep)
            /\ \A k \in Parts : WF_vars(Continent(k))
            /\ \A i \in Instances : WF_vars(InstanceDone(i))
            /\ \A p \in Players : SF_vars(AnswerNewWorld(p))

Spec == Init /\ [][Next]_vars /\ Fairness
-----------------------------------------------------------------------------
\* The variables have their types, and no more continents have finished than
\* were begun (the assertion of MarkContinentUpdateFinished).
TypeOK ==
    /\ player \in [Players ->
           [online : BOOLEAN, inWorld : BOOLEAN, loc : Places, near : BOOLEAN, far : BOOLEAN,
            dest : Dests, told : Dests \union {None}, scheduled : Dests \union {None},
            switch : Parts \union {None}, creating : {"no", "scheduled", "taken"},
            early : BOOLEAN]]
    /\ i_maps \subseteq Instances /\ bound \in 0 .. MaxInstances /\ maxId \in 0 .. MaxInstances
    /\ phase \in {"world", "instances", "continents", "create", "teleports", "crashed"}
    /\ tpc \in [Places -> {"idle", "run", "wait", "done"}]
    /\ expected \in 0 .. Cardinality(Parts) /\ finished \in 0 .. expected
    /\ DOMAIN moves = Players
    /\ \A p \in Players : moves[p] \in 0 .. MaxMoves[p]

\* a player is on a map exactly when it is not on its way to another one
InWorldOrInTransit(r) == r.online => (r.inWorld = ~r.far)

\* on its way, the client has been told where it goes, or waits for a dungeon
TransitIsServed(r) ==
    r.far => \/ r.told = r.dest
             \/ r.told = None /\ r.creating # "no" /\ r.dest = Dungeon

\* an instance is created for a player on its way to the dungeon, who has not been told
\* to load it; the assertion of CreateNewInstancesForPlayersSync fails of nobody whose
\* client has not answered before that
ListedRightly(r) ==
    r.creating # "no" /\ ~r.early => r.far /\ r.dest = Dungeon /\ r.told = None

\* the map manager holds no pointer to a deleted player, and between updates no
\* delayed teleport or switch of anybody
NoPointerLeft(r) ==
    /\ ~r.online => r.creating = "no" /\ ~r.far
    /\ ~r.online \/ phase = "world" => r.scheduled = None /\ r.switch = None

\* Whatever the order of teleports, updates, refusals and logouts, no player is
\* lost between two maps and none is forgotten by or left in the map manager, and
\* the world thread stops at the assertion only if a client has answered early.
NobodyIsLost ==
    /\ phase = "crashed" => \E p \in Players : player[p].early
    /\ \A p \in Players : /\ InWorldOrInTransit(player[p])
                          /\ TransitIsServed(player[p])
                          /\ ListedRightly(player[p])
                          /\ NoPointerLeft(player[p])

\* What holds of every state: the types, and nobody lost.
Inv == TypeOK /\ NobodyIsLost

\* Members of a group who are in the dungeon are in the same instance, the one
\* their group is bound to, and its map exists, whoever entered, waited for the
\* instance, unloaded or reset it first.
GroupIsTogether ==
    \A p \in Players : player[p].inWorld /\ player[p].loc \in Instances =>
                          player[p].loc = bound /\ Loaded

\* While maps are updated by their threads nobody enters or leaves a map, and no
\* map is created or deleted.
MapsStayDuringUpdate ==
    [][asyncMapUpdating /\ asyncMapUpdating' =>
          /\ i_maps' = i_maps
          /\ \A p \in Players : /\ player'[p].loc = player[p].loc
                                /\ player'[p].inWorld = player[p].inWorld]_vars

\* A player on its way to another map arrives on one, or logs out: it is told its
\* new world after the instance it needs was created, and the updates that must
\* end for that do end, unless an early answer has stopped the world thread.
TransferEnds == \A p \in Players : player[p].far ~> ~player[p].far \/ phase = "crashed"
=============================================================================
