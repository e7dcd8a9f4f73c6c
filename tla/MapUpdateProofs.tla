--------------------------- MODULE MapUpdateProofs ---------------------------
(***************************************************************************)
(* Proofs about MapUpdate, for any number of players, parts of continents  *)
(* and instances: no player is lost between two maps, a group that enters  *)
(* its dungeon is in one instance, and no map gains or loses anybody while *)
(* maps are updated.                                                       *)
(***************************************************************************)
EXTENDS MapUpdate, FiniteSetTheorems, TLAPS

-----------------------------------------------------------------------------
(* The inductive invariant. *)

Records ==
    [online : BOOLEAN, inWorld : BOOLEAN, loc : Places, near : BOOLEAN, far : BOOLEAN,
     dest : Dests, told : Dests \union {None}, scheduled : Dests \union {None},
     switch : Parts \union {None}, creating : {"no", "scheduled", "taken"}, early : BOOLEAN]

\* the life of one player, of which NobodyIsLost shows a part: what waits for it, waits for
\* a player who is there
PlayerInv(r, ph) ==
    /\ InWorldOrInTransit(r) /\ TransitIsServed(r) /\ ListedRightly(r)
    /\ ~r.online => ~r.inWorld /\ ~r.far /\ r.creating = "no"
    /\ ~r.far => r.told = None
    /\ r.scheduled # None => r.inWorld /\ ph # "world"
    /\ r.switch # None => r.online /\ ph \in {"instances", "continents"}

PlayersInv == \A p \in Players : PlayerInv(player[p], phase)

\* the group is bound to the newest instance, and there is room for another if to none
InstanceInv ==
    /\ bound \in {0, maxId} /\ (bound = 0 => maxId < MaxInstances)
    /\ i_maps \subseteq 1 .. maxId

Begun   == {k \in Parts : tpc[k] # "idle"}
Ended   == {k \in Parts : tpc[k] \in {"wait", "done"}}

\* i_continentUpdateFinished and i_maxContinentThread count what they are meant to count
CountInv ==
    IF asyncMapUpdating
    THEN expected = Cardinality(Begun) /\ finished = Cardinality(Ended)
    ELSE \A x \in Places : tpc[x] = "idle"

\* the world thread has stopped at its assertion only for a player who answered early
CrashInv == phase = "crashed" => \E p \in Players : player[p].early

IInv == TypeOK /\ PlayersInv /\ InstanceInv /\ GroupIsTogether /\ CountInv /\ CrashInv

-----------------------------------------------------------------------------
(* The records of the players. *)

\* a player who is on no map and for whom nothing waits is sent on its way: the client is
\* told, or an instance is to be created first
LEMMA ExecuteFacts ==
    ASSUME MapAssumption, NEW r \in Records, r.online, r.scheduled = None, r.switch = None \/ asyncMapUpdating,
           r.told = None, r.creating = "no" \/ r.early
    PROVE  \E e \in Records :
              /\ e = ExecuteTeleportFar(r)
              /\ PlayerInv(e, phase) /\ e.online /\ ~e.inWorld
<1>1. PICK f \in Records : f = [r EXCEPT !.near = FALSE, !.inWorld = FALSE, !.far = TRUE]
  BY DEF Records
<1>2. /\ f.online /\ ~f.inWorld /\ f.far /\ f.scheduled = None /\ f.switch = r.switch
      /\ f.told = None /\ (f.creating = "no" \/ f.early)
  BY <1>1 DEF Records
<1>3. ExecuteTeleportFar(r) = IF f.dest = Dungeon /\ ~Loaded
                              THEN [f EXCEPT !.creating = "scheduled"] ELSE [f EXCEPT !.told = f.dest]
  BY <1>1 DEF ExecuteTeleportFar, ScheduleNewWorldOnFarTeleport, SendNewWorld
<1>4. CASE f.dest = Dungeon /\ ~Loaded
  <2>1. PICK e \in Records : e = [f EXCEPT !.creating = "scheduled"]
    BY DEF Records
  <2>2. /\ e.online /\ ~e.inWorld /\ e.far /\ e.scheduled = None /\ e.switch = r.switch
        /\ e.told = None /\ e.creating = "scheduled" /\ e.dest = Dungeon
    BY <1>2, <1>4, <2>1 DEF Records
  <2>3. PlayerInv(e, phase)
    BY <2>2 DEF PlayerInv, InWorldOrInTransit, TransitIsServed, ListedRightly, asyncMapUpdating, Records
  <2> QED BY <1>3, <1>4, <2>1, <2>2, <2>3
<1>5. CASE ~(f.dest = Dungeon /\ ~Loaded)
  <2>1. PICK e \in Records : e = [f EXCEPT !.told = f.dest]
    BY DEF Records
  <2>2. /\ e.online /\ ~e.inWorld /\ e.far /\ e.scheduled = None /\ e.switch = r.switch
        /\ e.told = e.dest /\ (e.creating = "no" \/ e.early)
    BY <1>2, <2>1 DEF Records
  <2>3. PlayerInv(e, phase)
    BY <2>2 DEF PlayerInv, InWorldOrInTransit, TransitIsServed, ListedRightly, asyncMapUpdating, Records
  <2> QED BY <1>3, <1>5, <2>1, <2>2, <2>3
<1> QED BY <1>4, <1>5

\* a player on its way who is refused is sent back, and goes nowhere else
LEMMA ReturnFacts ==
    ASSUME MapAssumption, NEW r \in Records, NEW old \in Dests, NEW ok \in BOOLEAN,
           ~asyncMapUpdating, r.online, r.scheduled = None, r.switch = None,
           r.creating = "no" \/ r.early
    PROVE  \E e \in Records :
              /\ e = HandleReturnOnTeleportFail(r, old, ok)
              /\ PlayerInv(e, phase) /\ e.online /\ ~e.inWorld
<1>1. PICK d \in Dests : d = IF ok THEN old ELSE Homebind
  BY DEF Dests
<1>2. PICK f \in Records : f = [[r EXCEPT !.far = FALSE, !.told = None] EXCEPT !.dest = d]
  BY DEF Records
<1>3. /\ f.online /\ f.scheduled = None /\ f.switch = None /\ f.told = None
      /\ f.creating = "no" \/ f.early
  BY <1>2 DEF Records
<1>4. HandleReturnOnTeleportFail(r, old, ok) = ExecuteTeleportFar(f)
  BY <1>1, <1>2 DEF HandleReturnOnTeleportFail, ScheduleFarTeleport
<1>5. PICK e \in Records : e = ExecuteTeleportFar(f) /\ PlayerInv(e, phase) /\ e.online /\ ~e.inWorld
  BY <1>3, ExecuteFacts
<1> QED BY <1>4, <1>5

-----------------------------------------------------------------------------
(* Steps. *)

\* the instance of the group is its old one, or there is room for a new one
EntersInstance ==
    /\ i_maps' = i_maps \union {InstanceFor} /\ bound' = InstanceFor
    /\ maxId' = IF bound = 0 THEN InstanceFor ELSE maxId

LEMMA InstanceStep ==
    ASSUME IInv, UNCHANGED dungeons \/ EntersInstance
    PROVE  /\ InstanceInv' /\ i_maps' \subseteq Instances /\ bound' \in 0 .. MaxInstances
           /\ maxId' \in 0 .. MaxInstances
           /\ EntersInstance => bound' \in i_maps'
           /\ \A x \in Instances : x = bound /\ Loaded => x = bound' /\ bound' \in i_maps'
<1>1. TypeOK /\ InstanceInv /\ MaxInstances \in Nat \ {0}
  BY MapAssumption DEF IInv
<1>2. CASE UNCHANGED dungeons
  BY <1>1, <1>2 DEF dungeons, TypeOK, InstanceInv, Loaded, Instances, EntersInstance
<1>3. CASE EntersInstance /\ bound = 0
  BY <1>1, <1>3 DEF TypeOK, InstanceInv, Loaded, Instances, EntersInstance, InstanceFor
<1>4. CASE EntersInstance /\ bound # 0
  BY <1>1, <1>4 DEF TypeOK, InstanceInv, Loaded, Instances, EntersInstance, InstanceFor
<1> QED BY <1>2, <1>3, <1>4

\* one player changes, and the instance of the group with it
LEMMA PlayerStep ==
    ASSUME IInv, NEW p \in Players, NEW r \in Records, PlayerInv(r, phase), phase # "crashed",
           player' = [player EXCEPT ![p] = r],
           UNCHANGED dungeons \/ EntersInstance, UNCHANGED threads,
           DOMAIN moves' = Players, \A q \in Players : moves'[q] \in 0 .. MaxMoves[q],
           r.inWorld /\ r.loc \in Instances => r.loc = bound' /\ bound' \in i_maps'
    PROVE  IInv'
<1>1. TypeOK /\ PlayersInv /\ GroupIsTogether /\ CountInv
  BY DEF IInv
<1>2. player \in [Players -> Records]
  BY <1>1 DEF TypeOK, Records
<1>3. player' \in [Players -> Records] /\ player'[p] = r /\ \A q \in Players \ {p} : player'[q] = player[q]
  BY <1>2
<1>4. /\ InstanceInv' /\ i_maps' \subseteq Instances /\ bound' \in 0 .. MaxInstances
      /\ maxId' \in 0 .. MaxInstances
      /\ \A x \in Instances : x = bound /\ Loaded => x = bound' /\ bound' \in i_maps'
  BY InstanceStep
<1>5. TypeOK'
  BY <1>1, <1>3, <1>4 DEF TypeOK, Records, threads
<1>6. PlayersInv'
  BY <1>1, <1>3 DEF PlayersInv, threads
<1>7. GroupIsTogether'
  BY <1>1, <1>3, <1>4 DEF GroupIsTogether, Loaded
<1>8. CountInv'
  BY <1>1 DEF CountInv, threads, Begun, Ended, asyncMapUpdating
<1>9. CrashInv'
  BY DEF CrashInv, threads
<1> QED BY <1>4, <1>5, <1>6, <1>7, <1>8, <1>9 DEF IInv

\* what the invariant says of one player
LEMMA PlayerFacts ==
    ASSUME IInv, NEW p \in Players
    PROVE  /\ player[p] \in Records /\ PlayerInv(player[p], phase)
           /\ player[p].inWorld => /\ player[p].online /\ ~player[p].far
                                   /\ player[p].told = None
                                   /\ player[p].creating = "no" \/ player[p].early
           /\ player[p].far => player[p].online /\ ~player[p].inWorld /\ player[p].scheduled = None
           /\ player[p].scheduled # None => player[p].inWorld
           /\ ~asyncMapUpdating => player[p].switch = None
           /\ phase = "world" => player[p].scheduled = None /\ player[p].switch = None
           /\ player[p].inWorld /\ player[p].loc \in Instances => player[p].loc = bound /\ Loaded
<1>1. player[p] \in Records
  BY DEF IInv, TypeOK, Records
<1>2. PlayerInv(player[p], phase)
  BY DEF IInv, PlayersInv
<1>3. player[p].inWorld /\ player[p].loc \in Instances => player[p].loc = bound /\ Loaded
  BY DEF IInv, GroupIsTogether
<1> HIDE DEF IInv
<1> QED BY <1>1, <1>2, <1>3
       DEF PlayerInv, InWorldOrInTransit, TransitIsServed, ListedRightly, asyncMapUpdating, Records

\* maps are only updated within an update
LEMMA ActiveFacts ==
    ASSUME IInv, NEW x \in Places, tpc[x] # "idle"
    PROVE  asyncMapUpdating
BY DEF IInv, CountInv

\* a player who acts is on a map that is updated, or acts in the world thread
LEMMA RunningFacts ==
    ASSUME IInv, NEW p \in Players, phase = "world" \/ Active(player[p].loc)
    PROVE  phase # "crashed"
<1>1. player[p].loc \in Places
  BY PlayerFacts DEF Records
<1>2. Active(player[p].loc) => asyncMapUpdating
  BY <1>1, ActiveFacts DEF Active
<1> HIDE DEF IInv
<1> QED BY <1>2 DEF asyncMapUpdating

LEMMA MovesFacts ==
    ASSUME IInv, NEW p \in Players, moves[p] < MaxMoves[p], moves' = [moves EXCEPT ![p] = @ + 1]
    PROVE  DOMAIN moves' = Players /\ \A q \in Players : moves'[q] \in 0 .. MaxMoves[q]
<1>1. DOMAIN moves = Players /\ \A q \in Players : moves[q] \in 0 .. MaxMoves[q] /\ MaxMoves[q] \in Nat
  BY MapAssumption DEF IInv, TypeOK
<1> HIDE DEF IInv
<1>2. DOMAIN moves' = Players
  BY <1>1
<1>3. ASSUME NEW q \in Players PROVE moves'[q] \in 0 .. MaxMoves[q]
  <2>1. CASE q = p
    BY <1>1, <2>1
  <2>2. CASE q # p
    BY <1>1, <2>2
  <2> QED BY <2>1, <2>2
<1> QED BY <1>2, <1>3

LEMMA MovesKept ==
    ASSUME IInv, UNCHANGED moves
    PROVE  DOMAIN moves' = Players /\ \A q \in Players : moves'[q] \in 0 .. MaxMoves[q]
BY DEF IInv, TypeOK

LEMMA TeleportFarStep ==
    ASSUME IInv, NEW p \in Players, NEW d \in Dests, TeleportFar(p, d)
    PROVE  IInv'
<1>1. PICK r \in Records : r = player[p]
  BY PlayerFacts
<1>2. /\ PlayerInv(r, phase) /\ r.inWorld /\ r.online /\ ~r.far /\ r.told = None
      /\ r.creating = "no" \/ r.early
      /\ r.loc \in Instances => r.loc = bound /\ Loaded
      /\ phase = "world" => r.scheduled = None /\ r.switch = None
  BY <1>1, PlayerFacts DEF TeleportFar, MayAct
<1>3. player' = [player EXCEPT ![p] = ScheduleFarTeleport(r, d)] /\ UNCHANGED <<dungeons, threads>>
  BY <1>1 DEF TeleportFar
<1>4. DOMAIN moves' = Players /\ \A q \in Players : moves'[q] \in 0 .. MaxMoves[q]
  BY MovesFacts DEF TeleportFar
<1>5. phase = "world" \/ asyncMapUpdating
  <2>1. r.loc \in Places
    BY DEF Records
  <2> QED BY <1>1, <2>1, ActiveFacts DEF TeleportFar, MayAct, Active
<1>10. phase # "crashed"
  BY <1>5 DEF asyncMapUpdating
<1>6. CASE asyncMapUpdating
  <2>1. PICK e \in Records : e = [r EXCEPT !.dest = d, !.scheduled = d]
    BY DEF Records, Dests
  <2>2. /\ e.online = r.online /\ e.inWorld = r.inWorld /\ e.far = r.far /\ e.told = r.told
        /\ e.creating = r.creating /\ e.early = r.early /\ e.switch = r.switch /\ e.loc = r.loc
    BY <2>1 DEF Records
  <2>3. PlayerInv(e, phase)
    BY <1>2, <1>6, <2>2 DEF PlayerInv, InWorldOrInTransit, TransitIsServed, ListedRightly, asyncMapUpdating, Records
  <2>4. player' = [player EXCEPT ![p] = e]
    BY <1>3, <1>6, <2>1 DEF ScheduleFarTeleport
  <2>5. e.loc \in Instances => e.loc = bound' /\ bound' \in i_maps'
    BY <1>2, <1>3, <2>2 DEF Loaded, dungeons
  <2> QED BY <1>3, <1>4, <1>10, <2>3, <2>4, <2>5, PlayerStep
<1>7. CASE ~asyncMapUpdating
  <2>1. PICK f \in Records : f = [r EXCEPT !.dest = d]
    BY DEF Records
  <2>2. /\ f.online /\ f.scheduled = None /\ f.switch = None /\ f.told = None
        /\ f.creating = "no" \/ f.early
    BY <1>2, <1>5, <1>7, <2>1 DEF Records
  <2>3. PICK e \in Records : e = ExecuteTeleportFar(f) /\ PlayerInv(e, phase) /\ ~e.inWorld
    BY <2>2, ExecuteFacts, MapAssumption
  <2>4. player' = [player EXCEPT ![p] = e]
    BY <1>3, <1>7, <2>1, <2>3 DEF ScheduleFarTeleport
  <2> QED BY <1>3, <1>4, <1>10, <2>3, <2>4, PlayerStep
<1> QED BY <1>6, <1>7

LEMMA MapThreadStep ==
    ASSUME IInv, NEW p \in Players,
           \/ \E d \in Dests : TeleportNear(p, d)
           \/ HandleMoveTeleportAck(p)
           \/ \E k \in Parts : ScheduleInstanceSwitch(p, k)
    PROVE  IInv'
<1>1. PICK r \in Records : r = player[p]
  BY PlayerFacts
<1>2. PlayerInv(r, phase) /\ (r.inWorld /\ r.loc \in Instances => r.loc = bound /\ Loaded)
  BY <1>1, PlayerFacts
<1>3. r.inWorld => r.online /\ ~r.far /\ r.told = None /\ (r.creating = "no" \/ r.early)
  BY <1>1, PlayerFacts
<1>4. ASSUME NEW d \in Dests, TeleportNear(p, d) PROVE IInv'
  <2>1. PICK e \in Records : e = [r EXCEPT !.far = FALSE, !.near = TRUE, !.dest = d]
    BY DEF Records
  <2>2. /\ e.online = r.online /\ e.inWorld = r.inWorld /\ ~e.far /\ e.told = r.told
        /\ e.creating = r.creating /\ e.early = r.early /\ e.switch = r.switch /\ e.loc = r.loc /\ e.scheduled = r.scheduled
    BY <2>1 DEF Records
  <2>3. r.inWorld /\ player' = [player EXCEPT ![p] = e] /\ UNCHANGED <<dungeons, threads>>
    BY <1>1, <1>4, <2>1 DEF TeleportNear, MayAct
  <2>4. PlayerInv(e, phase)
    BY <1>2, <1>3, <2>2, <2>3 DEF PlayerInv, InWorldOrInTransit, TransitIsServed, ListedRightly, Records
  <2>5. e.loc \in Instances => e.loc = bound' /\ bound' \in i_maps'
    BY <1>2, <2>2, <2>3 DEF Loaded, dungeons
  <2>6. DOMAIN moves' = Players /\ \A q \in Players : moves'[q] \in 0 .. MaxMoves[q]
    BY <1>4, MovesFacts DEF TeleportNear
  <2>7. phase # "crashed"
    BY <1>4, RunningFacts DEF TeleportNear, MayAct
  <2> QED BY <2>3, <2>4, <2>5, <2>6, <2>7, PlayerStep
<1>5. ASSUME HandleMoveTeleportAck(p) PROVE IInv'
  <2>1. PICK e \in Records : e = [r EXCEPT !.near = FALSE]
    BY DEF Records
  <2>2. /\ e.online = r.online /\ e.inWorld = r.inWorld /\ e.far = r.far /\ e.told = r.told
        /\ e.creating = r.creating /\ e.early = r.early /\ e.switch = r.switch /\ e.loc = r.loc /\ e.scheduled = r.scheduled
        /\ e.dest = r.dest
    BY <2>1 DEF Records
  <2>3. player' = [player EXCEPT ![p] = e] /\ UNCHANGED <<dungeons, threads, moves>>
    BY <1>1, <1>5, <2>1 DEF HandleMoveTeleportAck
  <2>4. PlayerInv(e, phase)
    BY <1>2, <2>2, <2>3 DEF PlayerInv, InWorldOrInTransit, TransitIsServed, ListedRightly, Records
  <2>5. e.inWorld /\ e.loc \in Instances => e.loc = bound' /\ bound' \in i_maps'
    BY <1>2, <2>2, <2>3 DEF Loaded, dungeons
  <2>6. phase # "crashed"
    BY <1>5, RunningFacts DEF HandleMoveTeleportAck
  <2> QED BY <2>3, <2>4, <2>5, <2>6, MovesKept, PlayerStep
<1>6. ASSUME NEW k \in Parts, ScheduleInstanceSwitch(p, k) PROVE IInv'
  <2>1. PICK e \in Records : e = [r EXCEPT !.switch = k]
    BY DEF Records
  <2>2. /\ e.online = r.online /\ e.inWorld = r.inWorld /\ e.far = r.far /\ e.told = r.told
        /\ e.creating = r.creating /\ e.early = r.early /\ e.switch = k /\ e.loc = r.loc /\ e.scheduled = r.scheduled
        /\ e.dest = r.dest
    BY <2>1 DEF Records
  <2>3. r.inWorld /\ player' = [player EXCEPT ![p] = e] /\ UNCHANGED <<dungeons, threads>>
    BY <1>1, <1>6, <2>1 DEF ScheduleInstanceSwitch
  <2>4. asyncMapUpdating
    <3>1. r.loc \in Places
      BY DEF Records
    <3> QED BY <1>1, <1>6, <3>1, ActiveFacts DEF ScheduleInstanceSwitch, Active
  <2>5. PlayerInv(e, phase)
    BY <1>2, <1>3, <2>2, <2>3, <2>4
       DEF PlayerInv, InWorldOrInTransit, TransitIsServed, ListedRightly, Records, asyncMapUpdating
  <2>6. e.inWorld /\ e.loc \in Instances => e.loc = bound' /\ bound' \in i_maps'
    BY <1>2, <2>2, <2>3 DEF Loaded, dungeons
  <2>7. DOMAIN moves' = Players /\ \A q \in Players : moves'[q] \in 0 .. MaxMoves[q]
    BY <1>6, MovesFacts DEF ScheduleInstanceSwitch
  <2>8. phase # "crashed"
    BY <2>4 DEF asyncMapUpdating
  <2> QED BY <2>3, <2>5, <2>6, <2>7, <2>8, PlayerStep
<1> QED BY <1>4, <1>5, <1>6

LEMMA InstanceForFacts ==
    ASSUME IInv
    PROVE  InstanceFor \in Instances
BY MapAssumption DEF IInv, TypeOK, InstanceInv, InstanceFor, Instances

LEMMA DestFacts ==
    ASSUME NEW x \in Places
    PROVE  DestOf(x) \in Dests
BY DEF DestOf, Dests

LEMMA WorldportStep ==
    ASSUME IInv, NEW p \in Players, NEW ok \in BOOLEAN, HandleMoveWorldportAck(p, ok)
    PROVE  IInv'
<1>1. PICK r \in Records :
         r = [player[p] EXCEPT !.early = player[p].early \/ player[p].told = None]
  <2>1. PICK b \in BOOLEAN : b = (player[p].early \/ player[p].told = None)
    <3>1. (player[p].early \/ player[p].told = None) \in BOOLEAN
      BY PlayerFacts DEF Records
    <3> QED BY <3>1
  <2>2. PICK r \in Records : r = [player[p] EXCEPT !.early = b]
    BY PlayerFacts DEF Records
  <2> QED BY <2>1, <2>2
<1>2. PICK i \in Instances : i = InstanceFor
  BY InstanceForFacts
<1>3. phase = "world" /\ player[p].far /\ UNCHANGED <<threads, moves>>
  BY DEF HandleMoveWorldportAck
<1>4. /\ r.online /\ ~r.inWorld /\ r.scheduled = None /\ r.switch = None /\ ~asyncMapUpdating
      /\ r.creating = "no" \/ r.early
  <2>1. /\ player[p] \in Records /\ player[p].online /\ ~player[p].inWorld
        /\ player[p].scheduled = None /\ player[p].switch = None /\ ~asyncMapUpdating
    BY <1>3, PlayerFacts DEF asyncMapUpdating
  <2>2. player[p].creating = "no" \/ player[p].early \/ player[p].told = None
    BY PlayerFacts DEF PlayerInv, ListedRightly
  <2>3. /\ r.online = player[p].online /\ r.inWorld = player[p].inWorld
        /\ r.scheduled = player[p].scheduled /\ r.switch = player[p].switch
        /\ r.creating = player[p].creating
        /\ r.early = (player[p].early \/ player[p].told = None)
    BY <1>1, <2>1 DEF Records
  <2> QED BY <2>1, <2>2, <2>3
<1>5. DOMAIN moves' = Players /\ \A q \in Players : moves'[q] \in 0 .. MaxMoves[q]
  BY <1>3, MovesKept
<1>6. ASSUME r.dest \in Parts, UNCHANGED dungeons,
             player' = [player EXCEPT ![p] =
                 [r EXCEPT !.loc = r.dest, !.inWorld = TRUE, !.far = FALSE, !.told = None]]
      PROVE  IInv'
  <2>1. PICK e \in Records :
           e = [r EXCEPT !.loc = r.dest, !.inWorld = TRUE, !.far = FALSE, !.told = None]
    BY <1>6 DEF Records, Places
  <2>2. /\ e.online /\ e.inWorld /\ ~e.far /\ e.told = None /\ e.switch = None
        /\ e.creating = "no" \/ e.early
        /\ e.scheduled = None /\ e.loc \in Parts
    BY <1>4, <1>6, <2>1 DEF Records
  <2>3. PlayerInv(e, phase)
    BY <2>2 DEF PlayerInv, InWorldOrInTransit, TransitIsServed, ListedRightly, Records
  <2>4. e.loc \notin Instances
    BY <2>2, MapAssumption DEF Instances
  <2> QED BY <1>3, <1>5, <1>6, <2>1, <2>3, <2>4, PlayerStep
<1>7. ASSUME EntersInstance,
             player' = [player EXCEPT ![p] =
                 [r EXCEPT !.loc = i, !.inWorld = TRUE, !.far = FALSE, !.told = None]]
      PROVE  IInv'
  <2>1. PICK e \in Records :
           e = [r EXCEPT !.loc = i, !.inWorld = TRUE, !.far = FALSE, !.told = None]
    BY DEF Records, Places
  <2>2. /\ e.online /\ e.inWorld /\ ~e.far /\ e.told = None /\ e.switch = None
        /\ e.creating = "no" \/ e.early
        /\ e.scheduled = None /\ e.loc = i
    BY <1>4, <2>1 DEF Records
  <2>3. PlayerInv(e, phase)
    BY <2>2 DEF PlayerInv, InWorldOrInTransit, TransitIsServed, ListedRightly, Records
  <2>4. e.loc = bound' /\ bound' \in i_maps'
    BY <1>2, <1>7, <2>2 DEF EntersInstance
  <2> QED BY <1>3, <1>5, <1>7, <2>1, <2>3, <2>4, PlayerStep
<1>8. ASSUME NEW back \in BOOLEAN, UNCHANGED dungeons,
             player' = [player EXCEPT ![p] =
                 HandleReturnOnTeleportFail([r EXCEPT !.loc = i], DestOf(r.loc), back)]
      PROVE  IInv'
  <2>1. PICK f \in Records : f = [r EXCEPT !.loc = i]
    BY DEF Records, Places
  <2>2. /\ f.online /\ f.scheduled = None /\ f.switch = None
        /\ f.creating = "no" \/ f.early
    BY <1>4, <2>1 DEF Records
  <2>3. PICK old \in Dests : old = DestOf(r.loc)
    BY DestFacts DEF Records
  <2>4. PICK e \in Records : /\ e = HandleReturnOnTeleportFail(f, old, back)
                             /\ PlayerInv(e, phase) /\ ~e.inWorld
    BY <1>4, <2>2, ReturnFacts, MapAssumption
  <2>5. player' = [player EXCEPT ![p] = e]
    BY <1>8, <2>1, <2>3, <2>4
  <2> QED BY <1>3, <1>5, <1>8, <2>4, <2>5, PlayerStep
<1>9. \/ /\ r.dest \in Parts /\ UNCHANGED dungeons
         /\ player' = [player EXCEPT ![p] =
                [r EXCEPT !.loc = r.dest, !.inWorld = TRUE, !.far = FALSE, !.told = None]]
      \/ /\ EntersInstance
         /\ player' = [player EXCEPT ![p] =
                [r EXCEPT !.loc = i, !.inWorld = TRUE, !.far = FALSE, !.told = None]]
      \/ /\ UNCHANGED dungeons
         /\ \E back \in BOOLEAN : player' = [player EXCEPT ![p] =
                HandleReturnOnTeleportFail([r EXCEPT !.loc = i], DestOf(r.loc), back)]
  BY <1>1, <1>2 DEF HandleMoveWorldportAck, EntersInstance
<1> QED BY <1>6, <1>7, <1>8, <1>9

LEMMA LogoutStep ==
    ASSUME IInv, NEW p \in Players, NEW ok \in BOOLEAN, LogoutPlayer(p, ok)
    PROVE  IInv'
<1>1. PICK e \in Records : e = Gone
  BY MapAssumption DEF Gone, Records, Places, Dests
<1>2. /\ ~e.online /\ ~e.inWorld /\ ~e.far /\ e.told = None /\ e.scheduled = None
      /\ e.switch = None /\ e.creating = "no"
  BY <1>1 DEF Gone
<1>3. PlayerInv(e, phase)
  BY <1>2 DEF PlayerInv, InWorldOrInTransit, TransitIsServed, ListedRightly
<1>4. /\ player' = [player EXCEPT ![p] = e] /\ UNCHANGED <<threads, moves>>
      /\ UNCHANGED dungeons \/ EntersInstance
      /\ phase = "world"
  BY <1>1 DEF LogoutPlayer, EntersInstance
<1> QED BY <1>2, <1>3, <1>4, MovesKept, PlayerStep

LEMMA CreateStep ==
    ASSUME IInv, NEW p \in Players, NEW ok \in BOOLEAN, CreateNewInstance(p, ok)
    PROVE  IInv'
<1>1. PICK r \in Records : r = Unlisted(player[p])
  BY PlayerFacts DEF Records, Unlisted
<1>2. phase = "create" /\ player[p].creating = "taken" /\ UNCHANGED <<threads, moves>>
  BY DEF CreateNewInstance
<1>3. /\ r.online = player[p].online /\ r.inWorld = player[p].inWorld /\ r.far = player[p].far
      /\ r.scheduled = player[p].scheduled /\ r.switch = player[p].switch /\ r.told = player[p].told
      /\ r.dest = player[p].dest /\ r.loc = player[p].loc /\ r.creating = "no"
  BY <1>1, PlayerFacts DEF Records, Unlisted
<1>4. ~asyncMapUpdating /\ r.switch = None /\ r.online
  BY <1>2, <1>3, PlayerFacts DEF asyncMapUpdating, PlayerInv
<1>5. DOMAIN moves' = Players /\ \A q \in Players : moves'[q] \in 0 .. MaxMoves[q]
  BY <1>2, MovesKept
<1>6. ASSUME r.far, EntersInstance, player' = [player EXCEPT ![p] = SendNewWorld(r)]
      PROVE  IInv'
  <2>1. PICK e \in Records : e = SendNewWorld(r)
    BY DEF SendNewWorld, Records
  <2>2. /\ e.online /\ ~e.inWorld /\ e.far /\ e.told = e.dest /\ e.creating = "no"
        /\ e.switch = None /\ e.scheduled = None
    BY <1>3, <1>4, <1>6, <2>1, PlayerFacts DEF SendNewWorld, Records
  <2>3. PlayerInv(e, phase)
    BY <2>2 DEF PlayerInv, InWorldOrInTransit, TransitIsServed, ListedRightly, Records
  <2> QED BY <1>2, <1>5, <1>6, <2>1, <2>2, <2>3, PlayerStep
<1>7. ASSUME r.far, NEW back \in BOOLEAN, UNCHANGED dungeons,
             player' = [player EXCEPT ![p] = HandleReturnOnTeleportFail(r, DestOf(r.loc), back)]
      PROVE  IInv'
  <2>1. PICK old \in Dests : old = DestOf(r.loc)
    BY DestFacts DEF Records
  <2>2. PICK e \in Records : /\ e = HandleReturnOnTeleportFail(r, old, back)
                             /\ PlayerInv(e, phase) /\ ~e.inWorld
    <3>1. r.scheduled = None
      BY <1>3, <1>7, PlayerFacts
    <3> QED BY <1>3, <1>4, <3>1, ReturnFacts, MapAssumption
  <2>3. player' = [player EXCEPT ![p] = e]
    BY <1>7, <2>1, <2>2
  <2> QED BY <1>2, <1>5, <1>7, <2>2, <2>3, PlayerStep
<1>8. ASSUME ~r.far, UNCHANGED dungeons, player' = [player EXCEPT ![p] = r]
      PROVE  IInv'
  <2>1. PlayerInv(player[p], phase)
    BY PlayerFacts
  <2>2. PlayerInv(r, phase)
    BY <1>2, <1>3, <1>8, <2>1
       DEF PlayerInv, InWorldOrInTransit, TransitIsServed, ListedRightly, Records
  <2>3. r.inWorld /\ r.loc \in Instances => r.loc = bound' /\ bound' \in i_maps'
    BY <1>3, <1>8, PlayerFacts DEF Loaded, dungeons
  <2> QED BY <1>2, <1>5, <1>8, <2>2, <2>3, PlayerStep
<1>9. \/ ~r.far /\ UNCHANGED dungeons /\ player' = [player EXCEPT ![p] = r]
      \/ r.far /\ EntersInstance /\ player' = [player EXCEPT ![p] = SendNewWorld(r)]
      \/ /\ r.far /\ UNCHANGED dungeons
         /\ \E back \in BOOLEAN :
               player' = [player EXCEPT ![p] = HandleReturnOnTeleportFail(r, DestOf(r.loc), back)]
  BY <1>1, <1>3 DEF CreateNewInstance, EntersInstance
<1> QED BY <1>6, <1>7, <1>8, <1>9

\* the world thread stops at a player who is on its way to another place than the dungeon,
\* and so has answered for the one it waits for
LEMMA CrashStep ==
    ASSUME IInv, (\E p \in Players : DungeonAssertFails(p)) \/ Crashed
    PROVE  IInv'
<1>1. TypeOK /\ PlayersInv /\ InstanceInv /\ GroupIsTogether /\ CountInv /\ CrashInv
  BY DEF IInv
<1>2. CASE Crashed
  <2>1. UNCHANGED vars
    BY <1>2 DEF Crashed
  <2>2. TypeOK' /\ PlayersInv' /\ InstanceInv'
    BY <1>1, <2>1 DEF vars, TypeOK, PlayersInv, InstanceInv
  <2>3. GroupIsTogether' /\ CountInv' /\ CrashInv'
    BY <1>1, <2>1 DEF vars, GroupIsTogether, CountInv, CrashInv, Loaded, Begun, Ended, asyncMapUpdating
  <2> QED BY <2>2, <2>3 DEF IInv
<1>3. ASSUME NEW p \in Players, DungeonAssertFails(p) PROVE IInv'
  <2>1. /\ phase = "create" /\ phase' = "crashed" /\ player[p].creating = "taken"
        /\ player[p].dest # Dungeon
        /\ UNCHANGED <<player, dungeons, tpc, finished, expected, moves>>
    BY <1>3 DEF DungeonAssertFails
  <2>2. player[p].early
    BY <1>1, <2>1 DEF PlayersInv, PlayerInv, ListedRightly
  <2>3. TypeOK' /\ InstanceInv' /\ GroupIsTogether'
    BY <1>1, <2>1 DEF TypeOK, InstanceInv, GroupIsTogether, Loaded, dungeons
  <2>4. PlayersInv' /\ CountInv'
    BY <1>1, <2>1 DEF PlayersInv, PlayerInv, CountInv, asyncMapUpdating
  <2>5. CrashInv'
    BY <2>1, <2>2 DEF CrashInv
  <2> QED BY <2>3, <2>4, <2>5 DEF IInv
<1> QED BY <1>2, <1>3

LEMMA DelayedTeleportStep ==
    ASSUME IInv, NEW p \in Players, NEW ok \in BOOLEAN, ExecuteDelayedTeleport(p, ok)
    PROVE  IInv'
<1>1. PICK r \in Records : r = player[p]
  BY PlayerFacts
<1>2. phase = "teleports" /\ r.scheduled # None /\ UNCHANGED <<dungeons, threads, moves>>
  BY <1>1 DEF ExecuteDelayedTeleport
<1>3. /\ r.online /\ r.inWorld /\ r.told = None /\ r.switch = None
      /\ r.creating = "no" \/ r.early
      /\ r.loc \in Instances => r.loc = bound /\ Loaded
  BY <1>1, <1>2, PlayerFacts DEF asyncMapUpdating
<1>4. PICK f \in Records : f = [r EXCEPT !.scheduled = None]
  BY DEF Records
<1>5. /\ f.online /\ f.inWorld /\ f.told = None /\ f.switch = None
      /\ f.creating = "no" \/ f.early
      /\ f.scheduled = None /\ f.loc = r.loc
  BY <1>3, <1>4 DEF Records
<1>6. player' = [player EXCEPT ![p] =
                    IF ok THEN ExecuteTeleportFar(f) ELSE [f EXCEPT !.far = FALSE]]
  BY <1>1, <1>4 DEF ExecuteDelayedTeleport
<1>7. DOMAIN moves' = Players /\ \A q \in Players : moves'[q] \in 0 .. MaxMoves[q]
  BY <1>2, MovesKept
<1>8. CASE ok
  <2>1. PICK e \in Records : e = ExecuteTeleportFar(f) /\ PlayerInv(e, phase) /\ ~e.inWorld
    BY <1>5, ExecuteFacts, MapAssumption
  <2>2. player' = [player EXCEPT ![p] = e]
    BY <1>6, <1>8, <2>1
  <2> QED BY <1>2, <1>7, <2>1, <2>2, PlayerStep
<1>9. CASE ~ok
  <2>1. PICK e \in Records : e = [f EXCEPT !.far = FALSE]
    BY DEF Records
  <2>2. /\ e.online /\ e.inWorld /\ ~e.far /\ e.told = None /\ e.switch = None
        /\ e.creating = "no" \/ e.early
        /\ e.scheduled = None /\ e.loc = r.loc
    BY <1>5, <2>1 DEF Records
  <2>3. PlayerInv(e, phase)
    BY <2>2 DEF PlayerInv, InWorldOrInTransit, TransitIsServed, ListedRightly, Records
  <2>4. player' = [player EXCEPT ![p] = e]
    BY <1>6, <1>9, <2>1
  <2>5. e.loc \in Instances => e.loc = bound' /\ bound' \in i_maps'
    BY <1>2, <1>3, <2>2 DEF Loaded, dungeons
  <2> QED BY <1>2, <1>7, <2>3, <2>4, <2>5, PlayerStep
<1> QED BY <1>8, <1>9

LEMMA ResetStep ==
    ASSUME IInv, NEW p \in Players, ResetInstances(p)
    PROVE  IInv'
<1>1. TypeOK /\ PlayersInv /\ InstanceInv /\ GroupIsTogether /\ CountInv /\ MaxInstances \in Nat \ {0}
  BY MapAssumption DEF IInv
<1>2. /\ bound # 0 /\ maxId < MaxInstances /\ Inside(bound) = {} /\ bound' = 0
      /\ UNCHANGED <<player, i_maps, maxId, threads, moves>>
  BY DEF ResetInstances
<1>3. TypeOK' /\ InstanceInv'
  BY <1>1, <1>2 DEF TypeOK, InstanceInv, threads
<1>4. PlayersInv' /\ CountInv'
  BY <1>1, <1>2 DEF PlayersInv, CountInv, Begun, Ended, asyncMapUpdating, threads
<1>5. \A q \in Players : ~(player[q].inWorld /\ player[q].loc \in Instances)
  BY <1>1, <1>2 DEF GroupIsTogether, Inside
<1>6. GroupIsTogether'
  BY <1>2, <1>5 DEF GroupIsTogether
<1>7. CrashInv'
  BY <1>2 DEF IInv, CrashInv, threads
<1> QED BY <1>3, <1>4, <1>6, <1>7 DEF IInv

\* the threads of the maps, and what the world thread does while they run
LEMMA CountingStep ==
    ASSUME IInv, asyncMapUpdating \/ phase = "world", UNCHANGED <<player, dungeons, moves>>,
           phase' \in {"instances", "continents"},
           tpc' \in [Places -> {"idle", "run", "wait", "done"}],
           expected' = Cardinality(Begun'), finished' = Cardinality(Ended')
    PROVE  IInv'
<1>1. TypeOK /\ PlayersInv /\ InstanceInv /\ GroupIsTogether
  BY DEF IInv
<1>2. expected' \in 0 .. Cardinality(Parts) /\ finished' \in 0 .. expected'
  <2>1. IsFiniteSet(Parts) /\ Begun' \subseteq Parts /\ Ended' \subseteq Begun'
    BY MapAssumption DEF Begun, Ended
  <2>2. PICK B : B = Begun'
    OBVIOUS
  <2>3. PICK E : E = Ended'
    OBVIOUS
  <2>4. IsFiniteSet(B) /\ Cardinality(B) <= Cardinality(Parts)
    BY <2>1, <2>2, FS_Subset
  <2>5. IsFiniteSet(E) /\ Cardinality(E) <= Cardinality(B)
    BY <2>1, <2>2, <2>3, <2>4, FS_Subset
  <2>6. Cardinality(B) \in Nat /\ Cardinality(E) \in Nat /\ Cardinality(Parts) \in Nat
    BY <2>1, <2>4, <2>5, FS_CardinalityType
  <2> QED BY <2>2, <2>3, <2>4, <2>5, <2>6
<1>3. TypeOK'
  BY <1>1, <1>2 DEF TypeOK, dungeons
<1>4. PlayersInv'
  BY <1>1 DEF PlayersInv, PlayerInv, asyncMapUpdating
<1>5. InstanceInv' /\ GroupIsTogether'
  BY <1>1 DEF InstanceInv, GroupIsTogether, Loaded, dungeons
<1>6. CountInv' /\ CrashInv'
  BY DEF CountInv, CrashInv, asyncMapUpdating
<1> QED BY <1>3, <1>4, <1>5, <1>6 DEF IInv

LEMMA UpdateBeginStep ==
    ASSUME IInv, NEW S \in SUBSET Places, UpdateBegin(S)
    PROVE  IInv'
<1>1. /\ phase = "world" /\ phase' = "instances" /\ UNCHANGED <<player, dungeons, moves>>
      /\ tpc' = [x \in Places |-> IF x \in S THEN "run" ELSE "idle"]
      /\ expected' = Cardinality(S \intersect Parts) /\ finished' = 0
  BY DEF UpdateBegin
<1>2. Begun' = S \intersect Parts
  BY <1>1 DEF Begun, Places
<1>3. Ended' = {}
  BY <1>1 DEF Ended, Places
<1>4. tpc' \in [Places -> {"idle", "run", "wait", "done"}]
  BY <1>1
<1> QED BY <1>1, <1>2, <1>3, <1>4, FS_EmptySet, CountingStep

LEMMA MapThreadsStep ==
    ASSUME IInv,
           \/ \E k \in Parts : Continent(k)
           \/ \E i \in Instances : InstanceDone(i)
           \/ InstancesDone
    PROVE  IInv'
<1>1. TypeOK /\ CountInv
  BY DEF IInv
<1>2. Parts \intersect Instances = {}
  BY MapAssumption DEF Instances
<1>3. ASSUME NEW k \in Parts, MarkContinentUpdateFinished(k) PROVE IInv'
  <2>1. /\ tpc[k] = "run" /\ tpc' = [tpc EXCEPT ![k] = "wait"] /\ finished' = finished + 1
        /\ UNCHANGED <<player, dungeons, phase, expected, moves>>
    BY <1>3 DEF MarkContinentUpdateFinished
  <2>2. k \in Places
    BY DEF Places
  <2>3. asyncMapUpdating
    BY <2>1, <2>2, ActiveFacts
  <2>4. expected = Cardinality(Begun) /\ finished = Cardinality(Ended)
    BY <1>1, <2>3 DEF CountInv
  <2>5. Begun' = Begun /\ Ended' = Ended \union {k} /\ k \notin Ended
    BY <1>1, <2>1, <2>2 DEF Begun, Ended, TypeOK, Places
  <2>6. finished' = Cardinality(Ended')
    <3>1. IsFiniteSet(Ended)
      BY MapAssumption, FS_Subset DEF Ended
    <3> QED BY <2>1, <2>4, <2>5, <3>1, FS_AddElement
  <2>7. tpc' \in [Places -> {"idle", "run", "wait", "done"}]
    BY <1>1, <2>1 DEF TypeOK
  <2> QED BY <2>1, <2>3, <2>4, <2>5, <2>6, <2>7, CountingStep DEF asyncMapUpdating
<1>4. ASSUME NEW x \in Places, tpc[x] # "idle", tpc' = [tpc EXCEPT ![x] = "done"],
             x \in Parts => tpc[x] = "wait",
             UNCHANGED <<player, dungeons, phase, finished, expected, moves>>
      PROVE  IInv'
  <2>1. asyncMapUpdating
    BY <1>4, ActiveFacts
  <2>2. expected = Cardinality(Begun) /\ finished = Cardinality(Ended)
    BY <1>1, <2>1 DEF CountInv
  <2>3. Begun' = Begun /\ Ended' = Ended
    BY <1>1, <1>4 DEF Begun, Ended, TypeOK, Places
  <2>4. tpc' \in [Places -> {"idle", "run", "wait", "done"}]
    BY <1>1, <1>4 DEF TypeOK
  <2> QED BY <1>4, <2>1, <2>2, <2>3, <2>4, CountingStep DEF asyncMapUpdating
<1>5. ASSUME NEW k \in Parts, ContinentDone(k) PROVE IInv'
  BY <1>4, <1>5 DEF ContinentDone, Places
<1>6. ASSUME NEW i \in Instances, InstanceDone(i) PROVE IInv'
  BY <1>2, <1>4, <1>6 DEF InstanceDone, Places
<1>7. ASSUME InstancesDone PROVE IInv'
  <2>1. /\ phase = "instances" /\ phase' \in {"instances", "continents"}
        /\ tpc' \in [Places -> {"idle", "run", "wait", "done"}]
        /\ \A x \in Parts : tpc'[x] = tpc[x]
        /\ UNCHANGED <<player, dungeons, finished, expected, moves>>
    BY <1>1, <1>2, <1>7 DEF InstancesDone, TypeOK, Places
  <2>2. Begun' = Begun /\ Ended' = Ended
    BY <2>1 DEF Begun, Ended
  <2> QED BY <1>1, <2>1, <2>2, CountingStep DEF CountInv, asyncMapUpdating
<1> QED BY <1>3, <1>5, <1>6, <1>7 DEF Continent

\* SwitchPlayersInstances moves players within their continent
LEMMA SwitchFacts ==
    ASSUME MapAssumption, NEW r \in Records, PlayerInv(r, "continents")
    PROVE  \E e \in Records :
              /\ e = IF SwitchInstance(r).creating = "no" THEN SwitchInstance(r)
                     ELSE [SwitchInstance(r) EXCEPT !.creating = "taken"]
              /\ PlayerInv(e, "create")
              /\ e.inWorld /\ e.loc \in Instances => r.inWorld /\ e.loc = r.loc
<1>1. PICK f \in Records : /\ f = SwitchInstance(r)
                           /\ f.online = r.online /\ f.inWorld = r.inWorld /\ f.far = r.far
                           /\ f.told = r.told /\ f.dest = r.dest /\ f.creating = r.creating
                           /\ f.scheduled = r.scheduled /\ f.switch = None /\ f.early = r.early
                           /\ f.loc = r.loc \/ f.loc \in Parts
  <2>1. CASE r.switch = None
    BY <2>1 DEF SwitchInstance
  <2>2. CASE r.switch # None
    <3>1. PICK x \in Places : /\ x = IF r.inWorld /\ MapId(r.loc) = MapId(r.switch)
                                     THEN r.switch ELSE r.loc
                              /\ x = r.loc \/ x \in Parts
      BY <2>2 DEF Records, Places
    <3>2. PICK f \in Records : f = [r EXCEPT !.switch = None, !.loc = x]
      BY DEF Records
    <3>3. f = SwitchInstance(r)
      BY <2>2, <3>1, <3>2 DEF SwitchInstance
    <3>4. /\ f.online = r.online /\ f.inWorld = r.inWorld /\ f.far = r.far
          /\ f.told = r.told /\ f.dest = r.dest /\ f.creating = r.creating
          /\ f.scheduled = r.scheduled /\ f.switch = None /\ f.early = r.early /\ f.loc = x
      BY <3>2 DEF Records
    <3> QED BY <3>1, <3>3, <3>4
  <2> QED BY <2>1, <2>2
<1>2. f.inWorld /\ f.loc \in Instances => r.inWorld /\ f.loc = r.loc
  BY <1>1 DEF Instances
<1>3. CASE f.creating = "no"
  <2>1. PlayerInv(f, "create")
    BY <1>1 DEF PlayerInv, InWorldOrInTransit, TransitIsServed, ListedRightly, Records
  <2> QED BY <1>1, <1>2, <1>3, <2>1
<1>4. CASE f.creating # "no"
  <2>1. PICK e \in Records : e = [f EXCEPT !.creating = "taken"]
    BY DEF Records
  <2>2. /\ e.online = r.online /\ e.inWorld = r.inWorld /\ e.far = r.far
        /\ e.told = r.told /\ e.dest = r.dest /\ e.creating = "taken"
        /\ e.scheduled = r.scheduled /\ e.switch = None /\ e.early = r.early /\ e.loc = f.loc
    BY <1>1, <2>1 DEF Records
  <2>3. PlayerInv(e, "create")
    BY <1>1, <1>4, <2>2 DEF PlayerInv, InWorldOrInTransit, TransitIsServed, ListedRightly, Records
  <2> QED BY <1>1, <1>2, <1>4, <2>1, <2>2, <2>3
<1> QED BY <1>3, <1>4

\* the world thread between two updates
LEMMA WorldThreadStep ==
    ASSUME IInv, ContinentsDone \/ CreateEnd \/ \E U \in SUBSET i_maps : UpdateEnd(U)
    PROVE  IInv'
<1>1. TypeOK /\ PlayersInv /\ InstanceInv /\ GroupIsTogether /\ CountInv
  BY DEF IInv
<1>2. player \in [Players -> Records]
  BY <1>1 DEF TypeOK, Records
<1>3. ASSUME ContinentsDone PROVE IInv'
  <2>1. /\ phase = "continents" /\ phase' = "create" /\ tpc' = [x \in Places |-> "idle"]
        /\ UNCHANGED <<dungeons, finished, expected, moves>>
    BY <1>3 DEF ContinentsDone
  <2>2. ASSUME NEW p \in Players
        PROVE  /\ player'[p] \in Records /\ PlayerInv(player'[p], "create")
               /\ player'[p].inWorld /\ player'[p].loc \in Instances =>
                     player[p].inWorld /\ player'[p].loc = player[p].loc
    <3>1. PICK r \in Records : r = player[p] /\ PlayerInv(r, "continents")
      BY <1>1, <1>2, <2>1 DEF PlayersInv
    <3>2. player'[p] = IF SwitchInstance(r).creating = "no" THEN SwitchInstance(r)
                       ELSE [SwitchInstance(r) EXCEPT !.creating = "taken"]
      BY <1>3, <3>1 DEF ContinentsDone
    <3>3. PICK e \in Records :
             /\ e = IF SwitchInstance(r).creating = "no" THEN SwitchInstance(r)
                    ELSE [SwitchInstance(r) EXCEPT !.creating = "taken"]
             /\ PlayerInv(e, "create")
             /\ e.inWorld /\ e.loc \in Instances => r.inWorld /\ e.loc = r.loc
      BY <3>1, SwitchFacts, MapAssumption
    <3>4. player'[p] = e
      BY <3>2, <3>3
    <3> QED BY <3>1, <3>3, <3>4
  <2>3. player' \in [Players -> Records]
    <3>1. player' = [p \in Players |-> player'[p]]
      BY <1>3 DEF ContinentsDone
    <3> QED BY <2>2, <3>1
  <2>4. TypeOK'
    BY <1>1, <2>1, <2>3 DEF TypeOK, Records, dungeons
  <2>5. PlayersInv' /\ CountInv'
    BY <2>1, <2>2 DEF PlayersInv, CountInv, asyncMapUpdating
  <2>6. InstanceInv' /\ GroupIsTogether' /\ CrashInv'
    BY <1>1, <2>1, <2>2 DEF InstanceInv, GroupIsTogether, CrashInv, Loaded, dungeons
  <2> QED BY <2>4, <2>5, <2>6 DEF IInv
<1>4. ASSUME CreateEnd PROVE IInv'
  <2>1. /\ phase = "create" /\ phase' = "teleports"
        /\ UNCHANGED <<player, dungeons, tpc, finished, expected, moves>>
    BY <1>4 DEF CreateEnd
  <2>2. TypeOK' /\ InstanceInv' /\ GroupIsTogether'
    BY <1>1, <2>1 DEF TypeOK, InstanceInv, GroupIsTogether, Loaded, dungeons
  <2>3. PlayersInv' /\ CountInv' /\ CrashInv'
    BY <1>1, <2>1 DEF PlayersInv, PlayerInv, CountInv, CrashInv, asyncMapUpdating
  <2> QED BY <2>2, <2>3 DEF IInv
<1>5. ASSUME NEW U \in SUBSET i_maps, UpdateEnd(U) PROVE IInv'
  <2>1. /\ phase = "teleports" /\ phase' = "world" /\ i_maps' = i_maps \ U
        /\ \A p \in Players : player[p].scheduled = None
        /\ \A i \in U : Inside(i) = {}
        /\ UNCHANGED <<player, bound, maxId, tpc, finished, expected, moves>>
    BY <1>5 DEF UpdateEnd
  <2>2. TypeOK' /\ InstanceInv'
    BY <1>1, <2>1 DEF TypeOK, InstanceInv
  <2>3. PlayersInv' /\ CountInv' /\ CrashInv'
    BY <1>1, <2>1 DEF PlayersInv, PlayerInv, CountInv, CrashInv, asyncMapUpdating
  <2>4. GroupIsTogether'
    BY <1>1, <2>1 DEF GroupIsTogether, Loaded, Inside
  <2> QED BY <2>2, <2>3, <2>4 DEF IInv
<1> QED BY <1>3, <1>4, <1>5

-----------------------------------------------------------------------------
LEMMA InvInit == Init => IInv
<1> SUFFICES ASSUME Init PROVE IInv
  OBVIOUS
<1>1. PICK e \in Records : e = [Gone EXCEPT !.online = TRUE, !.inWorld = TRUE]
  BY MapAssumption DEF Gone, Records, Places, Dests
<1>2. /\ e.online /\ e.inWorld /\ ~e.far /\ e.told = None /\ e.creating = "no"
      /\ e.scheduled = None /\ e.switch = None /\ e.loc \in Parts
  BY <1>1, MapAssumption DEF Gone
<1>3. player = [p \in Players |-> e]
  BY <1>1 DEF Init
<1>4. TypeOK
  <2>1. player \in [Players -> Records]
    BY <1>3
  <2>2. Cardinality(Parts) \in Nat
    BY MapAssumption, FS_CardinalityType
  <2>3. /\ i_maps \subseteq Instances /\ bound \in 0 .. MaxInstances /\ maxId \in 0 .. MaxInstances
        /\ phase \in {"world", "instances", "continents", "create", "teleports", "crashed"}
        /\ tpc \in [Places -> {"idle", "run", "wait", "done"}]
        /\ expected \in 0 .. Cardinality(Parts) /\ finished \in 0 .. expected
        /\ DOMAIN moves = Players
        /\ \A p \in Players : moves[p] \in 0 .. MaxMoves[p]
    BY <2>2, MapAssumption DEF Init
  <2> QED BY <2>1, <2>3 DEF TypeOK, Records
<1>5. PlayerInv(e, phase)
  BY <1>2 DEF PlayerInv, InWorldOrInTransit, TransitIsServed, ListedRightly, Records
<1>6. PlayersInv
  BY <1>3, <1>5 DEF PlayersInv
<1>7. InstanceInv /\ CountInv /\ CrashInv
  BY MapAssumption DEF Init, InstanceInv, CountInv, CrashInv, asyncMapUpdating
<1>8. GroupIsTogether
  BY <1>2, <1>3, MapAssumption DEF GroupIsTogether, Instances
<1> QED BY <1>4, <1>6, <1>7, <1>8 DEF IInv

LEMMA InvNext == IInv /\ [Next]_vars => IInv'
<1> SUFFICES ASSUME IInv, [Next]_vars PROVE IInv'
  OBVIOUS
<1>1. ASSUME WorldStep PROVE IInv'
  <2>1. ASSUME NEW S \in SUBSET Places, UpdateBegin(S) PROVE IInv'
    BY <2>1, UpdateBeginStep
  <2>2. ASSUME InstancesDone PROVE IInv'
    BY <2>2, MapThreadsStep
  <2>3. ASSUME ContinentsDone \/ CreateEnd \/ \E U \in SUBSET i_maps : UpdateEnd(U) PROVE IInv'
    BY <2>3, WorldThreadStep
  <2>4. ASSUME NEW p \in Players, NEW ok \in BOOLEAN, CreateNewInstance(p, ok) PROVE IInv'
    BY <2>4, CreateStep
  <2>5. ASSUME NEW p \in Players, NEW ok \in BOOLEAN, ExecuteDelayedTeleport(p, ok) PROVE IInv'
    BY <2>5, DelayedTeleportStep
  <2>6. ASSUME NEW p \in Players, DungeonAssertFails(p) PROVE IInv'
    BY <2>6, CrashStep
  <2> QED BY <1>1, <2>1, <2>2, <2>3, <2>4, <2>5, <2>6 DEF WorldStep
<1>2. ASSUME \/ \E k \in Parts : Continent(k)
             \/ \E i \in Instances : InstanceDone(i)
      PROVE  IInv'
  BY <1>2, MapThreadsStep
<1>3. ASSUME NEW p \in Players, NEW d \in Dests, TeleportFar(p, d) PROVE IInv'
  BY <1>3, TeleportFarStep
<1>4. ASSUME NEW p \in Players,
             \/ \E d \in Dests : TeleportNear(p, d)
             \/ HandleMoveTeleportAck(p)
             \/ \E k \in Parts : ScheduleInstanceSwitch(p, k)
      PROVE  IInv'
  BY <1>4, MapThreadStep
<1>5. ASSUME NEW p \in Players, NEW ok \in BOOLEAN, HandleMoveWorldportAck(p, ok) PROVE IInv'
  BY <1>5, WorldportStep
<1>6. ASSUME NEW p \in Players, NEW ok \in BOOLEAN, LogoutPlayer(p, ok) PROVE IInv'
  BY <1>6, LogoutStep
<1>7. ASSUME NEW p \in Players, ResetInstances(p) PROVE IInv'
  BY <1>7, ResetStep
<1>8. ASSUME UNCHANGED vars PROVE IInv'
  <2>1. TypeOK' /\ PlayersInv' /\ InstanceInv'
    BY <1>8 DEF vars, IInv, TypeOK, PlayersInv, InstanceInv
  <2>2. GroupIsTogether' /\ CountInv' /\ CrashInv'
    BY <1>8 DEF vars, IInv, GroupIsTogether, CountInv, CrashInv, Loaded, Begun, Ended, asyncMapUpdating
  <2> QED BY <2>1, <2>2 DEF IInv
<1>9. ASSUME Crashed PROVE IInv'
  BY <1>9, CrashStep
<1> QED BY <1>1, <1>2, <1>3, <1>4, <1>5, <1>6, <1>7, <1>8, <1>9 DEF Next

(***************************************************************************)
(* The invariant from which the theorems below follow: what waits for a    *)
(* player waits for one who is there, the group is bound to the newest     *)
(* instance, and the counters of MarkContinentUpdateFinished are exact.    *)
(***************************************************************************)
THEOREM Invariance == Spec => []IInv
<1> QED BY InvInit, InvNext, PTL DEF Spec

(***************************************************************************)
(* Whatever the order of teleports, updates, refusals and logouts, every   *)
(* player is on a map or on its way to one it was told of or waits for,    *)
(* and the map manager keeps nothing of a player who is gone               *)
(* (ScheduleFarTeleport, CreateNewInstancesForPlayersSync, LogoutPlayer);  *)
(* nor have more continents finished their update than began it.           *)
(***************************************************************************)
THEOREM NobodyLost == Spec => []Inv
<1>1. ASSUME IInv PROVE NobodyIsLost
  <2>1. ASSUME NEW p \in Players
        PROVE  /\ InWorldOrInTransit(player[p]) /\ TransitIsServed(player[p])
               /\ ListedRightly(player[p]) /\ NoPointerLeft(player[p])
    BY <1>1, <2>1 DEF IInv, PlayersInv, PlayerInv, NoPointerLeft
  <2> QED BY <1>1, <2>1 DEF NobodyIsLost, IInv, CrashInv
<1>2. IInv => Inv
  BY <1>1 DEF IInv, Inv
<1> QED BY <1>2, Invariance, PTL

(***************************************************************************)
(* Members of the group who are in the dungeon are in the instance the     *)
(* group is bound to, and its map is loaded (CreateInstance, CanUnload,    *)
(* ResetInstances).                                                        *)
(***************************************************************************)
THEOREM GroupTogether == Spec => []GroupIsTogether
<1>1. IInv => GroupIsTogether
  BY DEF IInv
<1> QED BY <1>1, Invariance, PTL

(***************************************************************************)
(* While the threads of the maps run, nobody enters or leaves a map and no *)
(* map is created or deleted: far teleports and switches wait until they   *)
(* have returned (asyncMapUpdating, ScheduleFarTeleport).                  *)
(***************************************************************************)
THEOREM MapsStay == Spec => MapsStayDuringUpdate
<1> DEFINE Stays == asyncMapUpdating /\ asyncMapUpdating' =>
                       /\ i_maps' = i_maps
                       /\ \A p \in Players : /\ player'[p].loc = player[p].loc
                                             /\ player'[p].inWorld = player[p].inWorld
<1>1. ASSUME IInv, Next, asyncMapUpdating, asyncMapUpdating'
      PROVE  Stays
  <2>1. player \in [Players -> Records]
    BY <1>1 DEF IInv, TypeOK, Records
  <2>2. phase \in {"instances", "continents"} /\ phase' \in {"instances", "continents"}
    BY <1>1 DEF asyncMapUpdating
  <2>3. ASSUME NEW p \in Players, NEW r \in Records, player' = [player EXCEPT ![p] = r],
               r.loc = player[p].loc, r.inWorld = player[p].inWorld, i_maps' = i_maps
        PROVE  Stays
    BY <2>1, <2>3
  <2>4. ASSUME NEW p \in Players, NEW d \in Dests, TeleportFar(p, d) PROVE Stays
    <3>1. PICK r \in Records : r = [player[p] EXCEPT !.dest = d, !.scheduled = d]
      BY <2>1 DEF Records, Dests
    <3>2. r.loc = player[p].loc /\ r.inWorld = player[p].inWorld
      BY <2>1, <3>1 DEF Records
    <3>3. player' = [player EXCEPT ![p] = r] /\ i_maps' = i_maps
      BY <1>1, <2>4, <3>1 DEF TeleportFar, ScheduleFarTeleport, dungeons
    <3> HIDE DEF Stays
    <3> QED BY <2>3, <3>2, <3>3
  <2>5. ASSUME NEW p \in Players, NEW d \in Dests, TeleportNear(p, d) PROVE Stays
    <3>1. PICK r \in Records : r = [player[p] EXCEPT !.far = FALSE, !.near = TRUE, !.dest = d]
      BY <2>1 DEF Records
    <3>2. r.loc = player[p].loc /\ r.inWorld = player[p].inWorld
      BY <2>1, <3>1 DEF Records
    <3>3. player' = [player EXCEPT ![p] = r] /\ i_maps' = i_maps
      BY <2>5, <3>1 DEF TeleportNear, dungeons
    <3> HIDE DEF Stays
    <3> QED BY <2>3, <3>2, <3>3
  <2>6. ASSUME NEW p \in Players, HandleMoveTeleportAck(p) PROVE Stays
    <3>1. PICK r \in Records : r = [player[p] EXCEPT !.near = FALSE]
      BY <2>1 DEF Records
    <3>2. r.loc = player[p].loc /\ r.inWorld = player[p].inWorld
      BY <2>1, <3>1 DEF Records
    <3>3. player' = [player EXCEPT ![p] = r] /\ i_maps' = i_maps
      BY <2>6, <3>1 DEF HandleMoveTeleportAck, dungeons
    <3> HIDE DEF Stays
    <3> QED BY <2>3, <3>2, <3>3
  <2>7. ASSUME NEW p \in Players, NEW k \in Parts, ScheduleInstanceSwitch(p, k) PROVE Stays
    <3>1. PICK r \in Records : r = [player[p] EXCEPT !.switch = k]
      BY <2>1 DEF Records
    <3>2. r.loc = player[p].loc /\ r.inWorld = player[p].inWorld
      BY <2>1, <3>1 DEF Records
    <3>3. player' = [player EXCEPT ![p] = r] /\ i_maps' = i_maps
      BY <2>7, <3>1 DEF ScheduleInstanceSwitch, dungeons
    <3> HIDE DEF Stays
    <3> QED BY <2>3, <3>2, <3>3
  <2>8. ASSUME NEW p \in Players, NEW ok \in BOOLEAN,
               \/ HandleMoveWorldportAck(p, ok) \/ LogoutPlayer(p, ok) \/ ResetInstances(p)
               \/ CreateNewInstance(p, ok) \/ ExecuteDelayedTeleport(p, ok)
        PROVE  Stays
    BY <2>2, <2>8 DEF HandleMoveWorldportAck, LogoutPlayer, ResetInstances, CreateNewInstance,
                      ExecuteDelayedTeleport
  <2>9. ASSUME \/ \E S \in SUBSET Places : UpdateBegin(S)
               \/ InstancesDone \/ ContinentsDone \/ CreateEnd
               \/ \E p \in Players : DungeonAssertFails(p)
               \/ Crashed
               \/ \E U \in SUBSET i_maps : UpdateEnd(U)
        PROVE  Stays
    BY <2>2, <2>9 DEF DungeonAssertFails, Crashed, UpdateBegin, InstancesDone, ContinentsDone, CreateEnd, UpdateEnd, dungeons
  <2>10. ASSUME \/ \E k \in Parts : Continent(k)
                \/ \E i \in Instances : InstanceDone(i)
         PROVE  Stays
    BY <2>10 DEF Continent, MarkContinentUpdateFinished, ContinentDone, InstanceDone, dungeons
  <2> HIDE DEF Stays
  <2> QED BY <1>1, <2>4, <2>5, <2>6, <2>7, <2>8, <2>9, <2>10 DEF Next, WorldStep
<1>2. IInv /\ [Next]_vars => [Stays]_vars
  BY <1>1
<1> QED BY <1>2, Invariance, PTL DEF Spec, MapsStayDuringUpdate
=============================================================================
