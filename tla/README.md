# A model of the Turtle WoW server core

TLA+ modules, model-checking runs and proofs for the server in this repository: a
descendant of (v)MaNGOS for the 1.12 client. `mangosd` is the world server,
`realmd` the logon server. Paths below are relative to the repository; most code is
under `src/src/`.

- [1 Inventory](#1-inventory): what the server consists of
- [2 Plan](#2-plan): which modules, in which order, and what is left
- [3 The modules](#3-the-modules): model, runs, bounds, fairness and proofs, one part after another
- [4 What the checks do not show](#4-what-the-checks-do-not-show)

To check: `tlc -config <run>.cfg <module>` for each run of `PROJECT.json`, and
`tlapm <module>` for each module named `...Proofs.tla`.

## 1 Inventory

### Threads

The world server is one **world thread** (`WorldRunnable`: `World::Update` every
50 ms), which owns the game state, and threads around it that hand it work, take
work from it, or touch its state while it is known, or hoped, to be elsewhere:

| thread | started in | shares with the world thread |
|---|---|---|
| main | `mangosd/Master.cpp` | start and stop of databases, world, network |
| acceptor and network threads | `MangosSocketMgrImpl.h` | sockets, `addSessQueue`, packet queues of sessions |
| delay threads, one per worker and database | `Database.cpp` | request queues and result queue |
| result pool (6) | `SqlOperations.cpp` | thread-safe query callbacks |
| map, continent, cell, motion, visibility pools | `MapManager.cpp`, `Map.cpp` | all maps, during `MapManager::Update` |
| async task pool | `World::Update` | tasks queued by handlers |
| async packets | `World::ProcessAsyncPackets` | `m_sessions`, guarded by a flag |
| packet broadcasters | `MovementBroadcaster.cpp` | players' queues and listeners |
| auto-commit, dump, shop, console | `World.cpp`, `ShopMgr.cpp`, `CliRunnable.cpp` | database, command queue |

### Components

| component | state | operations | interacts with | hard |
|---|---|---|---|---|
| Asynchronous database | queues of operations, worker threads, open transactions, result queue | `Execute`, `Begin/CommitTransaction`, `AsyncQuery`, `DelayQueryHolder`, `ProcessResultQueue`, `StopServer` | every component that saves or loads | order per character across threads, callbacks that outlive a tick, shutdown |
| World sessions, login queue | `m_sessions`, `m_disconnectedSessions`, queues, population counters, players in the world | `AddSession_`, `UpdateSessions`, `LogoutPlayer`, login callbacks, `KickAll` | sockets (other threads), database (callbacks), maps | replacement while loading, callbacks for another session, players without a client, who is let in |
| Async packet thread | a flag and an iteration of `m_sessions` | handles chat and queries outside `UpdateSessions` | world sessions, packet queues | no handshake |
| Packet queues of a session | a queue per kind of processing | `QueuePacket`, `ProcessPackets` | network thread, map threads | throttling, requeueing, who runs which kind |
| Socket output | buffer, packet queue, cipher, flags | `SendPacket`, `handle_output`, `Update`, `CloseSocket` | any thread, reactor | cipher order, partial sends, wake-ups, close from any side |
| World socket authentication | challenge, cipher, ping times | `ProcessIncoming`, `HandleAuthSession` | sessions | order of the first packets |
| Thread pool | workload, workers, promise | `processWorkload`, `<<` | all users of parallelism | last worker, exceptions, destruction |
| Map manager | maps, delayed teleports, switches, new instances | `Update`, `ScheduleFarTeleport`, `CreateInstance` | pools, sessions, players | barrier of continents, moving players between maps |
| Packet broadcast | queues, listeners, sockets of players | `QueuePacket`, `ProcessQueue`, `FreeAtLogout` | map threads, sockets | two locks per player and none on the socket |
| Instance binding and resets | binds, reset times | `MapPersistentStateMgr` | groups, maps, database | resets against players inside |
| Grids, pools of spawns, game events | grid states, spawn counts | timers | database content | counts over nested pools |
| Trade, mail, auctions, guild bank | items and money in transit | handlers | players, database transactions | nothing lost, nothing doubled, over two players and a database |
| Groups, loot rolls, LFG | members, leader, rolls | handlers, timers | players, maps | members that leave in the middle |
| Battlegrounds, duels | queues, invitations, scores | handlers, timers | maps, teleports | time-outs against answers |
| Threat and other references | links between two owners | add, delete, clear | units | deletion from either side |
| Event processor, movement generators | events, stack of generators | `Update` | units | changes made by what is being run |
| Units, players, spells, AI, scripts, quests | game rules | | | large data, mostly sequential |
| Anticheat, Discord, HTTP, logging, collision | | | | heuristics, I/O, geometry |
| Realm daemon | logon protocol per connection | `AuthSocket` handlers | account database | order of messages |

`PROJECT.json` lists every component with its files and status, and the hazards of
the code with the line where each bites.

### What makes each part correct

The database executes the operations of one character in order and loses none. A
player has one controlling session, a session that loads ends loading, a player
without a client leaves, the queue lets people in, in order, and the population
exceeds its limit by no more than one batch of newcomers. The socket sends every packet once, whole, decryptable,
and goes to sleep only when nothing is left to send. The pool runs every task once
and tells the caller when it is over. Maps change, and players move between them,
only when no map is being updated. Items and money are conserved.

## 2 Plan

Order: what everything else rests on first (threads, queues, sessions), then what
moves players and property, then protocols of their own.

| step | modules | composes | abstract specification | status |
|---|---|---|---|---|
| 1 | `AsyncDatabase` | | `SerialExecution` | checked, proved |
| 2 | `WorldSessions` | the database, as queries answered in order | | checked, proved |
| 3 | `SessionPackets`: packet queues, async packet thread | sessions, as a set that changes | | checked, proved |
| 4 | `SocketOutput` | | | checked, proved |
| 5 | `ThreadPool` | | `Batch` | checked, proved |
| 6 | `MapUpdate`: tick of the maps, delayed teleports, new instances, logout | pools, as threads that end | | checked, proved |
| 7 | `PacketBroadcast` | sockets, as something to be given up | | checked, proved |
| 8 | `Trade` | | `Exchange` | checked, proved |
| | `Mail`, `AuctionHouse` | the database, executed in the order of issue | `Estate` | checked, `Inv` proved |
| | loot rolls, guild bank | | | next |
| 9 | battleground queue; instance binds and resets | | | |
| 10 | incoming half of the socket, authentication; `realmd` | `SocketOutput` | | |
| 11 | references, event processor, pools of spawns | | | |

Bounds in the plan: two or three actors of each kind, enough for one to overtake or
replace another while a third interferes; queues of two or three; each actor's own
steps bounded by what it can do once or twice.

Theorems: proved are `SerialOrder` and the refinement of `SerialExecution`, with
`ResultsInv` and `HaltDrains` of `AsyncDatabase`; `ControlInv`, `AdmissionInv`, `QueueInv`
and `NobodyIsOvertaken` of `WorldSessions`; `TradeInv` of `Trade` and its refinement of
`Exchange`; `Inv` of `AuctionHouse`; `WholeFrames`, `PacketInv` and `FlagInv` of `SocketOutput`; `Inv` of
`ThreadPool` and its refinement of `Batch`; `ListenerHasSocket`, `InOrder` and `Inv` of
`PacketBroadcast`; `Inv` of `SessionPackets`; `Inv` of `MapUpdate`. Not proved: the refinement
of `Estate`. Each invariant is checked by TLC, with its
strengthening, before it is proved. Liveness stays with TLC.

## 3 The modules
### The asynchronous database (`SerialExecution`, `AsyncDatabase`, `AsyncDatabaseProofs`)

**Code.** `src/src/shared/Database/{Database,SqlDelayThread,SqlOperations}.cpp`,
`LockedQueue.h`, and the start and stop of the databases in `mangosd/Master.cpp`.
Game threads hand statements, transactions and queries to a `Database`. An
operation with a serial id (a character's low guid: its saves, its login query
holder) goes to the queue of worker `id % workers`, any other one to the common
queue. Each worker (`SqlDelayThread`) empties the common queue, then its own.
Results return through `SqlResultQueue`, whose `Update` runs on the world thread
once per tick: thread-safe callbacks go to a pool, the others are run by the
world thread itself until the time of the tick is used up.

**Model.** `SerialExecution` is the promise: operations are issued one after
another, each is executed once, those with the same non-zero serial id in order.
`AsyncDatabase` is the code. An operation is its position in `issued`.

| variable | code |
|---|---|
| `delayQueue`, `serialQueue[w]` | `Database::m_delayQueue`, `SqlDelayThread::m_serialDelayQueue` |
| `wpc[w]`, `cur[w]`, `running[w]` | where worker `w` is in `run`/`ProcessRequests` (or in its destructor), the popped operation, `m_running` |
| `trans[c]` | the thread-local `SqlTransaction` of `TransHelper`: its serial id |
| `asyncAllowed`, `numAsyncWorkers` | `m_bAllowAsyncTransactions`, `m_numAsyncWorkers` |
| `mpc` | the main thread: startup, running, closing (world thread joined), and the steps of `StopServer`/`HaltDelayThread` |
| `resultQueue`, `unsafeQueue`, `batch`, `upc` | the result queue, `_threadUnsafeWaitingQueries`, the callbacks given to the pool, the position in `Update` |
| `issued`, `done`, `delivered` | history: what was added (and where the main thread was then, `during`), executed, and called back |

Each `LockedQueue::add`/`next` is one step, and so is the execution of one
operation, so that two workers may take operations in one order and execute them
in another. Success or failure of a statement, the contents of a transaction, the
connection pool for synchronous queries and the keep-alive ping are left out, and so are
the callbacks that run on the worker itself right after `Execute`
(`SqlDelayThread.cpp:96-108`): they touch none of the state of the model.

`Outlasting` are the threads that are joined only after `StopServer`, in
`World::InternalShutdown` or with the console (shop, character dump, async packets,
command line: `Master.cpp:334-379`, `World.cpp:239-249`). They call on, with plain
statements and transactions without a serial id, while the workers are stopped,
joined and destroyed, until `m_pAsyncConn` is gone. The world thread, and with it the maps'
threads and `CharDBWorker`, has ended by then (`World::Shutdown`, `Master.cpp:301`).
Serial ids and result callbacks belong to players and their sessions: the world thread and
its helpers use them, and only while the world runs.

| run | shows | bounds |
|---|---|---|
| `async_database` | `SerialOrder`, `HaltDrains`, refinement of `SerialExecution`; `ResultsInv` (`UnsafeDeliveryOrder`, `CallbackOnce`, `PoolQuietBetweenUpdates`); `IssuedIsExecuted`, `StopTerminates` | main, world and one outlasting thread, 2 workers, ids {1, 2} (one per worker), both kinds of callback, 2 operations, shutdown at any point (`MaxOps = 2`) |

**Fairness.** Weak fairness of each worker, of the world thread's `Update`, of the
pool, and of the main thread once it has begun to stop the server: threads the
operating system schedules, none of them waiting for an event that may not come. No
caller has to call and nobody has to stop the server. `MaxOps` makes the common queue
run empty at some time, as `IssuedIsExecuted` needs: a worker serves its own queue only when it
finds the common one empty (`SqlDelayThread.cpp:93`), and would starve it under an endless
supply of statements.

**Observed.** `StopServer` is documented to cancel scheduled queries (`Database.h:281`);
`CancelAll` empties only the queue the results arrive in. If the last `Update` ran out
of time, the callbacks it had set aside are neither run nor freed: in the model,
`mpc = "stopped"` with a non-empty `unsafeQueue`. A statement of an
outlasting thread that reaches the common queue once the destructors have found it
empty (`Database.cpp:249`) is never executed: `HaltDrains` and `IssuedIsExecuted` promise
execution only to what is issued before the first worker is destroyed, and hold no
further.

**Proofs** (`AsyncDatabaseProofs`, for every value of the constants that
satisfies the assumptions: at least one worker, positive serial ids, distinct
`World` and `Main` among the callers, neither of them `Outlasting`). `TypeCorrect` is the type invariant.
`SerialOrder` is not inductive: nothing in it says where an operation that is not
yet executed is. `IInv` adds `PhaseInv` (direct execution and serial ids never
meet: transactions begun during startup, and those of the outlasting threads, have id 0), `CommonInv` (the common
queue, and what was taken from it, has id 0), `SerialQueueInv` (a worker's queue is
ordered, belongs to the worker, and is newer than what the worker has taken
from it) and `HeldInv` (an unexecuted operation with an id is with its worker).
`Invariance` proves it; `ReadyToExecute` concludes that everything a worker is
about to execute may be executed; `ImplementsSerialExecution` and
`SerialOrderHolds` follow.

`ShutdownDrains` proves `HaltDrains` from `ShutdownInv`: `OnceInv` (whatever waits or is
taken is not executed yet, and is there once), `CommonHeldInv` (the counterpart of
`HeldInv` for the common queue) and `DrainInv`. The last is the argument for the
destructors: what is in the common queue after a destructor has found it empty was issued
when the main thread was already destroying the workers (`LateQueue`), and a worker that is
gone leaves an empty queue of its own, because no operation with a serial id is issued
after the world thread is joined.

`ResultsHold` proves `ResultsInv`. Its order part follows the callbacks of one id through
`LineInv`: the three sequences `resultQueue`, `unsafeQueue`, `delivered` are each sorted,
and each lies ahead of the one before it, so that moving the head keeps the order; what is
posted is the newest of its line because `SerialOrder` has executed the older ones
(`NewestResult`). `CancelAll` passes the unsafe queue by, which is why the order between
`unsafeQueue` and the others is claimed only until the world thread is joined.
`CallbackOnce` is preserved by counting (`OccurrencesAppend`, `OccurrencesTail`). The two
liveness properties are only model-checked.

### Sessions and the login queue (`WorldSessions`, `MCWorldSessions`, `WorldSessionsProofs`)

**Code.** `src/src/game/World.cpp` (`AddSession_`, `UpdateSessions`,
`RemoveQueuedSession`, `AddQueuedSession`, `KickAll`, `Shutdown`), `WorldSession.cpp`
(`Update`, `ForcePlayerLogoutDelay`, `UpdateDisconnected`, `LogoutPlayer`, the
destructor) and `Handlers/CharacterHandler.cpp` (login request and callback).
Network threads put new sessions into `addSessQueue` and close sockets. Each tick
the world thread admits waiting sessions, takes the new ones over (kicking and
replacing an older session of the account), updates each session of `m_sessions`
and each of `m_disconnectedSessions`, and later runs the callbacks of finished
login queries, which look their session up *by account*.

**Model.** The functions of the code call each other (`AddSession_` may remove a
queued session, which may let another one in, and delete or disconnect the old
one), so everything the world thread owns is one record `server` and each
function is an operator from `server` to `server`; an action composes them.

| part of the state | code |
|---|---|
| `server.session[s]` | flags, socket and player of a `WorldSession`, and whether it exists |
| `server.character[c]` | the `Player` object in `ObjectAccessor`: its session, `IsInWorld` |
| `server.sessions`, `.disconnected` | `m_sessions`, `m_disconnectedSessions` |
| `server.queue[0]`, `[1]`, `[Fifo]` | `m_priorityQueue[region]`, `m_QueuedSessions` |
| `server.playerLimit`, `.logged`, `.connections`, `.lastLogout` | `m_playerLimit`, `loggedRegionSessions`, `m_Ipconnections`, `m_accountsLastLogout` |
| `addSessQueue`, `holders` | sessions handed over, login queries with the database |
| `pc`, `todo` | which part of the tick is running, what its loop has not reached |
| `stop` | `m_stopEvent`, and `World::Shutdown` |

A client asks for characters of its own account only, the ones its list
shows; that the callback turns another account away (`CharacterHandler.cpp:576-582`) is
left out. What packets and timers make of a session in one update is chosen: nothing, a
login request, a logout that is due, a kick for being idle, or the handling of a
closed socket. Advancing an iterator after its entry was erased, as the robin-hood map of
`m_sessions` does when `ForcePlayerLogoutDelay` moves a session away, may pass over
one session. Login queries about one character are answered in order: their serial
id is the character's guid, and so is that of its saves, so `SerialOrder`, which is
proved for the database, is what lets a login read what the logout before it
wrote. Bots are left out; so is the deletion of what is left of `m_sessions` in
`InternalShutdown`. A session number stands for one object, used once.

| run | shows | bounds |
|---|---|---|
| `session_login` | `ControlInv` (`OneController`, `LoadingIsAnswered`), `AdmissionInv`; `LoginEnds`, `DisconnectedLeave` | two sessions of one account that owns two characters, one of another account, room for one, so that all three may wait, replace and disconnect; grace periods; stop at any tick |
| `session_queue` | `QueueInv` (`QueueSorted`, `ActiveWithinCeiling`), `NobodyIsOvertaken`, `QueueMoves` | four sessions of four accounts, three in one region and one in the other, base priorities 0 and 1, the penalty for three sessions of one address, two places, two sessions let in per tick, so that the ceiling of three is reached |
| `session_shutdown` | `ShutdownSaves` is violated | one account |

`session_queue` cannot be stopped: with `MayStop` the same states would appear
once more, and what stopping does to sessions is the subject of the other runs.
Priorities are only compared, and a newcomer has a base priority, so ageing is cut
off one above the largest of them without changing any comparison.

**Fairness.** The world thread ticks (weak fairness of `Tick`). The oldest login
query is answered: by `IssuedIsExecuted` of `AsyncDatabase` its operation is
executed, and a later tick runs the callback; ticks that run no callback come in
between, so this is strong fairness. A disconnected session's timer falls with each
tick, so one of those that are due is dropped (strong fairness, again because
`UpdateSessions` is only part of a tick). Nobody is assumed to connect, to close a
socket, to request a login or to leave.

**Proofs** (`WorldSessionsProofs`, for any sessions, accounts, characters and
settings that satisfy the assumptions). `ControlHolds` proves `ControlInv`. It is not
inductive: that a session which loads is found by the callback of its account needs
to know where sessions are, and that a replaced one is not in use any more. `IInv`
adds to it, on the record `server`, `Playing` (a player in the world has a session, and
a session that plays does not load) and `Placed` (what is in `m_sessions` is under its
own account, the disconnected ones are not in it, only what is in it loads), and
beside it `HoldersInv` (a query's account owns the character asked for, and an account
whose session loads has a query), `ArrivingInv` (what was handed over waits, and is there
once) and `LoopInv` (what the second loop has not reached is in `m_sessions`, what the
third has not reached is disconnected: no loop reaches a deleted session). Since the
functions call each other, each has a lemma that says what it does to a
record of which the invariant holds (`SameControl`: nothing that matters here;
`LoggedOut`, `Deleted`, `Moved`, `Entered`, `Plays`: one thing to one session), and an
action's proof composes these as the action composes the functions.

`AdmissionHolds`, `QueueHolds` and `OvertakenHolds` are proved from
`AdmissionIInv`, together with `IInv`. It is stated of a record, `Admission(sv, X, f)`, because
it must hold between the functions of one step too: `X` are the sessions in the
middle of being placed (taken over and neither waiting nor let in yet, or out of the
map and not yet deleted), and `f` says that `KickAll` has not emptied the queues. Its
parts: `Typed`; `Lined` (each queue is sorted, a session in it once); `Waits` (an entry
belongs to a session of the map that waits, and is in the queue of its region);
`AllQueued` (the converse, while `f`); `Flagged` (outside `X`, a session waits or was let
in, and is in the map or disconnected; one that waits neither plays nor loads);
`Counted` (the population of a region is the number of its sessions let in; an
address counts at least its present sessions, so that no count is decreased below
zero); `Within` (the limit). The functions on queues get lemmas that say which
sessions leave (`Shrinks`) or join (`Joins`) and that nobody else changes places; the
counters need cardinalities, so `SessionsAssumption` has the sessions finite.

The limit that is checked and proved is `Ceiling`: `PlayerHardLimit` if a tick lets at
most one session in, else `PlayerHardLimit + LoginPerTick - 1`, for all settings. It is
tight: in `session_queue` three sessions get in with `HardLimit` 2 and `LoginPerTick` 2.

**Finding.** A player whose client is gone when the server
stops is neither logged out nor saved by `Shutdown`: `KickAll` closes a socket that
is closed already, and `UpdateSessions(1)` is shorter than the timer.

**Observed.** With `PriorityQueue.Enable` off, no tick lets anyone in: the code that
did is commented out (`World.cpp:3393`). The head of the queue then moves only when
another session leaves through `RemoveQueuedSession`, which a session that goes to
`m_disconnectedSessions` does not: with the single queue `QueueMoves` does not
hold. `UpdateSessions` compares with `PlayerHardLimit` once and then admits up
to `LoginPerTick` sessions (`World.cpp:3328`), so with `LoginPerTick`
above 1 up to `LoginPerTick - 1` more get in than what `mangosd.conf.dist.in:99` calls the
"Maximum number of players in the world, after increasing PlayerLimit with
LoginPerTick." The file ships 8 for it and 4000 for the limit. `m_Ipconnections` is never
counted down for a replaced or disconnected session. An account that logs in twice
in quick succession may get the character of the first request.
### Packets of a session and the async packet thread (`SessionPackets`, `MCSessionPackets`)

**Code.** A network thread appends each packet to one of the session's queues, by the
`PacketProcessing` of its opcode (`WorldSession::QueuePacket`). `ProcessPackets` empties one
of them: `World::UpdateSessions` those for the world, the player's map those for the map,
and the async packet thread (`World::ProcessAsyncPackets`) queries and most chat, while
it iterates over `m_sessions`. The world thread is known not to change these
while `m_canProcessAsyncPackets` is raised: `World::Update` lowers it before
`UpdateSessions` and raises it afterwards. The async thread looks at the flag before an
iteration and after each session. `UpdateSessions` takes sessions out of `m_sessions` and
deletes them, and so does `World::InternalShutdown` before it joins the thread.

**Model.** Positions of the world, async and main threads, `m_sessions`, the sessions that
have been taken out of it and those that are deleted, the two flags, and what the iteration
may still meet; per session its socket, whether its player is in
the world (which the filter of the map and async threads asks for), `_recvQueue` and the
counts of `AllowPacket`; per thread the call of `ProcessPackets` it is in, with the packet
being handled and `requeuePackets`. A packet is its number and its opcode. The maps are
updated by the world thread or while it waits for them, so that the two are one thread here.

`m_sessions` is a `robin_hood::unordered_map`, a flat table: putting an element in or taking
one out moves others. `Iteration` says what that does to an iteration meanwhile: it may skip
sessions, meet some again, meet the one taken out, or run on in a table that was freed when
it grew (`None`). Using a freed table or a deleted session is undefined behaviour; `AsyncLost`
takes the async thread out of the model then (`apc = "undefined"`), and the other threads go
on: what a crash leaves are the states before it.

| run | shows | bounds |
|---|---|---|
| `session_packets` | `Inv` (types; `AtMostOneLate`; `EachOnce`: no packet of a session that exists is lost or doubled), `InOrder` within a kind; `StopEnds`, `Served` | two sessions; for one of them two queries and a chat message, two packets for the map, two names asked for, or one packet for the world; its player comes and goes, its connection may break; one query in four seconds, two packets in a pass; the server is stopped at any time |

A second query is put off while a chat message behind it is handled or denied, which is
the case `requeuePackets` exists for; two packets for the map tell whether two threads could
have them; two sessions whether a second one is begun after the flag went down.

**Fairness.** The threads run (weak fairness). The loops of the world thread are finite: an
update ends and has met every session, a tick every player (strong fairness, because other
steps may come in between). The clock goes on: once four seconds are over every pass finds
them over. Nothing is assumed of when the async thread finds the flag raised, or of which
sessions it gets to: it polls every 20 ms, and after each break the iteration starts at the
beginning of `m_sessions` again, so that under long session updates the last ones may wait
for ever. `Served` therefore has a premise for the packets of that thread: that it gets to
the session again and again.

**Observed.** The flag only tells the thread not to begin: nothing waits for what it has
begun, so one session's packets, and the iteration itself, may go on during
`UpdateSessions`, although chat of these kinds is meant to be handled while "session update in world thread
is not running" (`WorldSession.cpp:240`). `AtMostOneLate` is what the code does give. It says
nothing of `World::Shutdown`, which runs `UpdateSessions` with the flag raised
(`World.cpp:197`): there TLC finds two sessions begun. It finds the async thread in a deleted
session or in a freed table during an update (`World.cpp:3450`, 3470), during that of
`Shutdown`, and while `InternalShutdown` deletes what is left (`World.cpp:218`).
If the server is stopped before its first tick the flag is
never raised, the thread polls for it without looking at `m_stopEvent` (`World.cpp:2430`),
and the main thread waits for it for ever: `StopEnds` says so by its premise, and does not
hold without it. The map's thread and the async thread share `m_requeuePacketCount`, an
`unordered_map` without a lock (`WorldSession.cpp:1107`); the model has one count for each
opcode and leaves the race out, as it does that for `m_Socket`, which `Update` sets to null
while the async thread may be asking it (`WorldSession.cpp:380`, 417). A packet that is
denied is not freed (`WorldSession.cpp:439`). The queues for the map and for queries are not emptied at
logout: what is left in them waits for the next character of the session. `CMSG_SEND_MAIL`
is a packet for the map, and for a receiver who is online `HandleSendMail` runs the callback
at once (`MailHandler.cpp:289`), although the query it else waits for is marked "Unsafe query: can modify items,
accesses online players" (line 311).

**Proofs** (`SessionPacketsProofs`, for any sessions, opcodes, packets and limits).
`EachOnce` says that a packet is somewhere once, `InOrder` that those of a kind were handled
in order; neither says where the packets are in between. `PacketInv` names the *spots* of
a session (a queue for each kind, what each thread is handling, what it has put aside, and
what is done) and says that every packet received is at exactly one spot as long as the session
exists, and that spots nearer the end hold earlier packets of a kind. What was done for a
deleted session stays in its order. `KindsInv` says that the kind of a queue, and of
the pass a thread is in, is that of its packets: as the kinds of the world's passes and those of the async thread
are different ones, no two threads ever take from the same queue, which is what the order
rests on. `FlagInv` adds to `AtMostOneLate` that the async thread is not about to begin
another session while the flag is down. Every step is one of three moves of packets between
spots (`Move`, `Arrive`, and `Return` for what was put aside), proved once each.
`HandledInOrder` and `PacketsAreKept` (all of `Inv`) follow from `Invariance`.

### The output of a socket (`SocketOutput`, `MCSocketOutput`)

**Code.** `src/src/framework/Network/{MangosSocket.h,MangosSocketImpl.h,ReactorRunnable.h}`
on top of the ACE reactor. Any thread may call `SendPacket`: under
`m_OutBufferLock` the header is encrypted and the packet copied into `m_OutBuffer`,
or queued when it does not fit. The network thread of the socket sends what the
kernel takes, when the reactor finds the socket writable or its own loop finds bytes
and `m_OutActive` down, then moves queued packets into the buffer, and asks the
reactor to be woken up for output, or not. The acceptor's thread opens the socket.

**Model.** A unit of the stream is `<<packet, position, key>>`, where the key is the
number of headers encrypted before: the cipher is a stream, so the client can read a
header only as the one it was encrypted as.

| variable | code |
|---|---|
| `outBuffer`, `packetQueue`, `outActive`, `closing`, `crypt` | `m_OutBuffer`, `m_PacketQueue`, `m_OutActive`, `closing_`, the state of `m_Crypt` |
| `opened` | how far `open()` is: the socket is given to its thread *before* it is registered |
| `managed`, `registered`, `writeMask` | `m_NewSockets`/`m_Sockets`; the reactor's handler and mask |
| `net` | where the network thread is; `m_OutBufferLock` is held between steps only while packets are flushed, and is released before the reactor is called |
| `kernel`, `wire`, `peer` | what was sent and not yet read, all that was sent, the client |
| `accepted` | history: packets `SendPacket` accepted, in order |

The incoming half, `m_Session` and the reference counts are not modelled. What the
reactor does is modelled from its use: callbacks for registered handlers, -1 answered by `handle_close`.

| run | shows | bounds |
|---|---|---|
| `socket_output` | `FlagInv`, `WholeFrames`, `PacketInv`: types, what the flag says of the reactor, a stream that can be decrypted, every packet once and the queue behind the buffer; `EverythingIsSent`, `ClosedLeaves` | four packets of one to three units, the first of three, and a buffer of three: several packets that wait, sends that stop inside a packet, a kernel that takes two |

**Fairness.** The network thread's loop runs for ever (`ReactorRunnable::svc`), the
reactor reports every ready handler, `open` ends. A client that does not read is taken to
close the connection in the end; without that nothing can be said of a full buffer.
`CHECK_DEADLOCK FALSE`: a closed, released socket has nothing left to do.

**Observed.** `SendPacket` looks only at the room in the buffer, not at the queue: a
short packet passes one that waits because it was too long. `PacketInv` and
`WholeFrames` show that nothing else goes wrong.

**Proofs** (`SocketOutputProofs`, for any packets and sizes, any size of the buffer and of
what the kernel takes). `IInv` is the five invariants of the run and `PhaseInv`: a socket
that is not open has neither packets nor a handler, and where the network thread is
(asking the reactor to report output or not, or flushing) says what `m_OutActive` is and
how it may differ from the mask. Without it `FlagMatchesReactor` is not inductive, since the
lock is released before the reactor is called. `WholeFrames` and `PacketInv` are about
the stream as a whole, sent and unsent: a send moves the border, `SendPacket` and
`iFlushPacketQueue` append a whole packet (`WholeAppended`). `FlagsHold`,
`FramesStayWhole` and `PacketsAreKept` follow from `Invariance`.

### The thread pool (`Batch`, `ThreadPool`, `MCThreadPool`)

**Code.** `src/src/shared/ThreadPool.{h,cpp}`: a caller fills a workload, starts it,
and waits for a future; workers take the tasks, from a common index (`SINGLE_QUEUE`)
or each its own stride (`MULTI_QUEUE`). The last one to count itself out of
`m_active` sets the promise. Exceptions are ignored, kept, or end the pool.

**Model.** `Batch` is the promise: each task of a workload is begun once, and the
caller goes on when none is left and none is running. `ThreadPool` has the members
of the class under their names, `wpc[w]` for the position of each worker in `loop`, and
one step per access to shared state (`busy`, `m_active`, `status`, the index,
`m_errors`: `push_back` without a lock is a read of the position and a write).
The caller is the code's only pattern: add or pass tasks, process, wait for the
future, perhaps again, then destroy. `setting` is chosen among `Settings`, so that
one run covers several pools.

| run | shows | bounds |
|---|---|---|
| `thread_pool` | `Inv` (types, `ActiveCounts`, `ResultOnce`), refinement of `Batch`; `LoadEnds`, `DestroyEnds` | two workers, three kinds of pool, with tasks that throw, two workloads one after another |

**Fairness.** The workers run and tasks end.

**Observed.** `m_errors` is never emptied, although `ThreadPool.h:132` says it holds
those of the last workload. With `TERMINATE`, which nothing in the repository uses, a
worker that caught an exception leaves without counting itself out, so the caller would
wait for ever. Every pool of the server is made with `ErrorHandling::NONE`.

**Proofs** (`ThreadPoolProofs`, for any number of workers, any tasks, throwing or not, and
any set of pools). `Inv` does not say what a worker has still to do. `StatusInv` does: what
`busy` is at each point of `loop` (`BusyInv`), that all workers sleep between two
workloads (`QuietInv`), and who is the last one (`LastInv`). `ShareInv` says that the tasks begun are those
the index, or the strides, have passed, that a worker that is done has reached the end of
its queue, and that one worker runs a task. `Invariance` proves them together with the
count of `m_active`; `PoolInvariant` is `Inv`. `ImplementsBatch` maps `take` to the begin
of a task, the end of its run to the end, and the promise to the return of the caller; it
assumes that no pool uses `TERMINATE`, which gives up the tasks that are left and
which no pool of the repository uses. `Invariance` and `PoolInvariant` need no such assumption.

### Map updates and teleports (`MapUpdate`, `MCMapUpdate`)

**Code.** `MapManager::Update` gives each continent (or part of one) and each
dungeon to a thread, and waits until all are done. Continents wait for one another
and go on with players meanwhile; dungeons are updated again as long as continents
are. In that time `asyncMapUpdating` is set: `ScheduleFarTeleport` only notes the
teleport, and `ScheduleInstanceSwitch` the change of part. Then the world thread
switches parts, creates the instances players wait for
(`CreateNewInstancesForPlayersSync`), executes the teleports and unloads what is
empty. A teleport takes the player off its map and sends `SMSG_NEW_WORLD`, at once
or when its instance has been created; the answer, `MSG_MOVE_WORLDPORT_ACK`, is
handled by the world thread in a later tick and adds the player to its map, or
turns it back (`HandleReturnOnTeleportFail`).

**Model.** `phase` is the world thread's place in `Update`, `tpc` the state of each
map's update, `player` the part of `Player` a teleport uses (`near` and `far` are
its semaphores, `scheduled` its entry in `m_scheduledFarTeleports`, `switch` in
`m_scheduledInstanceSwitches`, `creating` in `m_scheduledNewInstancesForPlayers`,
before and after the swap, `told` the map of the last unanswered
`SMSG_NEW_WORLD`, and `early` that the player is in that set although its client has
answered). An answer is accepted of every player in transit, as by the handler
(`MovementHandler.cpp:51`), told or not. One that comes before the instance was
created creates it itself, or turns the player back; the player stays in the set and is
skipped in the next update if it has arrived (`MapManager.cpp:302`). If it is on its way
again, to a continent, the assertion at `MapManager.cpp:309` throws in the world thread,
which catches nothing: `DungeonAssertFails` and the phase `crashed`, where nothing happens
any more. Positions are maps: a destination is a part of a continent or
the dungeon, for which the bind of the group selects the instance. Each player's
`TeleportTo` happens in the thread of its map or, as spells and commands do, in the
world thread. A dungeon may refuse (`ok`, `back`): full, in combat, resetting, or
too many instances; one that nobody was in yet refuses nobody.

| run | shows | bounds |
|---|---|---|
| `map_update` | `Inv` (types with the assertion of `MarkContinentUpdateFinished`, `NobodyIsLost`), `GroupIsTogether`; `MapsStayDuringUpdate`; `TransferEnds` | two players of a group, two parts of a continent, a dungeon, two instance ids, two moves of one player and one of the other |

Two moves let a teleport be followed by a second one, near or far, before it is
executed; the second player is who creates, fills, resets or leaves the dungeon
meanwhile; the second instance id is the dungeon after a reset. The first player's two
moves are also what the early answer needs: into the dungeon, and out again before the
next update.

**Fairness.** All threads go on. A client that was told its new world answers, and
does not for ever meet an instance that refuses it after it was let go there
(strong fairness of the accepted answer, `AnswerNewWorld`). `TransferEnds` ends with the
crash where there is one; by `NobodyIsLost` there is none unless some client has answered
before it was told. Nothing is assumed of logouts, resets or
teleports.

**Assumptions.** The group stays one. No player in transit is teleported again but by
a refusal. No battlegrounds, transports or crashed maps. Dungeons have threads of their own
(with none configured, they are updated by the world thread within `Update`). A near
teleport that is put off to the end of `Player::Update` is one with the teleport.

**Observed.** The assertion at `MapManager.cpp:309` rests on the client: see `early` above. It
would hold if the handler of the answer took the player out of
`m_scheduledNewInstancesForPlayers`, as `LogoutPlayer` does (`WorldSession.cpp:758`). None of
the following breaks a property above; they are about data the model leaves out.

- `TeleportTo` writes `m_teleport_dest` at once, the rest of a far teleport waits. A
  near teleport in the same update overwrites it: `SMSG_TRANSFER_PENDING`
  (`Player.cpp:2765`) then names the map of the far teleport, `SMSG_NEW_WORLD`
  (`Player.cpp:2808`) that of the near one, and the player is put back on the old map.
  The other way round, `MSG_MOVE_TELEPORT_ACK` for a near teleport that a far one
  followed moves the player to the far one's coordinates on its present map
  (`MovementHandler.cpp:260`); if the far one is then refused, it stays there.
- A second far teleport in the same update replaces the first in
  `m_scheduledFarTeleports` (`MapManager.cpp:1006`) without deleting its data.
- `Transport::TeleportTransport` calls `ScheduleInstanceSwitch` from the world
  thread. If the timer of `Update` has not passed in that tick, the pointer stays
  noted over the next tick's logouts. Only with `Continents.Instanciate = 1`.

**Proofs** (`MapUpdateProofs`, for any number of players, parts of continents and instances).
`NobodyIsLost` is not inductive: that a player is in the world or on its way does not
survive the next step unless it is known what may wait for it. `PlayersInv` says so for the record
of each player: a teleport or switch is noted only for a player in the world and only while
the maps are updated, one who is gone waits for nothing, one who is not in transit has not been
told a new world, and one an instance is to be created for is on its way to it or has answered
early (`ListedRightly`), from which `CrashInv` follows where the assertion fails. `InstanceInv` says that the group is bound to the newest instance,
without which two members could be let into two. `CountInv` says that the counters of the barrier
count the continents that began and ended their update, also while `HandleUpdate` is
between two of them. The proofs go by the record: `PlayerInv` of one player before and
after, and what the others keep. `NobodyLost` (all of `Inv`), `GroupTogether` and the action property
`MapsStay` follow from `Invariance`.
### Movement packets (`PacketBroadcast`, `MCPacketBroadcast`)

**Code.** `PacketBroadcast/PlayerBroadcaster.cpp` and `MovementBroadcaster.cpp`. A player's
`PlayerBroadcaster` has a queue of packets and a map of listeners, with a lock for each.
Map threads append; a broadcaster thread copies its share of the players, takes the queue
of each under both locks and sends every packet to the listeners' sockets. The world thread
creates and deletes the broadcasters, exchanges a socket when a new session takes over the
player, and stops and restarts the threads when the configuration is reloaded.

**Model.** `m_socket`, `m_queue`, `m_listeners`, `m_num_threads`, `m_thread_players`,
`m_stop` are the members; `stage` is the life of a player from login to the end of
`FreeAtLogout`; `released` is the player whose broadcaster has called `RemoveReference` on
the socket it still points to: `ChangeSocket` and `FreeAtLogout` do so first, and assign
`m_socket` in a second step, both without a lock; `pc`, `my_players`, `source`, `queue`, `addressees` are the locals of
`Work`, `BroadcastPackets` and `ProcessQueue`. Both locks of a player are taken together
and held while its packets are sent: `Locked`. `made`, `solid` and `got` are history.

| run | shows | bounds |
|---|---|---|
| `packet_broadcast` | `Inv` (types; a packet that may not be skipped is waiting, being sent or sent), `InOrder`, `ListenerHasSocket`, `QueuesServed` | one player who sends and one who sees it, two packets into a queue of one, no, one or two threads, one change of their number, and for each player a lost connection |
| `packet_broadcast_reload` | the finding below, `AllRegistered` | the same, one lost connection |

Two packets into a queue of one is the smallest case where a packet is dropped, one where
it may not be, and one where a thread has one packet while another waits. One change
between any two numbers of threads leaves a player in the shares of two.

**Fairness.** Each broadcaster thread goes on, and `UpdateConfiguration`, once it has
begun, ends: it waits only for the threads. Nothing is assumed of players. The stopped
server has nothing to do, hence no check for deadlock.

**Finding.** `UpdateConfiguration` says "Reregister all players"
(`MovementBroadcaster.cpp:157`) and goes through `m_sessions`. A player who is linkdead
then has its session in `m_disconnectedSessions`; it is registered with no thread of the
new numbering, and `ChangeSocket` does not make up for it when the player comes back.

**Observed, and left out.** After a reload with more threads a player stays in the old
share, too, so that two threads may serve it; the locks keep the order (`InOrder`). When a
session takes over a player who others see, `ChangeSocket` has given back the reference to
the old socket while `m_socket` still points to it, and the player is on the lists of the
others: a thread may send a listener's copy through that pointer. The run reaches this, and
`ListenerHasSocket` allows exactly this window; at logout the same two steps
come when the player is off all lists, so that only its *own* copies may meet them. What such
a send does (`SendPacket` of a socket whose last reference may be gone) is undefined in the
code; here it counts as handed to the socket. The test of `m_socket` and its use are one step,
although a thread may keep the pointer it has read until after the exchange. `AddReference` to the new socket is in the step of the assignment:
no other thread depends on the count of the new one before that. The result of `IdentifySlowMap` is not used by the code. The reload is modelled between
updates of the maps, where the world thread runs it.

**Proofs** (`PacketBroadcastProofs`, for any players, threads, and sizes of the queue and of the
traffic). `StageInv` ties the stage of a player to its socket, to `released` and the lists it is on,
`LockInv` says that a thread that sends holds the locks of one player, alone, and that its
addressees are still listeners. `OrderInv` carries the numbers of packets from `m_queue` through the
queue of a thread to the listeners, `SolidInv` and `Kept` say where a packet that
may not be skipped is. `Kept` names the place by index, `Inv` as a set; the
two are shown to be the same (`KeptElementwise`). `NothingSolidIsDropped`,
`DeliveryInOrder` and `ListenersHaveSockets` follow from `Invariance`.
### Trade (`Exchange`, `Trade`, `MCTrade`)

**Code.** `Handlers/TradeHandler.cpp`, `TradeData` and `Player::TradeCancel` in
`Objects/Player.cpp`. The handlers run in the update of the map both players are on, one at a
time (leaving the map ends the trade), but the packets of the two arrive in any order, and
both do other things with what they offer.

**Model.** `Exchange` is the promise: a player may agree to a pair of offers, take the
agreement back, and two players who agree to the same pair swap exactly that. `Trade` has
`m_trade` (a `TradeData` per player, or None), and of the rest of the players only who
carries each item, the money, and who is in the world. `HandleAcceptTradeOpcode` is
split by its outcomes, in the order of its tests. `moveItems` is translated slot by slot,
with the case that only one of the two items can be stored. `ItemLeaves`, `ItemComes`
and `Spend` stand for all other handlers that move property while a trade is open.

The refinement: a standing acceptance (`TradeData::IsAccepted`) is the agreement to both
offers *as they are now*. So no offer may change under it, and the final swap moves what
was agreed to: that is what `SetAccepted(false)` on either side is for.

| run | shows | bounds |
|---|---|---|
| `trade` | `TradeInv` (types; partners point to each other and are in the world; no item in two slots; bags are not overfilled), refinement of `Exchange` | two players with one item each and room for one, a third player, one piece of money at most, one slot for trade and the one that is not traded, one player with a spell |

Room for one item each makes every swap depend on the item given away at the same moment;
the third player is who may open a trade with somebody who has one.

**Observed.** Slots hold GUIDs: an item that has left the bag is shown as nothing, and simply
is not given. When the players are too far apart, or an item cannot be traded any more, the
handler returns with the acceptance left standing. Money above `MAX_MONEY_AMOUNT` is lost
by `ModifyMoney`. The two players are saved in two transactions (`TradeHandler.cpp:553`),
so that a crash between them can double or lose what was traded; crashes are not part of
this module. The delay of 200 ms after a change is left out: it makes acceptances later,
which the model allows anyway.

**Proofs** (the first half of `PropertyProofs`, for any number of players, items, slots and any amount of money).
`TradeInv` is inductive: `TradeInvariant` proves it with one lemma per handler. `ImplementsExchange`
maps each handler to a step of `Exchange` or to none. The hard one is the swap: `moveItems`
goes slot by slot, and would give an item back if it could not be stored at its turn, so
that a trade could end half done. `RoomForBoth` shows that this never happens: when the two tests of
`CanStoreItems` have passed, there is room for every item when its slot is reached, in whatever
order the slots are. So the items end where the offers say (`TradedItems`).
### Mail and auctions (`Holdings`, `Estate`, `Mail`, `AuctionHouse`, `MCAuctionHouse`)

**Code.** `Handlers/MailHandler.cpp`, `Mail/Mail.cpp`, `MapNodes/MasterPlayer.cpp`, the
return of old mails in `ObjectMgr.cpp`; `Handlers/AuctionHouseHandler.cpp` and
`AuctionHouse/AuctionHouseMgr.cpp`. A mail is a row of the database and, while the receiver
is online, an entry of `m_mail`; an auction keeps an item and the highest bid until it ends,
and pays and delivers everything by mail.

**Model.** `Estate` is the promise: money and items are in purses and bags, in letters to one
player, or with an auction, and move only by deals, each of which says who gives what to whom:
a letter costs its sender the postage and what is in it, its price goes to the one who sent it,
it goes back to that one, and once only; an auction pays the seller the bid less the cut, gives
the item to the winner and their money back to those who were outbid. `Next` does a deal as a
whole. `Torn` is a deal of which the server executed some of the parts when it stopped.

`Mail` has purses, bags and boxes twice: in memory, and as `db...`, the database as it is
once everything issued so far has been executed in the order of issue. A query returns a copy
of it (`loginHolder` for a login, `returner` for old mails) that is used later, when it may be
stale. `AuctionHouse` extends `Mail` with the auctions, in memory and in the database,
reloaded by a restart. `HandleSendMail` and its callback are two steps, because the number of
mails of the receiver is asked for in between; all refusals are `SendMailRefused`. The
refinement maps the database, not the memory.

A crash between two handlers (`Crash`) loses the memory only. The actions `...Stops` are a
crash *within* a handler that issues several transactions: each of them is executed or not,
in any combination that the serial queue of the character allows. A letter is three
(`MailHandler.cpp:474-479`, `Mail.cpp:320-336`, `MailHandler.cpp:522-524`; the first and the
last are the sender's, in this order), cash on delivery two (`Mail.cpp:320-336` from
`MailHandler.cpp:779`, then `MailHandler.cpp:800`), a return two, a bid the statement about
the auction, the mail to the old bidder and the save of the new one
(`AuctionHouseHandler.cpp:555-600`), and the end of an auction its mails, its deletion and, if
there is one, a save. Nothing puts this right after a restart, so that the parts are what is
left: an item may be in two places, or nowhere.

`SingleMailReturner::Callback` (`ObjectMgr.cpp:4839`) asks whether the receiver is in the
server, so that a login whose query has been issued does not stop it. The comment there says "Do not
process online players!"; the login will have the mail that the returner gives to its sender,
and the same item can be taken twice. The model has these behaviours, and they are not
excluded: `Inv` says how far they reach.

| history variable | meaning |
|---|---|
| `crossed` | mails returned or deleted while a login had them, or that lost their item to the deletion of another mail |
| `exposed` | the items of crossed mails, and of handlers in which the process ended |
| `stops` | how often it ended within one |

| run | shows | bounds |
|---|---|---|
| `auction_house` | `Inv` (types; an item that is not exposed is in one place; what is in memory is what the database has, and so is what a login is about to load, but for crossed mails and exposed items); refinement of `Estate` | three players, one item; either one writes mails to another who logs out and in, or one sells the item to the other two; prices to 2, money and cash on delivery in mails to 1, three mails, one crash within a handler (`MaxStops`), any number between handlers |

Three mails are enough for a gift, its return and its payment, and for the three mails of a
buyout over a bid. The two situations are separated by the money the players start
with (a stamp costs 3, a deposit 6): mails of one would not be told apart from mails of the
other. After one crash within a handler everything else goes on, with what it has left.

The promise of `Estate` covers every behaviour up to the first crossed mail, crashes
within handlers included. After it, `EstateSpec` promises nothing, and `Inv` goes on: whatever
the double mail does, everything that is not in `crossed` or `exposed` is still in one place
and the same in memory and in the database.

**Assumed.** When a handler begins, what earlier handlers have issued is executed before what
this one issues. For one character that holds (`AsyncDatabase`); but the row of a mail is
inserted by the sender, through the common queue, and changed by the receiver, whose saves go
to a queue of their own: the database threads may execute these in either order. A crash
between two handlers finds everything issued executed; one within a handler may lose parts of
that handler only.

**Abstracted.** Delivery and expiry times (a mail may be read, and may expire, at once: more
behaviours, not fewer); item pointers; texts; anonymous mails; one character per account.
An item is a name and its place a row: of an exposed item, the module does not follow that
`SaveMails` deletes the `item_instance` of a deleted mail under another copy, that an inventory
save rewrites a bag, or that an auction without its `item_instance` is not loaded.
Hardcore characters (whose refunds, profits and items are dropped:
`AuctionHouseHandler.cpp:193, 228`, `AuctionHouseMgr.cpp:270`), mails of creatures, templates
and mass mails, and money above the maximum are left out. Only safety is stated: no fairness.

**Proofs** (the second half of `PropertyProofs`, for any number of players, items, mails and
crashes, any prices and any cut between 0 and 100 percent). `PropertyIsSafe` proves `Inv`. `Inv`
alone is not inductive: it does not tie a mail in the hands of the returner to its row, and
`crossed` mails not to the items they spoil. The inductive invariant is
`IInv == Typed /\ Crossing /\ Present /\ Returning /\ Unique`:

- `Typed`: types, and that every mail that can go back has a sender who is a player, and only
  what a player has written asks for money;
- `Crossing`: the item of a crossed mail is exposed, so that whatever its reader does with
  it, no other item moves;
- `Present`: a player who is online has every mail of his box as the database has it,
  and addressed to him, if it is not crossed; one who is being loaded, the same for what the
  login has read; everybody else has an empty box and no login;
- `Returning`: a mail that is being returned is gone, or is still its receiver's, with
  the item found at first or none; so what `SingleMailReturner` does, moments after its query, is
  not about somebody else's mail;
- `Unique`: `OnePlace` with sets instead of numbers: owners, mails and auction of an item
  exclude each other.

There is one lemma per action (`HandleMailTakeItemKeeps`, `ExpireKeeps`, ...). They share
the frames before them: `StepKeeps` and `HandlerStep` (what a handler may do to those it is
not about), `Sent` (what `SendMails` adds), `EditedIsSaved` (what `SaveMails` keeps),
`OthersPresent` and `RetreatKeeps` (logins, and mails that go back), `NothingMoves`
(handlers that move no item), `AuctionUnique` (when the mail of an auction is the only place of its
item). For crashes within a handler, `Stopped` reduces `IInv'` to types, `Crossing` and
`Unique` of the database, since the memory is empty; `StopsAtKeeps` is that for auctions.
`SnapshotAssumption` says that the value `None` is not something a login could have read.

`Trade`, `Mail` and `AuctionHouse` declare the players and items in `Holdings`, so that
one module has the proofs about property; that is why the definitions of `Trade` carry its
name (`TradeInit`, `TradeNext`, `TradeInv`).

The refinement of `Estate` is not proved; TLC checks it on the instance.


## 4 What the checks do not show

- **Beyond the bounds.** The theorems of the modules `...Proofs` hold for all values
  of the constants that satisfy the modules' assumptions. What is not proved is
  checked on the instances above: the liveness properties and the refinement of
  `Estate`. `ImplementsBatch` assumes that no pool uses `TERMINATE`, as none in the
  repository does.
- **Liveness** is model-checked only, and so is everything that needs `ENABLED`, for
  which the prover has no rules; it depends on the fairness stated with each
  module and on external parties only where that is said. The prover has no
  induction over data either: what the proofs need of sums and of sequences is
  stated so that one step of the system is enough to preserve it.
- **Memory.** The modules have the code's shared accesses as steps where the order
  matters; they do not model what a compiler or processor may do with unprotected
  variables such as `m_canProcessAsyncPackets`.
- **Data.** SQL, packet contents, cipher and time are abstracted to what the
  properties tell apart. Failure of a statement or a lost connection to the
  database is not modelled.
- **The database** in `Mail` and `AuctionHouse` executes what it is given in the order of
  issue, also between two characters; the code orders only what concerns one. Only the
  transactions of a handler in which the process ends are executed in part.
- **Not modelled yet**: the rest of section 2, step 8, and steps 9 to 11; each with its
  reason in `PROJECT.json`. Units, spells, AI and scripts are large and mostly
  sequential: what they would need is a reference, not a model checker.
