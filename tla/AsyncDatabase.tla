--------------------------- MODULE AsyncDatabase ---------------------------
(***************************************************************************)
(* One Database object of the server (src/shared/Database): callers issue  *)
(* statements, transactions and queries; worker threads (SqlDelayThread)   *)
(* drain a common queue and a queue of their own; results come back through *)
(* the result queue to the world thread; the main thread starts the server *)
(* and stops it.                                                           *)
(*                                                                         *)
(* An operation is identified by its position in `issued', the order of    *)
(* the LockedQueue::add calls.  Whether a statement succeeds is left out:  *)
(* a failing operation is executed, reported and deleted like any other.   *)
(***************************************************************************)
EXTENDS Integers, Sequences, FiniteSets

CONSTANTS
  Callers,        \* threads that use the database; World and Main are two
  World,          \* the world thread, which runs the result queue
  Main,           \* the main thread (Master::Run)
  Outlasting,     \* threads that are joined after StopServer only: shop, dump, console, ...
  NumWorkers,     \* <name>Database.WorkerThreads of the configuration
  SerialIds,      \* serial ids in use (low guids of characters)
  QueryCallbacks, \* kinds of callback the queries are given
  MaxOps          \* bound on the operations issued

ASSUME WorkersAssumption == NumWorkers \in Nat \ {0}
ASSUME SerialAssumption == SerialIds \subseteq Nat \ {0}
ASSUME CallersAssumption ==
  /\ {World, Main} \subseteq Callers /\ World # Main
  /\ Outlasting \subseteq Callers \ {World, Main}
ASSUME CallbacksAssumption == QueryCallbacks \subseteq {"safe", "unsafe"}
ASSUME MaxOpsAssumption == MaxOps \in Nat

Workers == 0 .. (NumWorkers - 1)

(* What becomes of an operation's result: nothing (statements and           *)
(* transactions), a callback that any pool thread may run, or a callback    *)
(* that only the world thread may run.                                      *)
Callbacks == {"none", "safe", "unsafe"}

(* Where the main thread is: before, during and after the world thread, and  *)
(* in StopServer.  The workers are destroyed from "clearing" on.            *)
WithWorkers == {"startup", "running", "closing", "stopping", "joining"}
MainStates == WithWorkers \cup {"clearing", "cancelling", "stopped"}

(* `during' is history: where the main thread was when it was issued.       *)
Op == [serial : SerialIds \cup {0}, callback : Callbacks, during : MainStates]

NoTrans == -1
NoOp == 0

VARIABLES
  issued,         \* Seq(Op): history of the operations handed to the database
  done,           \* positions of issued that have been executed
  delayQueue,     \* Database::m_delayQueue
  serialQueue,    \* SqlDelayThread::m_serialDelayQueue of each worker
  wpc,            \* where each worker's thread or destructor is
  cur,            \* the operation each worker has popped and not executed
  running,        \* SqlDelayThread::m_running
  trans,          \* the thread-local SqlTransaction of each caller: its serial id
  asyncAllowed,   \* Database::m_bAllowAsyncTransactions
  numAsyncWorkers,\* Database::m_numAsyncWorkers
  mpc,            \* where the main thread is
  resultQueue,    \* SqlResultQueue itself
  unsafeQueue,    \* SqlResultQueue::_threadUnsafeWaitingQueries
  batch,          \* callbacks handed to m_callbackThreads and not yet run
  upc,            \* where the world thread is in SqlResultQueue::Update
  delivered       \* history of the callbacks run, in order

callVars == <<issued, trans>>
queueVars == <<delayQueue, serialQueue>>
workerVars == <<wpc, cur>>
stopVars == <<running, asyncAllowed, numAsyncWorkers, mpc>>
resultVars == <<unsafeQueue, batch, upc, delivered>>
vars == <<issued, done, delayQueue, serialQueue, wpc, cur, running, trans,
          asyncAllowed, numAsyncWorkers, mpc, resultQueue, unsafeQueue,
          batch, upc, delivered>>

-----------------------------------------------------------------------------
(* The state at the end of StartDB: workers started, nothing queued.        *)

Init ==
  /\ issued = << >> /\ done = {}
  /\ delayQueue = << >>
  /\ serialQueue = [w \in Workers |-> << >>]
  /\ wpc = [w \in Workers |-> "loop"]
  /\ cur = [w \in Workers |-> NoOp]
  /\ running = [w \in Workers |-> TRUE]
  /\ trans = [c \in Callers |-> NoTrans]
  /\ asyncAllowed = FALSE
  /\ numAsyncWorkers = NumWorkers
  /\ mpc = "startup"
  /\ resultQueue = << >> /\ unsafeQueue = << >> /\ batch = {}
  /\ upc = "idle"
  /\ delivered = << >>

-----------------------------------------------------------------------------
(* Calls.                                                                   *)

(* Main uses the database before the world thread starts and after it has  *)
(* been joined, the world thread and those joined with it in between, but  *)
(* not while it drains the result queue or waits for the callback pool;    *)
(* the threads that outlast it until StopServer has deleted m_pAsyncConn.  *)
MayCall(c) ==
  /\ Len(issued) < MaxOps
  /\ c = Main => mpc \in {"startup", "closing"}
  /\ c = World => upc \in {"idle", "unsafe"}
  /\ c # Main => mpc = "running" \/ (c \in Outlasting /\ mpc \notin {"startup", "stopped"})

(* Serial ids belong to players and sessions, and so do the queries with a *)
(* callback: the world's, while it runs.                                   *)
OfTheWorld(c) == mpc = "running" /\ c \notin Outlasting

AddToDelayQueue(op) ==
  /\ issued' = Append(issued, op)
  /\ delayQueue' = Append(delayQueue, Len(issued) + 1)
  /\ UNCHANGED <<serialQueue, done>>

(* Mutant: balances the load instead of keeping an id on one worker. *)
AddToSerialDelayQueueBalanced(op) ==
  IF op.serial = 0 \/ numAsyncWorkers = 0
  THEN AddToDelayQueue(op)
  ELSE /\ issued' = Append(issued, op)
       /\ serialQueue' = [serialQueue EXCEPT ![Len(issued) % numAsyncWorkers] =
                            Append(@, Len(issued) + 1)]
       /\ UNCHANGED <<delayQueue, done>>

AddToSerialDelayQueue(op) ==
  IF op.serial = 0 \/ numAsyncWorkers = 0
  THEN AddToDelayQueue(op)
  ELSE /\ issued' = Append(issued, op)
       /\ serialQueue' = [serialQueue EXCEPT ![op.serial % numAsyncWorkers] =
                            Append(@, Len(issued) + 1)]
       /\ UNCHANGED <<delayQueue, done>>

(* Executed on the caller's thread over m_pAsyncConn. *)
DirectExecute(op) ==
  /\ issued' = Append(issued, op)
  /\ done' = done \cup {Len(issued) + 1}
  /\ UNCHANGED queueVars

Query(s, cb) == [serial |-> s, callback |-> cb, during |-> mpc]
Statement(s) == Query(s, "none")

(* Inside a transaction a statement joins it (its contents are not          *)
(* modelled); outside it is queued or, during startup, run at once.         *)
Execute(c) ==
  /\ MayCall(c)
  /\ IF trans[c] # NoTrans THEN UNCHANGED <<issued, done, queueVars>>
     ELSE IF asyncAllowed THEN AddToDelayQueue(Statement(0))
     ELSE DirectExecute(Statement(0))
  /\ UNCHANGED <<trans, workerVars, stopVars, resultQueue, resultVars>>

(* A nested BeginTransaction is refused. *)
BeginTransaction(c, s) ==
  /\ MayCall(c)
  /\ s # 0 => OfTheWorld(c)
  /\ trans[c] = NoTrans
  /\ trans' = [trans EXCEPT ![c] = s]
  /\ UNCHANGED <<issued, done, queueVars, workerVars, stopVars, resultQueue,
                 resultVars>>

CommitTransaction(c) ==
  /\ MayCall(c)
  /\ trans[c] # NoTrans
  /\ IF ~asyncAllowed THEN DirectExecute(Statement(trans[c]))
     ELSE IF trans[c] > 0 THEN AddToSerialDelayQueue(Statement(trans[c]))
     ELSE AddToDelayQueue(Statement(trans[c]))
  /\ trans' = [trans EXCEPT ![c] = NoTrans]
  /\ UNCHANGED <<workerVars, stopVars, resultQueue, resultVars>>

RollbackTransaction(c) ==
  /\ MayCall(c)
  /\ trans[c] # NoTrans
  /\ trans' = [trans EXCEPT ![c] = NoTrans]
  /\ UNCHANGED <<issued, done, queueVars, workerVars, stopVars, resultQueue,
                 resultVars>>

(* AsyncQuery and AsyncQueryUnsafe differ in the callback's threadSafe. *)
AsyncQuery(c, cb) ==
  /\ MayCall(c) /\ OfTheWorld(c)
  /\ AddToDelayQueue(Query(0, cb))
  /\ UNCHANGED <<trans, workerVars, stopVars, resultQueue, resultVars>>

DelayQueryHolder(c, s, cb) ==
  /\ MayCall(c) /\ OfTheWorld(c)
  /\ AddToSerialDelayQueue(Query(s, cb))
  /\ UNCHANGED <<trans, workerVars, stopVars, resultQueue, resultVars>>

-----------------------------------------------------------------------------
(* A worker.  SqlDelayThread::ProcessRequests empties the common queue and *)
(* then the worker's own queue.  It runs in the thread's loop and again in *)
(* the destructor, which the main thread calls after joining the thread.   *)

(* The test of m_running at the head of the thread's loop. *)
Loop(w) ==
  /\ wpc[w] = "loop"
  /\ wpc' = [wpc EXCEPT ![w] = IF running[w] THEN "common" ELSE "exited"]
  /\ UNCHANGED <<callVars, done, queueVars, cur, stopVars, resultQueue,
                 resultVars>>

(* Mutant: goes back to the loop without looking at the worker's own queue. *)
TakeCommonOnly(w) ==
  /\ wpc[w] = "common"
  /\ IF delayQueue # << >>
     THEN /\ cur' = [cur EXCEPT ![w] = Head(delayQueue)]
          /\ delayQueue' = Tail(delayQueue)
          /\ wpc' = [wpc EXCEPT ![w] = "execCommon"]
     ELSE /\ wpc' = [wpc EXCEPT ![w] = "loop"]
          /\ UNCHANGED <<cur, delayQueue>>
  /\ UNCHANGED <<callVars, done, serialQueue, stopVars, resultQueue,
                 resultVars>>

TakeCommon(w) ==
  /\ wpc[w] = "common"
  /\ IF delayQueue # << >>
     THEN /\ cur' = [cur EXCEPT ![w] = Head(delayQueue)]
          /\ delayQueue' = Tail(delayQueue)
          /\ wpc' = [wpc EXCEPT ![w] = "execCommon"]
     ELSE /\ wpc' = [wpc EXCEPT ![w] = "serial"]
          /\ UNCHANGED <<cur, delayQueue>>
  /\ UNCHANGED <<callVars, done, serialQueue, stopVars, resultQueue,
                 resultVars>>

(* Mutant: takes the newest operation first. *)
TakeSerialNewest(w) ==
  /\ wpc[w] = "serial"
  /\ LET q == serialQueue[w] IN
     IF q # << >>
     THEN /\ cur' = [cur EXCEPT ![w] = q[Len(q)]]
          /\ serialQueue' = [serialQueue EXCEPT ![w] =
                               SubSeq(q, 1, Len(q) - 1)]
          /\ wpc' = [wpc EXCEPT ![w] = "execSerial"]
     ELSE /\ wpc' = [wpc EXCEPT ![w] =
                       IF mpc = "clearing" THEN "gone" ELSE "loop"]
          /\ UNCHANGED <<cur, serialQueue>>
  /\ UNCHANGED <<callVars, done, delayQueue, stopVars, resultQueue,
                 resultVars>>

(* ProcessRequests returns to the loop, or to the destructor. *)
TakeSerial(w) ==
  /\ wpc[w] = "serial"
  /\ IF serialQueue[w] # << >>
     THEN /\ cur' = [cur EXCEPT ![w] = Head(serialQueue[w])]
          /\ serialQueue' = [serialQueue EXCEPT ![w] = Tail(@)]
          /\ wpc' = [wpc EXCEPT ![w] = "execSerial"]
     ELSE /\ wpc' = [wpc EXCEPT ![w] =
                       IF mpc = "clearing" THEN "gone" ELSE "loop"]
          /\ UNCHANGED <<cur, serialQueue>>
  /\ UNCHANGED <<callVars, done, delayQueue, stopVars, resultQueue,
                 resultVars>>

(* SqlOperation::Execute: a query also posts its callback. *)
ExecuteOperation(w) ==
  /\ wpc[w] \in {"execCommon", "execSerial"}
  /\ done' = done \cup {cur[w]}
  /\ resultQueue' = IF issued[cur[w]].callback = "none" THEN resultQueue
                    ELSE Append(resultQueue, cur[w])
  /\ cur' = [cur EXCEPT ![w] = NoOp]
  /\ wpc' = [wpc EXCEPT ![w] = IF wpc[w] = "execCommon" THEN "common"
                               ELSE "serial"]
  /\ UNCHANGED <<callVars, queueVars, stopVars, resultVars>>

-----------------------------------------------------------------------------
(* SqlResultQueue::Update, called by the world thread in every tick.        *)

UpdateBegin ==
  /\ mpc = "running" /\ upc = "idle"
  /\ upc' = "drain"
  /\ UNCHANGED <<callVars, done, queueVars, workerVars, stopVars, resultQueue,
                 unsafeQueue, batch, delivered>>

(* Mutant: puts the newest callback in front. *)
DrainResultInFront ==
  /\ upc = "drain" /\ resultQueue # << >>
  /\ resultQueue' = Tail(resultQueue)
  /\ IF issued[Head(resultQueue)].callback = "unsafe"
     THEN /\ unsafeQueue' = <<Head(resultQueue)>> \o unsafeQueue
          /\ UNCHANGED batch
     ELSE /\ batch' = batch \cup {Head(resultQueue)}
          /\ UNCHANGED unsafeQueue
  /\ UNCHANGED <<callVars, done, queueVars, workerVars, stopVars, upc,
                 delivered>>

(* One callback is moved from the result queue. *)
DrainResult ==
  /\ upc = "drain" /\ resultQueue # << >>
  /\ resultQueue' = Tail(resultQueue)
  /\ IF issued[Head(resultQueue)].callback = "unsafe"
     THEN /\ unsafeQueue' = Append(unsafeQueue, Head(resultQueue))
          /\ UNCHANGED batch
     ELSE /\ batch' = batch \cup {Head(resultQueue)}
          /\ UNCHANGED unsafeQueue
  /\ UNCHANGED <<callVars, done, queueVars, workerVars, stopVars, upc,
                 delivered>>

(* The result queue is empty: processWorkload starts the pool. *)
DrainEnd ==
  /\ upc = "drain" /\ resultQueue = << >>
  /\ upc' = "unsafe"
  /\ UNCHANGED <<callVars, done, queueVars, workerVars, stopVars, resultQueue,
                 unsafeQueue, batch, delivered>>

(* A pool thread runs a thread-safe callback. *)
RunSafe(n) ==
  /\ n \in batch /\ upc # "drain"
  /\ batch' = batch \ {n}
  /\ delivered' = Append(delivered, n)
  /\ UNCHANGED <<callVars, done, queueVars, workerVars, stopVars, resultQueue,
                 unsafeQueue, upc>>

(* The world thread runs the oldest callback that is not thread-safe; it    *)
(* stops after it when the time the tick allows has run out.                *)
RunUnsafe ==
  /\ upc = "unsafe" /\ unsafeQueue # << >>
  /\ unsafeQueue' = Tail(unsafeQueue)
  /\ delivered' = Append(delivered, Head(unsafeQueue))
  /\ upc' \in {"unsafe", "wait"}
  /\ UNCHANGED <<callVars, done, queueVars, workerVars, stopVars, resultQueue,
                 batch>>

UnsafeEnd ==
  /\ upc = "unsafe" /\ unsafeQueue = << >>
  /\ upc' = "wait"
  /\ UNCHANGED <<callVars, done, queueVars, workerVars, stopVars, resultQueue,
                 unsafeQueue, batch, delivered>>

(* job.wait() *)
UpdateEnd ==
  /\ upc = "wait" /\ batch = {}
  /\ upc' = "idle"
  /\ UNCHANGED <<callVars, done, queueVars, workerVars, stopVars, resultQueue,
                 unsafeQueue, batch, delivered>>

-----------------------------------------------------------------------------
(* The main thread.                                                         *)

AllowAsyncTransactions ==
  /\ mpc = "startup" /\ trans[Main] = NoTrans
  /\ asyncAllowed' = TRUE
  /\ mpc' = "running"
  /\ UNCHANGED <<callVars, done, queueVars, workerVars, running,
                 numAsyncWorkers, resultQueue, resultVars>>

(* The world thread has ended (between two calls of Update), and the maps'   *)
(* threads and CharDBWorker with it: their transactions are destroyed.      *)
JoinWorld ==
  /\ mpc = "running" /\ upc = "idle"
  /\ mpc' = "closing"
  /\ trans' = [c \in Callers |-> IF c \in Outlasting THEN trans[c] ELSE NoTrans]
  /\ UNCHANGED <<issued, done, queueVars, workerVars, running, asyncAllowed,
                 numAsyncWorkers, resultQueue, resultVars>>

(* Mutant: stops the first worker only. *)
StopFirstWorker(w) ==
  /\ mpc \in {"closing", "stopping"} /\ trans[Main] = NoTrans
  /\ \A v \in 0 .. (w - 1) : ~running[v]
  /\ running[w]
  /\ running' = [running EXCEPT ![w] = FALSE]
  /\ mpc' = "joining"
  /\ UNCHANGED <<callVars, done, queueVars, workerVars, asyncAllowed,
                 numAsyncWorkers, resultQueue, resultVars>>

(* StopServer, HaltDelayThread: the loop over Stop(), *)
StopWorker(w) ==
  /\ mpc \in {"closing", "stopping"} /\ trans[Main] = NoTrans
  /\ \A v \in 0 .. (w - 1) : ~running[v]
  /\ running[w]
  /\ running' = [running EXCEPT ![w] = FALSE]
  /\ mpc' = IF w = NumWorkers - 1 THEN "joining" ELSE "stopping"
  /\ UNCHANGED <<callVars, done, queueVars, workerVars, asyncAllowed,
                 numAsyncWorkers, resultQueue, resultVars>>

(* the joins, *)
JoinWorkers ==
  /\ mpc = "joining" /\ \A w \in Workers : wpc[w] = "exited"
  /\ mpc' = "clearing"
  /\ UNCHANGED <<callVars, done, queueVars, workerVars, running, asyncAllowed,
                 numAsyncWorkers, resultQueue, resultVars>>

(* Mutant: the destructor does not process the requests. *)
DestroyBodyAtOnce(w) ==
  /\ mpc = "clearing" /\ wpc[w] = "exited"
  /\ \A v \in 0 .. (w - 1) : wpc[v] = "gone"
  /\ wpc' = [wpc EXCEPT ![w] = "gone"]
  /\ UNCHANGED <<callVars, done, queueVars, cur, stopVars, resultQueue,
                 resultVars>>

(* and m_threadsBodies.clear(), which destroys the bodies in order;         *)
DestroyBody(w) ==
  /\ mpc = "clearing" /\ wpc[w] = "exited"
  /\ \A v \in 0 .. (w - 1) : wpc[v] = "gone"
  /\ wpc' = [wpc EXCEPT ![w] = "common"]
  /\ UNCHANGED <<callVars, done, queueVars, cur, stopVars, resultQueue,
                 resultVars>>

HaltEnd ==
  /\ mpc = "clearing" /\ \A w \in Workers : wpc[w] = "gone"
  /\ numAsyncWorkers' = 0
  /\ mpc' = "cancelling"
  /\ UNCHANGED <<callVars, done, queueVars, workerVars, running, asyncAllowed,
                 resultQueue, resultVars>>

(* then SqlResultQueue::CancelAll, which runs the callbacks left in the     *)
(* result queue with a null result, and the deletion of the queue.          *)
CancelResult ==
  /\ mpc = "cancelling" /\ resultQueue # << >>
  /\ resultQueue' = Tail(resultQueue)
  /\ delivered' = Append(delivered, Head(resultQueue))
  /\ UNCHANGED <<callVars, done, queueVars, workerVars, stopVars, unsafeQueue,
                 batch, upc>>

StopServerEnd ==
  /\ mpc = "cancelling" /\ resultQueue = << >>
  /\ mpc' = "stopped"
  /\ UNCHANGED <<callVars, done, queueVars, workerVars, running, asyncAllowed,
                 numAsyncWorkers, resultQueue, resultVars>>

Stopped == mpc = "stopped" /\ UNCHANGED vars

-----------------------------------------------------------------------------
Call(c) ==
  \/ Execute(c)
  \/ \E s \in SerialIds \cup {0} : BeginTransaction(c, s)
  \/ CommitTransaction(c)
  \/ RollbackTransaction(c)
  \/ \E cb \in QueryCallbacks : AsyncQuery(c, cb)
  \/ \E s \in SerialIds \cup {0}, cb \in QueryCallbacks :
       DelayQueryHolder(c, s, cb)

Worker(w) ==
  \/ Loop(w) \/ TakeCommon(w) \/ TakeSerial(w) \/ ExecuteOperation(w)

Update ==
  \/ UpdateBegin \/ DrainResult \/ DrainEnd \/ RunUnsafe \/ UnsafeEnd
  \/ UpdateEnd

Halt ==
  \/ \E w \in Workers : StopWorker(w) \/ DestroyBody(w)
  \/ JoinWorkers \/ HaltEnd \/ CancelResult \/ StopServerEnd

Next ==
  \/ \E c \in Callers : Call(c)
  \/ \E w \in Workers : Worker(w)
  \/ Update
  \/ \E n \in batch : RunSafe(n)
  \/ AllowAsyncTransactions \/ JoinWorld
  \/ Halt
  \/ Stopped

(* Every thread keeps running once it has something to do: the operating    *)
(* system schedules the workers, the pool and the world thread, and the     *)
(* main thread, once it has begun to stop the server, goes through with it. *)
(* Nothing makes a caller call or an operator stop the server.              *)
Fairness ==
  /\ \A w \in Workers : WF_vars(Worker(w))
  /\ WF_vars(Update)
  /\ WF_vars(\E n \in batch : RunSafe(n))
  /\ WF_vars(mpc # "closing" /\ Halt)

Spec == Init /\ [][Next]_vars
FairSpec == Spec /\ Fairness

-----------------------------------------------------------------------------
WorkerStates == {"loop", "common", "execCommon", "serial", "execSerial",
                 "exited", "gone"}

(* The values the variables take. *)
TypeOK ==
  /\ issued \in Seq(Op)
  /\ done \subseteq Nat
  /\ delayQueue \in Seq(Nat)
  /\ serialQueue \in [Workers -> Seq(Nat)]
  /\ wpc \in [Workers -> WorkerStates]
  /\ cur \in [Workers -> Nat]
  /\ running \in [Workers -> BOOLEAN]
  /\ trans \in [Callers -> SerialIds \cup {0, NoTrans}]
  /\ asyncAllowed \in BOOLEAN
  /\ numAsyncWorkers \in {0, NumWorkers}
  /\ mpc \in MainStates
  /\ resultQueue \in Seq(Nat)
  /\ unsafeQueue \in Seq(Nat)
  /\ batch \subseteq Nat
  /\ upc \in {"idle", "drain", "unsafe", "wait"}
  /\ delivered \in Seq(Nat)

(* Operations with the same serial id are executed in the order of issue,   *)
(* whatever worker threads, callers and the shutdown do in between: the     *)
(* queries that load a character see every save of it committed before.     *)
SerialOrder ==
  \A a, b \in DOMAIN issued :
    a < b /\ issued[a].serial = issued[b].serial /\ issued[a].serial > 0
      /\ b \in done => a \in done

(* The callbacks the world thread itself runs for one serial id come back   *)
(* in the order of issue, across ticks that run out of time and through the *)
(* shutdown.                                                                *)
UnsafeDeliveryOrder ==
  \A i, j \in DOMAIN delivered :
    LET a == issued[delivered[i]]
        b == issued[delivered[j]]
    IN  i < j /\ a.serial = b.serial /\ a.serial > 0
          /\ a.callback = "unsafe" /\ b.callback = "unsafe"
        => delivered[i] < delivered[j]

(* The callback of an executed query is in exactly one place: still queued, *)
(* with the pool, or run, once.  None is lost or run twice.                 *)
Occurrences(n, q) == Cardinality({i \in DOMAIN q : q[i] = n})

CallbackOnce ==
  \A n \in DOMAIN issued :
    Occurrences(n, resultQueue) + Occurrences(n, unsafeQueue)
      + Occurrences(n, delivered) + (IF n \in batch THEN 1 ELSE 0)
    = IF n \in done /\ issued[n].callback # "none" THEN 1 ELSE 0

(* When the workers are gone nothing is left of what was issued before the  *)
(* first of them was destroyed: what other threads queue while a worker is  *)
(* told to stop, ends and is joined is executed by another worker or by a   *)
(* destructor.                                                              *)
HaltDrains ==
  mpc \in {"cancelling", "stopped"} =>
    \A n \in DOMAIN issued : issued[n].during \in WithWorkers => n \in done

(* A callback runs on the world thread alone or on the pool while the world *)
(* thread waits in Update, never during the rest of the tick: nothing of    *)
(* the batch is left when the tick goes on.                                 *)
PoolQuietBetweenUpdates == upc = "idle" => batch = {}

(* The callbacks: none lost or run twice, those of the world thread in      *)
(* order, those of the pool only while the world thread waits for them.     *)
ResultsInv ==
  TypeOK /\ UnsafeDeliveryOrder /\ CallbackOnce /\ PoolQuietBetweenUpdates

(* Every operation issued while there are workers is executed in the end,   *)
(* by one of them or by the destructor that takes over.                     *)
IssuedIsExecuted ==
  \A n \in 1 .. MaxOps :
    n \in DOMAIN issued /\ issued[n].during \in WithWorkers ~> n \in done

(* Once begun, stopping the server ends. *)
StopTerminates == mpc \in {"stopping", "joining"} ~> mpc = "stopped"

(* The promise the callers rely on. *)
SE == INSTANCE SerialExecution
SerialExecutionSpec == SE!Spec

=============================================================================
