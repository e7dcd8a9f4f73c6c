------------------------ MODULE AsyncDatabaseProofs ------------------------
(***************************************************************************)
(* Proofs about AsyncDatabase for any number of callers, workers, serial   *)
(* ids and operations: the type invariant, the order of the operations of  *)
(* one serial id, that the database implements SerialExecution, that the   *)
(* shutdown leaves nothing behind, and that every callback comes back once *)
(* and in order.                                                           *)
(***************************************************************************)
EXTENDS AsyncDatabase, FiniteSetTheorems, FunctionTheorems, TLAPS

WorkerOf(op) == op.serial % NumWorkers

(* What the phases of the main thread say about the flags it sets. *)
PhaseInv ==
  /\ asyncAllowed = (mpc # "startup")
  /\ mpc = "startup" => \A c \in Callers : trans[c] \in {0, NoTrans}
  /\ \A c \in Outlasting : trans[c] \in {0, NoTrans}
  /\ numAsyncWorkers = NumWorkers \/ mpc \in {"cancelling", "stopped"}

(* The common queue, and what a worker has taken from it, has no serial id. *)
CommonInv ==
  /\ done \subseteq DOMAIN issued
  /\ \A i \in DOMAIN delayQueue :
       delayQueue[i] \in DOMAIN issued /\ issued[delayQueue[i]].serial = 0
  /\ \A w \in Workers : wpc[w] = "execCommon" =>
       cur[w] \in DOMAIN issued /\ issued[cur[w]].serial = 0

(* A worker's own queue holds operations of its ids, in order of issue, all *)
(* later than the one it has taken from it.                                 *)
SerialQueueInv ==
  /\ \A w \in Workers : \A i \in DOMAIN serialQueue[w] :
       /\ serialQueue[w][i] \in DOMAIN issued
       /\ issued[serialQueue[w][i]].serial > 0
       /\ WorkerOf(issued[serialQueue[w][i]]) = w
  /\ \A w \in Workers : \A i, j \in DOMAIN serialQueue[w] :
       i < j => serialQueue[w][i] < serialQueue[w][j]
  /\ \A w \in Workers : wpc[w] = "execSerial" =>
       /\ cur[w] \in DOMAIN issued
       /\ issued[cur[w]].serial > 0
       /\ WorkerOf(issued[cur[w]]) = w
       /\ \A i \in DOMAIN serialQueue[w] : cur[w] < serialQueue[w][i]

(* An operation with a serial id that has not been executed is with its     *)
(* worker.                                                                  *)
Held(n) ==
  LET w == WorkerOf(issued[n]) IN
  \/ (wpc[w] = "execSerial" /\ cur[w] = n)
  \/ \E i \in DOMAIN serialQueue[w] : serialQueue[w][i] = n

HeldInv ==
  \A n \in DOMAIN issued : issued[n].serial > 0 /\ n \notin done => Held(n)

OrderInv == CommonInv /\ SerialQueueInv /\ HeldInv

IInv == TypeOK /\ PhaseInv /\ OrderInv

-----------------------------------------------------------------------------
(* A serial id is always mapped to a worker. *)
LEMMA WorkerExists ==
  ASSUME NEW s \in Nat
  PROVE  s % NumWorkers \in Workers
BY WorkersAssumption, SMT DEF Workers

LEMMA SerialIsNat ==
  ASSUME NEW op \in Op
  PROVE  op.serial \in Nat /\ WorkerOf(op) \in Workers
<1>1. op.serial \in SerialIds \cup {0}
  BY DEF Op
<1>2. \A s \in SerialIds \cup {0} : s \in Nat
  BY SerialAssumption
<1> QED BY <1>1, <1>2, WorkerExists DEF WorkerOf

(* What a call hands to the database. *)
LEMMA QueryIsOp ==
  ASSUME TypeOK, NEW s \in SerialIds \cup {0}, NEW cb \in Callbacks
  PROVE  /\ Query(s, cb) \in Op /\ Query(s, cb).serial = s
         /\ Query(s, cb).callback = cb /\ Query(s, cb).during = mpc
         /\ s \in Nat
BY SerialAssumption DEF Query, Op, TypeOK

LEMMA StatementIsOp ==
  ASSUME TypeOK, NEW s \in SerialIds \cup {0}
  PROVE  /\ Statement(s) \in Op /\ Statement(s).serial = s
         /\ Statement(s).callback = "none" /\ Statement(s).during = mpc
         /\ s \in Nat
BY QueryIsOp DEF Statement, Callbacks

(* What Append and Tail do to the elements of a queue. *)
LEMMA AppendElements ==
  ASSUME NEW q \in Seq(Nat), NEW x \in Nat
  PROVE  /\ Len(q) \in Nat
         /\ DOMAIN Append(q, x) = DOMAIN q \cup {Len(q) + 1}
         /\ Append(q, x)[Len(q) + 1] = x
         /\ \A i \in DOMAIN q :
              i \in Nat /\ i < Len(q) + 1 /\ Append(q, x)[i] = q[i]
OBVIOUS

LEMMA TailElements ==
  ASSUME NEW q \in Seq(Nat), q # << >>
  PROVE  /\ Head(q) = q[1] /\ 1 \in DOMAIN q
         /\ \A i \in DOMAIN Tail(q) :
              i \in Nat /\ i + 1 \in DOMAIN q /\ Tail(q)[i] = q[i + 1]
         /\ \A i \in DOMAIN q :
              i = 1 \/ (i - 1 \in DOMAIN Tail(q) /\ Tail(q)[i - 1] = q[i])
OBVIOUS

(* The variables have their types in every reachable state. *)
LEMMA TypeInit == Init => TypeOK
<1> SUFFICES ASSUME Init PROVE TypeOK
  OBVIOUS
<1>1. /\ issued \in Seq(Op) /\ delayQueue \in Seq(Nat)
      /\ resultQueue \in Seq(Nat) /\ unsafeQueue \in Seq(Nat)
      /\ delivered \in Seq(Nat)
  BY DEF Init
<1>2. serialQueue \in [Workers -> Seq(Nat)]
  BY DEF Init
<1>3. /\ done \subseteq Nat /\ batch \subseteq Nat
      /\ cur \in [Workers -> Nat]
      /\ running \in [Workers -> BOOLEAN]
      /\ trans \in [Callers -> SerialIds \cup {0, NoTrans}]
      /\ wpc \in [Workers -> WorkerStates]
  BY DEF Init, NoOp, WorkerStates
<1>4. /\ asyncAllowed \in BOOLEAN
      /\ numAsyncWorkers \in {0, NumWorkers}
      /\ mpc \in MainStates
      /\ upc \in {"idle", "drain", "unsafe", "wait"}
  BY DEF Init, MainStates, WithWorkers
<1> QED BY <1>1, <1>2, <1>3, <1>4 DEF TypeOK

(* Adding an operation keeps the types of the queues. *)
LEMMA AddTypes ==
  ASSUME TypeOK, NEW op \in Op,
         AddToDelayQueue(op) \/ AddToSerialDelayQueue(op) \/ DirectExecute(op)
  PROVE  /\ issued' \in Seq(Op)
         /\ done' \subseteq Nat
         /\ delayQueue' \in Seq(Nat)
         /\ serialQueue' \in [Workers -> Seq(Nat)]
<1>1. CASE AddToDelayQueue(op)
  BY <1>1 DEF AddToDelayQueue, TypeOK
<1>2. CASE AddToSerialDelayQueue(op)
  <2>1. CASE op.serial = 0 \/ numAsyncWorkers = 0
    <3>1. AddToDelayQueue(op)
      BY <1>2, <2>1 DEF AddToSerialDelayQueue
    <3> QED BY <1>1, <3>1
  <2>2. CASE ~(op.serial = 0 \/ numAsyncWorkers = 0)
    <3> DEFINE w == op.serial % numAsyncWorkers
    <3>1. w \in Workers
      BY <2>2, WorkerExists, SerialAssumption DEF TypeOK, Op
    <3>2. /\ Len(issued) + 1 \in Nat
          /\ Append(serialQueue[w], Len(issued) + 1) \in Seq(Nat)
      BY <3>1 DEF TypeOK
    <3>3. /\ issued' = Append(issued, op)
          /\ serialQueue' =
               [serialQueue EXCEPT ![w] = Append(serialQueue[w], Len(issued) + 1)]
          /\ delayQueue' = delayQueue /\ done' = done
      BY <1>2, <2>2 DEF AddToSerialDelayQueue
    <3> HIDE DEF w
    <3> QED BY <3>1, <3>2, <3>3 DEF TypeOK
  <2> QED BY <2>1, <2>2
<1>3. CASE DirectExecute(op)
  <2>1. /\ issued' = Append(issued, op) /\ done' = done \cup {Len(issued) + 1}
        /\ delayQueue' = delayQueue /\ serialQueue' = serialQueue
    BY <1>3 DEF DirectExecute, queueVars
  <2>2. Len(issued) + 1 \in Nat /\ Append(issued, op) \in Seq(Op)
    BY DEF TypeOK
  <2> QED BY <2>1, <2>2 DEF TypeOK
<1> QED BY <1>1, <1>2, <1>3

(* Every call keeps the types. *)
LEMMA CallTypes ==
  ASSUME TypeOK, NEW c \in Callers, Call(c)
  PROVE  TypeOK'
<1> USE SerialAssumption
<1>s. ASSUME NEW s \in SerialIds \cup {0} PROVE Statement(s) \in Op
  BY StatementIsOp
<1>1. CASE Execute(c)
  <2>1. CASE trans[c] # NoTrans
    BY <1>1, <2>1 DEF Execute, TypeOK, queueVars, workerVars, stopVars,
                      resultVars
  <2>2. CASE trans[c] = NoTrans
    BY <1>1, <1>s, <2>2, AddTypes
       DEF Execute, TypeOK, queueVars, workerVars, stopVars, resultVars
  <2> QED BY <2>1, <2>2
<1>2. ASSUME NEW s \in SerialIds \cup {0}, BeginTransaction(c, s)
      PROVE  TypeOK'
  BY <1>2 DEF BeginTransaction, TypeOK, queueVars, workerVars, stopVars,
              resultVars
<1>3. CASE CommitTransaction(c)
  <2>1. trans[c] \in SerialIds \cup {0}
    BY <1>3 DEF CommitTransaction, TypeOK
  <2>2. /\ issued' \in Seq(Op)
        /\ done' \subseteq Nat
        /\ delayQueue' \in Seq(Nat)
        /\ serialQueue' \in [Workers -> Seq(Nat)]
    BY <1>3, <1>s, <2>1, AddTypes DEF CommitTransaction
  <2> QED BY <1>3, <2>2 DEF CommitTransaction, TypeOK, workerVars, stopVars,
                            resultVars
<1>4. CASE RollbackTransaction(c)
  BY <1>4 DEF RollbackTransaction, TypeOK, queueVars, workerVars, stopVars,
              resultVars
<1>5. ASSUME NEW cb \in QueryCallbacks, AsyncQuery(c, cb)
      PROVE  TypeOK'
  <2>1. Query(0, cb) \in Op
    BY QueryIsOp, CallbacksAssumption DEF Callbacks
  <2> QED BY <1>5, <2>1, AddTypes DEF AsyncQuery, TypeOK, workerVars, stopVars,
                                      resultVars
<1>6. ASSUME NEW s \in SerialIds \cup {0}, NEW cb \in QueryCallbacks,
             DelayQueryHolder(c, s, cb)
      PROVE  TypeOK'
  <2>1. Query(s, cb) \in Op
    BY QueryIsOp, CallbacksAssumption DEF Callbacks
  <2> QED BY <1>6, <2>1, AddTypes DEF DelayQueryHolder, TypeOK, workerVars,
                                      stopVars, resultVars
<1> QED BY <1>1, <1>2, <1>3, <1>4, <1>5, <1>6 DEF Call

(* A worker's steps keep the types. *)
LEMMA WorkerTypes ==
  ASSUME TypeOK, NEW w \in Workers, Worker(w)
  PROVE  TypeOK'
<1> USE DEF callVars, queueVars, workerVars, stopVars, resultVars
<1>1. CASE Loop(w)
  BY <1>1 DEF Loop, TypeOK, WorkerStates
<1>2. CASE TakeCommon(w)
  <2>1. CASE delayQueue # << >>
    <3>1. Head(delayQueue) \in Nat /\ Tail(delayQueue) \in Seq(Nat)
      BY <2>1 DEF TypeOK
    <3> QED BY <1>2, <2>1, <3>1 DEF TakeCommon, TypeOK, WorkerStates
  <2>2. CASE delayQueue = << >>
    BY <1>2, <2>2 DEF TakeCommon, TypeOK, WorkerStates
  <2> QED BY <2>1, <2>2
<1>3. CASE TakeSerial(w)
  <2>1. CASE serialQueue[w] # << >>
    <3>1. Head(serialQueue[w]) \in Nat /\ Tail(serialQueue[w]) \in Seq(Nat)
      BY <2>1 DEF TypeOK
    <3> QED BY <1>3, <2>1, <3>1 DEF TakeSerial, TypeOK, WorkerStates
  <2>2. CASE serialQueue[w] = << >>
    BY <1>3, <2>2 DEF TakeSerial, TypeOK, WorkerStates
  <2> QED BY <2>1, <2>2
<1>4. CASE ExecuteOperation(w)
  <2>0. cur[w] \in Nat /\ Append(resultQueue, cur[w]) \in Seq(Nat)
    BY DEF TypeOK
  <2>1. resultQueue' \in {resultQueue, Append(resultQueue, cur[w])}
    BY <1>4 DEF ExecuteOperation
  <2>2. resultQueue' \in Seq(Nat) /\ done' \subseteq Nat
    BY <1>4, <2>0, <2>1 DEF ExecuteOperation, TypeOK
  <2> QED BY <1>4, <2>2 DEF ExecuteOperation, TypeOK, WorkerStates, NoOp
<1> QED BY <1>1, <1>2, <1>3, <1>4 DEF Worker

(* So do the steps of the world thread and of the pool. *)
LEMMA UpdateTypes ==
  ASSUME TypeOK, Update \/ \E n \in batch : RunSafe(n)
  PROVE  TypeOK'
<1> USE DEF callVars, queueVars, workerVars, stopVars, resultVars
<1>1. CASE UpdateBegin BY <1>1 DEF UpdateBegin, TypeOK
<1>2. CASE DrainResult
  <2>1. /\ Head(resultQueue) \in Nat /\ Tail(resultQueue) \in Seq(Nat)
        /\ Append(unsafeQueue, Head(resultQueue)) \in Seq(Nat)
    BY <1>2 DEF DrainResult, TypeOK
  <2> QED BY <1>2, <2>1 DEF DrainResult, TypeOK
<1>3. CASE DrainEnd BY <1>3 DEF DrainEnd, TypeOK
<1>4. CASE RunUnsafe
  <2>1. /\ unsafeQueue' \in Seq(Nat)
        /\ delivered' \in Seq(Nat)
        /\ upc' \in {"unsafe", "wait"}
    BY <1>4 DEF RunUnsafe, TypeOK
  <2> QED BY <1>4, <2>1 DEF RunUnsafe, TypeOK
<1>5. CASE UnsafeEnd BY <1>5 DEF UnsafeEnd, TypeOK
<1>6. CASE UpdateEnd BY <1>6 DEF UpdateEnd, TypeOK
<1>7. ASSUME NEW n \in batch, RunSafe(n) PROVE TypeOK'
  <2>1. n \in Nat /\ Append(delivered, n) \in Seq(Nat)
    BY DEF TypeOK
  <2> QED BY <1>7, <2>1 DEF RunSafe, TypeOK
<1> QED BY <1>1, <1>2, <1>3, <1>4, <1>5, <1>6, <1>7 DEF Update

(* So do the steps of the main thread. *)
LEMMA MainTypes ==
  ASSUME TypeOK, AllowAsyncTransactions \/ JoinWorld \/ Halt
  PROVE  TypeOK'
<1> USE DEF callVars, queueVars, workerVars, stopVars, resultVars
<1>1. CASE AllowAsyncTransactions
  BY <1>1 DEF AllowAsyncTransactions, TypeOK, MainStates, WithWorkers
<1>2. CASE JoinWorld
  BY <1>2 DEF JoinWorld, TypeOK, MainStates, WithWorkers
<1>3. ASSUME NEW w \in Workers, StopWorker(w) PROVE TypeOK'
  BY <1>3 DEF StopWorker, TypeOK, MainStates, WithWorkers
<1>4. ASSUME NEW w \in Workers, DestroyBody(w) PROVE TypeOK'
  BY <1>4 DEF DestroyBody, TypeOK, WorkerStates
<1>5. CASE JoinWorkers BY <1>5 DEF JoinWorkers, TypeOK, MainStates, WithWorkers
<1>6. CASE HaltEnd BY <1>6 DEF HaltEnd, TypeOK, MainStates, WithWorkers
<1>7. CASE CancelResult BY <1>7 DEF CancelResult, TypeOK
<1>8. CASE StopServerEnd BY <1>8 DEF StopServerEnd, TypeOK, MainStates, WithWorkers
<1> QED BY <1>1, <1>2, <1>3, <1>4, <1>5, <1>6, <1>7, <1>8 DEF Halt

LEMMA TypeStep == TypeOK /\ [Next]_vars => TypeOK'
<1> SUFFICES ASSUME TypeOK, [Next]_vars PROVE TypeOK'
  OBVIOUS
<1>1. CASE UNCHANGED vars \/ Stopped
  BY <1>1 DEF vars, Stopped, TypeOK
<1> QED BY <1>1, CallTypes, WorkerTypes, UpdateTypes, MainTypes DEF Next

(* Type correctness: the variables of the database, its workers and its     *)
(* result queue always have the values the code gives them.                 *)
THEOREM TypeCorrect == Spec => []TypeOK
BY TypeInit, TypeStep, PTL DEF Spec

-----------------------------------------------------------------------------
(* The phases. *)
LEMMA PhaseInit == Init => PhaseInv
BY CallersAssumption DEF Init, PhaseInv, NoTrans

LEMMA PhaseStep == TypeOK /\ PhaseInv /\ [Next]_vars => PhaseInv'
<1> SUFFICES ASSUME TypeOK, PhaseInv, [Next]_vars PROVE PhaseInv'
  OBVIOUS
<1> USE DEF callVars, queueVars, workerVars, stopVars, resultVars
<1>1. CASE UNCHANGED vars \/ Stopped
  BY <1>1 DEF vars, Stopped, PhaseInv
<1>2. ASSUME NEW c \in Callers, Call(c) PROVE PhaseInv'
  <2>1. UNCHANGED stopVars
    BY <1>2 DEF Call, Execute, BeginTransaction, CommitTransaction,
                RollbackTransaction, AsyncQuery, DelayQueryHolder
  <2>2. mpc = "startup" =>
          trans' = trans \/ trans' = [trans EXCEPT ![c] = 0]
            \/ trans' = [trans EXCEPT ![c] = NoTrans]
    BY <1>2 DEF Call, Execute, BeginTransaction, CommitTransaction,
                RollbackTransaction, AsyncQuery, DelayQueryHolder, OfTheWorld
  <2>3. c \in Outlasting =>
          trans' = trans \/ trans' = [trans EXCEPT ![c] = 0]
            \/ trans' = [trans EXCEPT ![c] = NoTrans]
    BY <1>2 DEF Call, Execute, BeginTransaction, CommitTransaction,
                RollbackTransaction, AsyncQuery, DelayQueryHolder, OfTheWorld
  <2>4. /\ trans' = trans \/ \E s : trans' = [trans EXCEPT ![c] = s]
        /\ trans \in [Callers -> SerialIds \cup {0, NoTrans}]
        /\ Outlasting \subseteq Callers
    BY <1>2, CallersAssumption
       DEF Call, Execute, BeginTransaction, CommitTransaction, TypeOK,
           RollbackTransaction, AsyncQuery, DelayQueryHolder
  <2>5. ASSUME NEW o \in Outlasting PROVE trans'[o] \in {0, NoTrans}
    <3>1. CASE o = c
      BY <2>3, <2>4, <3>1 DEF PhaseInv
    <3>2. CASE o # c
      BY <2>4, <3>2 DEF PhaseInv
    <3> QED BY <3>1, <3>2
  <2>6. mpc' = "startup" => \A d \in Callers : trans'[d] \in {0, NoTrans}
    BY <2>1, <2>2 DEF PhaseInv, TypeOK
  <2> QED BY <2>1, <2>5, <2>6 DEF PhaseInv
<1>3. ASSUME NEW w \in Workers, Worker(w) PROVE PhaseInv'
  BY <1>3 DEF Worker, Loop, TakeCommon, TakeSerial, ExecuteOperation, PhaseInv
<1>4. CASE Update \/ \E n \in batch : RunSafe(n)
  BY <1>4 DEF Update, UpdateBegin, DrainResult, DrainEnd, RunUnsafe, UnsafeEnd,
              UpdateEnd, RunSafe, PhaseInv
<1>5. CASE AllowAsyncTransactions \/ JoinWorld
  BY <1>5, CallersAssumption DEF AllowAsyncTransactions, JoinWorld, PhaseInv, NoTrans
<1>6. CASE Halt
  BY <1>6 DEF Halt, StopWorker, DestroyBody, JoinWorkers, HaltEnd,
              CancelResult, StopServerEnd, PhaseInv
<1> QED BY <1>1, <1>2, <1>3, <1>4, <1>5, <1>6 DEF Next

-----------------------------------------------------------------------------
(* The order of operations. *)
LEMMA OrderInit == Init => OrderInv
BY DEF Init, OrderInv, CommonInv, SerialQueueInv, HeldInv

(* Appending an operation leaves the earlier ones where they were. *)
LEMMA Appended ==
  ASSUME TypeOK, NEW op \in Op, issued' = Append(issued, op)
  PROVE  /\ Len(issued) \in Nat
         /\ DOMAIN issued' = DOMAIN issued \cup {Len(issued) + 1}
         /\ Len(issued) + 1 \notin DOMAIN issued
         /\ \A n \in DOMAIN issued :
              n \in Nat /\ n < Len(issued) + 1 /\ issued'[n] = issued[n]
         /\ issued'[Len(issued) + 1] = op
<1>1. issued \in Seq(Op)
  BY DEF TypeOK
<1> QED BY <1>1

(* A queue without serial ids may be extended freely. *)
LEMMA AddCommonOrder ==
  ASSUME TypeOK, OrderInv, NEW op \in Op, op.serial = 0,
         AddToDelayQueue(op) \/ DirectExecute(op), UNCHANGED <<wpc, cur>>
  PROVE  OrderInv'
<1>1. /\ issued' = Append(issued, op)
      /\ serialQueue' = serialQueue
      /\ done' = done \/ done' = done \cup {Len(issued) + 1}
      /\ delayQueue' = delayQueue
           \/ delayQueue' = Append(delayQueue, Len(issued) + 1)
  BY DEF AddToDelayQueue, DirectExecute, queueVars
<1>2. CommonInv'
  <2>1. /\ done' \subseteq DOMAIN issued'
        /\ \A w \in Workers : (wpc[w] = "execCommon")' =>
              cur'[w] \in DOMAIN issued' /\ issued'[cur'[w]].serial = 0
    BY <1>1, Appended DEF OrderInv, CommonInv
  <2>2. ASSUME NEW i \in DOMAIN delayQueue'
        PROVE  delayQueue'[i] \in DOMAIN issued'
                 /\ issued'[delayQueue'[i]].serial = 0
    <3>1. delayQueue'[i] = Len(issued) + 1
            \/ (i \in DOMAIN delayQueue /\ delayQueue'[i] = delayQueue[i])
      <4>1. delayQueue \in Seq(Nat) /\ Len(issued) + 1 \in Nat
        BY DEF TypeOK
      <4>2. CASE delayQueue' = delayQueue
        BY <4>2
      <4>3. CASE delayQueue' = Append(delayQueue, Len(issued) + 1)
        <5>1. DOMAIN delayQueue' = DOMAIN delayQueue \cup {Len(delayQueue) + 1}
          BY <4>1, <4>3, AppendElements
        <5>2. /\ delayQueue'[Len(delayQueue) + 1] = Len(issued) + 1
              /\ \A j \in DOMAIN delayQueue : delayQueue'[j] = delayQueue[j]
          BY <4>1, <4>3, AppendElements
        <5> QED BY <5>1, <5>2
      <4> QED BY <1>1, <4>2, <4>3
    <3> QED BY <1>1, <3>1, Appended DEF OrderInv, CommonInv
  <2> QED BY <2>1, <2>2 DEF CommonInv
<1>3. SerialQueueInv'
  BY <1>1, Appended DEF OrderInv, SerialQueueInv, WorkerOf
<1>4. HeldInv'
  <2> SUFFICES ASSUME NEW n \in DOMAIN issued',
                      issued'[n].serial > 0, n \notin done'
               PROVE  Held(n)'
    BY DEF HeldInv
  <2>1. n \in DOMAIN issued /\ issued'[n] = issued[n] /\ n \notin done
    BY <1>1, Appended
  <2>2. Held(n)
    BY <2>1 DEF OrderInv, HeldInv
  <2> QED BY <1>1, <2>1, <2>2 DEF Held
<1> QED BY <1>2, <1>3, <1>4 DEF OrderInv

(* The newest operation of an id goes to the end of its worker's queue. *)
LEMMA AddSerialOrder ==
  ASSUME TypeOK, OrderInv, NEW op \in Op, op.serial > 0,
         numAsyncWorkers = NumWorkers,
         AddToSerialDelayQueue(op), UNCHANGED <<wpc, cur>>
  PROVE  OrderInv'
<1> DEFINE k == op.serial % NumWorkers
           n1 == Len(issued) + 1
<1>0. op.serial \in Nat /\ k \in Workers /\ n1 \in Nat
  BY SerialIsNat DEF WorkerOf, TypeOK
<1>1. /\ issued' = Append(issued, op)
      /\ serialQueue' = [serialQueue EXCEPT ![k] = Append(serialQueue[k], n1)]
      /\ done' = done /\ delayQueue' = delayQueue
  BY <1>0, WorkersAssumption DEF AddToSerialDelayQueue
<1>2. \A w \in Workers : w # k => serialQueue'[w] = serialQueue[w]
  BY <1>0, <1>1 DEF TypeOK
<1>3. /\ serialQueue[k] \in Seq(Nat)
      /\ serialQueue'[k] = Append(serialQueue[k], n1)
  BY <1>0, <1>1 DEF TypeOK
<1>4. /\ DOMAIN serialQueue'[k] =
           DOMAIN serialQueue[k] \cup {Len(serialQueue[k]) + 1}
      /\ Len(serialQueue[k]) \in Nat
      /\ serialQueue'[k][Len(serialQueue[k]) + 1] = n1
      /\ \A i \in DOMAIN serialQueue[k] :
           /\ i \in Nat /\ i < Len(serialQueue[k]) + 1
           /\ serialQueue'[k][i] = serialQueue[k][i]
  BY <1>0, <1>3
<1>5. CommonInv'
  BY <1>1, Appended DEF OrderInv, CommonInv
<1>6. issued'[n1] = op /\ n1 \in DOMAIN issued' /\ WorkerOf(issued'[n1]) = k
  BY <1>1, Appended DEF WorkerOf
<1> HIDE DEF k, n1
<1>7. SerialQueueInv'
  <2>1. ASSUME NEW w \in Workers, NEW i \in DOMAIN serialQueue'[w]
        PROVE  /\ serialQueue'[w][i] \in DOMAIN issued'
               /\ issued'[serialQueue'[w][i]].serial > 0
               /\ WorkerOf(issued'[serialQueue'[w][i]]) = w
    <3>1. CASE w # k \/ i \in DOMAIN serialQueue[k]
      <4>1. i \in DOMAIN serialQueue[w]
              /\ serialQueue'[w][i] = serialQueue[w][i]
        BY <1>2, <1>4, <3>1
      <4> QED BY <1>1, <4>1, Appended DEF OrderInv, SerialQueueInv, WorkerOf
    <3>2. CASE w = k /\ i = Len(serialQueue[k]) + 1
      BY <1>4, <1>6, <3>2
    <3> QED BY <1>4, <3>1, <3>2
  <2>2. ASSUME NEW w \in Workers,
               NEW i \in DOMAIN serialQueue'[w],
               NEW j \in DOMAIN serialQueue'[w], i < j
        PROVE  serialQueue'[w][i] < serialQueue'[w][j]
    <3>1. CASE w # k
      BY <1>2, <2>2, <3>1 DEF OrderInv, SerialQueueInv
    <3>2. CASE w = k /\ j \in DOMAIN serialQueue[k]
      BY <1>4, <2>2, <3>2 DEF OrderInv, SerialQueueInv
    <3>3. CASE w = k /\ j = Len(serialQueue[k]) + 1
      <4>1. i \in DOMAIN serialQueue[k]
        BY <1>4, <2>2, <3>3
      <4>2. serialQueue[k][i] < Len(issued) + 1
        BY <1>0, <1>1, <4>1, Appended DEF OrderInv, SerialQueueInv
      <4> QED BY <1>4, <3>3, <4>1, <4>2 DEF n1
    <3> QED BY <1>4, <3>1, <3>2, <3>3
  <2>3. ASSUME NEW w \in Workers, wpc'[w] = "execSerial"
        PROVE  /\ cur'[w] \in DOMAIN issued'
               /\ issued'[cur'[w]].serial > 0
               /\ WorkerOf(issued'[cur'[w]]) = w
               /\ \A i \in DOMAIN serialQueue'[w] : cur'[w] < serialQueue'[w][i]
    <3>1. /\ cur[w] \in DOMAIN issued
          /\ issued[cur[w]].serial > 0
          /\ WorkerOf(issued[cur[w]]) = w
          /\ \A i \in DOMAIN serialQueue[w] : cur[w] < serialQueue[w][i]
      BY <2>3 DEF OrderInv, SerialQueueInv
    <3>2. cur[w] < n1
      BY <1>1, <3>1, Appended DEF n1
    <3> QED BY <1>1, <1>2, <1>4, <3>1, <3>2, Appended DEF WorkerOf
  <2> QED BY <2>1, <2>2, <2>3 DEF SerialQueueInv
<1>8. HeldInv'
  <2> SUFFICES ASSUME NEW n \in DOMAIN issued',
                      issued'[n].serial > 0, n \notin done'
               PROVE  Held(n)'
    BY DEF HeldInv
  <2>1. CASE n = n1
    BY <1>4, <1>6, <2>1 DEF Held
  <2>2. CASE n \in DOMAIN issued
    <3>1. Held(n) /\ issued'[n] = issued[n]
      BY <1>1, <2>2, Appended DEF OrderInv, HeldInv
    <3>2. WorkerOf(issued[n]) \in Workers
      BY <2>2, SerialIsNat DEF TypeOK
    <3>3. ASSUME NEW i \in DOMAIN serialQueue[WorkerOf(issued[n])]
          PROVE  /\ i \in DOMAIN serialQueue'[WorkerOf(issued[n])]
                 /\ serialQueue'[WorkerOf(issued[n])][i] = serialQueue[WorkerOf(issued[n])][i]
      BY <1>2, <1>4, <3>2
    <3> QED BY <3>1, <3>3 DEF Held
  <2> QED BY <1>1, <2>1, <2>2, Appended DEF n1
<1> QED BY <1>5, <1>7, <1>8 DEF OrderInv

NoAdd == UNCHANGED <<issued, done, queueVars, wpc, cur>>

AddFree ==
  /\ \E op \in Op : /\ op.serial = 0 /\ op.during = mpc
                    /\ AddToDelayQueue(op) \/ DirectExecute(op)
  /\ UNCHANGED <<wpc, cur>>

AddSerial ==
  /\ \E op \in Op : op.serial > 0 /\ AddToSerialDelayQueue(op)
  /\ numAsyncWorkers = NumWorkers /\ mpc \in WithWorkers
  /\ UNCHANGED <<wpc, cur>>

(* The three things a call can do to the operations. *)
LEMMA CallCases ==
  ASSUME TypeOK, PhaseInv, NEW c \in Callers, Call(c)
  PROVE  NoAdd \/ AddFree \/ AddSerial
<1> USE DEF workerVars
<1>n. mpc \in {"startup", "running", "closing"} =>
        numAsyncWorkers = NumWorkers /\ mpc \in WithWorkers
  BY DEF PhaseInv, WithWorkers
<1>m. MayCall(c) => mpc \in {"startup", "closing", "running"} \/ c \in Outlasting
  BY DEF MayCall
<1>1. CASE Execute(c)
  <2>1. CASE trans[c] # NoTrans
    BY <1>1, <2>1 DEF Execute, NoAdd
  <2>2. CASE trans[c] = NoTrans
    <3>1. Statement(0) \in Op /\ Statement(0).serial = 0 /\ Statement(0).during = mpc
      BY StatementIsOp
    <3> QED BY <1>1, <2>2, <3>1 DEF Execute, AddFree
  <2> QED BY <2>1, <2>2
<1>2. CASE \E s \in SerialIds \cup {0} : BeginTransaction(c, s)
  BY <1>2 DEF BeginTransaction, NoAdd
<1>3. CASE CommitTransaction(c)
  <2> DEFINE op == Statement(trans[c])
  <2>1. trans[c] \in SerialIds \cup {0}
    BY <1>3 DEF CommitTransaction, TypeOK
  <2>2. op \in Op /\ op.serial = trans[c] /\ trans[c] \in Nat /\ op.during = mpc
    BY StatementIsOp, <2>1
  <2>3. UNCHANGED <<wpc, cur>>
    BY <1>3 DEF CommitTransaction
  <2>4. CASE ~asyncAllowed
    <3>1. DirectExecute(op) /\ trans[c] = 0
      BY <1>3, <2>1, <2>4 DEF CommitTransaction, PhaseInv
    <3> QED BY <2>2, <2>3, <3>1 DEF AddFree
  <2>5. CASE asyncAllowed /\ trans[c] > 0
    <3>1. AddToSerialDelayQueue(op)
      BY <1>3, <2>5 DEF CommitTransaction
    <3>2. numAsyncWorkers = NumWorkers /\ mpc \in WithWorkers
      <4>1. c \notin Outlasting
        BY <2>5 DEF PhaseInv, NoTrans
      <4>2. MayCall(c)
        BY <1>3 DEF CommitTransaction
      <4> QED BY <1>n, <1>m, <4>1, <4>2
    <3> QED BY <2>2, <2>3, <2>5, <3>1, <3>2 DEF AddSerial
  <2>6. CASE asyncAllowed /\ trans[c] = 0
    <3>1. AddToDelayQueue(op)
      BY <1>3, <2>6 DEF CommitTransaction
    <3> QED BY <2>2, <2>3, <2>6, <3>1 DEF AddFree
  <2> QED BY <2>2, <2>4, <2>5, <2>6
<1>4. CASE RollbackTransaction(c)
  BY <1>4 DEF RollbackTransaction, NoAdd
<1>5. ASSUME NEW cb \in QueryCallbacks, AsyncQuery(c, cb)
      PROVE  NoAdd \/ AddFree \/ AddSerial
  <2>1. Query(0, cb) \in Op /\ Query(0, cb).serial = 0 /\ Query(0, cb).during = mpc
    BY QueryIsOp, CallbacksAssumption DEF Callbacks
  <2>2. AddToDelayQueue(Query(0, cb)) /\ UNCHANGED <<wpc, cur>>
    BY <1>5 DEF AsyncQuery
  <2> QED BY <2>1, <2>2 DEF AddFree
<1>6. ASSUME NEW s \in SerialIds \cup {0}, NEW cb \in QueryCallbacks,
             DelayQueryHolder(c, s, cb)
      PROVE  NoAdd \/ AddFree \/ AddSerial
  <2> DEFINE op == Query(s, cb)
  <2>1. op \in Op /\ op.serial = s /\ s \in Nat /\ op.during = mpc
    BY QueryIsOp, CallbacksAssumption DEF Callbacks
  <2>2. AddToSerialDelayQueue(op) /\ UNCHANGED <<wpc, cur>>
    BY <1>6 DEF DelayQueryHolder
  <2>3. numAsyncWorkers = NumWorkers /\ mpc \in WithWorkers
    BY <1>6, <1>n DEF DelayQueryHolder, OfTheWorld
  <2>4. CASE s = 0
    <3>1. AddToDelayQueue(op)
      BY <2>1, <2>2, <2>4 DEF AddToSerialDelayQueue
    <3> HIDE DEF op
    <3> QED BY <2>1, <2>2, <2>4, <3>1 DEF AddFree
  <2>5. CASE s > 0
    <3> HIDE DEF op
    <3> QED BY <2>1, <2>2, <2>3, <2>5 DEF AddSerial
  <2> QED BY <2>1, <2>4, <2>5
<1> QED BY <1>1, <1>2, <1>3, <1>4, <1>5, <1>6 DEF Call

(* Steps that touch neither the operations nor the workers. *)
LEMMA OrderUnchanged ==
  ASSUME OrderInv, NoAdd
  PROVE  OrderInv'
BY DEF NoAdd, queueVars, OrderInv, CommonInv, SerialQueueInv, HeldInv, Held

(* A worker's steps keep the order. *)
LEMMA WorkerOrder ==
  ASSUME TypeOK, OrderInv, NEW w \in Workers, Worker(w)
  PROVE  OrderInv'
<1> USE DEF callVars, queueVars
<1>1. CASE Loop(w)
  <2>1. /\ UNCHANGED <<issued, done, delayQueue, serialQueue, cur>>
        /\ wpc[w] = "loop"
        /\ wpc'[w] \in {"common", "exited"}
        /\ \A v \in Workers : v # w => wpc'[v] = wpc[v]
    BY <1>1 DEF Loop, TypeOK
  <2>2. CommonInv'
    BY <2>1 DEF OrderInv, CommonInv
  <2>3. SerialQueueInv'
    BY <2>1 DEF OrderInv, SerialQueueInv
  <2>4. HeldInv'
    BY <2>1, SerialIsNat DEF OrderInv, HeldInv, Held, TypeOK
  <2> QED BY <2>2, <2>3, <2>4 DEF OrderInv
<1>2. CASE TakeCommon(w)
  <2>1. /\ UNCHANGED <<issued, done, serialQueue>>
        /\ wpc[w] = "common"
        /\ \A v \in Workers : v # w => wpc'[v] = wpc[v] /\ cur'[v] = cur[v]
        /\ \/ /\ delayQueue # << >> /\ cur'[w] = Head(delayQueue)
              /\ delayQueue' = Tail(delayQueue) /\ wpc'[w] = "execCommon"
           \/ delayQueue' = delayQueue /\ wpc'[w] = "serial"
    BY <1>2 DEF TakeCommon, TypeOK
  <2>2. CommonInv'
    <3>1. CASE delayQueue' = delayQueue /\ wpc'[w] = "serial"
      BY <2>1, <3>1 DEF OrderInv, CommonInv
    <3>2. CASE /\ delayQueue # << >> /\ cur'[w] = Head(delayQueue)
               /\ delayQueue' = Tail(delayQueue) /\ wpc'[w] = "execCommon"
      <4>1. delayQueue \in Seq(Nat)
        BY DEF TypeOK
      <4>2. /\ cur'[w] = delayQueue[1] /\ 1 \in DOMAIN delayQueue
            /\ \A i \in DOMAIN delayQueue' :
                 i + 1 \in DOMAIN delayQueue
                   /\ delayQueue'[i] = delayQueue[i + 1]
        BY <3>2, <4>1, TailElements
      <4> QED BY <2>1, <4>2 DEF OrderInv, CommonInv
    <3> QED BY <2>1, <3>1, <3>2
  <2>3. SerialQueueInv'
    BY <2>1 DEF OrderInv, SerialQueueInv
  <2>4. HeldInv'
    <3> SUFFICES ASSUME NEW n \in DOMAIN issued,
                        issued[n].serial > 0, n \notin done'
                 PROVE  Held(n)'
      BY <2>1 DEF HeldInv
    <3>1. /\ Held(n) /\ WorkerOf(issued[n]) \in Workers
          /\ n \notin done
      BY <2>1, SerialIsNat DEF OrderInv, HeldInv, TypeOK
    <3>2. CASE WorkerOf(issued[n]) # w
      BY <2>1, <3>1, <3>2 DEF Held
    <3>3. CASE WorkerOf(issued[n]) = w
      BY <2>1, <3>1, <3>3 DEF Held
    <3> QED BY <3>2, <3>3
  <2> QED BY <2>2, <2>3, <2>4 DEF OrderInv
<1>3. CASE TakeSerial(w)
  <2>1. CASE serialQueue[w] = << >>
    <3>1. /\ UNCHANGED <<issued, done, delayQueue, serialQueue, cur>>
          /\ wpc[w] = "serial"
          /\ wpc'[w] \in {"loop", "gone"}
          /\ \A v \in Workers : v # w => wpc'[v] = wpc[v]
      BY <1>3, <2>1 DEF TakeSerial, TypeOK
    <3>2. CommonInv'
      BY <3>1 DEF OrderInv, CommonInv
    <3>3. SerialQueueInv'
      BY <3>1 DEF OrderInv, SerialQueueInv
    <3>4. HeldInv'
      BY <3>1, SerialIsNat DEF OrderInv, HeldInv, Held, TypeOK
    <3> QED BY <3>2, <3>3, <3>4 DEF OrderInv
  <2>2. CASE serialQueue[w] # << >>
    <3> DEFINE q == serialQueue[w]
    <3>1. /\ UNCHANGED <<issued, done, delayQueue>>
          /\ wpc[w] = "serial" /\ wpc'[w] = "execSerial"
          /\ q \in Seq(Nat) /\ cur'[w] = Head(q) /\ serialQueue'[w] = Tail(q)
          /\ \A v \in Workers : v # w =>
               /\ wpc'[v] = wpc[v] /\ cur'[v] = cur[v]
               /\ serialQueue'[v] = serialQueue[v]
      BY <1>3, <2>2 DEF TakeSerial, TypeOK
    <3>2. /\ cur'[w] = q[1] /\ 1 \in DOMAIN q
          /\ \A i \in DOMAIN serialQueue'[w] :
               i \in Nat /\ i + 1 \in DOMAIN q /\ serialQueue'[w][i] = q[i + 1]
          /\ \A i \in DOMAIN q :
               i = 1 \/ (/\ i - 1 \in DOMAIN serialQueue'[w]
                         /\ serialQueue'[w][i - 1] = q[i])
      BY <2>2, <3>1, TailElements
    <3>3. CommonInv'
      BY <3>1 DEF OrderInv, CommonInv
    <3>4. SerialQueueInv'
      <4>1. \A v \in Workers : \A i \in DOMAIN serialQueue'[v] :
              /\ serialQueue'[v][i] \in DOMAIN issued
              /\ issued[serialQueue'[v][i]].serial > 0
              /\ WorkerOf(issued[serialQueue'[v][i]]) = v
        <5>1. ASSUME NEW v \in Workers, NEW i \in DOMAIN serialQueue'[v]
              PROVE  \E j \in DOMAIN serialQueue[v] :
                       serialQueue'[v][i] = serialQueue[v][j]
          <6>1. CASE v = w
            BY <3>2, <6>1
          <6>2. CASE v # w
            BY <3>1, <6>2
          <6> QED BY <6>1, <6>2
        <5> QED BY <5>1 DEF OrderInv, SerialQueueInv
      <4>2. \A v \in Workers : \A i, j \in DOMAIN serialQueue'[v] :
              i < j => serialQueue'[v][i] < serialQueue'[v][j]
        <5> SUFFICES ASSUME NEW v \in Workers,
                            NEW i \in DOMAIN serialQueue'[v],
                            NEW j \in DOMAIN serialQueue'[v], i < j
                     PROVE  serialQueue'[v][i] < serialQueue'[v][j]
          OBVIOUS
        <5>0. \A x, y \in DOMAIN serialQueue[v] :
                x < y => serialQueue[v][x] < serialQueue[v][y]
          BY DEF OrderInv, SerialQueueInv
        <5>1. CASE v = w
          <6>1. /\ i \in Nat /\ j \in Nat /\ i + 1 < j + 1
                /\ i + 1 \in DOMAIN q /\ j + 1 \in DOMAIN q
            BY <3>2, <5>1
          <6>2. q[i + 1] < q[j + 1]
            BY <5>0, <5>1, <6>1
          <6> QED BY <3>2, <5>1, <6>2
        <5>2. CASE v # w
          BY <3>1, <5>0, <5>2
        <5> QED BY <5>1, <5>2
      <4>3. \A v \in Workers : wpc'[v] = "execSerial" =>
              /\ cur'[v] \in DOMAIN issued
              /\ issued[cur'[v]].serial > 0
              /\ WorkerOf(issued[cur'[v]]) = v
              /\ \A i \in DOMAIN serialQueue'[v] : cur'[v] < serialQueue'[v][i]
        <5> SUFFICES ASSUME NEW v \in Workers, wpc'[v] = "execSerial"
                     PROVE  /\ cur'[v] \in DOMAIN issued
                            /\ issued[cur'[v]].serial > 0
                            /\ WorkerOf(issued[cur'[v]]) = v
                            /\ \A i \in DOMAIN serialQueue'[v] :
                                 cur'[v] < serialQueue'[v][i]
          OBVIOUS
        <5>1. CASE v = w
          <6>1. \A x, y \in DOMAIN q : x < y => q[x] < q[y]
            BY DEF OrderInv, SerialQueueInv
          <6>2. /\ q[1] \in DOMAIN issued
                /\ issued[q[1]].serial > 0
                /\ WorkerOf(issued[q[1]]) = w
            BY <3>2 DEF OrderInv, SerialQueueInv
          <6>3. ASSUME NEW i \in DOMAIN serialQueue'[w]
                PROVE  q[1] < serialQueue'[w][i]
            <7>1. i \in Nat /\ i + 1 \in DOMAIN q /\ 1 < i + 1
              <8>1. i \in DOMAIN Tail(q) /\ q \in Seq(Nat)
                BY <3>1
              <8> QED BY <2>2, <8>1
            <7>2. q[1] < q[i + 1]
              BY <3>2, <6>1, <7>1
            <7> QED BY <3>2, <7>2
          <6> QED BY <3>2, <5>1, <6>2, <6>3
        <5>2. CASE v # w
          BY <3>1, <5>2 DEF OrderInv, SerialQueueInv
        <5> QED BY <5>1, <5>2
      <4> QED BY <3>1, <4>1, <4>2, <4>3 DEF SerialQueueInv
    <3>5. HeldInv'
      <4> SUFFICES ASSUME NEW n \in DOMAIN issued,
                          issued[n].serial > 0, n \notin done
                   PROVE  Held(n)'
        BY <3>1 DEF HeldInv
      <4>1. Held(n) /\ WorkerOf(issued[n]) \in Workers
        BY SerialIsNat DEF OrderInv, HeldInv, TypeOK
      <4>2. CASE WorkerOf(issued[n]) # w
        BY <3>1, <4>1, <4>2 DEF Held
      <4>3. CASE WorkerOf(issued[n]) = w
        <5>1. PICK i \in DOMAIN q : q[i] = n
          BY <3>1, <4>1, <4>3 DEF Held
        <5>2. CASE i = 1
          BY <3>1, <3>2, <4>3, <5>1, <5>2 DEF Held
        <5>3. CASE i # 1
          <6>1. /\ i - 1 \in DOMAIN serialQueue'[w]
                /\ serialQueue'[w][i - 1] = n
            BY <3>2, <5>1, <5>3
          <6> QED BY <3>1, <4>3, <6>1 DEF Held
        <5> QED BY <5>2, <5>3
      <4> QED BY <4>2, <4>3
    <3> QED BY <3>3, <3>4, <3>5 DEF OrderInv
  <2> QED BY <2>1, <2>2
<1>4. CASE ExecuteOperation(w)
  <2>1. /\ UNCHANGED <<issued, delayQueue, serialQueue>>
        /\ wpc[w] \in {"execCommon", "execSerial"}
        /\ wpc'[w] \in {"common", "serial"}
        /\ done' = done \cup {cur[w]}
        /\ \A v \in Workers : v # w => wpc'[v] = wpc[v] /\ cur'[v] = cur[v]
    BY <1>4 DEF ExecuteOperation, TypeOK
  <2>2. CommonInv'
    BY <2>1 DEF OrderInv, CommonInv, SerialQueueInv
  <2>3. SerialQueueInv'
    BY <2>1 DEF OrderInv, SerialQueueInv
  <2>4. HeldInv'
    <3> SUFFICES ASSUME NEW n \in DOMAIN issued,
                        issued[n].serial > 0, n \notin done'
                 PROVE  Held(n)'
      BY <2>1 DEF HeldInv
    <3>1. /\ Held(n) /\ WorkerOf(issued[n]) \in Workers
          /\ n \notin done
      BY <2>1, SerialIsNat DEF OrderInv, HeldInv, TypeOK
    <3>2. CASE WorkerOf(issued[n]) # w
      BY <2>1, <3>1, <3>2 DEF Held
    <3>3. CASE WorkerOf(issued[n]) = w
      BY <2>1, <3>1, <3>3 DEF Held
    <3> QED BY <3>2, <3>3
  <2> QED BY <2>2, <2>3, <2>4 DEF OrderInv
<1> QED BY <1>1, <1>2, <1>3, <1>4 DEF Worker

LEMMA OrderStep == TypeOK /\ PhaseInv /\ OrderInv /\ [Next]_vars => OrderInv'
<1> SUFFICES ASSUME TypeOK, PhaseInv, OrderInv, [Next]_vars
             PROVE  OrderInv'
  OBVIOUS
<1> USE DEF callVars, queueVars, workerVars, stopVars, resultVars
<1>1. CASE UNCHANGED vars \/ Stopped
  <2>1. NoAdd
    BY <1>1 DEF vars, Stopped, NoAdd
  <2> QED BY <2>1, OrderUnchanged
<1>2. ASSUME NEW c \in Callers, Call(c) PROVE OrderInv'
  <2>1. CASE AddFree
    BY <2>1, AddCommonOrder DEF AddFree
  <2>2. CASE AddSerial
    BY <2>2, AddSerialOrder DEF AddSerial
  <2> QED BY <1>2, <2>1, <2>2, CallCases, OrderUnchanged
<1>3. ASSUME NEW w \in Workers, Worker(w) PROVE OrderInv'
  BY <1>3, WorkerOrder
<1>4. CASE Update \/ \E n \in batch : RunSafe(n)
  <2>1. NoAdd
    BY <1>4 DEF Update, UpdateBegin, DrainResult, DrainEnd, RunUnsafe,
                UnsafeEnd, UpdateEnd, RunSafe, NoAdd
  <2> QED BY <2>1, OrderUnchanged
<1>5. CASE AllowAsyncTransactions \/ JoinWorld
  <2>1. NoAdd
    BY <1>5 DEF AllowAsyncTransactions, JoinWorld, NoAdd
  <2> QED BY <2>1, OrderUnchanged
<1>6. ASSUME NEW w \in Workers, DestroyBody(w) PROVE OrderInv'
  <2>1. /\ UNCHANGED <<issued, done, delayQueue, serialQueue, cur>>
        /\ wpc[w] = "exited" /\ wpc'[w] = "common"
        /\ \A v \in Workers : v # w => wpc'[v] = wpc[v]
    BY <1>6 DEF DestroyBody, TypeOK
  <2>2. CommonInv'
    BY <2>1 DEF OrderInv, CommonInv
  <2>3. SerialQueueInv'
    BY <2>1 DEF OrderInv, SerialQueueInv
  <2>4. HeldInv'
    BY <2>1, SerialIsNat DEF OrderInv, HeldInv, Held, TypeOK
  <2> QED BY <2>2, <2>3, <2>4 DEF OrderInv
<1>7. CASE \/ \E w \in Workers : StopWorker(w)
           \/ JoinWorkers \/ HaltEnd \/ CancelResult \/ StopServerEnd
  <2>1. NoAdd
    BY <1>7 DEF StopWorker, JoinWorkers, HaltEnd, CancelResult, StopServerEnd,
                NoAdd
  <2> QED BY <2>1, OrderUnchanged
<1> QED BY <1>1, <1>2, <1>3, <1>4, <1>5, <1>6, <1>7 DEF Next, Halt

(* The inductive invariant holds in every reachable state. *)
THEOREM Invariance == Spec => []IInv
<1>1. Init => IInv
  BY TypeInit, PhaseInit, OrderInit DEF IInv
<1>2. IInv /\ [Next]_vars => IInv'
  BY TypeStep, PhaseStep, OrderStep DEF IInv
<1> QED BY <1>1, <1>2, PTL DEF Spec

-----------------------------------------------------------------------------
(* What a worker is about to execute may be executed: every earlier         *)
(* operation of the same id is done.                                        *)
LEMMA ReadyToExecute ==
  ASSUME TypeOK, OrderInv, NEW w \in Workers,
         wpc[w] \in {"execCommon", "execSerial"}
  PROVE  /\ cur[w] \in DOMAIN issued
         /\ SE!Before(cur[w]) \subseteq done
<1>1. cur[w] \in DOMAIN issued
  BY DEF OrderInv, CommonInv, SerialQueueInv
<1>2. CASE wpc[w] = "execCommon"
  <2>1. issued[cur[w]].serial = 0
    BY <1>2 DEF OrderInv, CommonInv
  <2> QED BY <1>1, <2>1 DEF SE!Before
<1>3. CASE wpc[w] = "execSerial"
  <2>1. /\ issued[cur[w]].serial > 0
        /\ WorkerOf(issued[cur[w]]) = w
        /\ \A i \in DOMAIN serialQueue[w] : cur[w] < serialQueue[w][i]
    BY <1>3 DEF OrderInv, SerialQueueInv
  <2> SUFFICES ASSUME NEW a \in SE!Before(cur[w]), a \notin done
               PROVE  FALSE
    BY <1>1
  <2>2. /\ a \in Nat /\ a < cur[w] /\ a \in DOMAIN issued
        /\ issued[a].serial = issued[cur[w]].serial
    <3>1. a \in 1 .. (cur[w] - 1) /\ issued[a].serial = issued[cur[w]].serial
      BY DEF SE!Before
    <3> QED BY <1>1, <3>1 DEF TypeOK
  <2>3. Held(a) /\ WorkerOf(issued[a]) = w
    BY <2>1, <2>2 DEF OrderInv, HeldInv, WorkerOf
  <2>4. \/ cur[w] = a
        \/ \E i \in DOMAIN serialQueue[w] : serialQueue[w][i] = a
    BY <2>3 DEF Held
  <2>5. cur[w] \in Nat
    BY DEF TypeOK
  <2> QED BY <2>1, <2>2, <2>4, <2>5
<1> QED BY <1>1, <1>2, <1>3

LEMMA StepSimulation == IInv /\ [Next]_vars => [SE!Next]_(SE!vars)
<1> SUFFICES ASSUME IInv, [Next]_vars PROVE SE!Next \/ UNCHANGED <<issued, done>>
  BY DEF SE!vars
<1> USE DEF IInv, callVars, queueVars, workerVars, stopVars, resultVars
<1>1. CASE UNCHANGED vars \/ Stopped
  BY <1>1 DEF vars, Stopped
<1>2. ASSUME NEW c \in Callers, Call(c)
      PROVE  SE!Next \/ UNCHANGED <<issued, done>>
  <2>1. CASE NoAdd
    BY <2>1 DEF NoAdd
  <2>2. ASSUME NEW op \in Op, op.serial = 0,
               AddToDelayQueue(op) \/ DirectExecute(op)
        PROVE  SE!Next
    BY <2>2 DEF AddToDelayQueue, DirectExecute, SE!Next, SE!Issue,
                SE!IssueDirect
  <2>3. ASSUME NEW op \in Op, AddToSerialDelayQueue(op) PROVE SE!Next
    BY <2>3 DEF AddToSerialDelayQueue, AddToDelayQueue, SE!Next, SE!Issue
  <2> QED BY <1>2, <2>1, <2>2, <2>3, CallCases DEF AddFree, AddSerial
<1>3. ASSUME NEW w \in Workers, Worker(w)
      PROVE  SE!Next \/ UNCHANGED <<issued, done>>
  <2>1. CASE ExecuteOperation(w)
    <3>1. /\ done' = done \cup {cur[w]} /\ issued' = issued
          /\ wpc[w] \in {"execCommon", "execSerial"}
      BY <2>1 DEF ExecuteOperation
    <3>2. cur[w] \in DOMAIN issued /\ SE!Before(cur[w]) \subseteq done
      BY <3>1, ReadyToExecute
    <3>3. CASE cur[w] \in done
      BY <3>1, <3>3
    <3>4. CASE cur[w] \notin done
      <4>1. SE!Execute(cur[w])
        BY <3>1, <3>2, <3>4 DEF SE!Execute
      <4> QED BY <3>2, <4>1 DEF SE!Next
    <3> QED BY <3>3, <3>4
  <2>2. CASE Loop(w) \/ TakeCommon(w) \/ TakeSerial(w)
    BY <2>2 DEF Loop, TakeCommon, TakeSerial
  <2> QED BY <1>3, <2>1, <2>2 DEF Worker
<1>4. CASE Update \/ \E n \in batch : RunSafe(n)
  BY <1>4 DEF Update, UpdateBegin, DrainResult, DrainEnd, RunUnsafe, UnsafeEnd,
              UpdateEnd, RunSafe
<1>5. CASE AllowAsyncTransactions \/ JoinWorld
  BY <1>5 DEF AllowAsyncTransactions, JoinWorld
<1>6. CASE Halt
  BY <1>6 DEF Halt, StopWorker, DestroyBody, JoinWorkers, HaltEnd,
              CancelResult, StopServerEnd
<1> QED BY <1>1, <1>2, <1>3, <1>4, <1>5, <1>6 DEF Next

(* The database implements SerialExecution: whatever threads, queues and    *)
(* the shutdown do, operations are executed as the callers were promised.   *)
THEOREM ImplementsSerialExecution == Spec => SerialExecutionSpec
<1>1. Init => SE!Init
  BY DEF Init, SE!Init
<1> QED
  BY <1>1, StepSimulation, Invariance, PTL DEF Spec, SerialExecutionSpec, SE!Spec

-----------------------------------------------------------------------------
(* Operations of one serial id are executed in the order of issue, for any  *)
(* number of workers, callers and operations.                               *)
THEOREM SerialOrderHolds == Spec => []SerialOrder
<1>1. Init => SerialOrder
  BY DEF Init, SerialOrder
<1>2. IInv /\ SerialOrder /\ [Next]_vars => SerialOrder'
  <2> SUFFICES ASSUME IInv, SerialOrder, [Next]_vars PROVE SerialOrder'
    OBVIOUS
  <2> USE DEF IInv
  <2>1. done \subseteq DOMAIN issued /\ issued \in Seq(Op)
    BY DEF OrderInv, CommonInv, TypeOK
  <2>2. CASE UNCHANGED <<issued, done>>
    BY <2>2 DEF SerialOrder
  <2>3. CASE SE!Issue
    <3>1. PICK op \in Op : issued' = Append(issued, op) /\ done' = done
      BY <2>3 DEF SE!Issue
    <3> QED BY <2>1, <3>1, Appended DEF SerialOrder
  <2>4. CASE SE!IssueDirect
    <3>1. PICK op \in Op : op.serial = 0 /\ issued' = Append(issued, op)
      BY <2>4 DEF SE!IssueDirect
    <3>2. done' = done \cup {Len(issued) + 1}
      BY <2>4 DEF SE!IssueDirect
    <3> QED BY <2>1, <3>1, <3>2, Appended DEF SerialOrder
  <2>5. ASSUME NEW n \in DOMAIN issued, SE!Execute(n) PROVE SerialOrder'
    <3>1. /\ issued' = issued /\ done' = done \cup {n}
          /\ SE!Before(n) \subseteq done
      BY <2>5 DEF SE!Execute
    <3>2. ASSUME NEW a \in DOMAIN issued, a < n,
                 issued[a].serial = issued[n].serial, issued[a].serial > 0
          PROVE  a \in done
      <4>1. a \in 1 .. (n - 1)
        BY <2>1, <3>2
      <4> QED BY <3>1, <3>2, <4>1 DEF SE!Before
    <3> QED BY <3>1, <3>2 DEF SerialOrder
  <2> QED BY <2>2, <2>3, <2>4, <2>5, StepSimulation DEF SE!Next, SE!vars
<1> QED BY <1>1, <1>2, Invariance, PTL DEF Spec

-----------------------------------------------------------------------------
(* The shutdown.  An operation that waits or is taken is not executed yet,  *)
(* and is there once. *)
Executing(w) == wpc[w] \in {"execCommon", "execSerial"}

OnceInv ==
  /\ \A i \in DOMAIN delayQueue : delayQueue[i] \notin done
  /\ \A i, j \in DOMAIN delayQueue : i < j => delayQueue[i] < delayQueue[j]
  /\ \A w \in Workers : \A i \in DOMAIN serialQueue[w] : serialQueue[w][i] \notin done
  /\ \A w \in Workers : Executing(w) => cur[w] \notin done
  /\ \A w \in Workers : wpc[w] = "execCommon" =>
       \A i \in DOMAIN delayQueue : cur[w] < delayQueue[i]
  /\ \A v, w \in Workers :
       wpc[v] = "execCommon" /\ wpc[w] = "execCommon" /\ cur[v] = cur[w] => v = w

(* An operation without a serial id that is not executed is in the common   *)
(* queue, or a worker has taken it.                                         *)
WithSome(n) ==
  \/ \E i \in DOMAIN delayQueue : delayQueue[i] = n
  \/ \E w \in Workers : wpc[w] = "execCommon" /\ cur[w] = n

CommonHeldInv ==
  \A n \in DOMAIN issued : issued[n].serial = 0 /\ n \notin done => WithSome(n)

(* A destructor that has found the common queue empty has left nothing but  *)
(* what was issued after the first worker was destroyed.                    *)
Clearing == mpc \in {"clearing", "cancelling", "stopped"}

LateQueue == \A i \in DOMAIN delayQueue : issued[delayQueue[i]].during \notin WithWorkers

DrainInv ==
  /\ \A w \in Workers :
       Clearing /\ wpc[w] \in {"serial", "execSerial", "gone"} => LateQueue
  /\ \A w \in Workers : wpc[w] = "gone" => Clearing /\ serialQueue[w] = << >>
  /\ mpc \in {"cancelling", "stopped"} => \A w \in Workers : wpc[w] = "gone"

ShutdownInv == OnceInv /\ CommonHeldInv /\ DrainInv

LEMMA ShutdownInit == Init => ShutdownInv
<1> SUFFICES ASSUME Init PROVE ShutdownInv
  OBVIOUS
<1>1. \A w \in Workers : wpc[w] = "loop" /\ serialQueue[w] = << >>
  BY DEF Init
<1> QED
  BY <1>1 DEF Init, ShutdownInv, OnceInv, CommonHeldInv, DrainInv, Executing

(* Steps that leave the operations where they are. *)
LEMMA ShutdownUnchanged ==
  ASSUME ShutdownInv, NoAdd, DrainInv'
  PROVE  ShutdownInv'
BY DEF NoAdd, queueVars, ShutdownInv, OnceInv, CommonHeldInv, WithSome, Executing

(* A new operation in the common queue, or executed at once. *)
LEMMA AddCommonShutdown ==
  ASSUME TypeOK, OrderInv, ShutdownInv, AddFree, mpc' = mpc
  PROVE  ShutdownInv'
<1> DEFINE N == Len(issued) + 1
<1>1. PICK op \in Op : /\ op.serial = 0 /\ op.during = mpc
                       /\ AddToDelayQueue(op) \/ DirectExecute(op)
  BY DEF AddFree
<1>2. /\ issued' = Append(issued, op) /\ UNCHANGED <<serialQueue, wpc, cur>>
      /\ \/ done' = done /\ delayQueue' = Append(delayQueue, N)
         \/ done' = done \cup {N} /\ delayQueue' = delayQueue
  BY <1>1 DEF AddFree, AddToDelayQueue, DirectExecute, queueVars
<1>3. /\ N \in Nat /\ N \notin DOMAIN issued
      /\ DOMAIN issued' = DOMAIN issued \cup {N}
      /\ \A n \in DOMAIN issued : n \in Nat /\ n < N /\ issued'[n] = issued[n]
      /\ issued'[N] = op
  BY <1>2, Appended
<1>4. /\ done \subseteq DOMAIN issued
      /\ \A i \in DOMAIN delayQueue : delayQueue[i] \in DOMAIN issued
      /\ \A w \in Workers : \A i \in DOMAIN serialQueue[w] : serialQueue[w][i] \in DOMAIN issued
      /\ \A w \in Workers : Executing(w) => cur[w] \in DOMAIN issued
  BY DEF OrderInv, CommonInv, SerialQueueInv, Executing
<1> HIDE DEF N
<1>5. CASE done' = done \cup {N} /\ delayQueue' = delayQueue
  <2>1. OnceInv'
    BY <1>2, <1>3, <1>4, <1>5 DEF ShutdownInv, OnceInv, Executing
  <2>2. CommonHeldInv'
    BY <1>2, <1>3, <1>5 DEF ShutdownInv, CommonHeldInv, WithSome
  <2>3. DrainInv'
    <3>1. LateQueue => LateQueue'
      BY <1>3, <1>4, <1>5 DEF LateQueue
    <3> QED BY <1>2, <3>1 DEF ShutdownInv, DrainInv, Clearing
  <2> QED BY <2>1, <2>2, <2>3 DEF ShutdownInv
<1>6. CASE done' = done /\ delayQueue' = Append(delayQueue, N)
  <2>1. PICK l \in Nat :
          /\ DOMAIN delayQueue' = DOMAIN delayQueue \cup {l} /\ delayQueue'[l] = N
          /\ \A i \in DOMAIN delayQueue :
               i \in Nat /\ i < l /\ delayQueue'[i] = delayQueue[i]
    <3>1. delayQueue \in Seq(Nat)
      BY DEF TypeOK
    <3>2. Len(delayQueue) + 1 \in Nat
      BY <3>1
    <3> QED BY <1>3, <1>6, <3>1, <3>2, AppendElements
  <2>2. OnceInv'
    <3>1. /\ \A i \in DOMAIN delayQueue' : delayQueue'[i] \notin done'
          /\ \A w \in Workers : (wpc[w] = "execCommon")' =>
               \A i \in DOMAIN delayQueue' : cur'[w] < delayQueue'[i]
      BY <1>2, <1>3, <1>4, <1>6, <2>1 DEF ShutdownInv, OnceInv, Executing
    <3>2. \A i, j \in DOMAIN delayQueue' : i < j => delayQueue'[i] < delayQueue'[j]
      BY <1>3, <1>4, <2>1 DEF ShutdownInv, OnceInv
    <3>3. \A w \in Workers : Executing(w)' => Executing(w)
      BY <1>2 DEF Executing
    <3> QED BY <1>2, <1>6, <3>1, <3>2, <3>3 DEF ShutdownInv, OnceInv
  <2>3. CommonHeldInv'
    BY <1>2, <1>3, <1>6, <2>1 DEF ShutdownInv, CommonHeldInv, WithSome
  <2>4. DrainInv'
    <3>1. Clearing /\ LateQueue => LateQueue'
      <4>1. Clearing => op.during \notin WithWorkers
        BY <1>1 DEF Clearing, WithWorkers
      <4> QED BY <1>3, <1>4, <2>1, <4>1 DEF LateQueue
    <3> QED BY <1>2, <3>1 DEF ShutdownInv, DrainInv, Clearing
  <2> QED BY <2>2, <2>3, <2>4 DEF ShutdownInv
<1> QED BY <1>2, <1>5, <1>6

(* A new operation in the queue of a worker. *)
LEMMA AddSerialShutdown ==
  ASSUME TypeOK, OrderInv, ShutdownInv, AddSerial, mpc' = mpc
  PROVE  ShutdownInv'
<1> DEFINE N == Len(issued) + 1
<1>1. PICK op \in Op : op.serial > 0 /\ AddToSerialDelayQueue(op)
  BY DEF AddSerial
<1>2. op.serial \in Nat /\ op.serial % NumWorkers \in Workers
  BY SerialIsNat DEF WorkerOf
<1>3. PICK k \in Workers :
        /\ issued' = Append(issued, op)
        /\ UNCHANGED <<done, delayQueue, wpc, cur>>
        /\ serialQueue' = [serialQueue EXCEPT ![k] = Append(@, N)]
  BY <1>1, <1>2, WorkersAssumption DEF AddSerial, AddToSerialDelayQueue
<1>4. /\ N \in Nat /\ N \notin DOMAIN issued
      /\ DOMAIN issued' = DOMAIN issued \cup {N} /\ issued'[N] = op
      /\ \A n \in DOMAIN issued : issued'[n] = issued[n]
  BY <1>3, Appended
<1>5. done \subseteq DOMAIN issued
  BY DEF OrderInv, CommonInv
<1> HIDE DEF N
<1>6. \A w \in Workers : \A i \in DOMAIN serialQueue'[w] :
         serialQueue'[w][i] = N
           \/ (i \in DOMAIN serialQueue[w] /\ serialQueue'[w][i] = serialQueue[w][i])
  <2>1. serialQueue[k] \in Seq(Nat)
    BY DEF TypeOK
  <2>2. /\ serialQueue'[k] = Append(serialQueue[k], N)
        /\ \A w \in Workers : w # k => serialQueue'[w] = serialQueue[w]
    BY <1>3 DEF TypeOK
  <2>3. /\ DOMAIN serialQueue'[k] = DOMAIN serialQueue[k] \cup {Len(serialQueue[k]) + 1}
        /\ serialQueue'[k][Len(serialQueue[k]) + 1] = N
        /\ \A i \in DOMAIN serialQueue[k] : serialQueue'[k][i] = serialQueue[k][i]
    BY <1>4, <2>1, <2>2, AppendElements
  <2> QED BY <2>2, <2>3
<1>7. OnceInv'
  <2>1. \A w \in Workers : \A i \in DOMAIN serialQueue'[w] : serialQueue'[w][i] \notin done'
    BY <1>3, <1>4, <1>5, <1>6 DEF ShutdownInv, OnceInv
  <2>2. \A w \in Workers : Executing(w)' => Executing(w)
    BY <1>3 DEF Executing
  <2> QED BY <1>3, <2>1, <2>2 DEF ShutdownInv, OnceInv
<1>8. CommonHeldInv'
  BY <1>1, <1>2, <1>3, <1>4 DEF ShutdownInv, CommonHeldInv, WithSome
<1>9. DrainInv'
  BY <1>3 DEF AddSerial, ShutdownInv, DrainInv, Clearing, WithWorkers
<1> QED BY <1>7, <1>8, <1>9 DEF ShutdownInv

(* The steps of a worker. *)
LEMMA WorkerShutdown ==
  ASSUME TypeOK, OrderInv, ShutdownInv, NEW w \in Workers, Worker(w)
  PROVE  ShutdownInv'
<1> USE DEF callVars, queueVars, stopVars
<1>1. mpc' = mpc /\ issued' = issued
  BY DEF Worker, Loop, TakeCommon, TakeSerial, ExecuteOperation
<1>2. CASE Loop(w)
  <2>1. /\ UNCHANGED <<done, delayQueue, serialQueue, cur>>
        /\ wpc[w] = "loop" /\ wpc'[w] \in {"common", "exited"}
        /\ \A v \in Workers : v # w => wpc'[v] = wpc[v]
    BY <1>2 DEF Loop, TypeOK
  <2>2. OnceInv'
    BY <2>1 DEF ShutdownInv, OnceInv, Executing
  <2>3. CommonHeldInv'
    BY <1>1, <2>1 DEF ShutdownInv, CommonHeldInv, WithSome
  <2>4. DrainInv'
    BY <1>1, <2>1 DEF ShutdownInv, DrainInv, LateQueue, Clearing
  <2> QED BY <2>2, <2>3, <2>4 DEF ShutdownInv
<1>3. CASE TakeCommon(w)
  <2>1. /\ UNCHANGED <<done, serialQueue>> /\ wpc[w] = "common"
        /\ \A v \in Workers : v # w => wpc'[v] = wpc[v] /\ cur'[v] = cur[v]
    BY <1>3 DEF TakeCommon, TypeOK
  <2>2. CASE delayQueue = << >>
    <3>1. delayQueue' = delayQueue /\ cur' = cur /\ wpc'[w] = "serial"
      BY <1>3, <2>2 DEF TakeCommon, TypeOK
    <3>2. OnceInv'
      BY <2>1, <3>1 DEF ShutdownInv, OnceInv, Executing
    <3>3. CommonHeldInv'
      BY <1>1, <2>1, <3>1 DEF ShutdownInv, CommonHeldInv, WithSome
    <3>4. DrainInv'
      <4>1. LateQueue'
        BY <1>1, <2>2, <3>1 DEF LateQueue
      <4> QED BY <1>1, <2>1, <3>1, <4>1 DEF ShutdownInv, DrainInv, Clearing
    <3> QED BY <3>2, <3>3, <3>4 DEF ShutdownInv
  <2>3. CASE delayQueue # << >>
    <3>1. /\ cur'[w] = Head(delayQueue) /\ delayQueue' = Tail(delayQueue)
          /\ wpc'[w] = "execCommon" /\ delayQueue \in Seq(Nat)
      BY <1>3, <2>3 DEF TakeCommon, TypeOK
    <3>2. /\ cur'[w] = delayQueue[1] /\ 1 \in DOMAIN delayQueue
          /\ \A i \in DOMAIN delayQueue' :
               /\ i \in Nat /\ i + 1 \in DOMAIN delayQueue
               /\ delayQueue'[i] = delayQueue[i + 1]
          /\ \A i \in DOMAIN delayQueue :
               i = 1 \/ (i - 1 \in DOMAIN delayQueue' /\ delayQueue'[i - 1] = delayQueue[i])
      BY <2>3, <3>1, TailElements
    <3>3. \A i \in DOMAIN delayQueue' : i \in 1 .. Len(Tail(delayQueue)) /\ i >= 1
      BY <3>1
    <3>4. OnceInv'
      <4>1. \A i \in DOMAIN delayQueue' :
              delayQueue'[i] \notin done' /\ cur'[w] < delayQueue'[i]
        BY <2>1, <3>2, <3>3 DEF ShutdownInv, OnceInv
      <4>2. \A i, j \in DOMAIN delayQueue' : i < j => delayQueue'[i] < delayQueue'[j]
        BY <3>2 DEF ShutdownInv, OnceInv
      <4>3. \A v \in Workers \ {w} : (wpc[v] = "execCommon")' =>
              cur'[v] < cur'[w] /\ \A i \in DOMAIN delayQueue' : cur'[v] < delayQueue'[i]
        BY <2>1, <3>2 DEF ShutdownInv, OnceInv
      <4>4. \A v \in Workers : Executing(v)' => cur'[v] \notin done'
        BY <2>1, <3>2 DEF ShutdownInv, OnceInv, Executing
      <4>5. ASSUME NEW u \in Workers, NEW v \in Workers,
                   wpc'[u] = "execCommon", wpc'[v] = "execCommon", cur'[u] = cur'[v]
            PROVE  u = v
        <5>1. cur'[w] \in Nat
          BY <3>1, <3>2
        <5>2. u # w /\ v # w => u = v
          BY <2>1, <4>5 DEF ShutdownInv, OnceInv
        <5> QED BY <4>3, <4>5, <5>1, <5>2
      <4> QED BY <2>1, <4>1, <4>2, <4>3, <4>4, <4>5 DEF ShutdownInv, OnceInv
    <3>5. CommonHeldInv'
      <4> SUFFICES ASSUME NEW n \in DOMAIN issued, WithSome(n) PROVE WithSome(n)'
        BY <1>1, <2>1 DEF ShutdownInv, CommonHeldInv
      <4>1. CASE \E i \in DOMAIN delayQueue : delayQueue[i] = n
        <5>1. PICK i \in DOMAIN delayQueue : delayQueue[i] = n
          BY <4>1
        <5>2. CASE i = 1
          BY <3>1, <3>2, <5>1, <5>2 DEF WithSome
        <5>3. CASE i # 1
          BY <3>2, <5>1, <5>3 DEF WithSome
        <5> QED BY <5>2, <5>3
      <4>2. CASE \E v \in Workers : wpc[v] = "execCommon" /\ cur[v] = n
        BY <2>1, <4>2 DEF WithSome
      <4> QED BY <4>1, <4>2 DEF WithSome
    <3>6. DrainInv'
      <4>1. LateQueue => LateQueue'
        BY <1>1, <3>2 DEF LateQueue
      <4> QED BY <1>1, <2>1, <3>1, <4>1 DEF ShutdownInv, DrainInv, Clearing
    <3> QED BY <3>4, <3>5, <3>6 DEF ShutdownInv
  <2> QED BY <2>2, <2>3
<1>4. CASE TakeSerial(w)
  <2>1. /\ UNCHANGED <<done, delayQueue>> /\ wpc[w] = "serial"
        /\ \A v \in Workers : v # w =>
             wpc'[v] = wpc[v] /\ cur'[v] = cur[v] /\ serialQueue'[v] = serialQueue[v]
    BY <1>4 DEF TakeSerial, TypeOK
  <2>2. CASE serialQueue[w] = << >>
    <3>1. /\ serialQueue' = serialQueue /\ cur' = cur
          /\ wpc'[w] = IF mpc = "clearing" THEN "gone" ELSE "loop"
      BY <1>4, <2>2 DEF TakeSerial, TypeOK
    <3>2. OnceInv'
      BY <2>1, <3>1 DEF ShutdownInv, OnceInv, Executing
    <3>3. CommonHeldInv'
      BY <1>1, <2>1, <3>1 DEF ShutdownInv, CommonHeldInv, WithSome
    <3>4. DrainInv'
      BY <1>1, <2>1, <2>2, <3>1 DEF ShutdownInv, DrainInv, LateQueue, Clearing
    <3> QED BY <3>2, <3>3, <3>4 DEF ShutdownInv
  <2>3. CASE serialQueue[w] # << >>
    <3> DEFINE q == serialQueue[w]
    <3>1. /\ q \in Seq(Nat) /\ cur'[w] = Head(q) /\ serialQueue'[w] = Tail(q)
          /\ wpc'[w] = "execSerial"
      BY <1>4, <2>3 DEF TakeSerial, TypeOK
    <3>2. /\ cur'[w] = q[1] /\ 1 \in DOMAIN q
          /\ \A i \in DOMAIN serialQueue'[w] :
               i + 1 \in DOMAIN q /\ serialQueue'[w][i] = q[i + 1]
      BY <2>3, <3>1, TailElements
    <3>3. OnceInv'
      <4>1. \A v \in Workers : \A i \in DOMAIN serialQueue'[v] :
              serialQueue'[v][i] \notin done'
        <5>1. \A i \in DOMAIN serialQueue'[w] : serialQueue'[w][i] \notin done
          BY <3>2 DEF ShutdownInv, OnceInv
        <5> QED BY <2>1, <5>1 DEF ShutdownInv, OnceInv
      <4>2. \A v \in Workers : Executing(v)' => cur'[v] \notin done'
        BY <2>1, <3>1, <3>2 DEF ShutdownInv, OnceInv, Executing
      <4>3. \A v \in Workers : (wpc[v] = "execCommon")' =>
              wpc[v] = "execCommon" /\ cur'[v] = cur[v]
        BY <2>1, <3>1
      <4> QED BY <2>1, <4>1, <4>2, <4>3 DEF ShutdownInv, OnceInv
    <3>4. CommonHeldInv'
      BY <1>1, <2>1, <3>1 DEF ShutdownInv, CommonHeldInv, WithSome
    <3>5. DrainInv'
      BY <1>1, <2>1, <3>1 DEF ShutdownInv, DrainInv, LateQueue, Clearing
    <3> QED BY <3>3, <3>4, <3>5 DEF ShutdownInv
  <2> QED BY <2>2, <2>3
<1>5. CASE ExecuteOperation(w)
  <2>1. /\ UNCHANGED <<delayQueue, serialQueue>> /\ Executing(w)
        /\ wpc'[w] = IF wpc[w] = "execCommon" THEN "common" ELSE "serial"
        /\ done' = done \cup {cur[w]}
        /\ \A v \in Workers : v # w => wpc'[v] = wpc[v] /\ cur'[v] = cur[v]
    BY <1>5 DEF ExecuteOperation, TypeOK, Executing
  <2>2. \A i \in DOMAIN delayQueue : delayQueue[i] # cur[w]
    <3>1. CASE wpc[w] = "execCommon"
      <4>1. \A i \in DOMAIN delayQueue : cur[w] < delayQueue[i]
        BY <3>1 DEF ShutdownInv, OnceInv
      <4> QED BY <4>1 DEF TypeOK
    <3>2. CASE wpc[w] = "execSerial"
      BY <3>2 DEF OrderInv, CommonInv, SerialQueueInv
    <3> QED BY <2>1, <3>1, <3>2 DEF Executing
  <2>3. \A v \in Workers : \A i \in DOMAIN serialQueue[v] : serialQueue[v][i] # cur[w]
    <3>1. CASE wpc[w] = "execCommon"
      BY <3>1 DEF OrderInv, CommonInv, SerialQueueInv
    <3>2. CASE wpc[w] = "execSerial"
      <4>1. /\ WorkerOf(issued[cur[w]]) = w /\ cur[w] \in Nat
            /\ \A i \in DOMAIN serialQueue[w] : cur[w] < serialQueue[w][i]
        BY <3>2 DEF OrderInv, SerialQueueInv, TypeOK
      <4>2. \A v \in Workers : \A i \in DOMAIN serialQueue[v] :
              WorkerOf(issued[serialQueue[v][i]]) = v
        BY DEF OrderInv, SerialQueueInv
      <4> QED BY <4>1, <4>2
    <3> QED BY <2>1, <3>1, <3>2 DEF Executing
  <2>4. \A v \in Workers : v # w /\ Executing(v) => cur[v] # cur[w]
    BY <2>1 DEF Executing, ShutdownInv, OnceInv, OrderInv, CommonInv, SerialQueueInv
  <2>5. ~Executing(w)' /\ \A v \in Workers : v # w => (Executing(v)' <=> Executing(v))
    BY <2>1 DEF Executing
  <2>6. OnceInv'
    <3>1. \A v \in Workers : (wpc[v] = "execCommon")' => v # w
      BY <2>5 DEF Executing
    <3> QED BY <2>1, <2>2, <2>3, <2>4, <2>5, <3>1 DEF ShutdownInv, OnceInv
  <2>7. CommonHeldInv'
    BY <1>1, <2>1 DEF ShutdownInv, CommonHeldInv, WithSome
  <2>8. DrainInv'
    <3>1. wpc[w] = "execCommon" => wpc'[w] = "common"
      BY <2>1
    <3>2. wpc[w] # "execCommon" => wpc[w] = "execSerial" /\ wpc'[w] = "serial"
      BY <2>1 DEF Executing
    <3> QED BY <1>1, <2>1, <3>1, <3>2 DEF ShutdownInv, DrainInv, LateQueue, Clearing
  <2> QED BY <2>6, <2>7, <2>8 DEF ShutdownInv
<1> QED BY <1>2, <1>3, <1>4, <1>5 DEF Worker

LEMMA ShutdownStep ==
  TypeOK /\ PhaseInv /\ OrderInv /\ ShutdownInv /\ [Next]_vars => ShutdownInv'
<1> SUFFICES ASSUME TypeOK, PhaseInv, OrderInv, ShutdownInv, [Next]_vars
             PROVE  ShutdownInv'
  OBVIOUS
<1> USE DEF callVars, queueVars, workerVars, stopVars, resultVars
<1>1. CASE \/ UNCHANGED vars \/ Stopped
           \/ Update \/ \E n \in batch : RunSafe(n)
           \/ CancelResult
  <2>1. NoAdd /\ mpc' = mpc
    BY <1>1 DEF vars, Stopped, Update, UpdateBegin, DrainResult, DrainEnd, RunUnsafe,
                UnsafeEnd, UpdateEnd, RunSafe, CancelResult, NoAdd
  <2>2. DrainInv'
    BY <2>1 DEF NoAdd, ShutdownInv, DrainInv, LateQueue, Clearing
  <2> QED BY <2>1, <2>2, ShutdownUnchanged
<1>2. ASSUME NEW c \in Callers, Call(c) PROVE ShutdownInv'
  <2>1. mpc' = mpc
    BY <1>2 DEF Call, Execute, BeginTransaction, CommitTransaction,
                RollbackTransaction, AsyncQuery, DelayQueryHolder
  <2>2. CASE NoAdd
    <3>1. DrainInv'
      BY <2>1, <2>2 DEF NoAdd, ShutdownInv, DrainInv, LateQueue, Clearing
    <3> QED BY <2>2, <3>1, ShutdownUnchanged
  <2> QED BY <1>2, <2>1, <2>2, CallCases, AddCommonShutdown, AddSerialShutdown
<1>3. CASE \/ AllowAsyncTransactions \/ JoinWorld \/ \E w \in Workers : StopWorker(w)
           \/ JoinWorkers
  <2>1. NoAdd /\ ~Clearing
    BY <1>3 DEF AllowAsyncTransactions, JoinWorld, StopWorker, JoinWorkers, NoAdd, Clearing
  <2>2. mpc' \notin {"clearing", "cancelling", "stopped"}
          \/ (mpc' = "clearing" /\ \A w \in Workers : wpc[w] = "exited")
    BY <1>3 DEF AllowAsyncTransactions, JoinWorld, StopWorker, JoinWorkers
  <2>3. DrainInv'
    BY <2>1, <2>2 DEF NoAdd, ShutdownInv, DrainInv, LateQueue, Clearing
  <2> QED BY <2>1, <2>3, ShutdownUnchanged
<1>4. CASE HaltEnd \/ StopServerEnd
  <2>1. NoAdd /\ Clearing /\ mpc' \in {"cancelling", "stopped"}
    BY <1>4 DEF HaltEnd, StopServerEnd, NoAdd, Clearing
  <2>2. \A w \in Workers : wpc[w] = "gone"
    BY <1>4 DEF HaltEnd, StopServerEnd, ShutdownInv, DrainInv
  <2>3. DrainInv'
    BY <2>1, <2>2 DEF NoAdd, ShutdownInv, DrainInv, LateQueue, Clearing
  <2> QED BY <2>1, <2>3, ShutdownUnchanged
<1>5. ASSUME NEW w \in Workers, DestroyBody(w) PROVE ShutdownInv'
  <2>1. /\ UNCHANGED <<issued, done, delayQueue, serialQueue, cur, mpc>>
        /\ wpc[w] = "exited" /\ wpc'[w] = "common"
        /\ mpc = "clearing"
        /\ \A v \in Workers : v # w => wpc'[v] = wpc[v]
    BY <1>5 DEF DestroyBody, TypeOK
  <2>2. OnceInv'
    BY <2>1 DEF ShutdownInv, OnceInv, Executing
  <2>3. CommonHeldInv'
    BY <2>1 DEF ShutdownInv, CommonHeldInv, WithSome
  <2>4. DrainInv'
    BY <2>1 DEF ShutdownInv, DrainInv, LateQueue, Clearing
  <2> QED BY <2>2, <2>3, <2>4 DEF ShutdownInv
<1>6. ASSUME NEW w \in Workers, Worker(w) PROVE ShutdownInv'
  BY <1>6, WorkerShutdown
<1> QED BY <1>1, <1>2, <1>3, <1>4, <1>5, <1>6 DEF Next, Halt

LEMMA ShutdownHolds == Spec => []ShutdownInv
<1>1. IInv /\ ShutdownInv /\ [Next]_vars => ShutdownInv'
  BY ShutdownStep DEF IInv
<1> QED BY <1>1, ShutdownInit, Invariance, PTL DEF Spec

(* Whatever was given to the database before the first worker is destroyed  *)
(* is executed before the last one is gone: a request that another thread   *)
(* makes while the workers stop and are joined is executed by a worker      *)
(* still running or by a destructor (~SqlDelayThread, HaltDelayThread).     *)
THEOREM ShutdownDrains == Spec => []HaltDrains
<1>1. IInv /\ ShutdownInv => HaltDrains
  <2> SUFFICES ASSUME IInv, ShutdownInv, mpc \in {"cancelling", "stopped"},
                      NEW n \in DOMAIN issued, issued[n].during \in WithWorkers,
                      n \notin done
               PROVE  FALSE
    BY DEF HaltDrains
  <2>1. \A w \in Workers :
          wpc[w] = "gone" /\ serialQueue[w] = << >> /\ LateQueue
    BY DEF ShutdownInv, DrainInv, Clearing
  <2>2. 0 \in Workers
    BY WorkersAssumption DEF Workers
  <2>3. issued[n] \in Op
    BY DEF IInv, TypeOK
  <2>4. issued[n].serial \in Nat /\ WorkerOf(issued[n]) \in Workers
    BY <2>3, SerialIsNat
  <2>5. CASE issued[n].serial > 0
    <3>1. Held(n)
      BY <2>5 DEF IInv, OrderInv, HeldInv
    <3> QED BY <2>1, <2>4, <3>1 DEF Held
  <2>6. CASE issued[n].serial = 0
    <3>1. WithSome(n)
      BY <2>6 DEF ShutdownInv, CommonHeldInv
    <3> QED BY <2>1, <2>2, <3>1 DEF WithSome, LateQueue
  <2> QED BY <2>4, <2>5, <2>6
<1> QED BY <1>1, Invariance, ShutdownHolds, PTL DEF Spec

-----------------------------------------------------------------------------
(* The results.  How often a number is in a queue, when one is added at the *)
(* end or taken from the front.                                             *)
LEMMA OccurrencesFinite ==
  ASSUME NEW q \in Seq(Nat), NEW n
  PROVE  /\ IsFiniteSet({i \in DOMAIN q : q[i] = n})
         /\ Occurrences(n, q) \in Nat
         /\ (\A i \in DOMAIN q : q[i] # n) => Occurrences(n, q) = 0
         /\ (\E i \in DOMAIN q : q[i] = n) => Occurrences(n, q) > 0
<1> DEFINE P == {i \in DOMAIN q : q[i] = n}
<1>1. IsFiniteSet(P)
  <2>1. DOMAIN q = 1 .. Len(q) /\ Len(q) \in Nat
    OBVIOUS
  <2>2. IsFiniteSet(DOMAIN q) /\ P \subseteq DOMAIN q
    BY <2>1, FS_Interval
  <2> QED BY <2>2, FS_Subset
<1>2. Cardinality(P) \in Nat /\ (Cardinality(P) = 0 <=> P = {})
  BY <1>1, FS_CardinalityType, FS_EmptySet
<1> QED BY <1>1, <1>2 DEF Occurrences

LEMMA OccurrencesAppend ==
  ASSUME NEW q \in Seq(Nat), NEW x \in Nat, NEW n
  PROVE  Occurrences(n, Append(q, x)) = Occurrences(n, q) + (IF x = n THEN 1 ELSE 0)
<1> DEFINE P == {i \in DOMAIN q : q[i] = n}
           R == {i \in DOMAIN Append(q, x) : Append(q, x)[i] = n}
<1>1. IsFiniteSet(P) /\ Cardinality(P) \in Nat
  BY OccurrencesFinite DEF Occurrences
<1>2. R = IF x = n THEN P \cup {Len(q) + 1} ELSE P
  BY AppendElements
<1>3. Len(q) + 1 \notin P
  BY AppendElements
<1>4. Cardinality(P \cup {Len(q) + 1}) = Cardinality(P) + 1
  BY <1>1, <1>3, FS_AddElement
<1>5. Occurrences(n, q) = Cardinality(P) /\ Occurrences(n, Append(q, x)) = Cardinality(R)
  BY DEF Occurrences
<1> HIDE DEF P, R
<1> QED BY <1>1, <1>2, <1>4, <1>5

LEMMA OccurrencesTail ==
  ASSUME NEW q \in Seq(Nat), q # << >>, NEW n
  PROVE  Occurrences(n, q) = Occurrences(n, Tail(q)) + (IF Head(q) = n THEN 1 ELSE 0)
<1> DEFINE P == {i \in DOMAIN q : q[i] = n}
           R == {i \in DOMAIN Tail(q) : Tail(q)[i] = n}
           S == P \ {1}
           f == [i \in R |-> i + 1]
<1>1. Tail(q) \in Seq(Nat) /\ DOMAIN Tail(q) \subseteq Nat
  OBVIOUS
<1>2. IsFiniteSet(P) /\ Cardinality(P) \in Nat /\ IsFiniteSet(R) /\ Cardinality(R) \in Nat
  BY <1>1, OccurrencesFinite DEF Occurrences
<1>3. /\ \A i \in R : i \in Nat /\ i + 1 \in S
      /\ \A i \in S : i \in Nat /\ i - 1 \in R
  <2>1. \A i \in DOMAIN Tail(q) : i \in Nat /\ i + 1 # 1
    BY <1>1
  <2>2. DOMAIN q \subseteq Nat
    OBVIOUS
  <2> QED BY <2>1, <2>2, TailElements
<1>4. f \in Bijection(R, S)
  <2> HIDE DEF R, S
  <2>1. f \in Injection(R, S)
    BY <1>3, Fun_IsInj
  <2>2. f \in Surjection(R, S)
    <3>1. \A i \in S : i - 1 \in R /\ f[i - 1] = i
      BY <1>3
    <3>2. f \in [R -> S]
      BY <1>3
    <3> QED BY <3>1, <3>2, Fun_IsSurj
  <2> QED BY <2>1, <2>2 DEF Bijection
<1>5. Cardinality(S) = Cardinality(R)
  <2>1. ExistsBijection(R, S)
    BY <1>4, Fun_ExistsBij
  <2> HIDE DEF R, S
  <2> QED BY <1>2, <2>1, FS_Bijection
<1>6. Head(q) = n <=> 1 \in P
  BY TailElements
<1>7. Cardinality(S) = Cardinality(P) - (IF 1 \in P THEN 1 ELSE 0)
  <2>1. 1 \in P => Cardinality(S) = Cardinality(P) - 1
    BY <1>2, FS_RemoveElement
  <2>2. 1 \notin P => S = P
    OBVIOUS
  <2> HIDE DEF P, S
  <2> QED BY <1>2, <2>1, <2>2
<1>8. Occurrences(n, q) = Cardinality(P) /\ Occurrences(n, Tail(q)) = Cardinality(R)
  BY DEF Occurrences
<1> HIDE DEF P, R, S
<1> QED BY <1>2, <1>5, <1>6, <1>7, <1>8

(* Two callbacks of the world thread for one serial id, and what it means   *)
(* that they stand in the order of issue in a queue, at its ends, and in    *)
(* one queue before the other.                                              *)
Line(a, b) ==
  /\ issued[a].serial = issued[b].serial /\ issued[a].serial > 0
  /\ issued[a].callback = "unsafe" /\ issued[b].callback = "unsafe"

Sorted(q)    == \A i, j \in DOMAIN q : i < j /\ Line(q[i], q[j]) => q[i] < q[j]
Ahead(p, q)  == \A i \in DOMAIN p, j \in DOMAIN q : Line(p[i], q[j]) => p[i] < q[j]
Last(q, x)   == \A i \in DOMAIN q : Line(q[i], x) => q[i] < x
First(x, q)  == \A i \in DOMAIN q : Line(x, q[i]) => x < q[i]

(* The results of executed operations come from the result queue through    *)
(* the unsafe queue to the world thread, each line in the order of issue.   *)
(* When the server is stopped the unsafe queue is passed by.                *)
ResultOrderInv ==
  /\ Sorted(resultQueue) /\ Sorted(unsafeQueue) /\ Sorted(delivered)
  /\ Ahead(delivered, resultQueue)
  /\ mpc \in {"startup", "running"} =>
       Ahead(delivered, unsafeQueue) /\ Ahead(unsafeQueue, resultQueue)

(* All of them belong to executed operations, and those given to the pool   *)
(* are for the pool.                                                        *)
AnsweredInv ==
  /\ \A i \in DOMAIN resultQueue : resultQueue[i] \in done
  /\ \A i \in DOMAIN unsafeQueue : unsafeQueue[i] \in done
  /\ \A i \in DOMAIN delivered : delivered[i] \in done
  /\ \A n \in batch : n \in done /\ issued[n].callback # "unsafe"

UpdateInv == PoolQuietBetweenUpdates /\ (mpc # "running" => upc = "idle")

LineInv == UpdateInv /\ AnsweredInv /\ ResultOrderInv

LEMMA SortedAppend ==
  ASSUME NEW q \in Seq(Nat), NEW x \in Nat, Sorted(q), Last(q, x)
  PROVE  Sorted(Append(q, x))
<1>1. /\ DOMAIN Append(q, x) = DOMAIN q \cup {Len(q) + 1} /\ Len(q) + 1 \in Nat
      /\ Append(q, x)[Len(q) + 1] = x
      /\ \A i \in DOMAIN q : i \in Nat /\ i < Len(q) + 1 /\ Append(q, x)[i] = q[i]
  BY AppendElements
<1> QED BY <1>1 DEF Sorted, Last

LEMMA AheadAppend ==
  ASSUME NEW p \in Seq(Nat), NEW q \in Seq(Nat), NEW x \in Nat, Ahead(p, q)
  PROVE  /\ Last(p, x) => Ahead(p, Append(q, x))
         /\ First(x, q) => Ahead(Append(p, x), q)
<1>1. ASSUME NEW s \in Seq(Nat), NEW i \in DOMAIN Append(s, x)
      PROVE  (i \in DOMAIN s /\ Append(s, x)[i] = s[i]) \/ Append(s, x)[i] = x
  BY AppendElements
<1> QED BY <1>1 DEF Ahead, Last, First

LEMMA TailOrder ==
  ASSUME NEW p \in Seq(Nat), NEW q \in Seq(Nat), q # << >>, Sorted(q)
  PROVE  /\ Head(q) \in Nat /\ Tail(q) \in Seq(Nat)
         /\ Sorted(Tail(q)) /\ First(Head(q), Tail(q))
         /\ Ahead(p, q) => Ahead(p, Tail(q)) /\ Last(p, Head(q))
         /\ Ahead(q, p) => Ahead(Tail(q), p) /\ First(Head(q), p)
<1>1. /\ Head(q) = q[1] /\ 1 \in DOMAIN q
      /\ \A i \in DOMAIN Tail(q) :
           i \in Nat /\ i + 1 \in DOMAIN q /\ Tail(q)[i] = q[i + 1]
  BY TailElements
<1>2. Head(q) \in Nat /\ Tail(q) \in Seq(Nat) /\ \A i \in DOMAIN Tail(q) : 1 < i + 1
  OBVIOUS
<1>3. Sorted(Tail(q)) /\ First(Head(q), Tail(q))
  <2>1. \A i, j \in DOMAIN Tail(q) : i < j => i + 1 < j + 1
    BY <1>1
  <2> QED BY <1>1, <1>2, <2>1 DEF Sorted, First
<1>4. Ahead(p, q) => Ahead(p, Tail(q)) /\ Last(p, Head(q))
  BY <1>1 DEF Ahead, Last
<1>5. Ahead(q, p) => Ahead(Tail(q), p) /\ First(Head(q), p)
  BY <1>1 DEF Ahead, First
<1> QED BY <1>2, <1>3, <1>4, <1>5

(* A result that has just come is the newest of its line: the older ones    *)
(* are executed in order.                                                   *)
LEMMA NewestResult ==
  ASSUME TypeOK, SerialOrder, NEW c \in DOMAIN issued, c \notin done,
         done \subseteq DOMAIN issued, NEW q, \A i \in DOMAIN q : q[i] \in done
  PROVE  Last(q, c)
<1> SUFFICES ASSUME NEW i \in DOMAIN q, Line(q[i], c) PROVE q[i] < c
  BY DEF Last
<1>1. c \in Nat /\ q[i] \in DOMAIN issued /\ q[i] \in Nat /\ q[i] # c /\ q[i] \in done
  <2>1. q[i] \in done
    OBVIOUS
  <2>2. issued \in Seq(Op)
    BY DEF TypeOK
  <2> QED BY <2>1, <2>2
<1>2. ~(c < q[i])
  BY <1>1 DEF SerialOrder, Line
<1> QED BY <1>1, <1>2

(* What a call does to the operations: it issues one or none, and executes  *)
(* it itself only if nobody waits for a result.                             *)
Issues(op) ==
  /\ issued' = Append(issued, op)
  /\ \/ done' = done
     \/ done' = done \cup {Len(issued) + 1} /\ op.callback = "none"

LEMMA CallIssues ==
  ASSUME TypeOK, NEW c \in Callers, Call(c)
  PROVE  /\ UNCHANGED <<issued, done>> \/ \E op \in Op : Issues(op)
         /\ UNCHANGED <<mpc, resultQueue, unsafeQueue, batch, delivered, upc>>
<1> USE DEF stopVars, resultVars
<1>1. ASSUME NEW s \in SerialIds \cup {0}, NEW cb \in Callbacks
      PROVE  /\ Query(s, cb) \in Op
             /\ Statement(s) \in Op /\ Statement(s).callback = "none"
  BY QueryIsOp, StatementIsOp
<1>2. ASSUME NEW op \in Op,
             \/ AddToDelayQueue(op) \/ AddToSerialDelayQueue(op)
             \/ (DirectExecute(op) /\ op.callback = "none")
      PROVE  \E o \in Op : Issues(o)
  BY <1>2 DEF AddToDelayQueue, AddToSerialDelayQueue, DirectExecute, Issues
<1>3. CASE Execute(c)
  <2>1. Statement(0) \in Op /\ Statement(0).callback = "none"
    BY <1>1 DEF Callbacks
  <2> QED BY <1>2, <1>3, <2>1 DEF Execute
<1>4. CASE \E s \in SerialIds \cup {0} : BeginTransaction(c, s)
  BY <1>4 DEF BeginTransaction
<1>5. CASE CommitTransaction(c)
  <2>1. trans[c] \in SerialIds \cup {0}
    BY <1>5 DEF CommitTransaction, TypeOK
  <2>2. Statement(trans[c]) \in Op /\ Statement(trans[c]).callback = "none"
    BY <1>1, <2>1 DEF Callbacks
  <2> QED BY <1>2, <1>5, <2>2 DEF CommitTransaction
<1>6. CASE RollbackTransaction(c)
  BY <1>6 DEF RollbackTransaction
<1>7. CASE \E cb \in QueryCallbacks : AsyncQuery(c, cb)
  <2>1. PICK cb \in QueryCallbacks : AsyncQuery(c, cb)
    BY <1>7
  <2>2. Query(0, cb) \in Op
    BY <1>1, CallbacksAssumption DEF Callbacks
  <2> QED BY <1>2, <2>1, <2>2 DEF AsyncQuery
<1>8. CASE \E s \in SerialIds \cup {0}, cb \in QueryCallbacks : DelayQueryHolder(c, s, cb)
  <2>1. PICK s \in SerialIds \cup {0}, cb \in QueryCallbacks : DelayQueryHolder(c, s, cb)
    BY <1>8
  <2>2. Query(s, cb) \in Op
    BY <1>1, CallbacksAssumption DEF Callbacks
  <2> QED BY <1>2, <2>1, <2>2 DEF DelayQueryHolder
<1> QED BY <1>3, <1>4, <1>5, <1>6, <1>7, <1>8 DEF Call

(* Steps that leave the results where they are. *)
ResultsStay ==
  /\ UNCHANGED <<issued, done>> \/ \E op \in Op : Issues(op)
  /\ UNCHANGED <<resultQueue, unsafeQueue, batch, delivered>>
  /\ mpc' \in {"startup", "running"} => mpc \in {"startup", "running"}

LEMMA ResultsUnchanged ==
  ASSUME TypeOK, OrderInv, LineInv, ResultsStay, UpdateInv'
  PROVE  LineInv'
<1>1. UNCHANGED <<resultQueue, unsafeQueue, batch, delivered>> /\ done \subseteq done'
  BY DEF ResultsStay, Issues
<1>2. \A n \in done : issued'[n] = issued[n]
  <2>1. done \subseteq DOMAIN issued
    BY DEF OrderInv, CommonInv
  <2>2. ASSUME NEW op \in Op, Issues(op)
        PROVE  \A n \in DOMAIN issued : issued'[n] = issued[n]
    BY <2>2, Appended DEF Issues
  <2> QED BY <2>1, <2>2 DEF ResultsStay
<1>3. AnsweredInv'
  BY <1>1, <1>2 DEF LineInv, AnsweredInv
<1>5. \A a, b \in done : Line(a, b)' <=> Line(a, b)
  BY <1>2 DEF Line
<1>6. ResultOrderInv'
  <2>1. ASSUME NEW p, NEW q, \A i \in DOMAIN p : p[i] \in done,
               \A i \in DOMAIN q : q[i] \in done
        PROVE  /\ Ahead(p, q) => \A i \in DOMAIN p, j \in DOMAIN q : Line(p[i], q[j])' => p[i] < q[j]
               /\ Sorted(p) => \A i, j \in DOMAIN p : i < j /\ Line(p[i], p[j])' => p[i] < p[j]
    BY <1>5, <2>1 DEF Ahead, Sorted
  <2>2. /\ Sorted(resultQueue)' /\ Sorted(unsafeQueue)' /\ Sorted(delivered)'
        /\ Ahead(delivered, resultQueue)'
    BY <1>1, <2>1 DEF LineInv, AnsweredInv, ResultOrderInv, Ahead, Sorted
  <2>3. mpc' \in {"startup", "running"} =>
          Ahead(delivered, unsafeQueue)' /\ Ahead(unsafeQueue, resultQueue)'
    BY <1>1, <2>1 DEF LineInv, AnsweredInv, ResultOrderInv, Ahead, ResultsStay
  <2> QED BY <2>2, <2>3 DEF ResultOrderInv
<1> QED BY <1>3, <1>6 DEF LineInv

(* The steps that move results. *)
Still == UNCHANGED <<issued, done, mpc>>

LEMMA StillLine ==
  ASSUME Still
  PROVE  /\ \A a, b : Line(a, b)' <=> Line(a, b)
         /\ Sorted(resultQueue)' <=> Sorted(resultQueue')
         /\ Sorted(unsafeQueue)' <=> Sorted(unsafeQueue')
         /\ Sorted(delivered)' <=> Sorted(delivered')
         /\ Ahead(delivered, resultQueue)' <=> Ahead(delivered', resultQueue')
         /\ Ahead(delivered, unsafeQueue)' <=> Ahead(delivered', unsafeQueue')
         /\ Ahead(unsafeQueue, resultQueue)' <=> Ahead(unsafeQueue', resultQueue')
BY DEF Still, Line, Sorted, Ahead

LEMMA ResultTypes ==
  ASSUME TypeOK
  PROVE  resultQueue \in Seq(Nat) /\ unsafeQueue \in Seq(Nat) /\ delivered \in Seq(Nat)
BY DEF TypeOK

(* An element of a queue that has moved on, or was there before. *)
LEMMA TailDone ==
  ASSUME NEW q \in Seq(Nat), q # << >>, NEW S, \A i \in DOMAIN q : q[i] \in S
  PROVE  Head(q) \in S /\ \A i \in DOMAIN Tail(q) : Tail(q)[i] \in S
BY TailElements

LEMMA AppendDone ==
  ASSUME NEW q \in Seq(Nat), NEW x \in Nat, NEW S, x \in S, \A i \in DOMAIN q : q[i] \in S
  PROVE  \A i \in DOMAIN Append(q, x) : Append(q, x)[i] \in S
BY AppendElements

LEMMA DrainResultLine ==
  ASSUME TypeOK, LineInv, DrainResult
  PROVE  LineInv'
<1>1. /\ Still /\ upc' = upc /\ upc = "drain" /\ mpc = "running" /\ delivered' = delivered
      /\ resultQueue # << >> /\ resultQueue' = Tail(resultQueue)
      /\ \/ unsafeQueue' = Append(unsafeQueue, Head(resultQueue)) /\ batch' = batch
         \/ /\ batch' = batch \cup {Head(resultQueue)} /\ unsafeQueue' = unsafeQueue
            /\ issued[Head(resultQueue)].callback # "unsafe"
  BY DEF DrainResult, LineInv, UpdateInv, Still, callVars, stopVars
<1>2. Head(resultQueue) \in done /\ Head(resultQueue) \in Nat
  BY <1>1, ResultTypes, TailDone, TailOrder DEF LineInv, AnsweredInv, ResultOrderInv
<1>3. UpdateInv'
  BY <1>1 DEF LineInv, UpdateInv, PoolQuietBetweenUpdates, Still
<1>4. AnsweredInv'
  <2>1. \A i \in DOMAIN resultQueue' : resultQueue'[i] \in done
    BY <1>1, ResultTypes, TailDone DEF LineInv, AnsweredInv
  <2>2. \A i \in DOMAIN unsafeQueue' : unsafeQueue'[i] \in done
    BY <1>1, <1>2, ResultTypes, AppendDone DEF LineInv, AnsweredInv
  <2> QED BY <1>1, <1>2, <2>1, <2>2 DEF LineInv, AnsweredInv, Still
<1>5. ResultOrderInv'
  <2> DEFINE h == Head(resultQueue)
             t == Tail(resultQueue)
  <2>1. /\ t \in Seq(Nat) /\ Sorted(t) /\ First(h, t)
        /\ Ahead(delivered, t) /\ Last(delivered, h)
        /\ Ahead(unsafeQueue, t) /\ Last(unsafeQueue, h)
    BY <1>1, ResultTypes, TailOrder DEF LineInv, ResultOrderInv
  <2>2. /\ Sorted(Append(unsafeQueue, h)) /\ Ahead(delivered, Append(unsafeQueue, h))
        /\ Ahead(Append(unsafeQueue, h), t)
    BY <1>1, <1>2, <2>1, ResultTypes, SortedAppend, AheadAppend DEF LineInv, ResultOrderInv
  <2> HIDE DEF h, t
  <2>3. Sorted(unsafeQueue') /\ Ahead(delivered, unsafeQueue') /\ Ahead(unsafeQueue', t)
    BY <1>1, <2>1, <2>2 DEF LineInv, ResultOrderInv, h
  <2>4. Sorted(delivered) /\ resultQueue' = t /\ delivered' = delivered
    BY <1>1 DEF LineInv, ResultOrderInv, t
  <2>5. Sorted(resultQueue') /\ Ahead(delivered', resultQueue')
        /\ Ahead(delivered', unsafeQueue') /\ Ahead(unsafeQueue', resultQueue')
        /\ Sorted(unsafeQueue') /\ Sorted(delivered')
    BY <2>1, <2>3, <2>4
  <2> QED BY <1>1, <2>5, StillLine DEF ResultOrderInv
<1> QED BY <1>3, <1>4, <1>5 DEF LineInv

LEMMA RunUnsafeLine ==
  ASSUME TypeOK, LineInv, RunUnsafe
  PROVE  LineInv'
<1>1. /\ Still /\ upc = "unsafe" /\ upc' # "idle" /\ mpc = "running"
      /\ unsafeQueue # << >> /\ unsafeQueue' = Tail(unsafeQueue)
      /\ delivered' = Append(delivered, Head(unsafeQueue))
      /\ UNCHANGED <<resultQueue, batch>>
  BY DEF RunUnsafe, LineInv, UpdateInv, Still, callVars, stopVars
<1>2. Head(unsafeQueue) \in done /\ Head(unsafeQueue) \in Nat
  BY <1>1, ResultTypes, TailDone, TailOrder DEF LineInv, AnsweredInv, ResultOrderInv
<1>3. UpdateInv'
  BY <1>1 DEF LineInv, UpdateInv, PoolQuietBetweenUpdates, Still
<1>4. AnsweredInv'
  <2>1. \A i \in DOMAIN unsafeQueue' : unsafeQueue'[i] \in done
    BY <1>1, ResultTypes, TailDone DEF LineInv, AnsweredInv
  <2>2. \A i \in DOMAIN delivered' : delivered'[i] \in done
    BY <1>1, <1>2, ResultTypes, AppendDone DEF LineInv, AnsweredInv
  <2> QED BY <1>1, <2>1, <2>2 DEF LineInv, AnsweredInv, Still
<1>5. ResultOrderInv'
  <2> DEFINE h == Head(unsafeQueue)
             t == Tail(unsafeQueue)
  <2>1. /\ t \in Seq(Nat) /\ Sorted(t) /\ First(h, t)
        /\ Ahead(delivered, t) /\ Last(delivered, h)
        /\ Ahead(t, resultQueue) /\ First(h, resultQueue)
    BY <1>1, ResultTypes, TailOrder DEF LineInv, ResultOrderInv
  <2>2. /\ Sorted(Append(delivered, h)) /\ Ahead(Append(delivered, h), t)
        /\ Ahead(Append(delivered, h), resultQueue)
    BY <1>1, <1>2, <2>1, ResultTypes, SortedAppend, AheadAppend DEF LineInv, ResultOrderInv
  <2>3. unsafeQueue' = t /\ delivered' = Append(delivered, h) /\ Sorted(resultQueue)
    BY <1>1 DEF LineInv, ResultOrderInv
  <2> HIDE DEF h, t
  <2>4. Sorted(resultQueue') /\ Ahead(delivered', resultQueue')
        /\ Ahead(delivered', unsafeQueue') /\ Ahead(unsafeQueue', resultQueue')
        /\ Sorted(unsafeQueue') /\ Sorted(delivered')
    BY <1>1, <2>1, <2>2, <2>3
  <2> QED BY <1>1, <2>4, StillLine DEF ResultOrderInv
<1> QED BY <1>3, <1>4, <1>5 DEF LineInv

LEMMA RunSafeLine ==
  ASSUME TypeOK, LineInv, NEW n \in batch, RunSafe(n)
  PROVE  LineInv'
<1>1. /\ Still /\ batch' = batch \ {n} /\ delivered' = Append(delivered, n)
      /\ UNCHANGED <<resultQueue, unsafeQueue, upc>>
  BY DEF RunSafe, Still, callVars, stopVars
<1>2. n \in Nat /\ n \in done /\ issued[n].callback # "unsafe"
  BY DEF TypeOK, LineInv, AnsweredInv
<1>3. UpdateInv'
  BY <1>1 DEF LineInv, UpdateInv, PoolQuietBetweenUpdates, Still
<1>4. AnsweredInv'
  <2>1. \A i \in DOMAIN delivered' : delivered'[i] \in done
    BY <1>1, <1>2, ResultTypes, AppendDone DEF LineInv, AnsweredInv
  <2> QED BY <1>1, <2>1 DEF LineInv, AnsweredInv, Still
<1>5. ResultOrderInv'
  <2>1. /\ Last(delivered, n)
        /\ First(n, resultQueue) /\ First(n, unsafeQueue)
    BY <1>2 DEF Last, First, Line
  <2>2. /\ Sorted(Append(delivered, n)) /\ Ahead(Append(delivered, n), resultQueue)
        /\ Ahead(delivered, unsafeQueue) => Ahead(Append(delivered, n), unsafeQueue)
    BY <1>2, <2>1, ResultTypes, SortedAppend, AheadAppend DEF LineInv, ResultOrderInv
  <2>3. /\ Sorted(resultQueue') /\ Ahead(delivered', resultQueue')
        /\ Sorted(unsafeQueue') /\ Sorted(delivered')
        /\ mpc \in {"startup", "running"} =>
             Ahead(delivered', unsafeQueue') /\ Ahead(unsafeQueue', resultQueue')
    BY <1>1, <2>2 DEF LineInv, ResultOrderInv
  <2> QED BY <1>1, <2>3, StillLine DEF ResultOrderInv, Still
<1> QED BY <1>3, <1>4, <1>5 DEF LineInv

LEMMA CancelResultLine ==
  ASSUME TypeOK, LineInv, CancelResult
  PROVE  LineInv'
<1>1. /\ Still /\ UNCHANGED <<unsafeQueue, batch, upc>> /\ mpc = "cancelling"
      /\ resultQueue # << >> /\ resultQueue' = Tail(resultQueue)
      /\ delivered' = Append(delivered, Head(resultQueue))
  BY DEF CancelResult, Still, callVars, stopVars
<1>2. Head(resultQueue) \in done /\ Head(resultQueue) \in Nat
  BY <1>1, ResultTypes, TailDone, TailOrder DEF LineInv, AnsweredInv, ResultOrderInv
<1>3. UpdateInv'
  BY <1>1 DEF LineInv, UpdateInv, PoolQuietBetweenUpdates, Still
<1>4. AnsweredInv'
  <2>1. \A i \in DOMAIN resultQueue' : resultQueue'[i] \in done
    BY <1>1, ResultTypes, TailDone DEF LineInv, AnsweredInv
  <2>2. \A i \in DOMAIN delivered' : delivered'[i] \in done
    BY <1>1, <1>2, ResultTypes, AppendDone DEF LineInv, AnsweredInv
  <2> QED BY <1>1, <2>1, <2>2 DEF LineInv, AnsweredInv, Still
<1>5. ResultOrderInv'
  <2> DEFINE h == Head(resultQueue)
             t == Tail(resultQueue)
  <2>1. /\ t \in Seq(Nat) /\ Sorted(t) /\ First(h, t)
        /\ Ahead(delivered, t) /\ Last(delivered, h)
    BY <1>1, ResultTypes, TailOrder DEF LineInv, ResultOrderInv
  <2>2. Sorted(Append(delivered, h)) /\ Ahead(Append(delivered, h), t)
    BY <1>2, <2>1, ResultTypes, SortedAppend, AheadAppend DEF LineInv, ResultOrderInv
  <2>3. resultQueue' = t /\ delivered' = Append(delivered, h) /\ Sorted(unsafeQueue)
    BY <1>1 DEF LineInv, ResultOrderInv
  <2> HIDE DEF h, t
  <2>4. /\ Sorted(resultQueue') /\ Ahead(delivered', resultQueue')
        /\ Sorted(unsafeQueue') /\ Sorted(delivered')
    BY <1>1, <2>1, <2>2, <2>3
  <2> QED BY <1>1, <2>4, StillLine DEF ResultOrderInv, Still
<1> QED BY <1>3, <1>4, <1>5 DEF LineInv

(* An operation that is executed posts its result. *)
Posts(w) ==
  /\ UNCHANGED <<issued, mpc, unsafeQueue, batch, upc, delivered>>
  /\ Executing(w) /\ cur[w] \in DOMAIN issued /\ cur[w] \notin done
  /\ done' = done \cup {cur[w]}
  /\ resultQueue' = IF issued[cur[w]].callback = "none" THEN resultQueue
                    ELSE Append(resultQueue, cur[w])

(* What a step does to the results. *)
LEMMA ResultSteps ==
  ASSUME TypeOK, OrderInv, ShutdownInv, UpdateInv, [Next]_vars
  PROVE  /\ UpdateInv'
         /\ \/ ResultsStay \/ DrainResult \/ RunUnsafe \/ CancelResult
            \/ \E n \in batch : RunSafe(n)
            \/ \E w \in Workers : Posts(w)
<1> DEFINE Goal ==
      /\ UpdateInv'
      /\ \/ ResultsStay \/ DrainResult \/ RunUnsafe \/ CancelResult
         \/ \E n \in batch : RunSafe(n)
         \/ \E w \in Workers : Posts(w)
<1> USE DEF callVars, queueVars, workerVars, stopVars, resultVars
<1>1. ASSUME NEW c \in Callers, Call(c) PROVE Goal
  <2>1. /\ UNCHANGED <<issued, done>> \/ \E op \in Op : Issues(op)
        /\ UNCHANGED <<mpc, resultQueue, unsafeQueue, batch, delivered, upc>>
    BY <1>1, CallIssues
  <2> QED BY <2>1 DEF ResultsStay, UpdateInv, PoolQuietBetweenUpdates
<1>2. ASSUME NEW w \in Workers, Worker(w) PROVE Goal
  <2>1. CASE Loop(w) \/ TakeCommon(w) \/ TakeSerial(w)
    BY <2>1 DEF Loop, TakeCommon, TakeSerial, ResultsStay, UpdateInv, PoolQuietBetweenUpdates
  <2>2. CASE ExecuteOperation(w)
    <3>1. Executing(w)
      BY <2>2 DEF ExecuteOperation, Executing
    <3>2. cur[w] \in DOMAIN issued /\ cur[w] \notin done
      BY <3>1 DEF Executing, OrderInv, CommonInv, SerialQueueInv, ShutdownInv, OnceInv
    <3>3. Posts(w)
      BY <2>2, <3>1, <3>2 DEF ExecuteOperation, Posts
    <3>4. UpdateInv'
      BY <3>3 DEF Posts, UpdateInv, PoolQuietBetweenUpdates
    <3> QED BY <3>3, <3>4
  <2> QED BY <1>2, <2>1, <2>2 DEF Worker
<1>3. ASSUME UpdateBegin \/ DrainEnd \/ UnsafeEnd \/ UpdateEnd PROVE Goal
  BY <1>3 DEF UpdateBegin, DrainEnd, UnsafeEnd, UpdateEnd, ResultsStay, UpdateInv,
              PoolQuietBetweenUpdates
<1>4. ASSUME DrainResult PROVE Goal
  BY <1>4 DEF DrainResult, UpdateInv, PoolQuietBetweenUpdates
<1>5. ASSUME RunUnsafe PROVE Goal
  BY <1>5 DEF RunUnsafe, UpdateInv, PoolQuietBetweenUpdates
<1>6. ASSUME NEW n \in batch, RunSafe(n) PROVE Goal
  BY <1>6 DEF RunSafe, UpdateInv, PoolQuietBetweenUpdates
<1>7. ASSUME AllowAsyncTransactions \/ JoinWorld PROVE Goal
  BY <1>7 DEF AllowAsyncTransactions, JoinWorld, ResultsStay, UpdateInv,
              PoolQuietBetweenUpdates
<1>8. ASSUME \/ \E w \in Workers : StopWorker(w) \/ DestroyBody(w)
             \/ JoinWorkers \/ HaltEnd \/ StopServerEnd
      PROVE  Goal
  BY <1>8 DEF StopWorker, DestroyBody, JoinWorkers, HaltEnd, StopServerEnd, ResultsStay,
              UpdateInv, PoolQuietBetweenUpdates
<1>9. ASSUME CancelResult PROVE Goal
  BY <1>9 DEF CancelResult, UpdateInv, PoolQuietBetweenUpdates
<1>10. ASSUME UNCHANGED vars \/ Stopped PROVE Goal
  BY <1>10 DEF vars, Stopped, ResultsStay, UpdateInv, PoolQuietBetweenUpdates
<1> HIDE DEF Goal, callVars, queueVars, workerVars, stopVars, resultVars
<1>11. Update => Goal
  BY <1>3, <1>4, <1>5 DEF Update
<1>12. Halt => Goal
  BY <1>8, <1>9 DEF Halt
<1>13. Next \/ UNCHANGED vars
  OBVIOUS
<1>14. Goal
  BY <1>1, <1>2, <1>6, <1>7, <1>10, <1>11, <1>12, <1>13 DEF Next
<1> QED BY <1>14 DEF Goal

LEMMA PostsLine ==
  ASSUME TypeOK, OrderInv, SerialOrder, LineInv, UpdateInv', NEW w \in Workers, Posts(w)
  PROVE  LineInv'
<1> DEFINE c == cur[w]
<1>1. /\ UNCHANGED <<issued, mpc, unsafeQueue, batch, upc, delivered>>
      /\ c \in DOMAIN issued /\ c \notin done /\ done' = done \cup {c}
      /\ resultQueue' = resultQueue \/ resultQueue' = Append(resultQueue, c)
  BY DEF Posts
<1>2. c \in Nat /\ done \subseteq DOMAIN issued
  BY DEF TypeOK, OrderInv, CommonInv
<1> HIDE DEF c
<1>3. AnsweredInv'
  <2>1. \A i \in DOMAIN resultQueue' : resultQueue'[i] \in done \cup {c}
    BY <1>1, <1>2, ResultTypes, AppendDone DEF LineInv, AnsweredInv
  <2> QED BY <1>1, <2>1 DEF LineInv, AnsweredInv
<1>4. ResultOrderInv'
  <2>1. Last(resultQueue, c) /\ Last(unsafeQueue, c) /\ Last(delivered, c)
    BY <1>1, <1>2, NewestResult DEF LineInv, AnsweredInv
  <2>2. /\ Sorted(Append(resultQueue, c)) /\ Ahead(delivered, Append(resultQueue, c))
        /\ Ahead(unsafeQueue, resultQueue) => Ahead(unsafeQueue, Append(resultQueue, c))
    BY <1>2, <2>1, ResultTypes, SortedAppend, AheadAppend DEF LineInv, ResultOrderInv
  <2>3. /\ Sorted(resultQueue') /\ Ahead(delivered, resultQueue')
        /\ Ahead(unsafeQueue, resultQueue) => Ahead(unsafeQueue, resultQueue')
    BY <1>1, <2>2 DEF LineInv, ResultOrderInv
  <2>4. \A a, b : Line(a, b)' <=> Line(a, b)
    BY <1>1 DEF Line
  <2>5. /\ Sorted(resultQueue)' <=> Sorted(resultQueue')
        /\ Sorted(unsafeQueue)' <=> Sorted(unsafeQueue)
        /\ Sorted(delivered)' <=> Sorted(delivered)
        /\ Ahead(delivered, resultQueue)' <=> Ahead(delivered, resultQueue')
        /\ Ahead(delivered, unsafeQueue)' <=> Ahead(delivered, unsafeQueue)
        /\ Ahead(unsafeQueue, resultQueue)' <=> Ahead(unsafeQueue, resultQueue')
    BY <1>1, <2>4 DEF Sorted, Ahead
  <2> QED BY <1>1, <2>3, <2>5 DEF LineInv, ResultOrderInv
<1> QED BY <1>3, <1>4 DEF LineInv

LEMMA LineInit == Init => LineInv
BY DEF Init, LineInv, UpdateInv, PoolQuietBetweenUpdates, AnsweredInv, ResultOrderInv,
       Sorted, Ahead

LEMMA LineStep ==
  ASSUME TypeOK, OrderInv, ShutdownInv, SerialOrder, LineInv, [Next]_vars
  PROVE  LineInv'
<1>1. /\ UpdateInv'
      /\ \/ ResultsStay \/ DrainResult \/ RunUnsafe \/ CancelResult
         \/ \E n \in batch : RunSafe(n)
         \/ \E w \in Workers : Posts(w)
  BY ResultSteps DEF LineInv
<1> QED BY <1>1, ResultsUnchanged, DrainResultLine, RunUnsafeLine, CancelResultLine,
           RunSafeLine, PostsLine

-----------------------------------------------------------------------------
(* Every callback is in one place. *)
Places(n) ==
  Occurrences(n, resultQueue) + Occurrences(n, unsafeQueue) + Occurrences(n, delivered)
    + (IF n \in batch THEN 1 ELSE 0)

Due(n) == IF n \in done /\ issued[n].callback # "none" THEN 1 ELSE 0

LEMMA PlacesOnce == CallbackOnce <=> \A n \in DOMAIN issued : Places(n) = Due(n)
BY DEF CallbackOnce, Places, Due

LEMMA PlacesOnceNext == (\A n \in DOMAIN issued : Places(n) = Due(n))' => CallbackOnce'
BY DEF CallbackOnce, Places, Due

(* A callback that waits in a queue is there once and nowhere else. *)
LEMMA Alone ==
  ASSUME TypeOK, OrderInv, LineInv, CallbackOnce
  PROVE  /\ \A n : /\ Occurrences(n, resultQueue) \in Nat
                   /\ Occurrences(n, unsafeQueue) \in Nat
                   /\ Occurrences(n, delivered) \in Nat
         /\ \A n : n \notin done => Places(n) = 0
         /\ resultQueue # << >> => Head(resultQueue) \notin batch
<1>1. \A n : /\ Occurrences(n, resultQueue) \in Nat
             /\ Occurrences(n, unsafeQueue) \in Nat
             /\ Occurrences(n, delivered) \in Nat
  BY ResultTypes, OccurrencesFinite
<1>2. ASSUME NEW n, n \notin done PROVE Places(n) = 0
  <2>1. /\ \A i \in DOMAIN resultQueue : resultQueue[i] # n
        /\ \A i \in DOMAIN unsafeQueue : unsafeQueue[i] # n
        /\ \A i \in DOMAIN delivered : delivered[i] # n
        /\ n \notin batch
    BY <1>2 DEF LineInv, AnsweredInv
  <2>2. /\ Occurrences(n, resultQueue) = 0 /\ Occurrences(n, unsafeQueue) = 0
        /\ Occurrences(n, delivered) = 0
    BY <2>1, ResultTypes, OccurrencesFinite
  <2> QED BY <2>1, <2>2 DEF Places
<1>3. ASSUME resultQueue # << >> PROVE Head(resultQueue) \notin batch
  <2> DEFINE h == Head(resultQueue)
  <2>1. 1 \in DOMAIN resultQueue /\ resultQueue[1] = h /\ h \in done
    BY <1>3, ResultTypes, TailElements DEF LineInv, AnsweredInv
  <2>2. Occurrences(h, resultQueue) > 0
    BY <2>1, ResultTypes, OccurrencesFinite
  <2>3. h \in DOMAIN issued
    BY <2>1 DEF OrderInv, CommonInv
  <2>4. Places(h) = Due(h)
    BY <2>3, PlacesOnce
  <2> HIDE DEF h
  <2>5. h \notin batch
    BY <1>1, <2>2, <2>4 DEF Places, Due
  <2> QED BY <2>5 DEF h
<1> QED BY <1>1, <1>2, <1>3

LEMMA OnceStay ==
  ASSUME TypeOK, OrderInv, LineInv, CallbackOnce, ResultsStay
  PROVE  CallbackOnce'
<1>1. \A n : Places(n)' = Places(n)
  BY DEF ResultsStay, Places
<1>2. CASE UNCHANGED <<issued, done>>
  <2>1. \A n : Due(n)' = Due(n)
    BY <1>2 DEF Due
  <2> QED BY <1>1, <1>2, <2>1, PlacesOnce, PlacesOnceNext
<1>3. ASSUME NEW op \in Op, Issues(op) PROVE CallbackOnce'
  <2>0. PICK N : N = Len(issued) + 1
    OBVIOUS
  <2>1. /\ DOMAIN issued' = DOMAIN issued \cup {N} /\ N \notin DOMAIN issued
        /\ \A n \in DOMAIN issued : issued'[n] = issued[n]
        /\ issued'[N] = op
        /\ done' = done \/ (done' = done \cup {N} /\ op.callback = "none")
    BY <1>3, <2>0, Appended DEF Issues
  <2>2. done \subseteq DOMAIN issued
    BY DEF OrderInv, CommonInv
  <2>3. \A n \in DOMAIN issued : (n \in done' <=> n \in done) /\ issued'[n] = issued[n]
    BY <2>1
  <2>4. \A n \in DOMAIN issued : Due(n)' = Due(n)
    BY <2>3 DEF Due
  <2>5. Due(N)' = 0 /\ Places(N) = 0
    BY <2>1, <2>2, Alone DEF Due
  <2> QED BY <1>1, <2>1, <2>4, <2>5, PlacesOnce, PlacesOnceNext
<1> QED BY <1>2, <1>3 DEF ResultsStay

LEMMA OncePosts ==
  ASSUME TypeOK, OrderInv, LineInv, CallbackOnce, NEW w \in Workers, Posts(w)
  PROVE  CallbackOnce'
<1> DEFINE c == cur[w]
<1>1. /\ UNCHANGED <<issued, unsafeQueue, batch, delivered>>
      /\ c \in DOMAIN issued /\ c \notin done /\ done' = done \cup {c}
      /\ resultQueue' = IF issued[c].callback = "none" THEN resultQueue
                        ELSE Append(resultQueue, c)
  BY DEF Posts
<1>2. c \in Nat /\ resultQueue \in Seq(Nat)
  BY DEF TypeOK
<1> HIDE DEF c
<1>3. \A n : Occurrences(n, Append(resultQueue, c))
               = Occurrences(n, resultQueue) + (IF c = n THEN 1 ELSE 0)
  BY <1>2, OccurrencesAppend
<1>4. \A n : /\ Occurrences(n, resultQueue) \in Nat
             /\ Occurrences(n, unsafeQueue) \in Nat
             /\ Occurrences(n, delivered) \in Nat
  BY Alone
<1>5. Places(c) = 0
  BY <1>1, Alone
<1>6. ASSUME NEW n \in DOMAIN issued PROVE Places(n)' = Due(n)'
  <2>1. Places(n) = Due(n)
    BY PlacesOnce
  <2>2. Places(n)' = Occurrences(n, resultQueue') + Occurrences(n, unsafeQueue)
                       + Occurrences(n, delivered) + (IF n \in batch THEN 1 ELSE 0)
    BY <1>1 DEF Places
  <2>3. CASE n = c
    <3>1. Due(n)' = IF issued[c].callback = "none" THEN 0 ELSE 1
      BY <1>1, <2>3 DEF Due
    <3>2. Occurrences(n, resultQueue')
            = Occurrences(n, resultQueue) + (IF issued[c].callback = "none" THEN 0 ELSE 1)
      BY <1>1, <1>3, <1>4, <2>3
    <3> QED BY <1>4, <1>5, <2>2, <2>3, <3>1, <3>2 DEF Places
  <2>4. CASE n # c
    <3>1. Due(n)' = Due(n)
      BY <1>1, <2>4 DEF Due
    <3>2. Occurrences(n, resultQueue') = Occurrences(n, resultQueue)
      BY <1>1, <1>3, <1>4, <2>4
    <3> QED BY <2>1, <2>2, <3>1, <3>2 DEF Places
  <2> QED BY <2>3, <2>4
<1> QED BY <1>1, <1>6, PlacesOnceNext

(* A result that moves from the front of one place to another. *)
LEMMA OnceMoves ==
  ASSUME TypeOK, OrderInv, LineInv, CallbackOnce,
         DrainResult \/ RunUnsafe \/ CancelResult \/ \E n \in batch : RunSafe(n)
  PROVE  CallbackOnce'
<1>1. UNCHANGED <<issued, done>>
  BY DEF DrainResult, RunUnsafe, CancelResult, RunSafe, callVars
<1>2. \A n : /\ Occurrences(n, resultQueue) \in Nat
             /\ Occurrences(n, unsafeQueue) \in Nat
             /\ Occurrences(n, delivered) \in Nat
  BY Alone
<1>3. ASSUME NEW n PROVE Places(n)' = Places(n)
  <2>0. /\ Places(n) = Occurrences(n, resultQueue) + Occurrences(n, unsafeQueue)
                         + Occurrences(n, delivered) + (IF n \in batch THEN 1 ELSE 0)
        /\ Places(n)' = Occurrences(n, resultQueue') + Occurrences(n, unsafeQueue')
                          + Occurrences(n, delivered') + (IF n \in batch' THEN 1 ELSE 0)
    BY DEF Places
  <2>1. ASSUME NEW q \in Seq(Nat), q # << >>
        PROVE  /\ Head(q) \in Nat /\ Occurrences(n, Tail(q)) \in Nat
               /\ Occurrences(n, q) = Occurrences(n, Tail(q)) + (IF Head(q) = n THEN 1 ELSE 0)
    <3>1. Head(q) \in Nat /\ Tail(q) \in Seq(Nat)
      BY <2>1
    <3> QED BY <2>1, <3>1, OccurrencesTail, OccurrencesFinite
  <2>2. CASE DrainResult
    <3> DEFINE h == Head(resultQueue)
    <3>1. /\ resultQueue # << >> /\ resultQueue' = Tail(resultQueue) /\ delivered' = delivered
          /\ \/ unsafeQueue' = Append(unsafeQueue, h) /\ batch' = batch
             \/ batch' = batch \cup {h} /\ unsafeQueue' = unsafeQueue
      BY <2>2 DEF DrainResult
    <3>2. /\ h \in Nat /\ Occurrences(n, resultQueue') \in Nat
          /\ Occurrences(n, resultQueue) = Occurrences(n, resultQueue') + (IF h = n THEN 1 ELSE 0)
      BY <2>1, <3>1, ResultTypes
    <3>3. h \notin batch
      BY <3>1, Alone
    <3>4. Occurrences(n, Append(unsafeQueue, h))
            = Occurrences(n, unsafeQueue) + (IF h = n THEN 1 ELSE 0)
      BY <3>2, ResultTypes, OccurrencesAppend
    <3> HIDE DEF h
    <3>5. CASE unsafeQueue' = Append(unsafeQueue, h) /\ batch' = batch
      BY <1>2, <2>0, <3>1, <3>2, <3>4, <3>5
    <3>6. CASE batch' = batch \cup {h} /\ unsafeQueue' = unsafeQueue
      <4>1. (IF n \in batch' THEN 1 ELSE 0)
              = (IF n \in batch THEN 1 ELSE 0) + (IF h = n THEN 1 ELSE 0)
        BY <3>3, <3>6
      <4>2. Occurrences(n, unsafeQueue') = Occurrences(n, unsafeQueue)
              /\ Occurrences(n, delivered') = Occurrences(n, delivered)
        BY <3>1, <3>6
      <4> QED BY <1>2, <2>0, <3>2, <4>1, <4>2
    <3> QED BY <3>1, <3>5, <3>6
  <2>3. CASE RunUnsafe \/ CancelResult
    <3>1. PICK q \in {unsafeQueue, resultQueue} :
            /\ q \in Seq(Nat) /\ q # << >> /\ batch' = batch
            /\ delivered' = Append(delivered, Head(q))
            /\ \/ q = unsafeQueue /\ unsafeQueue' = Tail(q) /\ resultQueue' = resultQueue
               \/ q = resultQueue /\ resultQueue' = Tail(q) /\ unsafeQueue' = unsafeQueue
      BY <2>3, ResultTypes DEF RunUnsafe, CancelResult
    <3>2. /\ Head(q) \in Nat /\ Occurrences(n, Tail(q)) \in Nat
          /\ Occurrences(n, q) = Occurrences(n, Tail(q)) + (IF Head(q) = n THEN 1 ELSE 0)
      BY <2>1, <3>1
    <3>3. Occurrences(n, delivered') = Occurrences(n, delivered) + (IF Head(q) = n THEN 1 ELSE 0)
      BY <3>1, <3>2, ResultTypes, OccurrencesAppend
    <3>4. (IF n \in batch' THEN 1 ELSE 0) = (IF n \in batch THEN 1 ELSE 0)
      BY <3>1
    <3>5. CASE q = unsafeQueue /\ unsafeQueue' = Tail(q) /\ resultQueue' = resultQueue
      BY <1>2, <2>0, <3>2, <3>3, <3>4, <3>5
    <3>6. CASE q = resultQueue /\ resultQueue' = Tail(q) /\ unsafeQueue' = unsafeQueue
      BY <1>2, <2>0, <3>2, <3>3, <3>4, <3>6
    <3> QED BY <3>1, <3>5, <3>6
  <2>4. ASSUME NEW m \in batch, RunSafe(m) PROVE Places(n)' = Places(n)
    <3>1. /\ batch' = batch \ {m} /\ delivered' = Append(delivered, m) /\ m \in Nat
          /\ UNCHANGED <<resultQueue, unsafeQueue>>
      BY <2>4 DEF RunSafe, TypeOK
    <3>2. Occurrences(n, delivered') = Occurrences(n, delivered) + (IF m = n THEN 1 ELSE 0)
      BY <3>1, ResultTypes, OccurrencesAppend
    <3>3. (IF n \in batch THEN 1 ELSE 0)
            = (IF n \in batch' THEN 1 ELSE 0) + (IF m = n THEN 1 ELSE 0)
      BY <3>1
    <3>4. Occurrences(n, unsafeQueue') = Occurrences(n, unsafeQueue)
            /\ Occurrences(n, resultQueue') = Occurrences(n, resultQueue)
      BY <3>1
    <3> QED BY <1>2, <2>0, <3>2, <3>3, <3>4
  <2> QED BY <2>2, <2>3, <2>4
<1>4. \A n : Due(n)' = Due(n)
  BY <1>1 DEF Due
<1> QED BY <1>1, <1>3, <1>4, PlacesOnce, PlacesOnceNext

LEMMA OnceInit == Init => CallbackOnce
BY DEF Init, CallbackOnce

LEMMA OnceStep ==
  ASSUME TypeOK, OrderInv, ShutdownInv, LineInv, CallbackOnce, [Next]_vars
  PROVE  CallbackOnce'
<1>1. \/ ResultsStay \/ DrainResult \/ RunUnsafe \/ CancelResult
      \/ \E n \in batch : RunSafe(n)
      \/ \E w \in Workers : Posts(w)
  BY ResultSteps DEF LineInv
<1> QED BY <1>1, OnceStay, OncePosts, OnceMoves

(* The callbacks: the result of every executed query is in one place, from  *)
(* SqlResultQueue to the callback that has run; those of one serial id run  *)
(* on the world thread in the order of issue, also when a tick runs out of  *)
(* time and when CancelAll runs them at the end; and those of the pool run  *)
(* only while the world thread waits for them.                              *)
THEOREM ResultsHold == Spec => []ResultsInv
<1>1. Init => LineInv /\ CallbackOnce
  BY LineInit, OnceInit
<1>2. /\ IInv /\ ShutdownInv /\ SerialOrder /\ LineInv /\ CallbackOnce /\ [Next]_vars
      => LineInv' /\ CallbackOnce'
  BY LineStep, OnceStep DEF IInv
<1>3. IInv /\ LineInv /\ CallbackOnce => ResultsInv
  <2>1. Sorted(delivered) => UnsafeDeliveryOrder
    BY DEF Sorted, Line, UnsafeDeliveryOrder
  <2> QED BY <2>1 DEF IInv, LineInv, UpdateInv, ResultOrderInv, ResultsInv
<1> QED BY <1>1, <1>2, <1>3, Invariance, ShutdownHolds, SerialOrderHolds, PTL DEF Spec

=============================================================================
