----------------------------- MODULE ThreadPool -----------------------------
(***************************************************************************)
(* ThreadPool (shared/ThreadPool.h, .cpp): a caller hands a workload to a  *)
(* fixed set of worker threads and waits for a future.  The world thread   *)
(* uses pools for maps, cells, visibility, asynchronous tasks and database *)
(* callbacks.  Every caller in the repository waits for the future before  *)
(* it touches the pool again; pre and post are always empty.               *)
(***************************************************************************)
EXTENDS Integers, Sequences, FiniteSets

CONSTANTS Tasks,     \* what can be handed to the pool
          Size,      \* m_size, the number of workers
          Settings,  \* the pools to look at, see SettingsAssumption
          MaxLoads,  \* bound: workloads submitted
          None       \* no task

ASSUME PoolAssumption ==
    Size \in Nat \ {0} /\ MaxLoads \in Nat /\ None \notin Tasks

\* worker_sq or worker_mq, ClearMode, ErrorHandling, and the tasks that end
\* with an exception; with NONE an exception ends the process
ASSUME SettingsAssumption ==
    /\ Settings \subseteq
         [queue : {"single", "multi"},
          clear : {"NEVER", "UPPON_COMPLETION", "AT_NEXT_WORKLOAD"},
          errors : {"NONE", "IGNORE", "LOG", "TERMINATE"},
          throwing : SUBSET Tasks]
    /\ \A x \in Settings : x.errors = "NONE" => x.throwing = {}

Workers == 0 .. (Size - 1)

VARIABLES
    setting,   \* how the pool was constructed and started
    status,    \* m_status
    workload,  \* m_workload
    dirty,     \* m_dirty
    active,    \* m_active
    index,     \* m_index
    result,    \* m_result: "none", "pending", "ready", or "twice" if set again
    errors,    \* m_errors
    wpc,       \* where a worker is
    busy,      \* worker::busy
    it,        \* worker_mq::it
    current,   \* the task a worker began last
    slot,      \* where push_back is about to write
    caller,    \* the thread that owns the pool: "idle", "waiting", "destroying", "gone"
    begun,     \* history: tasks of the current workload a worker has begun
    thrown,    \* history: exceptions of the current workload
    loads      \* history: workloads submitted

vars == <<setting, status, workload, dirty, active, index, result, errors, wpc, busy, it,
          current, slot, caller, begun, thrown, loads>>

pool    == <<setting, status, workload, dirty, active, index, result>>
history == <<begun, thrown, loads>>
threads == <<wpc, busy, it, current, slot>>

TasksOf(load) == {load[i] : i \in 1..Len(load)}

\* the constructor and start()
Init ==
    /\ setting \in Settings
    /\ status = "READY" /\ workload = <<>> /\ dirty = FALSE
    /\ active = 0 /\ index = 0 /\ result = "none" /\ errors = <<>>
    /\ wpc = [w \in Workers |-> "wait"] /\ busy = [w \in Workers |-> FALSE]
    /\ it = [w \in Workers |-> 0]
    /\ current = [w \in Workers |-> None] /\ slot = [w \in Workers |-> 0]
    /\ caller = "idle" /\ begun = {} /\ thrown = {} /\ loads = 0

-----------------------------------------------------------------------------
(* The caller *)

\* operator<<, after clearWorkload if the last workload is still there
AddTask(t) ==
    /\ caller = "idle" /\ status \notin {"PROCESSING", "ERROR"} /\ loads < MaxLoads
    /\ LET kept == IF setting.clear = "AT_NEXT_WORKLOAD" /\ dirty THEN <<>> ELSE workload
       IN  /\ t \notin TasksOf(kept)        \* each task once in a workload
           /\ workload' = Append(kept, t)
    /\ dirty' = IF setting.clear = "AT_NEXT_WORKLOAD" THEN FALSE ELSE dirty
    /\ UNCHANGED <<setting, status, active, index, result, errors, threads, caller, history>>

ActiveFor(load) == IF Size < Len(load) THEN Size ELSE Len(load)

\* Mutant: m_index goes on from the last workload.
StartKeepsIndex(load) ==
    /\ workload' = load /\ dirty' = TRUE
    /\ status' = "PROCESSING" /\ result' = "pending"
    /\ active' = ActiveFor(load) /\ index' = index
    /\ busy' = [w \in Workers |-> w < ActiveFor(load) \/ busy[w]]
    /\ it' = [w \in Workers |-> IF w < ActiveFor(load) THEN w ELSE it[w]]

\* what processWorkload does with a workload that is not empty; the members it
\* sets before it takes the lock are read by no worker that is not busy
Start(load) ==
    /\ workload' = load /\ dirty' = TRUE
    /\ status' = "PROCESSING" /\ result' = "pending"
    /\ active' = ActiveFor(load) /\ index' = 0
    /\ busy' = [w \in Workers |-> w < ActiveFor(load) \/ busy[w]]
    /\ it' = [w \in Workers |-> IF w < ActiveFor(load) THEN w ELSE it[w]]

\* processWorkload(); without tasks, or when the pool is not READY, the future
\* is not valid and the caller goes on at once
ProcessWorkload ==
    /\ caller = "idle" /\ loads < MaxLoads
    /\ LET stale == setting.clear = "AT_NEXT_WORKLOAD" /\ status = "READY" /\ dirty
       IN  IF stale \/ status # "READY" \/ workload = <<>>
           THEN /\ workload' = IF stale THEN <<>> ELSE workload
                /\ dirty' = (dirty /\ ~stale)
                /\ UNCHANGED <<setting, status, active, index, result, busy, it, caller, history>>
           ELSE /\ Start(workload) /\ caller' = "waiting"
                /\ begun' = {} /\ thrown' = {} /\ loads' = loads + 1
    /\ UNCHANGED <<setting, errors, wpc, current, slot>>

Loads == {load \in UNION {[1..n -> Tasks] : n \in 0..Cardinality(Tasks)} :
              \A i, j \in DOMAIN load : load[i] = load[j] => i = j}

\* processWorkload(workload), which replaces what operator<< added
ProcessGiven(load) ==
    /\ caller = "idle" /\ loads < MaxLoads /\ status = "READY"
    /\ \/ /\ load = <<>>
          /\ workload' = <<>> /\ dirty' = FALSE
          /\ UNCHANGED <<setting, status, active, index, result, busy, it, caller, history>>
       \/ /\ load # <<>>
          /\ Start(load) /\ caller' = "waiting"
          /\ begun' = {} /\ thrown' = {} /\ loads' = loads + 1
    /\ UNCHANGED <<setting, errors, wpc, current, slot>>

\* future.wait()
Wait ==
    /\ caller = "waiting" /\ result # "pending"
    /\ caller' = "idle"
    /\ UNCHANGED <<pool, errors, threads, history>>

\* ~ThreadPool, up to the joins of ~worker
Destroy ==
    /\ caller = "idle"
    /\ status' = "TERMINATING" /\ caller' = "destroying"
    /\ UNCHANGED <<setting, workload, dirty, active, index, result, errors, threads, history>>

Joined ==
    /\ caller = "destroying" /\ \A w \in Workers : wpc[w] = "gone"
    /\ caller' = "gone"
    /\ UNCHANGED <<pool, errors, threads, history>>

-----------------------------------------------------------------------------
(* A worker *)

Goto(w, at) == wpc' = [wpc EXCEPT ![w] = at]

\* Mutant: waits for work and for nothing else.
WaitForWorkOnly(w) ==
    /\ wpc[w] = "wait" /\ busy[w]
    /\ Goto(w, IF status = "TERMINATING" THEN "gone" ELSE "take")
    /\ UNCHANGED <<pool, errors, busy, it, current, slot, caller, history>>

\* waitForWork and the test that follows it
WaitForWork(w) ==
    /\ wpc[w] = "wait" /\ (busy[w] \/ status = "TERMINATING")
    /\ Goto(w, IF status = "TERMINATING" THEN "gone" ELSE "take")
    /\ UNCHANGED <<pool, errors, busy, it, current, slot, caller, history>>

\* doWork: a task is there and may be run
NextIndex(w) == IF setting.queue = "single" THEN index ELSE it[w]
HasTask(w)   == NextIndex(w) < Len(workload) /\ status = "PROCESSING"

\* m_index++ of worker_sq, the private stride of worker_mq
Advance(w) ==
    \/ setting.queue = "single" /\ index' = index + 1 /\ UNCHANGED it
    \/ setting.queue = "multi" /\ it' = [it EXCEPT ![w] = IF HasTask(w) THEN @ + Size ELSE @] /\ UNCHANGED index

TakeTask(w) ==
    /\ wpc[w] = "take" /\ HasTask(w)
    /\ Advance(w) /\ Goto(w, "run")
    /\ current' = [current EXCEPT ![w] = workload[NextIndex(w) + 1]]
    /\ begun' = begun \cup {current'[w]}
    /\ UNCHANGED <<setting, status, workload, dirty, active, result, errors, busy, slot, caller, thrown, loads>>

TakeNothing(w) ==
    /\ wpc[w] = "take" /\ ~HasTask(w)
    /\ Advance(w) /\ Goto(w, "done")
    /\ UNCHANGED <<setting, status, workload, dirty, active, result, errors, busy, current, slot, caller, history>>

Return(w) ==
    /\ wpc[w] = "run" /\ current[w] \notin setting.throwing
    /\ Goto(w, "take")
    /\ UNCHANGED <<pool, errors, busy, it, current, slot, caller, history>>

\* Mutant: a worker that caught an exception is no longer busy.
ThrowClearsBusy(w) ==
    /\ wpc[w] = "run" /\ current[w] \in setting.throwing
    /\ thrown' = thrown \cup {current[w]}
    /\ Goto(w, IF setting.errors = "IGNORE" THEN "wait" ELSE "catch")
    /\ busy' = [busy EXCEPT ![w] = FALSE]
    /\ UNCHANGED <<pool, errors, it, current, slot, caller, begun, loads>>

\* the exception leaves loop(); loop_wrapper starts it again, with busy still set
Throw(w) ==
    /\ wpc[w] = "run" /\ current[w] \in setting.throwing
    /\ thrown' = thrown \cup {current[w]}
    /\ Goto(w, IF setting.errors = "IGNORE" THEN "wait" ELSE "catch")
    /\ UNCHANGED <<pool, errors, busy, it, current, slot, caller, begun, loads>>

\* m_errors.push_back, which no lock protects: where to write, then the write
Catch(w) ==
    /\ wpc[w] = "catch"
    /\ slot' = [slot EXCEPT ![w] = Len(errors) + 1]
    /\ Goto(w, "push")
    /\ UNCHANGED <<pool, errors, busy, it, current, caller, history>>

PushError(w) ==
    /\ wpc[w] = "push"
    /\ errors' = IF slot[w] <= Len(errors) THEN [errors EXCEPT ![slot[w]] = current[w]]
                                           ELSE Append(errors, current[w])
    /\ status' = IF setting.errors = "TERMINATE" THEN "TERMINATING" ELSE status
    /\ Goto(w, IF status' = "TERMINATING" THEN "gone" ELSE "wait")
    /\ UNCHANGED <<setting, workload, dirty, active, index, result, busy, it, current, slot, caller, history>>

\* Mutant: the worker counts itself out first.
ClearBusyLast(w) ==
    /\ wpc[w] = "done"
    /\ active' = active - 1
    /\ Goto(w, IF active' = 0 THEN "last" ELSE "wait")
    /\ UNCHANGED <<setting, status, workload, dirty, index, result, errors, busy, it, current, slot, caller, history>>

ClearBusy(w) ==
    /\ wpc[w] = "done"
    /\ busy' = [busy EXCEPT ![w] = FALSE]
    /\ Goto(w, "count")
    /\ UNCHANGED <<pool, errors, it, current, slot, caller, history>>

CountDown(w) ==
    /\ wpc[w] = "count"
    /\ active' = active - 1
    /\ Goto(w, IF active' = 0 THEN "last" ELSE "wait")
    /\ UNCHANGED <<setting, status, workload, dirty, index, result, errors, busy, it, current, slot, caller, history>>

\* the last worker: the pool is READY before the future is
LastDone(w) ==
    /\ wpc[w] = "last"
    /\ IF setting.clear = "UPPON_COMPLETION"
       THEN workload' = <<>> /\ dirty' = FALSE
       ELSE UNCHANGED <<workload, dirty>>
    /\ status' = "READY"
    /\ Goto(w, "set")
    /\ UNCHANGED <<setting, active, index, result, errors, busy, it, current, slot, caller, history>>

SetValue(w) ==
    /\ wpc[w] = "set"
    /\ result' = IF result = "pending" THEN "ready" ELSE "twice"
    /\ Goto(w, "wait")
    /\ UNCHANGED <<setting, status, workload, dirty, active, index, errors, busy, it, current, slot, caller, history>>

Worker(w) == \/ WaitForWork(w) \/ TakeTask(w) \/ TakeNothing(w) \/ Return(w)
             \/ Throw(w) \/ Catch(w) \/ PushError(w)
             \/ ClearBusy(w) \/ CountDown(w) \/ LastDone(w) \/ SetValue(w)

Terminated == caller = "gone" /\ UNCHANGED vars

Next == \/ \E t \in Tasks : AddTask(t)
        \/ \E load \in Loads : ProcessGiven(load)
        \/ ProcessWorkload \/ Wait \/ Destroy \/ Joined
        \/ \E w \in Workers : Worker(w)
        \/ Terminated

Spec == Init /\ [][Next]_vars

\* The threads run and the tasks end.
Fairness == /\ \A w \in Workers : WF_vars(Worker(w))
            /\ WF_vars(Wait) /\ WF_vars(Joined)

FairSpec == Spec /\ Fairness

-----------------------------------------------------------------------------
(* Properties *)

\* The members of the pool have the values of their types.
TypeOK ==
    /\ setting \in Settings
    /\ status \in {"READY", "PROCESSING", "TERMINATING"}
    /\ workload \in Seq(Tasks) /\ dirty \in BOOLEAN
    /\ active \in 0..Size /\ index \in Nat
    /\ result \in {"none", "pending", "ready", "twice"}
    /\ errors \in Seq(Tasks)
    /\ wpc \in [Workers -> {"wait", "take", "run", "catch", "push", "done",
                            "count", "last", "set", "gone"}]
    /\ busy \in [Workers -> BOOLEAN] /\ it \in [Workers -> Nat]
    /\ current \in [Workers -> Tasks \cup {None}] /\ slot \in [Workers -> Nat]
    /\ caller \in {"idle", "waiting", "destroying", "gone"}
    /\ begun \subseteq Tasks /\ thrown \subseteq Tasks /\ loads \in 0..MaxLoads

\* While a workload is processed m_active is the number of workers that were
\* given a share of it and have not counted themselves out: nobody can be the
\* last one while another still works, and a worker that went back to sleep
\* cannot take busy = TRUE of the next workload for its own.
ActiveCounts ==
    active = Cardinality({w \in Workers : busy[w] \/ wpc[w] = "count"})

\* One worker only sets the value of a promise (a second set_value throws).
ResultOnce == result # "twice"

\* What holds of every state.
Inv == TypeOK /\ ActiveCounts /\ ResultOnce

\* The pool implements Batch: every task of the workload is run exactly once,
\* and the future is ready when no task is left and none is running.
Running == {current[w] : w \in {v \in Workers : wpc[v] = "run"}}

ToDo == IF result = "pending" /\ status = "PROCESSING" THEN TasksOf(workload) \ begun ELSE {}

B == INSTANCE Batch WITH phase   <- IF result = "pending" THEN "busy" ELSE "idle",
                         pending <- ToDo,
                         running <- Running

BatchSpec == B!Spec

\* The future becomes ready, whatever the tasks throw and the workers do about
\* it.  (Not so with TERMINATE: the worker that caught an exception ends
\* without counting itself out.)
LoadEnds == caller = "waiting" ~> caller = "idle"

\* The destructor joins every worker.
DestroyEnds == caller = "destroying" ~> caller = "gone"

=============================================================================
