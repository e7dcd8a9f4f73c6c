-------------------------- MODULE ThreadPoolProofs --------------------------
(***************************************************************************)
(* Proofs about ThreadPool, for every number of workers, every set of      *)
(* tasks, any number of workloads and every kind of pool: the members keep *)
(* their types, m_active counts the workers that still have something to   *)
(* do, one worker only sets the promise, and, unless a task's exception    *)
(* may terminate the pool, every task of a workload is run exactly once    *)
(* before the future is ready (the module Batch).                          *)
(***************************************************************************)
EXTENDS ThreadPool, FiniteSetTheorems, TLAPS

(* Remainders: the queues of worker_mq are the tasks of one remainder. *)
LEMMA Division ==
    ASSUME NEW n \in Nat \ {0}, NEW a \in Nat
    PROVE  \E q \in Int, r \in 0 .. (n - 1) : a = n * q + r /\ r = a % n /\ r <= a
<1>1. a = n * (a \div n) + (a % n) /\ a \div n \in Int /\ a % n \in 0 .. (n - 1)
  OBVIOUS
<1>2. (a % n) <= a
  OBVIOUS
<1> QED BY <1>1, <1>2

LEMMA DivisionIsUnique ==
    ASSUME NEW n \in Nat \ {0}, NEW q \in Int, NEW r \in 0 .. (n - 1),
           NEW q2 \in Int, NEW r2 \in 0 .. (n - 1), n * q + r = n * q2 + r2
    PROVE  q = q2 /\ r = r2
OBVIOUS

LEMMA RemainderOfNext ==
    ASSUME NEW n \in Nat \ {0}, NEW a \in Nat
    PROVE  (a + n) % n = a % n
<1>1. PICK q \in Int, r \in 0 .. (n - 1) : a = n * q + r /\ r = a % n
  BY Division
<1>2. a + n \in Nat
  OBVIOUS
<1>3. PICK p \in Int, s \in 0 .. (n - 1) : a + n = n * p + s /\ s = (a + n) % n
  BY <1>2, Division
<1>4. n * (q + 1) = n * q + n /\ q + 1 \in Int
  OBVIOUS
<1>5. n * p + s = n * (q + 1) + r
  BY <1>1, <1>3, <1>4
<1>6. s = r
  BY <1>4, <1>5, DivisionIsUnique
<1> QED BY <1>1, <1>3, <1>6

LEMMA SameRemainder ==
    ASSUME NEW n \in Nat \ {0}, NEW a \in Nat, NEW b \in Nat,
           a % n = b % n, b <= a, a < b + n
    PROVE  a = b
<1>1. PICK p \in Int, r \in 0 .. (n - 1) : a = n * p + r /\ r = a % n
  BY Division
<1>2. PICK q \in Int : b = n * q + r
  BY <1>1, Division
<1>3. n * p - n * q = n * (p - q) /\ p - q \in Int
  OBVIOUS
<1>4. n * (p - q) >= 0 /\ n * (p - q) < n
  BY <1>1, <1>2, <1>3
<1>5. p = q
  BY <1>3, <1>4
<1> QED BY <1>1, <1>2, <1>5

-----------------------------------------------------------------------------
(* The inductive invariant.                                                *)

\* Workers that were given a share and have not counted themselves out.
ActiveWorkers == {w \in Workers : busy[w] \/ wpc[w] = "count"}

\* busy says where a worker is: it is set until the worker is done.
BusyInv ==
    \A w \in Workers :
        /\ wpc[w] \in {"run", "catch", "push"} => current[w] \in Tasks
        /\ wpc[w] \in {"take", "run", "catch", "push", "done"} => busy[w]
        /\ wpc[w] \in {"count", "last", "set"} => ~busy[w]

\* Between two workloads all workers sleep.
QuietInv ==
    result # "pending" =>
        /\ caller # "waiting" \/ result = "ready"
        /\ status = IF caller \in {"destroying", "gone"} THEN "TERMINATING" ELSE "READY"
        /\ \A w \in Workers :
              /\ ~busy[w]
              /\ wpc[w] = "wait" \/ (wpc[w] = "gone" /\ status = "TERMINATING")

\* During one the status says how far its last worker is; a pool that
\* terminates then has lost a worker that never counts itself out.
LastInv ==
    result = "pending" =>
        /\ caller = "waiting"
        /\ \A w \in Workers :
              /\ wpc[w] = "last" => status = "PROCESSING" /\ active = 0
              /\ wpc[w] = "set"  => status = "READY" /\ active = 0
              /\ wpc[w] = "gone" => status = "TERMINATING"
              /\ wpc[w] \in {"last", "set"} =>
                    \A v \in Workers : wpc[v] \in {"last", "set"} => v = w
        /\ status = "TERMINATING" => \E w \in Workers : busy[w] /\ wpc[w] = "gone"
        /\ status = "READY" => \E w \in Workers : wpc[w] = "set"

StatusInv == BusyInv /\ QuietInv /\ LastInv

\* The tasks of a workload are different ones ...
Distinct == \A i, j \in 1 .. Len(workload) : workload[i] = workload[j] => i = j

\* ... the i-th is begun when the counter of its queue has passed it ...
Passed(i) == IF setting.queue = "single" THEN i - 1 < index
                                         ELSE i - 1 < it[(i - 1) % Size]

\* ... and whoever has nothing left to do has seen the end of that queue.
Through(w) == NextIndex(w) >= Len(workload)

BegunInv ==
    status = "PROCESSING" =>
        /\ begun = {workload[i] : i \in {j \in 1 .. Len(workload) : Passed(j)}}
        /\ workload # <<>>
        /\ setting.queue = "multi" =>
              \A w \in Workers : w < Len(workload) => it[w] % Size = w
        /\ \A w \in Workers : busy[w] => w < Len(workload)
        /\ \A w \in Workers :
              w < Len(workload) /\ (~busy[w] \/ wpc[w] = "done") => Through(w)

\* A task that runs has been begun, and one worker runs it.
RunningInv ==
    /\ \A w \in Workers : wpc[w] = "run" => current[w] \in begun
    /\ \A v, w \in Workers :
          wpc[v] = "run" /\ wpc[w] = "run" /\ current[v] = current[w] => v = w

ShareInv == Distinct /\ BegunInv /\ RunningInv

IInv == Inv /\ StatusInv /\ ShareInv

-----------------------------------------------------------------------------
(* The workers that are active. *)
LEMMA WorkersFinite ==
    /\ IsFiniteSet(Workers) /\ Cardinality(Workers) = Size
    /\ 0 \in Workers
    /\ \A w \in Workers : w \in Nat /\ w < Size
<1>1. Size \in Nat \ {0} /\ Workers = 0 .. (Size - 1)
  BY PoolAssumption DEF Workers
<1>2. IsFiniteSet(0 .. (Size - 1)) /\ Cardinality(0 .. (Size - 1)) = Size
  BY <1>1, FS_Interval
<1> QED BY <1>1, <1>2

LEMMA ActiveIsNumber ==
    ASSUME ActiveCounts
    PROVE  active \in 0 .. Size
<1>1. ActiveWorkers \in SUBSET Workers
  BY DEF ActiveWorkers
<1>2. IsFiniteSet(ActiveWorkers) /\ Cardinality(ActiveWorkers) <= Size
  BY <1>1, WorkersFinite, FS_Subset
<1>3. Cardinality(ActiveWorkers) \in Nat
  BY <1>2, FS_CardinalityType
<1>4. active = Cardinality(ActiveWorkers)
  BY DEF ActiveCounts, ActiveWorkers
<1> QED BY <1>2, <1>3, <1>4, PoolAssumption

\* no worker is active when m_active is 0
LEMMA NobodyActive ==
    ASSUME ActiveCounts, active = 0
    PROVE  \A w \in Workers : ~busy[w] /\ wpc[w] # "count"
<1>1. ActiveWorkers \in SUBSET Workers
  BY DEF ActiveWorkers
<1>2. IsFiniteSet(ActiveWorkers)
  BY <1>1, WorkersFinite, FS_Subset
<1>3. Cardinality(ActiveWorkers) = 0
  BY DEF ActiveCounts, ActiveWorkers
<1>4. ActiveWorkers = {}
  BY <1>2, <1>3, FS_EmptySet
<1> QED BY <1>4 DEF ActiveWorkers

\* the workers prepare() is called for
LEMMA ActiveForRange ==
    ASSUME NEW load \in Seq(Tasks), load # <<>>
    PROVE  /\ ActiveFor(load) \in 1 .. Size
           /\ \A w \in Workers : w < ActiveFor(load) <=> w < Len(load)
<1>1. Len(load) \in Nat /\ Len(load) # 0
  OBVIOUS
<1>2. Size \in Nat \ {0}
  BY PoolAssumption
<1> QED BY <1>1, <1>2, WorkersFinite DEF ActiveFor

LEMMA LoadsAreSequences == \A load \in Loads : load \in Seq(Tasks)
<1>1. ASSUME NEW load \in Loads PROVE load \in Seq(Tasks)
  <2>1. PICK n \in 0 .. Cardinality(Tasks) : load \in [1 .. n -> Tasks]
    BY DEF Loads
  <2>2. n \in Nat
    BY <2>1
  <2> QED BY <2>1, <2>2
<1> QED BY <1>1

\* what a caller makes the pool do
SubmitLoad ==
    \E load \in Seq(Tasks) :
        /\ caller = "idle" /\ status = "READY" /\ load # <<>>
        /\ \A i, j \in 1 .. Len(load) : load[i] = load[j] => i = j
        /\ Start(load) /\ caller' = "waiting"
        /\ begun' = {} /\ thrown' = {} /\ loads' = loads + 1 /\ loads < MaxLoads
        /\ UNCHANGED <<setting, errors, wpc, current, slot>>

\* or what it leaves as it is, but for the workload
KeepLoad ==
    /\ caller = "idle"
    /\ workload' \in Seq(Tasks)
    /\ \A i, j \in 1 .. Len(workload') : workload'[i] = workload'[j] => i = j
    /\ dirty' \in BOOLEAN
    /\ UNCHANGED <<setting, status, active, index, result, errors, wpc, busy, it, current,
                   slot, caller, begun, thrown, loads>>

LEMMA AppendDistinct ==
    ASSUME NEW load \in Seq(Tasks), NEW t \in Tasks, t \notin TasksOf(load),
           \A i, j \in 1 .. Len(load) : load[i] = load[j] => i = j
    PROVE  /\ Append(load, t) \in Seq(Tasks)
           /\ \A i, j \in 1 .. Len(Append(load, t)) :
                 Append(load, t)[i] = Append(load, t)[j] => i = j
<1> DEFINE longer == Append(load, t)
<1>1. /\ longer \in Seq(Tasks) /\ Len(load) \in Nat /\ Len(longer) = Len(load) + 1
      /\ longer[Len(load) + 1] = t
      /\ \A i \in 1 .. Len(load) : longer[i] = load[i]
  OBVIOUS
<1>2. \A i \in 1 .. Len(load) : load[i] # t
  BY DEF TasksOf
<1> HIDE DEF longer
<1>3. ASSUME NEW i \in 1 .. Len(longer), NEW j \in 1 .. Len(longer), longer[i] = longer[j]
      PROVE  i = j
  <2>1. \A k \in 1 .. Len(longer) : k \in 1 .. Len(load) \/ k = Len(load) + 1
    BY <1>1
  <2> QED BY <1>1, <1>2, <1>3, <2>1
<1> QED BY <1>1, <1>3 DEF longer

\* operator<< and the two forms of processWorkload
LEMMA CallerCases ==
    ASSUME IInv,
           \/ \E t \in Tasks : AddTask(t)
           \/ \E load \in Loads : ProcessGiven(load)
           \/ ProcessWorkload
    PROVE  SubmitLoad \/ KeepLoad
<1> USE DEF pool, history, threads
<1>1. /\ workload \in Seq(Tasks) /\ dirty \in BOOLEAN
      /\ \A i, j \in 1 .. Len(workload) : workload[i] = workload[j] => i = j
  BY DEF IInv, Inv, TypeOK, ShareInv, Distinct
<1>2. /\ <<>> \in Seq(Tasks)
      /\ \A i, j \in 1 .. Len(<<>>) : <<>>[i] = <<>>[j] => i = j
  OBVIOUS
<1>3. ASSUME NEW t \in Tasks, AddTask(t) PROVE KeepLoad
  <2>1. PICK kept \in {<<>>, workload} : t \notin TasksOf(kept) /\ workload' = Append(kept, t)
    BY <1>3 DEF AddTask
  <2>2. /\ workload' \in Seq(Tasks)
        /\ \A i, j \in 1 .. Len(workload') : workload'[i] = workload'[j] => i = j
    <3>1. kept \in Seq(Tasks) /\ \A i, j \in 1 .. Len(kept) : kept[i] = kept[j] => i = j
      <4>1. CASE kept = <<>> BY <4>1, <1>2
      <4>2. CASE kept = workload BY <4>2, <1>1
      <4> QED BY <4>1, <4>2
    <3>2. /\ Append(kept, t) \in Seq(Tasks)
          /\ \A i, j \in 1 .. Len(Append(kept, t)) :
                Append(kept, t)[i] = Append(kept, t)[j] => i = j
      BY <2>1, <3>1, AppendDistinct
    <3> QED BY <2>1, <3>2
  <2> QED BY <1>1, <1>3, <2>2 DEF AddTask, KeepLoad
<1>4. ASSUME NEW load \in Loads, ProcessGiven(load) PROVE SubmitLoad \/ KeepLoad
  <2>1. load \in Seq(Tasks) /\ \A i, j \in DOMAIN load : load[i] = load[j] => i = j
    BY LoadsAreSequences DEF Loads
  <2>2. DOMAIN load = 1 .. Len(load)
    BY <2>1
  <2>3. CASE load = <<>>
    BY <1>4, <2>3, <1>2 DEF ProcessGiven, KeepLoad
  <2>4. CASE load # <<>>
    BY <1>4, <2>1, <2>2, <2>4 DEF ProcessGiven, SubmitLoad
  <2> QED BY <2>3, <2>4
<1>5. CASE ProcessWorkload
  <2> DEFINE stale == setting.clear = "AT_NEXT_WORKLOAD" /\ status = "READY" /\ dirty
  <2>1. CASE stale \/ status # "READY" \/ workload = <<>>
    <3>1. workload' \in {<<>>, workload} /\ dirty' \in BOOLEAN
      BY <1>5, <2>1, <1>1 DEF ProcessWorkload
    <3> QED BY <1>5, <2>1, <3>1, <1>1, <1>2 DEF ProcessWorkload, KeepLoad
  <2>2. CASE ~(stale \/ status # "READY" \/ workload = <<>>)
    BY <1>5, <2>2, <1>1 DEF ProcessWorkload, SubmitLoad
  <2> QED BY <2>1, <2>2
<1> QED BY <1>3, <1>4, <1>5

\* every step is a call, or a step of a worker
LEMMA Steps ==
    ASSUME IInv, [Next]_vars
    PROVE  \/ SubmitLoad \/ KeepLoad \/ Wait \/ Destroy \/ Joined
           \/ \E w \in Workers : Worker(w)
           \/ UNCHANGED vars
BY CallerCases DEF Next, Terminated

-----------------------------------------------------------------------------
(* m_active. *)
LEMMA CountStep ==
    ASSUME IInv, [Next]_vars
    PROVE  ActiveCounts'
<1> USE DEF pool, history, threads
<1>0. /\ busy \in [Workers -> BOOLEAN] /\ DOMAIN wpc = Workers
      /\ active = Cardinality(ActiveWorkers) /\ active \in 0 .. Size /\ active \in Int
  BY ActiveIsNumber, PoolAssumption DEF IInv, Inv, TypeOK, ActiveCounts, ActiveWorkers
<1>1. SUFFICES active' = Cardinality(ActiveWorkers')
  BY DEF ActiveCounts, ActiveWorkers
<1>2. CASE SubmitLoad
  <2>1. PICK load \in Seq(Tasks) : /\ status = "READY" /\ caller = "idle" /\ load # <<>>
                                   /\ Start(load) /\ wpc' = wpc
    BY <1>2 DEF SubmitLoad
  <2>2. \A w \in Workers : ~busy[w] /\ wpc[w] # "count"
    BY <2>1 DEF IInv, StatusInv, QuietInv, LastInv
  <2>3. ActiveWorkers' = 0 .. (ActiveFor(load) - 1)
    <3>1. ActiveWorkers' = {w \in Workers : w < ActiveFor(load)}
      BY <2>1, <2>2, <1>0 DEF ActiveWorkers, Start
    <3>2. ActiveFor(load) \in 1 .. Size
      BY <2>1, ActiveForRange
    <3> QED BY <3>1, <3>2, PoolAssumption DEF Workers
  <2>4. Cardinality(0 .. (ActiveFor(load) - 1)) = ActiveFor(load)
    BY <2>1, ActiveForRange, FS_Interval
  <2> QED BY <2>1, <2>3, <2>4 DEF Start
<1>3. CASE KeepLoad \/ Wait \/ Destroy \/ Joined \/ UNCHANGED vars
  <2>1. UNCHANGED <<active, busy, wpc>>
    BY <1>3 DEF KeepLoad, Wait, Destroy, Joined, vars
  <2> QED BY <2>1, <1>0 DEF ActiveWorkers
<1>4. ASSUME NEW w \in Workers, Worker(w)
      PROVE  active' = Cardinality(ActiveWorkers')
  <2>1. CASE CountDown(w)
    <3>1. ~busy[w] /\ wpc[w] = "count" /\ active' = active - 1 /\ busy' = busy
      BY <2>1 DEF CountDown, IInv, StatusInv, BusyInv
    <3>2. wpc'[w] # "count" /\ \A v \in Workers : v # w => wpc'[v] = wpc[v]
      BY <2>1, <1>0 DEF CountDown, Goto
    <3>3. ActiveWorkers' = ActiveWorkers \ {w} /\ w \in ActiveWorkers
      BY <3>1, <3>2 DEF ActiveWorkers
    <3>4. IsFiniteSet(ActiveWorkers)
      <4>1. ActiveWorkers \in SUBSET Workers
        BY DEF ActiveWorkers
      <4> QED BY <4>1, WorkersFinite, FS_Subset
    <3> QED BY <3>1, <3>3, <3>4, <1>0, FS_RemoveElement
  <2>2. CASE ~CountDown(w)
    <3>1. active' = active
      BY <1>4, <2>2 DEF Worker, WaitForWork, TakeTask, TakeNothing, Return, Throw, Catch,
                        PushError, ClearBusy, LastDone, SetValue
    <3>2. \A v \in Workers : v # w => wpc'[v] = wpc[v] /\ busy'[v] = busy[v]
      BY <1>4, <1>0 DEF Worker, WaitForWork, TakeTask, TakeNothing, Return, Throw, Catch,
                        PushError, ClearBusy, CountDown, LastDone, SetValue, Goto
    <3>3. (busy'[w] \/ wpc'[w] = "count") <=> (busy[w] \/ wpc[w] = "count")
      <4>1. CASE ClearBusy(w)
        BY <4>1, <1>0 DEF ClearBusy, Goto, IInv, StatusInv, BusyInv
      <4>2. CASE ~ClearBusy(w)
        BY <1>4, <2>2, <4>2, <1>0 DEF Worker, WaitForWork, TakeTask, TakeNothing, Return,
                        Throw, Catch, PushError, LastDone, SetValue, Goto
      <4> QED BY <4>1, <4>2
    <3>4. ActiveWorkers' = ActiveWorkers
      BY <3>2, <3>3 DEF ActiveWorkers
    <3> QED BY <3>1, <3>4, <1>0
  <2> QED BY <2>1, <2>2
<1> QED BY <1>2, <1>3, <1>4, Steps

-----------------------------------------------------------------------------
(* Types. *)
LEMMA EmptyLoad == <<>> \in Seq(Tasks)
OBVIOUS

LEMMA ReplacedElement ==
    ASSUME NEW S, NEW q \in Seq(S), NEW i, NEW e \in S
    PROVE  [q EXCEPT ![i] = e] \in Seq(S)
<1>1. q \in [1 .. Len(q) -> S] /\ Len(q) \in Nat
  OBVIOUS
<1>2. [q EXCEPT ![i] = e] \in [1 .. Len(q) -> S]
  BY <1>1
<1> QED BY <1>1, <1>2

LEMMA TypeInit == Init => TypeOK
<1> SUFFICES ASSUME Init PROVE TypeOK
  OBVIOUS
<1> USE PoolAssumption DEF Init
<1>1. workload \in Seq(Tasks) /\ errors \in Seq(Tasks)
  OBVIOUS
<1>2. /\ busy \in [Workers -> BOOLEAN] /\ it \in [Workers -> Nat] /\ slot \in [Workers -> Nat]
      /\ current \in [Workers -> Tasks \cup {None}]
      /\ wpc \in [Workers -> {"wait", "take", "run", "catch", "push", "done",
                              "count", "last", "set", "gone"}]
  OBVIOUS
<1>3. active \in 0 .. Size /\ index \in Nat /\ loads \in 0 .. MaxLoads
  OBVIOUS
<1> QED BY <1>1, <1>2, <1>3 DEF TypeOK

LEMMA TypeStep ==
    ASSUME IInv, [Next]_vars
    PROVE  TypeOK'
<1> USE DEF pool, history, threads
<1>0. TypeOK /\ active' \in 0 .. Size
  <2>1. ASSUME ActiveCounts' PROVE active' \in 0 .. Size
    <3>1. ActiveWorkers' \in SUBSET Workers
      BY DEF ActiveWorkers
    <3>2. IsFiniteSet(ActiveWorkers') /\ Cardinality(ActiveWorkers') <= Size
      BY <3>1, WorkersFinite, FS_Subset
    <3>3. Cardinality(ActiveWorkers') \in Nat
      BY <3>2, FS_CardinalityType
    <3>4. active' = Cardinality(ActiveWorkers')
      BY <2>1 DEF ActiveCounts, ActiveWorkers
    <3> QED BY <3>2, <3>3, <3>4, PoolAssumption
  <2> QED BY <2>1, CountStep DEF IInv, Inv
<1>1. CASE SubmitLoad
  <2>1. PICK load \in Seq(Tasks) :
           /\ Start(load) /\ caller' = "waiting"
           /\ begun' = {} /\ thrown' = {} /\ loads' = loads + 1 /\ loads < MaxLoads
           /\ UNCHANGED <<setting, errors, wpc, current, slot>>
    BY <1>1 DEF SubmitLoad
  <2>2. /\ busy' \in [Workers -> BOOLEAN] /\ it' \in [Workers -> Nat]
    <3>1. busy \in [Workers -> BOOLEAN] /\ it \in [Workers -> Nat]
      BY <1>0 DEF TypeOK
    <3>2. busy' = [w \in Workers |-> w < ActiveFor(load) \/ busy[w]]
      BY <2>1 DEF Start
    <3>3. it' = [w \in Workers |-> IF w < ActiveFor(load) THEN w ELSE it[w]]
      BY <2>1 DEF Start
    <3> QED BY <3>1, <3>2, <3>3, WorkersFinite
  <2>3. loads' \in 0 .. MaxLoads
    BY <2>1, <1>0, PoolAssumption DEF TypeOK
  <2> QED BY <2>1, <2>2, <2>3, <1>0 DEF TypeOK, Start
<1>2. CASE KeepLoad \/ Wait \/ Destroy \/ Joined \/ UNCHANGED vars
  BY <1>2, <1>0 DEF KeepLoad, Wait, Destroy, Joined, vars, TypeOK
<1>3. ASSUME NEW w \in Workers, Worker(w) PROVE TypeOK'
  <2> USE <1>0 DEF TypeOK, Goto
  <2>1. CASE WaitForWork(w) BY <2>1 DEF WaitForWork
  <2>2. ASSUME Advance(w)
        PROVE  index' \in Nat /\ it' \in [Workers -> Nat]
    <3>1. it[w] \in Nat /\ it[w] + Size \in Nat /\ index + 1 \in Nat
      BY PoolAssumption
    <3> QED BY <2>2, <3>1 DEF Advance
  <2>3. CASE TakeTask(w)
    <3>1. workload[NextIndex(w) + 1] \in Tasks
      BY <2>3 DEF TakeTask, HasTask, NextIndex
    <3> QED BY <2>2, <2>3, <3>1 DEF TakeTask
  <2>4. CASE TakeNothing(w) BY <2>2, <2>4 DEF TakeNothing
  <2>5. CASE Return(w) BY <2>5 DEF Return
  <2>6. CASE Throw(w)
    <3>1. current[w] \in Tasks
      BY <2>6, SettingsAssumption DEF Throw
    <3> QED BY <2>6, <3>1 DEF Throw
  <2>7. CASE Catch(w) BY <2>7 DEF Catch
  <2>8. CASE PushError(w)
    <3>1. current[w] \in Tasks
      BY <2>8 DEF PushError, IInv, StatusInv, BusyInv
    <3>2. errors' \in Seq(Tasks)
      <4>1. CASE slot[w] <= Len(errors)
        <5>1. errors' = [errors EXCEPT ![slot[w]] = current[w]]
          BY <2>8, <4>1 DEF PushError
        <5>2. errors \in Seq(Tasks)
          OBVIOUS
        <5> QED BY <5>1, <5>2, <3>1, ReplacedElement
      <4>2. CASE ~(slot[w] <= Len(errors))
        BY <2>8, <3>1, <4>2 DEF PushError
      <4> QED BY <4>1, <4>2
    <3> QED BY <2>8, <3>2 DEF PushError
  <2>9. CASE ClearBusy(w) BY <2>9 DEF ClearBusy
  <2>10. CASE CountDown(w) BY <2>10 DEF CountDown
  <2>11. CASE LastDone(w)
    <3>1. workload' \in Seq(Tasks) /\ dirty' \in BOOLEAN
      <4>1. CASE setting.clear = "UPPON_COMPLETION"
        <5>1. workload' = <<>> /\ dirty' = FALSE
          BY <2>11, <4>1 DEF LastDone
        <5>2. workload' \in Seq(Tasks)
          BY <5>1, EmptyLoad
        <5> QED BY <5>1, <5>2
      <4>2. CASE setting.clear # "UPPON_COMPLETION"
        BY <2>11, <4>2 DEF LastDone
      <4> QED BY <4>1, <4>2
    <3> QED BY <2>11, <3>1 DEF LastDone
  <2>12. CASE SetValue(w) BY <2>12 DEF SetValue
  <2> QED BY <1>3, <2>1, <2>3, <2>4, <2>5, <2>6, <2>7, <2>8, <2>9, <2>10, <2>11, <2>12 DEF Worker
<1> QED BY <1>1, <1>2, <1>3, Steps

-----------------------------------------------------------------------------
(* Where the workers and the caller are. *)
LEMMA StatusInit == Init => StatusInv
BY DEF Init, StatusInv, BusyInv, QuietInv, LastInv

LEMMA StatusCaller ==
    ASSUME IInv, SubmitLoad \/ KeepLoad \/ Wait \/ Destroy \/ Joined \/ UNCHANGED vars
    PROVE  StatusInv' /\ ResultOnce'
<1> USE DEF pool, history, threads
<1>0. StatusInv /\ ResultOnce /\ TypeOK
  BY DEF IInv, Inv
<1>1. CASE SubmitLoad
  <2>1. PICK load \in Seq(Tasks) : /\ load # <<>> /\ Start(load) /\ status = "READY"
                                   /\ caller = "idle" /\ caller' = "waiting"
                                   /\ UNCHANGED <<wpc, current>>
    BY <1>1 DEF SubmitLoad
  <2>2. result # "pending" /\ \A w \in Workers : wpc[w] = "wait"
    BY <2>1, <1>0 DEF StatusInv, QuietInv, LastInv
  <2>3. result' = "pending" /\ status' = "PROCESSING"
    BY <2>1 DEF Start
  <2>4. BusyInv'
    BY <2>1, <2>2 DEF BusyInv
  <2>5. QuietInv' /\ ResultOnce'
    BY <2>3 DEF QuietInv, ResultOnce
  <2>6. LastInv'
    BY <2>1, <2>2, <2>3 DEF LastInv
  <2> QED BY <2>4, <2>5, <2>6 DEF StatusInv
<1>2. CASE KeepLoad \/ UNCHANGED vars
  <2>1. UNCHANGED <<status, active, result, wpc, busy, caller, current>>
    BY <1>2 DEF KeepLoad, vars
  <2> QED BY <2>1, <1>0 DEF StatusInv, BusyInv, QuietInv, LastInv, ResultOnce
<1>3. CASE Wait
  BY <1>3, <1>0 DEF Wait, StatusInv, BusyInv, QuietInv, LastInv, ResultOnce
<1>4. CASE Destroy
  BY <1>4, <1>0 DEF Destroy, StatusInv, BusyInv, QuietInv, LastInv, ResultOnce
<1>5. CASE Joined
  BY <1>5, <1>0 DEF Joined, StatusInv, BusyInv, QuietInv, LastInv, ResultOnce
<1> QED BY <1>1, <1>2, <1>3, <1>4, <1>5

\* m_active reaches 0 in the step of the last worker that was active
LEMMA LastOne ==
    ASSUME IInv, NEW w \in Workers, CountDown(w), active' = 0
    PROVE  \A v \in Workers : v # w => ~busy[v] /\ wpc[v] # "count"
<1> USE DEF pool, history, threads
<1>1. ActiveCounts' /\ DOMAIN wpc = Workers
  <2>1. [Next]_vars
    BY DEF Next, Worker
  <2> QED BY <2>1, CountStep DEF IInv, Inv, TypeOK
<1>2. \A v \in Workers : ~busy'[v] /\ wpc'[v] # "count"
  <2>1. ActiveWorkers' \in SUBSET Workers
    BY DEF ActiveWorkers
  <2>2. IsFiniteSet(ActiveWorkers')
    BY <2>1, WorkersFinite, FS_Subset
  <2>3. Cardinality(ActiveWorkers') = 0
    BY <1>1 DEF ActiveCounts, ActiveWorkers
  <2>4. ActiveWorkers' = {}
    BY <2>2, <2>3, FS_EmptySet
  <2> QED BY <2>4 DEF ActiveWorkers
<1>3. busy' = busy /\ \A v \in Workers : v # w => wpc'[v] = wpc[v]
  BY <1>1 DEF CountDown, Goto
<1> QED BY <1>2, <1>3

LEMMA StatusWorker ==
    ASSUME IInv, NEW w \in Workers, Worker(w)
    PROVE  StatusInv' /\ ResultOnce'
<1> USE DEF pool, history, threads
<1>0. /\ StatusInv /\ ResultOnce /\ TypeOK /\ DOMAIN wpc = Workers /\ DOMAIN busy = Workers
      /\ DOMAIN current = Workers /\ busy \in [Workers -> BOOLEAN]
  BY DEF IInv, Inv, TypeOK
<1>1. wpc[w] # "wait" /\ wpc[w] # "gone" => result = "pending" /\ caller = "waiting"
  BY <1>0 DEF StatusInv, QuietInv, LastInv
<1>2. CASE WaitForWork(w)
  <2>1. /\ UNCHANGED <<status, active, result, busy, current, caller>>
        /\ \A v \in Workers : v # w => wpc'[v] = wpc[v]
        /\ wpc[w] = "wait" /\ (busy[w] \/ status = "TERMINATING")
        /\ wpc'[w] = IF status = "TERMINATING" THEN "gone" ELSE "take"
    BY <1>2, <1>0 DEF WaitForWork, Goto
  <2> QED BY <2>1, <1>0 DEF StatusInv, BusyInv, QuietInv, LastInv, ResultOnce
<1>3. CASE TakeTask(w) \/ TakeNothing(w)
  <2>1. /\ UNCHANGED <<status, active, result, busy, caller>>
        /\ \A v \in Workers : v # w => wpc'[v] = wpc[v] /\ current'[v] = current[v]
        /\ wpc[w] = "take" /\ (wpc'[w] = "run" \/ wpc'[w] = "done")
        /\ wpc'[w] = "run" => current'[w] \in Tasks
    <3>1. CASE TakeTask(w)
      <4>1. workload[NextIndex(w) + 1] \in Tasks
        BY <3>1, <1>0 DEF TakeTask, HasTask, NextIndex, TypeOK
      <4> QED BY <3>1, <4>1, <1>0 DEF TakeTask, Goto
    <3>2. CASE TakeNothing(w)
      BY <3>2, <1>0 DEF TakeNothing, Goto
    <3> QED BY <1>3, <3>1, <3>2
  <2>2. result = "pending" /\ caller = "waiting"
    BY <2>1, <1>1
  <2>3. BusyInv'
    BY <2>1, <1>0 DEF StatusInv, BusyInv
  <2>4. LastInv'
    BY <2>1, <2>2, <1>0 DEF StatusInv, LastInv
  <2> QED BY <2>1, <2>2, <2>3, <2>4 DEF StatusInv, QuietInv, ResultOnce
<1>4. CASE Return(w) \/ Throw(w) \/ Catch(w)
  <2>1. /\ UNCHANGED <<status, active, result, busy, caller, current>>
        /\ \A v \in Workers : v # w => wpc'[v] = wpc[v]
        /\ wpc[w] \in {"run", "catch"} /\ wpc'[w] \in {"take", "wait", "catch", "push"}
    BY <1>4, <1>0 DEF Return, Throw, Catch, Goto
  <2>2. result = "pending" /\ caller = "waiting"
    BY <2>1, <1>1
  <2>3. BusyInv'
    BY <2>1, <1>0 DEF StatusInv, BusyInv
  <2>4. LastInv'
    BY <2>1, <2>2, <1>0 DEF StatusInv, LastInv
  <2> QED BY <2>1, <2>2, <2>3, <2>4 DEF StatusInv, QuietInv, ResultOnce
<1>5. CASE PushError(w)
  <2>1. /\ UNCHANGED <<active, result, busy, caller, current>>
        /\ \A v \in Workers : v # w => wpc'[v] = wpc[v]
        /\ wpc[w] = "push"
        /\ status' = "TERMINATING" \/ status' = status
        /\ wpc'[w] = IF status' = "TERMINATING" THEN "gone" ELSE "wait"
    BY <1>5, <1>0 DEF PushError, Goto
  <2>2. result = "pending" /\ caller = "waiting" /\ busy[w]
    BY <2>1, <1>0, <1>1 DEF StatusInv, BusyInv
  <2>3. active # 0
    BY <2>2, NobodyActive DEF IInv, Inv
  <2>4. BusyInv'
    BY <2>1, <1>0 DEF StatusInv, BusyInv
  <2>5. LastInv'
    BY <2>1, <2>2, <2>3, <1>0 DEF StatusInv, LastInv
  <2> QED BY <2>1, <2>2, <2>4, <2>5 DEF StatusInv, QuietInv, ResultOnce
<1>6. CASE ClearBusy(w)
  <2>1. /\ UNCHANGED <<active, status, result, caller, current>>
        /\ \A v \in Workers : v # w => wpc'[v] = wpc[v] /\ busy'[v] = busy[v]
        /\ wpc[w] = "done" /\ wpc'[w] = "count" /\ ~busy'[w]
    BY <1>6, <1>0 DEF ClearBusy, Goto
  <2>2. result = "pending" /\ caller = "waiting"
    BY <2>1, <1>1
  <2>3. BusyInv'
    BY <2>1, <1>0 DEF StatusInv, BusyInv
  <2>4. LastInv'
    BY <2>1, <2>2, <1>0 DEF StatusInv, LastInv
  <2> QED BY <2>1, <2>2, <2>3, <2>4 DEF StatusInv, QuietInv, ResultOnce
<1>7. CASE CountDown(w)
  <2>1. /\ UNCHANGED <<status, result, busy, caller, current>>
        /\ \A v \in Workers : v # w => wpc'[v] = wpc[v]
        /\ wpc[w] = "count" /\ wpc'[w] = IF active' = 0 THEN "last" ELSE "wait"
    BY <1>7, <1>0 DEF CountDown, Goto
  <2>2. result = "pending" /\ caller = "waiting" /\ ~busy[w]
    BY <2>1, <1>0, <1>1 DEF StatusInv, BusyInv
  <2>3. active # 0
    BY <2>1, NobodyActive DEF IInv, Inv
  <2>4. \A v \in Workers : wpc[v] \notin {"last", "set"}
    BY <2>2, <2>3, <1>0 DEF StatusInv, LastInv
  <2>5. BusyInv'
    BY <2>1, <2>2, <1>0 DEF StatusInv, BusyInv
  <2>6. LastInv'
    <3>1. CASE active' = 0
      <4>1. \A v \in Workers : v # w => ~busy[v]
        BY <1>7, <3>1, LastOne
      <4>2. status # "TERMINATING"
        BY <2>2, <4>1, <1>0 DEF StatusInv, LastInv
      <4>3. status = "PROCESSING"
        BY <2>2, <2>4, <4>2, <1>0 DEF StatusInv, LastInv, TypeOK
      <4> QED BY <2>1, <2>2, <2>4, <3>1, <4>3, <1>0 DEF StatusInv, LastInv
    <3>2. CASE active' # 0
      BY <2>1, <2>2, <2>4, <3>2, <1>0 DEF StatusInv, LastInv
    <3> QED BY <3>1, <3>2
  <2> QED BY <2>1, <2>2, <2>5, <2>6 DEF StatusInv, QuietInv, ResultOnce
<1>8. CASE LastDone(w)
  <2>1. /\ UNCHANGED <<active, result, busy, caller, current>>
        /\ \A v \in Workers : v # w => wpc'[v] = wpc[v]
        /\ wpc[w] = "last" /\ wpc'[w] = "set" /\ status' = "READY"
    BY <1>8, <1>0 DEF LastDone, Goto
  <2>2. result = "pending" /\ caller = "waiting"
    BY <2>1, <1>1
  <2>3. active = 0 /\ status = "PROCESSING"
        /\ \A v \in Workers : wpc[v] \in {"last", "set"} => v = w
    BY <2>1, <2>2, <1>0 DEF StatusInv, LastInv
  <2>4. \A v \in Workers : wpc[v] # "gone"
    BY <2>2, <2>3, <1>0 DEF StatusInv, LastInv
  <2>5. BusyInv'
    BY <2>1, <1>0 DEF StatusInv, BusyInv
  <2>6. LastInv'
    BY <2>1, <2>2, <2>3, <2>4 DEF LastInv
  <2> QED BY <2>1, <2>2, <2>5, <2>6 DEF StatusInv, QuietInv, ResultOnce
<1>9. CASE SetValue(w)
  <2>1. /\ UNCHANGED <<active, status, busy, caller, current>>
        /\ \A v \in Workers : v # w => wpc'[v] = wpc[v]
        /\ wpc[w] = "set" /\ wpc'[w] = "wait"
    BY <1>9, <1>0 DEF SetValue, Goto
  <2>2. result = "pending" /\ caller = "waiting" /\ result' = "ready"
    BY <2>1, <1>1, <1>9 DEF SetValue
  <2>3. /\ active = 0 /\ status = "READY"
        /\ \A v \in Workers : wpc[v] \in {"last", "set"} => v = w
        /\ \A v \in Workers : wpc[v] # "gone"
    BY <2>1, <2>2, <1>0 DEF StatusInv, LastInv
  <2>4. \A v \in Workers : ~busy[v] /\ wpc[v] # "count"
    BY <2>3, NobodyActive DEF IInv, Inv
  <2>5. \A v \in Workers : v # w => wpc[v] = "wait"
    <3>1. \A v \in Workers : wpc[v] \in {"wait", "take", "run", "catch", "push", "done",
                                         "count", "last", "set", "gone"}
      BY <1>0 DEF TypeOK
    <3> QED BY <2>3, <2>4, <3>1, <1>0 DEF StatusInv, BusyInv
  <2>6. BusyInv'
    BY <2>1, <1>0 DEF StatusInv, BusyInv
  <2>7. QuietInv'
    BY <2>1, <2>2, <2>3, <2>4, <2>5 DEF QuietInv
  <2> QED BY <2>2, <2>6, <2>7 DEF StatusInv, LastInv, ResultOnce
<1> QED BY <1>2, <1>3, <1>4, <1>5, <1>6, <1>7, <1>8, <1>9 DEF Worker

-----------------------------------------------------------------------------
(* Who runs which task. *)
LEMMA ShareInit == Init => ShareInv
BY DEF Init, ShareInv, Distinct, BegunInv, RunningInv

\* a busy worker of worker_mq walks along the tasks of its own remainder
LEMMA Strides ==
    ASSUME IInv, status = "PROCESSING", setting.queue # "single",
           NEW i \in 1 .. Len(workload)
    PROVE  /\ (i - 1) % Size \in Workers /\ (i - 1) % Size < Len(workload)
           /\ it[(i - 1) % Size] \in Nat
           /\ it[(i - 1) % Size] % Size = (i - 1) % Size
<1>1. i - 1 \in Nat /\ Len(workload) \in Nat /\ workload \in Seq(Tasks)
  BY DEF IInv, Inv, TypeOK
<1>2. PICK q \in Int, r \in 0 .. (Size - 1) :
         i - 1 = Size * q + r /\ r = (i - 1) % Size /\ r <= i - 1
  BY <1>1, PoolAssumption, Division
<1>3. r \in Workers /\ r < Len(workload)
  BY <1>1, <1>2 DEF Workers
<1>4. setting.queue = "multi"
  BY SettingsAssumption DEF IInv, Inv, TypeOK
<1>5. it[r] \in Nat
  BY <1>3 DEF IInv, Inv, TypeOK
<1>6. it[r] % Size = r
  BY <1>3, <1>4 DEF IInv, ShareInv, BegunInv
<1> QED BY <1>2, <1>3, <1>5, <1>6

\* the task a worker takes is the next one, and nobody has begun it
LEMMA TakenTask ==
    ASSUME IInv, NEW w \in Workers, TakeTask(w)
    PROVE  LET k == NextIndex(w) + 1
           IN  /\ k \in 1 .. Len(workload) /\ ~Passed(k)
               /\ current'[w] = workload[k] /\ begun' = begun \cup {workload[k]}
               /\ UNCHANGED workload
               /\ \A i \in 1 .. Len(workload) : Passed(i)' <=> Passed(i) \/ i = k
<1> DEFINE k == NextIndex(w) + 1
<1>1. /\ TypeOK /\ status = "PROCESSING" /\ NextIndex(w) < Len(workload)
      /\ workload \in Seq(Tasks) /\ Len(workload) \in Nat /\ Size \in Nat \ {0}
      /\ UNCHANGED <<setting, workload>>
  BY PoolAssumption DEF IInv, Inv, TypeOK, TakeTask, HasTask
<1>2. current'[w] = workload[k] /\ begun' = begun \cup {workload[k]}
  BY <1>1 DEF TakeTask, TypeOK
<1>3. CASE setting.queue = "single"
  <2>1. NextIndex(w) = index /\ index \in Nat /\ index' = index + 1
    BY <1>1, <1>3 DEF NextIndex, TakeTask, Advance, TypeOK
  <2>2. k \in 1 .. Len(workload) /\ k = index + 1
    BY <1>1, <2>1
  <2>3. \A i \in 1 .. Len(workload) : /\ Passed(i) <=> i - 1 < index
                                      /\ Passed(i)' <=> i - 1 < index + 1
    BY <1>1, <1>3, <2>1 DEF Passed
  <2> QED BY <1>1, <1>2, <2>1, <2>2, <2>3
<1>4. CASE setting.queue # "single"
  <2>1. /\ NextIndex(w) = it[w] /\ it[w] \in Nat /\ it'[w] = it[w] + Size
        /\ \A v \in Workers : v # w => it'[v] = it[v]
    BY <1>1, <1>4 DEF NextIndex, TakeTask, Advance, TypeOK
  <2>2. k \in 1 .. Len(workload) /\ k - 1 = it[w]
    BY <1>1, <2>1
  <2>3. w < Len(workload) /\ it[w] % Size = w
    <3>1. busy[w]
      BY DEF TakeTask, IInv, StatusInv, BusyInv
    <3>2. setting.queue = "multi"
      BY <1>1, <1>4, SettingsAssumption DEF TypeOK
    <3> QED BY <1>1, <3>1, <3>2 DEF IInv, ShareInv, BegunInv
  <2>4. \A i \in 1 .. Len(workload) : /\ Passed(i) <=> i - 1 < it[(i - 1) % Size]
                                      /\ Passed(i)' <=> i - 1 < it'[(i - 1) % Size]
    BY <1>1, <1>4 DEF Passed
  <2>5. ~Passed(k)
    BY <2>1, <2>2, <2>3, <2>4
  <2>6. ASSUME NEW i \in 1 .. Len(workload)
        PROVE  Passed(i)' <=> Passed(i) \/ i = k
    <3>1. (i - 1) % Size \in Workers /\ i - 1 \in Nat
      BY <1>1, <1>4, Strides
    <3>2. CASE (i - 1) % Size # w
      <4>1. it'[(i - 1) % Size] = it[(i - 1) % Size]
        BY <2>1, <3>1, <3>2
      <4>2. i # k
        BY <2>2, <2>3, <3>2
      <4> QED BY <2>4, <4>1, <4>2
    <3>3. CASE (i - 1) % Size = w
      <4>1. /\ Passed(i) <=> i - 1 < it[w]
            /\ Passed(i)' <=> i - 1 < it[w] + Size
        BY <2>1, <2>4, <3>3
      <4>2. ASSUME i - 1 < it[w] + Size, ~(i - 1 < it[w])
            PROVE  i - 1 = it[w]
        <5>1. PICK a \in Nat, b \in Nat : a = i - 1 /\ b = it[w]
          BY <2>1, <3>1
        <5>2. (a % Size) = (b % Size) /\ b <= a /\ a < b + Size
          BY <5>1, <4>2, <2>3, <3>3
        <5>3. a = b
          BY <1>1, <5>2, SameRemainder
        <5> QED BY <5>1, <5>3
      <4>3. i = k => i - 1 < it[w] + Size
        BY <1>1, <2>1, <2>2
      <4>4. i - 1 < it[w] => i - 1 < it[w] + Size
        BY <1>1, <2>1, <3>1
      <4>5. i - 1 = it[w] <=> i = k
        BY <2>2, <2>1
      <4> QED BY <4>1, <4>2, <4>3, <4>4, <4>5
    <3> QED BY <3>2, <3>3
  <2> QED BY <1>1, <1>2, <2>2, <2>5, <2>6
<1> QED BY <1>3, <1>4

LEMMA TakenIsNew ==
    ASSUME IInv, NEW w \in Workers, TakeTask(w)
    PROVE  /\ current'[w] \in TasksOf(workload) \ begun
           /\ begun' = {workload'[i] : i \in {j \in 1 .. Len(workload') : Passed(j)'}}
<1> DEFINE k == NextIndex(w) + 1
<1>1. /\ k \in 1 .. Len(workload) /\ ~Passed(k)
      /\ current'[w] = workload[k] /\ begun' = begun \cup {workload[k]} /\ UNCHANGED workload
      /\ \A i \in 1 .. Len(workload) : Passed(i)' <=> Passed(i) \/ i = k
  BY TakenTask
<1> HIDE DEF k
<1>2. begun = {workload[i] : i \in {j \in 1 .. Len(workload) : Passed(j)}}
  BY DEF IInv, ShareInv, BegunInv, TakeTask, HasTask
<1>3. workload[k] \notin begun
  <2>1. \A i \in 1 .. Len(workload) : workload[i] = workload[k] => i = k
    BY <1>1 DEF IInv, ShareInv, Distinct
  <2> QED BY <1>1, <1>2, <2>1
<1>4. workload[k] \in TasksOf(workload)
  BY <1>1 DEF TasksOf
<1>5. {j \in 1 .. Len(workload) : Passed(j)'} = {j \in 1 .. Len(workload) : Passed(j)} \cup {k}
  BY <1>1
<1>6. begun' = {workload[i] : i \in {j \in 1 .. Len(workload) : Passed(j)'}}
  BY <1>1, <1>2, <1>5
<1> QED BY <1>1, <1>3, <1>4, <1>6

LEMMA ShareCaller ==
    ASSUME IInv, SubmitLoad \/ KeepLoad \/ Wait \/ Destroy \/ Joined \/ UNCHANGED vars
    PROVE  ShareInv'
<1> USE DEF pool, history, threads
<1>0. ShareInv /\ StatusInv /\ TypeOK /\ Size \in Nat \ {0}
  BY PoolAssumption DEF IInv, Inv
<1>1. CASE SubmitLoad
  <2>1. PICK load \in Seq(Tasks) :
           /\ status = "READY" /\ caller = "idle" /\ load # <<>>
           /\ \A i, j \in 1 .. Len(load) : load[i] = load[j] => i = j
           /\ Start(load) /\ begun' = {}
           /\ UNCHANGED <<setting, wpc, current>>
    BY <1>1 DEF SubmitLoad
  <2>2. \A w \in Workers : ~busy[w] /\ wpc[w] = "wait"
    BY <2>1, <1>0 DEF StatusInv, QuietInv, LastInv
  <2>3. \A w \in Workers : w < ActiveFor(load) <=> w < Len(load)
    BY <2>1, ActiveForRange
  <2>4. /\ workload' = load /\ index' = 0 /\ Len(load) \in Nat
        /\ \A w \in Workers : /\ busy'[w] <=> w < Len(load)
                              /\ w < Len(load) => it'[w] = w
    <3>1. workload' = load /\ index' = 0 /\ Len(load) \in Nat
      BY <2>1 DEF Start
    <3>2. ASSUME NEW w \in Workers
          PROVE  /\ busy'[w] = (w < ActiveFor(load) \/ busy[w])
                 /\ it'[w] = IF w < ActiveFor(load) THEN w ELSE it[w]
      BY <2>1 DEF Start
    <3> QED BY <3>1, <3>2, <2>2, <2>3
  <2>5. \A i \in 1 .. Len(load) : ~Passed(i)'
    <3>1. ASSUME NEW i \in 1 .. Len(load) PROVE ~Passed(i)'
      <4>1. PICK q \in Int, r \in 0 .. (Size - 1) :
               i - 1 = Size * q + r /\ r = (i - 1) % Size /\ r <= i - 1
        <5>1. i - 1 \in Nat
          BY <2>4
        <5> QED BY <5>1, <1>0, Division
      <4>2. r \in Workers /\ r < Len(load)
        BY <2>4, <4>1 DEF Workers
      <4>3. it'[(i - 1) % Size] = r
        BY <2>4, <4>1, <4>2
      <4> QED BY <2>4, <4>1, <4>3 DEF Passed
    <3> QED BY <3>1
  <2>6. BegunInv'
    <3>1. begun' = {workload'[i] : i \in {j \in 1 .. Len(workload') : Passed(j)'}}
      BY <2>1, <2>4, <2>5
    <3>2. \A w \in Workers : w % Size = w
      BY <1>0, WorkersFinite
    <3>3. \A w \in Workers : wpc'[w] # "done"
      BY <2>1, <2>2
    <3> QED BY <2>1, <2>4, <3>1, <3>2, <3>3 DEF BegunInv
  <2>7. RunningInv' /\ Distinct'
    BY <2>1, <2>2, <2>4 DEF RunningInv, Distinct
  <2> QED BY <2>6, <2>7 DEF ShareInv
<1>2. CASE KeepLoad
  <2>1. status' # "PROCESSING"
    BY <1>2, <1>0 DEF KeepLoad, StatusInv, QuietInv, LastInv
  <2> QED BY <1>2, <2>1, <1>0 DEF KeepLoad, ShareInv, Distinct, BegunInv, RunningInv
<1>3. CASE Wait \/ Destroy \/ Joined \/ UNCHANGED vars
  <2>1. /\ UNCHANGED <<setting, workload, index, it, busy, wpc, current, begun>>
        /\ status' = status \/ status' = "TERMINATING"
    BY <1>3 DEF Wait, Destroy, Joined, vars
  <2>2. Distinct' /\ RunningInv'
    BY <2>1, <1>0 DEF ShareInv, Distinct, RunningInv
  <2>3. BegunInv'
    <3>1. \A i : Passed(i)' <=> Passed(i)
      BY <2>1 DEF Passed
    <3>2. \A w : Through(w)' <=> Through(w)
      BY <2>1 DEF Through, NextIndex
    <3> QED BY <2>1, <3>1, <3>2, <1>0 DEF ShareInv, BegunInv
  <2> QED BY <2>2, <2>3 DEF ShareInv
<1> QED BY <1>1, <1>2, <1>3

\* a step that neither begins a task nor moves a counter
LEMMA ShareKept ==
    ASSUME IInv, NEW w \in Workers,
           UNCHANGED <<setting, workload, index, it, current, begun>>,
           status' # "PROCESSING" \/ status' = status,
           \A v \in Workers : v # w => wpc'[v] = wpc[v] /\ busy'[v] = busy[v],
           wpc'[w] \notin {"run", "done"}, busy'[w] => busy[w],
           busy[w] => busy'[w] \/ wpc[w] = "done"
    PROVE  ShareInv'
<1>0. ShareInv
  BY DEF IInv
<1>1. Distinct' /\ RunningInv'
  BY <1>0 DEF ShareInv, Distinct, RunningInv
<1>2. ASSUME status' = "PROCESSING" PROVE BegunInv'
  <2>1. \A i : Passed(i)' <=> Passed(i)
    BY DEF Passed
  <2>2. \A v : Through(v)' <=> Through(v)
    BY DEF Through, NextIndex
  <2>3. \A v \in Workers : v < Len(workload) /\ (~busy'[v] \/ wpc'[v] = "done") => Through(v)
    BY <1>0, <1>2 DEF ShareInv, BegunInv
  <2>4. \A v \in Workers : busy'[v] => v < Len(workload)
    BY <1>0, <1>2 DEF ShareInv, BegunInv
  <2> QED BY <2>1, <2>2, <2>3, <2>4, <1>0, <1>2 DEF ShareInv, BegunInv
<1> QED BY <1>1, <1>2 DEF ShareInv, BegunInv

LEMMA ShareTake ==
    ASSUME IInv, NEW w \in Workers, TakeTask(w)
    PROVE  ShareInv'
<1>0. /\ ShareInv /\ TypeOK /\ Size \in Nat \ {0} /\ status = "PROCESSING"
      /\ UNCHANGED <<setting, status, workload, busy>>
      /\ Len(workload) \in Nat /\ busy[w]
  BY PoolAssumption DEF IInv, Inv, TypeOK, TakeTask, HasTask, StatusInv, BusyInv
<1>1. /\ wpc'[w] = "run"
      /\ \A v \in Workers : v # w => wpc'[v] = wpc[v] /\ current'[v] = current[v]
  BY <1>0 DEF TakeTask, Goto, TypeOK
<1>2. /\ current'[w] \in TasksOf(workload) \ begun
      /\ begun' = {workload'[i] : i \in {j \in 1 .. Len(workload') : Passed(j)'}}
      /\ begun' = begun \cup {current'[w]}
  BY TakenIsNew DEF TakeTask
<1>3. RunningInv'
  BY <1>0, <1>1, <1>2 DEF ShareInv, RunningInv
<1>4. /\ index' \in Nat /\ index' >= index /\ index \in Nat
      /\ \A v \in Workers : it'[v] = it[v] \/ (v = w /\ it'[v] = it[v] + Size)
  BY <1>0 DEF TakeTask, Advance, HasTask, TypeOK
<1>5. \A v \in Workers : it[v] \in Nat /\ it'[v] % Size = it[v] % Size
  <2>1. \A v \in Workers : it[v] \in Nat /\ (it[v] + Size) % Size = it[v] % Size
    BY <1>0, RemainderOfNext DEF TypeOK
  <2> QED BY <1>4, <2>1
<1>6. \A v \in Workers : v # w /\ Through(v) => Through(v)'
  BY <1>0, <1>4 DEF Through, NextIndex
<1>7. BegunInv'
  <2>1. \A v \in Workers : v < Len(workload) /\ (~busy'[v] \/ wpc'[v] = "done") => Through(v)'
    BY <1>0, <1>1, <1>6 DEF ShareInv, BegunInv
  <2>2. setting.queue = "multi" =>
           \A v \in Workers : v < Len(workload) => it'[v] % Size = v
    BY <1>0, <1>5 DEF ShareInv, BegunInv
  <2> QED BY <1>0, <1>2, <2>1, <2>2 DEF ShareInv, BegunInv
<1> QED BY <1>0, <1>3, <1>7 DEF ShareInv, Distinct

LEMMA ShareNothing ==
    ASSUME IInv, NEW w \in Workers, TakeNothing(w)
    PROVE  ShareInv'
<1> USE DEF pool, history, threads
<1>0. /\ ShareInv /\ TypeOK /\ DOMAIN it = Workers
      /\ UNCHANGED <<setting, status, workload, busy, current, begun>>
      /\ Len(workload) \in Nat /\ index \in Nat
      /\ it' = it /\ (index' = index \/ (setting.queue = "single" /\ index' = index + 1))
  BY DEF IInv, Inv, TypeOK, TakeNothing, Advance
<1>1. /\ wpc'[w] = "done"
      /\ \A v \in Workers : v # w => wpc'[v] = wpc[v]
  BY <1>0 DEF TakeNothing, Goto, TypeOK
<1>2. RunningInv' /\ Distinct'
  BY <1>0, <1>1 DEF ShareInv, RunningInv, Distinct
<1>3. ASSUME status' = "PROCESSING" PROVE BegunInv'
  <2>1. Through(w)
    <3>1. NextIndex(w) \in Nat /\ ~(NextIndex(w) < Len(workload))
      BY <1>0, <1>3 DEF TakeNothing, HasTask, NextIndex, TypeOK
    <3> QED BY <1>0, <3>1 DEF Through
  <2>2. \A v \in Workers : Through(v) => Through(v)'
    BY <1>0 DEF Through, NextIndex, TypeOK
  <2>3. \A i \in 1 .. Len(workload) : Passed(i)' <=> Passed(i)
    BY <1>0, <2>1 DEF Passed, Through, NextIndex
  <2>4. \A v \in Workers : v < Len(workload) /\ (~busy'[v] \/ wpc'[v] = "done") => Through(v)'
    BY <1>0, <1>1, <1>3, <2>1, <2>2 DEF ShareInv, BegunInv
  <2> QED BY <1>0, <1>3, <2>3, <2>4 DEF ShareInv, BegunInv
<1> QED BY <1>2, <1>3 DEF ShareInv, BegunInv

LEMMA ShareWorker ==
    ASSUME IInv, NEW w \in Workers, Worker(w)
    PROVE  ShareInv'
<1> USE DEF pool, history, threads, Goto
<1>0. DOMAIN wpc = Workers /\ busy \in [Workers -> BOOLEAN]
  BY DEF IInv, Inv, TypeOK
<1>1. CASE WaitForWork(w) \/ Return(w) \/ Throw(w) \/ Catch(w)
  <2>1. /\ UNCHANGED <<setting, status, workload, index, it, current, begun, busy>>
        /\ \A v \in Workers : v # w => wpc'[v] = wpc[v]
        /\ wpc'[w] \notin {"run", "done"}
    BY <1>0, <1>1 DEF WaitForWork, Return, Throw, Catch
  <2> QED BY <2>1, ShareKept
<1>2. CASE PushError(w)
  <2>1. /\ UNCHANGED <<setting, workload, index, it, current, begun, busy>>
        /\ status' # "PROCESSING" \/ status' = status
        /\ \A v \in Workers : v # w => wpc'[v] = wpc[v]
        /\ wpc'[w] \notin {"run", "done"}
    BY <1>0, <1>2 DEF PushError
  <2> QED BY <2>1, ShareKept
<1>3. CASE ClearBusy(w)
  <2>1. /\ UNCHANGED <<setting, status, workload, index, it, current, begun>>
        /\ \A v \in Workers : v # w => wpc'[v] = wpc[v] /\ busy'[v] = busy[v]
        /\ wpc[w] = "done" /\ wpc'[w] = "count" /\ ~busy'[w]
    BY <1>0, <1>3 DEF ClearBusy
  <2> QED BY <2>1, ShareKept
<1>4. CASE CountDown(w) \/ SetValue(w)
  <2>1. /\ UNCHANGED <<setting, status, workload, index, it, current, begun, busy>>
        /\ \A v \in Workers : v # w => wpc'[v] = wpc[v]
        /\ wpc'[w] \notin {"run", "done"}
    BY <1>0, <1>4 DEF CountDown, SetValue
  <2> QED BY <2>1, ShareKept
<1>5. CASE LastDone(w)
  <2>1. /\ status' = "READY" /\ UNCHANGED <<current, begun>>
        /\ workload' = workload \/ workload' = <<>>
        /\ \A v \in Workers : v # w => wpc'[v] = wpc[v]
        /\ wpc'[w] = "set"
    BY <1>0, <1>5 DEF LastDone
  <2>2. BegunInv' /\ RunningInv'
    BY <2>1 DEF IInv, ShareInv, BegunInv, RunningInv
  <2>3. Distinct'
    BY <2>1 DEF IInv, ShareInv, Distinct
  <2> QED BY <2>2, <2>3 DEF ShareInv
<1> QED BY <1>1, <1>2, <1>3, <1>4, <1>5, ShareTake, ShareNothing DEF Worker

-----------------------------------------------------------------------------
(* What holds of every state. *)

\* The inductive invariant holds of every reachable state.
THEOREM Invariance == Spec => []IInv
<1>1. Init => IInv
  <2> SUFFICES ASSUME Init PROVE IInv
    OBVIOUS
  <2>1. ActiveCounts
    <3>1. {w \in Workers : busy[w] \/ wpc[w] = "count"} = {}
      BY DEF Init
    <3> QED BY <3>1, FS_EmptySet DEF Init, ActiveCounts
  <2>2. ResultOnce
    BY DEF Init, ResultOnce
  <2> QED BY <2>1, <2>2, TypeInit, StatusInit, ShareInit DEF IInv, Inv
<1>2. IInv /\ [Next]_vars => IInv'
  <2> SUFFICES ASSUME IInv, [Next]_vars PROVE IInv'
    OBVIOUS
  <2>1. TypeOK' /\ ActiveCounts'
    BY TypeStep, CountStep
  <2>2. StatusInv' /\ ResultOnce' /\ ShareInv'
    BY Steps, StatusCaller, StatusWorker, ShareCaller, ShareWorker
  <2> QED BY <2>1, <2>2 DEF IInv, Inv
<1> QED BY <1>1, <1>2, PTL DEF Spec

\* In every pool the members keep their types, m_active counts the workers that
\* have still to count themselves out, and the promise is set once only.
THEOREM PoolInvariant == Spec => []Inv
<1>1. IInv => Inv
  BY DEF IInv
<1> QED BY <1>1, Invariance, PTL

-----------------------------------------------------------------------------
(* The pool implements Batch. *)

\* no task of the workload is left when every worker has counted itself out
LEMMA AllBegun ==
    ASSUME IInv, status = "PROCESSING", active = 0
    PROVE  TasksOf(workload) \subseteq begun
<1>1. /\ ShareInv /\ TypeOK /\ Size \in Nat \ {0} /\ Len(workload) \in Nat
      /\ workload \in Seq(Tasks) /\ workload # <<>>
  BY PoolAssumption DEF IInv, Inv, TypeOK, ShareInv, BegunInv
<1>2. \A w \in Workers : w < Len(workload) => Through(w)
  BY NobodyActive DEF IInv, Inv, ShareInv, BegunInv
<1>3. ASSUME NEW i \in 1 .. Len(workload) PROVE Passed(i)
  <2>1. CASE setting.queue = "single"
    <3>1. 0 \in Workers /\ 0 < Len(workload)
      BY <1>1, WorkersFinite
    <3>2. index >= Len(workload)
      BY <1>2, <2>1, <3>1 DEF Through, NextIndex
    <3> QED BY <1>1, <2>1, <3>2 DEF Passed, TypeOK
  <2>2. CASE setting.queue # "single"
    <3>1. PICK r \in Workers : /\ r = (i - 1) % Size /\ r < Len(workload) /\ it[r] \in Nat
      BY <2>2, Strides
    <3>2. it[r] >= Len(workload)
      BY <1>2, <2>2, <3>1 DEF Through, NextIndex
    <3> QED BY <1>1, <2>2, <3>1, <3>2 DEF Passed
  <2> QED BY <2>1, <2>2
<1>4. begun = {workload[i] : i \in {j \in 1 .. Len(workload) : Passed(j)}}
  BY <1>1 DEF ShareInv, BegunInv
<1> QED BY <1>3, <1>4 DEF TasksOf

\* a task starts
LEMMA TakeIsBegin ==
    ASSUME IInv, NEW w \in Workers, TakeTask(w)
    PROVE  B!Begin(current'[w]) /\ current'[w] \in Tasks
<1>1. /\ status = "PROCESSING" /\ wpc[w] = "take" /\ UNCHANGED <<result, status, workload>>
      /\ DOMAIN wpc = Workers /\ DOMAIN current = Workers
  BY DEF TakeTask, HasTask, IInv, Inv, TypeOK
<1>2. result = "pending"
  BY <1>1 DEF IInv, StatusInv, QuietInv
<1>3. current'[w] \in TasksOf(workload) \ begun /\ begun' = begun \cup {current'[w]}
  BY TakenIsNew DEF TakeTask
<1>4. ToDo = TasksOf(workload) \ begun /\ ToDo' = TasksOf(workload) \ begun'
  BY <1>1, <1>2 DEF ToDo
<1>5. /\ wpc'[w] = "run"
      /\ \A v \in Workers : v # w => wpc'[v] = wpc[v] /\ current'[v] = current[v]
  BY <1>1 DEF TakeTask, Goto
<1>6. Running' = Running \cup {current'[w]}
  BY <1>1, <1>5 DEF Running
<1>7. current'[w] \in Tasks
  BY <1>3 DEF TasksOf, IInv, Inv, TypeOK
<1> QED BY <1>1, <1>2, <1>3, <1>4, <1>6, <1>7 DEF B!Begin

\* a task ends, with or without an exception
LEMMA RunIsEnd ==
    ASSUME IInv, NEW w \in Workers, Return(w) \/ Throw(w)
    PROVE  B!End(current[w]) /\ current[w] \in Tasks
<1> USE DEF pool, history
<1>1. /\ wpc[w] = "run" /\ UNCHANGED <<result, status, workload, current, begun>>
      /\ DOMAIN wpc = Workers
  BY DEF Return, Throw, IInv, Inv, TypeOK
<1>2. wpc'[w] # "run" /\ \A v \in Workers : v # w => wpc'[v] = wpc[v]
  BY <1>1 DEF Return, Throw, Goto
<1>3. Running' = Running \ {current[w]} /\ current[w] \in Running
  BY <1>1, <1>2 DEF Running, IInv, ShareInv, RunningInv
<1>4. current[w] \in Tasks
  BY <1>1 DEF IInv, StatusInv, BusyInv
<1>5. ToDo' = ToDo
  BY <1>1 DEF ToDo
<1> QED BY <1>1, <1>3, <1>4, <1>5 DEF B!End

LEMMA BatchStep ==
    ASSUME \A x \in Settings : x.errors # "TERMINATE", IInv, [Next]_vars
    PROVE  [B!Next]_(B!vars)
<1> USE DEF pool, history, threads
<1>0. TypeOK /\ DOMAIN wpc = Workers /\ setting.errors # "TERMINATE"
  BY DEF IInv, Inv, TypeOK
<1>1. ASSUME UNCHANGED <<result, Running, ToDo>> PROVE UNCHANGED B!vars
  BY <1>1 DEF B!vars
<1>2. CASE SubmitLoad
  <2>1. PICK load \in Seq(Tasks) :
           /\ status = "READY" /\ caller = "idle" /\ load # <<>>
           /\ Start(load) /\ begun' = {} /\ UNCHANGED <<wpc, current>>
    BY <1>2 DEF SubmitLoad
  <2>2. result # "pending" /\ \A w \in Workers : wpc[w] = "wait"
    BY <2>1 DEF IInv, StatusInv, QuietInv, LastInv
  <2>3. Running = {} /\ Running' = {}
    BY <2>1, <2>2 DEF Running
  <2>4. TasksOf(load) \in SUBSET Tasks /\ TasksOf(load) # {}
    <3>1. 1 \in 1 .. Len(load)
      BY <2>1
    <3> QED BY <3>1 DEF TasksOf
  <2>5. ToDo' = TasksOf(load) /\ ToDo = {} /\ result' = "pending"
    BY <2>1, <2>2 DEF ToDo, Start
  <2>6. B!Submit(TasksOf(load))
    BY <2>2, <2>3, <2>4, <2>5 DEF B!Submit
  <2> QED BY <2>4, <2>6 DEF B!Next
<1>3. CASE KeepLoad \/ Wait \/ Destroy \/ Joined \/ UNCHANGED vars
  <2>1. /\ UNCHANGED <<result, wpc, current, begun>>
        /\ UNCHANGED <<status, workload>> \/ result # "pending"
    BY <1>3 DEF KeepLoad, Wait, Destroy, Joined, vars, IInv, StatusInv, LastInv
  <2> QED BY <1>1, <2>1 DEF Running, ToDo
<1>4. ASSUME NEW w \in Workers, Worker(w) PROVE [B!Next]_(B!vars)
  <2>1. CASE TakeTask(w)
    BY <2>1, TakeIsBegin DEF B!Next
  <2>2. CASE Return(w) \/ Throw(w)
    BY <2>2, RunIsEnd DEF B!Next
  <2>3. CASE WaitForWork(w) \/ TakeNothing(w) \/ Catch(w) \/ PushError(w)
             \/ ClearBusy(w) \/ CountDown(w)
    <3>1. /\ UNCHANGED <<result, status, workload, begun, current>>
          /\ wpc[w] # "run" /\ wpc'[w] # "run"
          /\ \A v \in Workers : v # w => wpc'[v] = wpc[v]
      BY <1>0, <2>3 DEF WaitForWork, TakeNothing, Catch, PushError, ClearBusy, CountDown, Goto
    <3>2. UNCHANGED <<Running, ToDo>>
      BY <3>1 DEF Running, ToDo
    <3> QED BY <1>1, <3>1, <3>2
  <2>4. CASE LastDone(w)
    <3>1. /\ UNCHANGED <<result, begun, current>> /\ status' = "READY"
          /\ wpc[w] = "last" /\ wpc'[w] # "run"
          /\ \A v \in Workers : v # w => wpc'[v] = wpc[v]
      BY <1>0, <2>4 DEF LastDone, Goto
    <3>2. status = "PROCESSING" /\ active = 0
      BY <3>1 DEF IInv, StatusInv, QuietInv, LastInv
    <3>3. ToDo = {} /\ ToDo' = {}
      BY <3>1, <3>2, AllBegun DEF ToDo
    <3>4. Running' = Running
      BY <3>1 DEF Running
    <3> QED BY <1>1, <3>1, <3>3, <3>4
  <2>5. CASE SetValue(w)
    <3>1. /\ UNCHANGED <<status, current>> /\ wpc[w] = "set" /\ wpc'[w] # "run"
          /\ \A v \in Workers : v # w => wpc'[v] = wpc[v]
      BY <1>0, <2>5 DEF SetValue, Goto
    <3>2. result = "pending" /\ status = "READY" /\ active = 0 /\ result' = "ready"
      BY <3>1, <2>5 DEF SetValue, IInv, StatusInv, QuietInv, LastInv
    <3>3. \A v \in Workers : wpc[v] # "run"
      BY <3>2, NobodyActive DEF IInv, Inv, StatusInv, BusyInv
    <3>4. Running = {} /\ Running' = {}
      BY <3>1, <3>3 DEF Running
    <3>5. ToDo = {} /\ ToDo' = {}
      BY <3>1, <3>2 DEF ToDo
    <3>6. B!Complete
      BY <3>2, <3>4, <3>5 DEF B!Complete
    <3> QED BY <3>6 DEF B!Next
  <2> QED BY <1>4, <2>1, <2>2, <2>3, <2>4, <2>5 DEF Worker
<1> QED BY <1>2, <1>3, <1>4, Steps

\* Whatever the number of workers and the kind of pool, and whatever the tasks
\* throw, every task of a workload is run exactly once and the future is ready
\* only when none is left and none is running.  No pool of the repository uses
\* TERMINATE, which gives up the tasks that are left.
THEOREM ImplementsBatch ==
    ASSUME \A x \in Settings : x.errors # "TERMINATE"
    PROVE  Spec => BatchSpec
<1>1. Init => B!Init
  BY DEF Init, B!Init, ToDo, Running
<1>2. IInv /\ [Next]_vars => [B!Next]_(B!vars)
  BY BatchStep
<1> QED BY <1>1, <1>2, Invariance, PTL DEF Spec, BatchSpec, B!Spec
=============================================================================
