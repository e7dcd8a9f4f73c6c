------------------------------- MODULE Batch --------------------------------
(***************************************************************************)
(* What a caller of ThreadPool::processWorkload relies on: it submits a    *)
(* set of tasks, every one of them is run exactly once, some of them at    *)
(* the same time, and the future becomes ready only when none is left and  *)
(* none is running.                                                        *)
(***************************************************************************)
CONSTANT Tasks

VARIABLES phase,     \* "idle", or "busy" while a future is not ready
          pending,   \* tasks of the workload that no thread has begun
          running    \* tasks that a thread has begun and not finished

vars == <<phase, pending, running>>

Init == phase = "idle" /\ pending = {} /\ running = {}

Submit(load) ==
    /\ phase = "idle" /\ load # {}
    /\ phase' = "busy" /\ pending' = load
    /\ UNCHANGED running

Begin(t) ==
    /\ phase = "busy" /\ t \in pending
    /\ pending' = pending \ {t} /\ running' = running \cup {t}
    /\ UNCHANGED phase

End(t) ==
    /\ t \in running
    /\ running' = running \ {t}
    /\ UNCHANGED <<phase, pending>>

Complete ==
    /\ phase = "busy" /\ pending = {} /\ running = {}
    /\ phase' = "idle"
    /\ UNCHANGED <<pending, running>>

Next == \/ \E load \in SUBSET Tasks : Submit(load)
        \/ \E t \in Tasks : Begin(t) \/ End(t)
        \/ Complete

Spec == Init /\ [][Next]_vars
=============================================================================
