-------------------------- MODULE SerialExecution --------------------------
(***************************************************************************)
(* What the asynchronous database promises its callers, without threads,   *)
(* queues or shutdown: operations are issued one after another, each is    *)
(* executed at most once, and two operations with the same non-zero serial *)
(* id are executed in the order in which they were issued.  Operations     *)
(* with serial id 0 may be executed in any order.                          *)
(* AsyncDatabase implements this specification (same issued and done).     *)
(***************************************************************************)
EXTENDS Naturals, Sequences

CONSTANT Op           \* records with a field "serial"

VARIABLES
  issued,             \* the operations issued so far, in order of issue
  done                \* the positions in issued that have been executed

vars == <<issued, done>>

(* The operations that must be executed before the n-th one may be. *)
Before(n) ==
  {m \in 1 .. (n - 1) : issued[m].serial = issued[n].serial
                        /\ issued[n].serial > 0}

Init == issued = << >> /\ done = {}

Issue ==
  /\ \E op \in Op : issued' = Append(issued, op)
  /\ UNCHANGED done

(* A synchronous call: issued and executed before it returns. *)
IssueDirect ==
  /\ \E op \in Op : op.serial = 0 /\ issued' = Append(issued, op)
  /\ done' = done \cup {Len(issued) + 1}

Execute(n) ==
  /\ n \notin done
  /\ Before(n) \subseteq done
  /\ done' = done \cup {n}
  /\ UNCHANGED issued

Next == Issue \/ IssueDirect \/ \E n \in DOMAIN issued : Execute(n)

Spec == Init /\ [][Next]_vars

=============================================================================
