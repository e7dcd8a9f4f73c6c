---------------------------- MODULE MCThreadPool ----------------------------
(* An instance of ThreadPool for TLC: a pool as the server uses them, and    *)
(* pools of the other kinds whose tasks may throw.                           *)
EXTENDS ThreadPool

CONSTANTS a, b, c

MCTasks == {a, b, c}

Pool(queue, clear, handling, throwing) ==
    [queue |-> queue, clear |-> clear, errors |-> handling, throwing |-> throwing]

MCSettings == {Pool("single", "AT_NEXT_WORKLOAD", "NONE", {}),
               Pool("multi", "NEVER", "LOG", {a, b}),
               Pool("single", "UPPON_COMPLETION", "IGNORE", {a})}
=============================================================================
