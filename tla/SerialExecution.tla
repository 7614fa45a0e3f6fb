-------------------------- MODULE SerialExecution --------------------------
(***************************************************************************)
(* What the session execution service promises its callers, stated without *)
(* entries, fibers or flags (packages/core/src/session/execution.ts,       *)
(* interface of SessionExecution, and the Coordinator interface of         *)
(* run-coordinator.ts):                                                    *)
(*   - executions of one key never overlap;                                *)
(*   - a request (a wake, or a run while idle) stays owed until an         *)
(*     execution begins for it; requests may coalesce;                     *)
(*   - an interrupt may forget what is owed.                               *)
(***************************************************************************)
CONSTANTS
    Keys,
    Runs        \* identities of executions; one that is over may be reused

VARIABLES
    running,    \* the executions in progress, each with its key
    owed        \* the keys with a request no execution has begun for

vars == <<running, owed>>

Init == running = {} /\ owed = {}

IsRunning(k) == \E r \in Runs : <<k, r>> \in running

Request(k) == owed' = owed \cup {k} /\ UNCHANGED running

(* One execution may serve every request made so far, or leave one that    *)
(* coalesced with it owed: the key is then executed once more.             *)
Begin(k, r) ==
    /\ k \in owed
    /\ ~IsRunning(k)
    /\ running' = running \cup {<<k, r>>}
    /\ owed' \in {owed, owed \ {k}}

Finish(k, r) ==
    /\ <<k, r>> \in running
    /\ running' = running \ {<<k, r>>}
    /\ UNCHANGED owed

Forget(k) == owed' = owed \ {k} /\ UNCHANGED running

Next ==
    \E k \in Keys :
        \/ Request(k)
        \/ Forget(k)
        \/ \E r \in Runs : Begin(k, r) \/ Finish(k, r)

Safety == Init /\ [][Next]_vars

(* What is owed is eventually begun, or forgotten.                         *)
Served == \A k \in Keys : (k \in owed) ~> (IsRunning(k) \/ k \notin owed)

ServiceSpec == Safety /\ Served
=============================================================================
