--------------------------- MODULE RunCoordinator ---------------------------
(***************************************************************************)
(* The per-session execution coordinator of the V2 runtime                 *)
(* (packages/core/src/session/run-coordinator.ts).                         *)
(*                                                                         *)
(* A key (a session) has at most one entry in the `active` map; the entry  *)
(* owns one fiber that runs `options.drain(key, force)` and calls `settle` *)
(* on exit.  Callers join the entry's `done` deferred (run), coalesce one  *)
(* follow-up on it (wake) or stop it and wait for its fiber (interrupt).   *)
(*                                                                         *)
(* Each synchronous block of the code is one action.  What the drain does  *)
(* is left open here: it begins, and it ends with an exit.                 *)
(***************************************************************************)
CONSTANTS
    Keys,       \* session ids
    Entries,    \* identities of Entry objects; a settled one is reused
    Clients,    \* fibers that call run or interrupt
    None        \* the absence of a key or of an entry

ASSUME NoneAssumption == None \notin Keys \cup Entries

VARIABLES
    active,     \* the `active` map: key -> its entry
    entry,      \* the Entry objects: key, phase and exit of the owner fiber
    pendingWake,    \* the entries whose pendingWake is set
    stopping,       \* the entries whose stopping is set
    forced,         \* the entries whose owner runs drain with force
    client,     \* where each calling fiber is
    owed        \* history: keys woken with no drain begun since

flags == <<pendingWake, stopping, forced>>
vars == <<active, entry, pendingWake, stopping, forced, client, owed>>

Exits == {"success", "failure", "interrupted"}

(* "starting": the owner waits for `ready`, or yields as a successor.      *)
(* "running": inside drain.  "settling": drain has exited with `exit`.     *)
(* "cancelled": interrupted before it entered drain.                       *)
Phases == {"none", "starting", "running", "settling", "cancelled"}

(* "joined" awaits done; "cleanup" awaits the done of an entry that was    *)
(* already stopping; "again" is about to call run again after that;        *)
(* "stopping" awaits the owner fiber it interrupted; "answered" and        *)
(* "turnedAway" hold the exit run returns, the latter for a caller that    *)
(* only ever waited for an entry being stopped.                            *)
ClientStates == {"idle", "joined", "cleanup", "again", "stopping",
                 "answered", "turnedAway"}

Blank == [key |-> None, phase |-> "none", exit |-> "success"]

Rest == [at |-> "idle", key |-> None, on |-> None, exit |-> "success"]

TypeOK ==
    /\ active \in [Keys -> Entries \cup {None}]
    /\ entry \in [Entries -> [key : Keys \cup {None}, phase : Phases,
                              exit : Exits]]
    /\ pendingWake \in SUBSET Entries
    /\ stopping \in SUBSET Entries
    /\ forced \in SUBSET Entries
    /\ client \in [Clients -> [at : ClientStates, key : Keys \cup {None},
                               on : Entries \cup {None}, exit : Exits]]
    /\ \A c \in Clients :
          IF client[c].at = "idle" THEN client[c].on = None
                                   ELSE client[c].key \in Keys
    /\ owed \in SUBSET Keys

Live(e) == entry[e].phase # "none"

Free == {e \in Entries : ~Live(e)}

Init ==
    /\ active = [k \in Keys |-> None]
    /\ entry = [e \in Entries |-> Blank]
    /\ pendingWake = {} /\ stopping = {} /\ forced = {}
    /\ client = [c \in Clients |-> Rest]
    /\ owed = {}

-----------------------------------------------------------------------------
(* Operations of the coordinator.                                          *)

(* Mutant: a caller takes an entry that is being stopped for gone.         *)
IdleOrStopping(k) == active[k] = None \/ active[k] \in stopping

Idle(k) == active[k] = None

(* makeEntry() and start(key, entry, force), for the entry n.              *)
Starting(k) == [key |-> k, phase |-> "starting", exit |-> "success"]

StartFresh(k, n, force) ==
    /\ n \in Free
    /\ active' = [active EXCEPT ![k] = n]
    /\ entry' = [entry EXCEPT ![n] = Starting(k)]
    /\ forced' = IF force THEN forced \cup {n} ELSE forced
    /\ UNCHANGED <<pendingWake, stopping>>

(* run: join the active entry, wait out one that is stopping, or start a   *)
(* forced execution.                                                       *)
Awaits(k, e, at) == [at |-> at, key |-> k, on |-> e, exit |-> "success"]

RunJoins(c, k) ==
    /\ ~Idle(k)
    /\ client' = [client EXCEPT ![c] = Awaits(k, active[k],
           IF active[k] \in stopping THEN "cleanup" ELSE "joined")]
    /\ UNCHANGED <<active, entry, flags, owed>>

RunStarts(c, k) ==
    /\ Idle(k)
    /\ \E n \in Entries :
          /\ StartFresh(k, n, TRUE)
          /\ client' = [client EXCEPT ![c] = Awaits(k, n, "joined")]
    /\ UNCHANGED owed

run(c, k) == RunJoins(c, k) \/ RunStarts(c, k)

Run(c, k) == client[c].at = "idle" /\ run(c, k)

(* The continuation of a run that waited out a stopping entry.             *)
RunAgain(c) == client[c].at = "again" /\ run(c, client[c].key)

(* wake: one coalesced follow-up on the active entry, or an unforced       *)
(* execution.                                                              *)
(* Mutant: a drain that runs is trusted to find the new work itself.       *)
WakeUnlessRunning(k) ==
    /\ ~Idle(k)
    /\ pendingWake' = pendingWake \cup
           {e \in Entries : active[k] = e /\ entry[e].phase # "running"}
    /\ UNCHANGED <<active, entry, stopping, forced>>

WakeCoalesces(k) ==
    /\ ~Idle(k)
    /\ pendingWake' = pendingWake \cup {active[k]}
    /\ UNCHANGED <<active, entry, stopping, forced>>

WakeStarts(k) == Idle(k) /\ \E n \in Entries : StartFresh(k, n, FALSE)

Wake(k) ==
    /\ WakeCoalesces(k) \/ WakeStarts(k)
    /\ owed' = owed \cup {k}
    /\ UNCHANGED client

(* interrupt: forget the follow-up, interrupt the owner, wait for it.  An  *)
(* owner that has not entered drain yet exits at once; in drain, the       *)
(* finalizers run first.  An idle key is left alone.                       *)
Exited(en, phase, exit) == [key |-> en.key, phase |-> phase, exit |-> exit]

Interrupt(c, k) ==
    /\ client[c].at = "idle"
    /\ ~Idle(k)
    /\ stopping' = stopping \cup {active[k]}
    /\ pendingWake' = pendingWake \ {active[k]}
    /\ entry' = [entry EXCEPT ![active[k]] =
           IF @.phase = "starting" THEN Exited(@, "cancelled", "interrupted")
                                   ELSE @]
    /\ client' = [client EXCEPT ![c] = Awaits(k, active[k], "stopping")]
    /\ owed' = owed \ {k}
    /\ UNCHANGED <<active, forced>>

(* run is uninterruptible only up to its await: a waiting caller may be    *)
(* interrupted itself, which leaves the execution alone.                   *)
Abandon(c) ==
    /\ client[c].at \in {"joined", "cleanup"}
    /\ client' = [client EXCEPT ![c] = Rest]
    /\ UNCHANGED <<active, entry, flags, owed>>

Return(c) ==
    /\ client[c].at \in {"answered", "turnedAway"}
    /\ client' = [client EXCEPT ![c] = Rest]
    /\ UNCHANGED <<active, entry, flags, owed>>

-----------------------------------------------------------------------------
(* The owner fiber.                                                        *)

DrainBegin(e) ==
    /\ entry[e].phase = "starting"
    /\ entry' = [entry EXCEPT ![e].phase = "running"]
    /\ owed' = owed \ {entry[e].key}
    /\ UNCHANGED <<active, flags, client>>

(* drain exits: by itself with any exit (the runner interrupts itself when *)
(* its session moved or a question was rejected), or with the interruption *)
(* once its finalizers ran.                                                *)
DrainEnd(e, exit) ==
    /\ entry[e].phase = "running"
    /\ entry' = [entry EXCEPT ![e] = Exited(@, "settling", exit)]
    /\ UNCHANGED <<active, flags, client, owed>>

(* Deferred.doneUnsafe(entry.done, exit), and the exit of the fiber: every *)
(* caller waiting on e goes on.  `andThen(run(key))` runs only if the      *)
(* awaited done succeeded.                                                 *)
Resolved(cl, e, exit) ==
    IF cl.on # e THEN cl
    ELSE IF cl.at = "stopping" THEN Rest
    ELSE [at |-> IF cl.at = "joined" THEN "answered"
                 ELSE IF exit = "success" THEN "again" ELSE "turnedAway",
          key |-> cl.key, on |-> None, exit |-> exit]

(* Mutant: starting a successor returns before doneUnsafe.                 *)
CompleteUnlessWoken(e) ==
    IF e \in pendingWake THEN UNCHANGED client
    ELSE client' = [c \in Clients |-> Resolved(client[c], e, entry[e].exit)]

Complete(e) ==
    client' = [c \in Clients |-> Resolved(client[c], e, entry[e].exit)]

(* settle, first branch: the same entry runs its follow-up, and those who  *)
(* joined keep waiting.                                                    *)
(* Mutant: the stopping flag is not consulted.                             *)
FollowUpThoughStopped(e) == entry[e].exit = "success" /\ e \in pendingWake

FollowUp(e) ==
    entry[e].exit = "success" /\ e \notin stopping /\ e \in pendingWake

SettleFollowUp(e) ==
    /\ FollowUp(e)
    /\ pendingWake' = pendingWake \ {e}
    /\ forced' = forced \ {e}
    /\ entry' = [entry EXCEPT ![e].phase = "starting"]
    /\ UNCHANGED <<active, stopping, client, owed>>

(* settle, second branch: a wake that outlived the exit gets an entry of   *)
(* its own; otherwise the key becomes idle.                                *)
(* Mutant: only a failed run hands its follow-up on.                       *)
SuccessorOfFailure(e) == e \in pendingWake /\ entry[e].exit = "failure"

Successor(e) == e \in pendingWake

ClearFlags(e) ==
    /\ pendingWake' = pendingWake \ {e}
    /\ stopping' = stopping \ {e}
    /\ forced' = forced \ {e}

SettleSuccessor(e) ==
    /\ ~FollowUp(e)
    /\ Successor(e)
    /\ \E n \in Free :
          /\ active' = [active EXCEPT ![entry[e].key] = n]
          /\ entry' = [entry EXCEPT ![e] = Blank,
                                    ![n] = Starting(entry[e].key)]
    /\ ClearFlags(e)
    /\ Complete(e)
    /\ UNCHANGED owed

SettleIdle(e) ==
    /\ ~FollowUp(e)
    /\ ~Successor(e)
    /\ active' = [active EXCEPT ![entry[e].key] = None]
    /\ entry' = [entry EXCEPT ![e] = Blank]
    /\ ClearFlags(e)
    /\ Complete(e)
    /\ UNCHANGED owed

settle(e) ==
    /\ entry[e].phase \in {"settling", "cancelled"}
    /\ SettleFollowUp(e) \/ SettleSuccessor(e) \/ SettleIdle(e)

-----------------------------------------------------------------------------
ClientNext(c) ==
    \/ \E k \in Keys : Run(c, k) \/ Interrupt(c, k)
    \/ RunAgain(c)
    \/ Abandon(c)
    \/ Return(c)

OwnerNext(e) ==
    \/ DrainBegin(e)
    \/ \E exit \in Exits : DrainEnd(e, exit)
    \/ settle(e)

Next ==
    \/ \E c \in Clients : ClientNext(c)
    \/ \E k \in Keys : Wake(k)
    \/ \E e \in Entries : OwnerNext(e)

Spec == Init /\ [][Next]_vars

(* The runtime schedules every fiber that can go on, a drain eventually    *)
(* exits, and a run that waited out a cleanup continues.  Nobody is        *)
(* obliged to call anything.                                               *)
Fairness ==
    /\ \A e \in Entries : WF_vars(OwnerNext(e))
    /\ \A c \in Clients : WF_vars(RunAgain(c))

FairSpec == Spec /\ Fairness

-----------------------------------------------------------------------------
(* Properties.                                                             *)

(* The map and the owner fibers agree: a live entry is the one its key     *)
(* maps to and the other way round, so no two drains of one session can    *)
(* overlap ("Serializes execution for each key") and no key is left        *)
(* pointing at an entry whose fiber is gone.                               *)
OneOwner ==
    /\ \A e \in Entries :
          Live(e) => entry[e].key \in Keys /\ active[entry[e].key] = e
    /\ \A k \in Keys :
          active[k] # None => Live(active[k]) /\ entry[active[k]].key = k

(* Whoever waits, for done or for the fiber it interrupted, waits on the   *)
(* entry its key still maps to: settle leaves nobody behind.               *)
NobodyOrphaned ==
    \A c \in Clients :
        client[c].at \in {"joined", "cleanup", "stopping"} =>
            /\ client[c].on # None
            /\ client[c].key \in Keys
            /\ active[client[c].key] = client[c].on

(* A wake is never lost: until a drain begins for it (or an interrupt      *)
(* discards it) the key has an entry that is about to begin one, or that   *)
(* carries the coalesced follow-up.                                        *)
NoLostWake ==
    \A k \in owed :
        /\ active[k] # None
        /\ \/ active[k] \in pendingWake
           \/ entry[active[k]].phase = "starting"

(* Once an entry is told to stop it never enters drain again: the next     *)
(* drain of the key belongs to another entry.                              *)
StoppedStaysStopped ==
    [][\A e \in Entries :
         e \in stopping =>
            /\ entry'[e].phase = "running" => entry[e].phase = "running"
            /\ e \in stopping' \/ entry'[e] = Blank]_vars

(* A caller of run or interrupt waits for ever only if wakes keep coming:  *)
(* otherwise its entry settles and answers it.                             *)
Waiting(c) == client[c].at \in {"joined", "cleanup", "stopping"}

WaitersAnswered ==
    \A c \in Clients : []<>(Waiting(c) => client[c].key \in owed)

(* The coordinator implements the execution service.                       *)
Running == {<<entry[e].key, e>> : e \in
               {d \in Entries : entry[d].phase \in {"running", "settling"}}}

Owed == {k \in Keys : \E e \in Entries :
            /\ entry[e].key = k
            /\ e \in pendingWake \/ entry[e].phase = "starting"}

Service == INSTANCE SerialExecution
               WITH Runs <- Entries, running <- Running, owed <- Owed

ServiceSafety == Service!Safety
ServiceProvided == Service!ServiceSpec
=============================================================================
