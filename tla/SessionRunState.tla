--------------------------- MODULE SessionRunState ---------------------------
(***************************************************************************)
(* The V1 runtime's runner of a session and the map that holds it          *)
(* (packages/spinosa-kernel/src/effect/runner.ts and                       *)
(* packages/spinosa-kernel/src/session/run-state.ts).                      *)
(*                                                                         *)
(* A runner is a state behind a semaphore: Idle, Running a loop, running a *)
(* Shell, or a Shell with a loop that waits for it.  Callers ask for a     *)
(* loop, for a shell, or for a cancel, and may be interrupted wherever     *)
(* they wait.  The state leaves Running before the fiber it names is over, *)
(* and whoever finds it Idle at the end takes the session's runner,        *)
(* whichever that is by then, out of the map.                              *)
(*                                                                         *)
(* A call of ensureRunning or startShell names what it creates: a runner   *)
(* when the session has none, a run or a shell.                            *)
(***************************************************************************)
EXTENDS Sequences, SequencesExt

CONSTANTS
    Sessions,
    Loops,      \* calls of ensureRunning, each with the work it brings
    Shells,     \* calls of startShell
    Cancels,    \* calls of cancel
    Impatient,  \* the calls and cancels whose caller may be interrupted
    None        \* the absence of a runner, a run, a shell or a session

ASSUME KindsDisjoint ==
    /\ Loops \cap Shells = {}
    /\ None \notin Sessions \cup Loops \cup Shells

Calls == Loops \cup Shells

VARIABLES
    runners,    \* the map: session -> runner
    ref,        \* the state of each runner
    held,       \* the startShell that holds the runner's semaphore in onBusy
    queue,      \* who waits for the semaphore, in order
    call,       \* where each call is, on which runner, waiting for which run
    fiber,      \* the fiber of each call's work
    settled,    \* the runs whose deferred is completed
    stop,       \* where each cancel is
    data,       \* what SessionStatus.get returns
    evicted,    \* history: the sessions whose busy runner left the map
    unreported  \* history: the sessions a cancel left before it recorded idle,
                \* none having been recorded since

runVars == <<runners, ref, held, queue, call, fiber, settled, stop, data,
             evicted, unreported>>

histories == <<evicted, unreported>>

IdleState == [tag |-> "Idle", shell |-> None, run |-> None]

Tags == {"Idle", "Running", "Shell", "ShellThenRun"}

(* "setup": a shell that has not opened its latch; "doomed": the same, to  *)
(* be interrupted once it has; "unborn": a shell that was interrupted      *)
(* before it began, so that it neither opens its latch nor ever calls      *)
(* finishShell; "started": a loop that has not reported busy; "cleanup":   *)
(* interrupted, in its finalizers; "finishing": about to call finishRun or *)
(* finishShell; "idling": has left the map and published idle.             *)
Phases == {"none", "setup", "doomed", "unborn", "started", "working",
           "cleanup", "finishing", "idling", "over"}

Operations == {"enter", "finish", "cancel", "idle"} \X (Calls \cup Cancels)

RunTypeOK ==
    /\ runners \in [Sessions -> Calls \cup {None}]
    /\ ref \in [Calls -> [tag : Tags, shell : Shells \cup {None},
                          run : Loops \cup {None}]]
    /\ \A r \in Calls :
          /\ ref[r].shell # None <=> ref[r].tag \in {"Shell", "ShellThenRun"}
          /\ ref[r].run # None <=> ref[r].tag \in {"Running", "ShellThenRun"}
    /\ held \in [Calls -> Shells \cup {None}]
    /\ queue \in [Calls -> Seq(Operations)]
    /\ call \in [Calls -> [at : {"off", "queued", "onBusy", "waiting",
                                 "rejected", "answered"},
                           session : Sessions \cup {None},
                           on : Calls \cup {None}, run : Calls \cup {None}]]
    /\ fiber \in [Calls -> Phases]
    /\ settled \in SUBSET Loops
    /\ stop \in [Cancels -> [at : {"off", "queued", "ready", "awaits",
                                   "queuedIdle", "idling", "left", "over"},
                             session : Sessions \cup {None},
                             on : Calls \cup {None}, shell : Shells \cup {None},
                             run : Loops \cup {None}]]
    /\ data \in [Sessions -> {"idle", "busy"}]
    /\ evicted \in SUBSET Sessions
    /\ unreported \in SUBSET Sessions

RunInit ==
    /\ runners = [s \in Sessions |-> None]
    /\ ref = [r \in Calls |-> IdleState]
    /\ held = [r \in Calls |-> None]
    /\ queue = [r \in Calls |-> <<>>]
    /\ call = [c \in Calls |-> [at |-> "off", session |-> None, on |-> None,
                                run |-> None]]
    /\ fiber = [c \in Calls |-> "none"]
    /\ settled = {}
    /\ stop = [x \in Cancels |-> [at |-> "off", session |-> None, on |-> None,
                                  shell |-> None, run |-> None]]
    /\ data = [s \in Sessions |-> "idle"]
    /\ evicted = {}
    /\ unreported = {}

-----------------------------------------------------------------------------
(* The semaphore of a SynchronizedRef: taken and released in one           *)
(* synchronous step by every operation but startShell, which awaits onBusy *)
(* inside it; whoever comes meanwhile is woken in order once it is         *)
(* released, and whoever comes then need not wait for them.                *)
Free(r) == held[r] = None

Turn(r, op) ==
    /\ Free(r)
    /\ \/ ~Contains(queue[r], op) /\ UNCHANGED queue
       \/ /\ queue[r] # <<>> /\ Head(queue[r]) = op
          /\ queue' = [queue EXCEPT ![r] = Tail(@)]

MustWait(r, op) ==
    /\ ~Free(r)
    /\ ~Contains(queue[r], op)
    /\ queue' = [queue EXCEPT ![r] = Append(@, op)]

(* Whoever is interrupted while it waits leaves the queue.                 *)
Leaves(r, op) ==
    \E i \in DOMAIN queue[r] :
        /\ queue[r][i] = op
        /\ queue' = [queue EXCEPT ![r] = RemoveAt(@, i)]

(* assertNotBusy fails.                                                    *)
Busy(s) == runners[s] # None /\ ref[runners[s]].tag # "Idle"

(* onIdle of runner r, up to its await: the map forgets the runner of the  *)
(* session, whichever it is, and the calls that wait inside it.            *)
CallsInside(r) ==
    \E c \in Calls : call[c].at \in {"onBusy", "queued"} /\ call[c].on = r

Deletes(s, r) ==
    /\ runners' = [runners EXCEPT ![s] = None]
    /\ evicted' = IF (runners[s] # r /\ Busy(s)) \/ CallsInside(runners[s])
                  THEN evicted \cup {s} ELSE evicted

Keeps == UNCHANGED <<runners, evicted>>

-----------------------------------------------------------------------------
(* run-state.ts, runner(): the session's runner, made if there is none.    *)
RunnerOf(c, s) == IF runners[s] = None THEN c ELSE runners[s]

CallGoes(c, s, r, at, run) ==
    call' = [call EXCEPT ![c] = [at |-> at, session |-> s, on |-> r,
                                 run |-> run]]

(* ensureRunning, under the semaphore: join the run there is, wait for the *)
(* shell there is, or start.                                               *)
Joins(c, s, r) ==
    /\ ref[r].run # None
    /\ CallGoes(c, s, r, "waiting", ref[r].run)
    /\ UNCHANGED <<ref, fiber>>

(* Mutant: the loop is kept, the state's tag is not changed.               *)
WaitsUntagged(c, s, r) ==
    /\ ref[r].tag = "Shell"
    /\ ref' = [ref EXCEPT ![r].run = c]
    /\ CallGoes(c, s, r, "waiting", c)
    /\ UNCHANGED fiber

WaitsForShell(c, s, r) ==
    /\ ref[r].tag = "Shell"
    /\ ref' = [ref EXCEPT ![r] = [@ EXCEPT !.tag = "ShellThenRun", !.run = c]]
    /\ CallGoes(c, s, r, "waiting", c)
    /\ UNCHANGED fiber

Running(c) == [tag |-> "Running", shell |-> None, run |-> c]

Starts(c, s, r) ==
    /\ ref[r].tag = "Idle"
    /\ ref' = [ref EXCEPT ![r] = Running(c)]
    /\ CallGoes(c, s, r, "waiting", c)
    /\ fiber' = [fiber EXCEPT ![c] = "started"]

LoopEnters(c, s, r) ==
    /\ Joins(c, s, r) \/ WaitsForShell(c, s, r) \/ Starts(c, s, r)
    /\ UNCHANGED held

(* startShell: rejected unless Idle; else it reports busy, still under the *)
(* semaphore.                                                              *)
Rejected(r) == ref[r].tag # "Idle"

ShellEnters(h, s, r) ==
    /\ \/ Rejected(r) /\ CallGoes(h, s, r, "rejected", None) /\ UNCHANGED held
       \/ /\ ~Rejected(r)
          /\ CallGoes(h, s, r, "onBusy", None)
          /\ held' = [held EXCEPT ![r] = h]
    /\ UNCHANGED <<ref, fiber>>

Enters(c, s, r) == \/ c \in Loops /\ LoopEnters(c, s, r)
                   \/ c \in Shells /\ ShellEnters(c, s, r)

(* A call looks its runner up and enters in one synchronous step, unless   *)
(* the semaphore is held.                                                  *)
Called(c, s) ==
    /\ call[c].at = "off"
    /\ LET r == RunnerOf(c, s) IN
          /\ runners' = [runners EXCEPT ![s] = r]
          /\ \/ Free(r) /\ Enters(c, s, r) /\ UNCHANGED queue
             \/ /\ MustWait(r, <<"enter", c>>)
                /\ CallGoes(c, s, r, "queued", None)
                /\ UNCHANGED <<ref, fiber, held>>
    /\ UNCHANGED <<settled, stop, data, histories>>

Admitted(c) ==
    /\ call[c].at = "queued"
    /\ Turn(call[c].on, <<"enter", c>>)
    /\ Enters(c, call[c].session, call[c].on)
    /\ UNCHANGED <<runners, settled, stop, data, histories>>

(* The rest of startShell: busy is recorded, the shell's fiber forked, the *)
(* semaphore released.                                                     *)
ShellStarts(h) ==
    /\ call[h].at = "onBusy"
    /\ LET r == call[h].on IN
          /\ ref' = [ref EXCEPT ![r] = [tag |-> "Shell", shell |-> h,
                                        run |-> None]]
          /\ held' = [held EXCEPT ![r] = None]
    /\ call' = [call EXCEPT ![h].at = "waiting", ![h].run = h]
    /\ fiber' = [fiber EXCEPT ![h] = "setup"]
    /\ data' = [data EXCEPT ![call[h].session] = "busy"]
    /\ UNCHANGED <<runners, queue, settled, stop, histories>>

(* What an interruption makes of a fiber.  One that has not begun is over  *)
(* at once, without its finalizers; one before its latch, in finishRun or  *)
(* in finishShell cannot be interrupted there.                             *)
Interrupted(phase) ==
    CASE phase = "started" -> {"finishing", "over"}
      [] phase = "setup" -> {"doomed", "unborn"}
      [] phase = "working" -> {"cleanup"}
      [] OTHER -> {phase}

(* A caller interrupted before it got in leaves the queue, or releases the *)
(* semaphore it holds in onBusy; a loop goes on without the caller that    *)
(* waits for it, a shell is interrupted with it (forkChild).               *)
CallAbandoned(c) ==
    /\ c \in Impatient
    /\ \/ /\ call[c].at = "queued"
          /\ Leaves(call[c].on, <<"enter", c>>)
          /\ call' = [call EXCEPT ![c].at = "rejected"]
          /\ UNCHANGED <<held, fiber>>
       \/ /\ call[c].at = "onBusy"
          /\ held' = [held EXCEPT ![call[c].on] = None]
          /\ call' = [call EXCEPT ![c].at = "rejected"]
          /\ UNCHANGED <<queue, fiber>>
       \/ /\ call[c].at = "waiting"
          /\ IF c \in Shells
             THEN \E phase \in Interrupted(fiber[c]) :
                     fiber' = [fiber EXCEPT ![c] = phase]
             ELSE UNCHANGED fiber
          /\ call' = [call EXCEPT ![c].at = "answered"]
          /\ UNCHANGED <<held, queue>>
    /\ UNCHANGED <<runners, ref, settled, stop, data, histories>>

(* awaitDone, and startShell's await of its fiber.                         *)
Answered(c) ==
    /\ call[c].at = "waiting"
    /\ IF c \in Loops THEN call[c].run \in settled ELSE fiber[c] = "over"
    /\ call' = [call EXCEPT ![c].at = "answered"]
    /\ UNCHANGED <<runners, ref, held, queue, fiber, settled, stop, data, histories>>

-----------------------------------------------------------------------------
(* The fibers.  A run or a shell belongs to the runner its call entered.   *)
Host(c) == call[c].on

FiberGoes(c, from, to) ==
    /\ fiber[c] = from
    /\ fiber' = [fiber EXCEPT ![c] = to]

(* runLoop reports busy when it begins.                                    *)
LoopBegins(c) ==
    /\ FiberGoes(c, "started", "working")
    /\ data' = [data EXCEPT ![call[c].session] = "busy"]
    /\ UNCHANGED <<runners, ref, held, queue, call, settled, stop, histories>>

(* shellImpl opens its latch once its records exist, or that failed.       *)
ShellReady(h) ==
    /\ \/ FiberGoes(h, "setup", "working") \/ FiberGoes(h, "setup", "finishing")
       \/ FiberGoes(h, "doomed", "cleanup") \/ FiberGoes(h, "doomed", "finishing")
    /\ UNCHANGED <<runners, ref, held, queue, call, settled, stop, data, histories>>

(* The work ends by itself, or its finalizers do.                          *)
WorkEnds(c) ==
    /\ FiberGoes(c, "working", "finishing") \/ FiberGoes(c, "cleanup", "finishing")
    /\ UNCHANGED <<runners, ref, held, queue, call, settled, stop, data, histories>>

(* finishRun: a run that is still the runner's makes it Idle; any run      *)
(* completes its deferred, after the report.                               *)
(* Mutant: the run's id is not compared.                                   *)
IsCurrentTag(r, c) == ref[r].tag = "Running"

IsCurrent(r, c) == ref[r].tag = "Running" /\ ref[r].run = c

FinishRun(c) ==
    /\ c \in Loops /\ fiber[c] = "finishing"
    /\ Turn(Host(c), <<"finish", c>>)
    /\ IF IsCurrent(Host(c), c)
       THEN /\ ref' = [ref EXCEPT ![Host(c)] = IdleState]
            /\ Deletes(call[c].session, Host(c))
            /\ fiber' = [fiber EXCEPT ![c] = "idling"]
            /\ UNCHANGED settled
       ELSE /\ fiber' = [fiber EXCEPT ![c] = "over"]
            /\ settled' = settled \cup {c}
            /\ Keeps /\ UNCHANGED ref
    /\ UNCHANGED <<held, call, stop, data, unreported>>

(* finishShell: the runner becomes Idle, or the loop that waited starts.   *)
FinishShell(h) ==
    /\ h \in Shells /\ fiber[h] = "finishing"
    /\ Turn(Host(h), <<"finish", h>>)
    /\ LET r == Host(h) IN
          \/ /\ ref[r].tag = "Shell" /\ ref[r].shell = h
             /\ ref' = [ref EXCEPT ![r] = IdleState]
             /\ Deletes(call[h].session, r)
             /\ fiber' = [fiber EXCEPT ![h] = "idling"]
          \/ /\ ref[r].tag = "ShellThenRun" /\ ref[r].shell = h
             /\ ref' = [ref EXCEPT ![r] = Running(ref[r].run)]
             /\ fiber' = [fiber EXCEPT ![h] = "over",
                                       ![ref[r].run] = "started"]
             /\ Keeps
          \/ /\ ref[r].shell # h
             /\ fiber' = [fiber EXCEPT ![h] = "over"]
             /\ Keeps /\ UNCHANGED ref
    /\ UNCHANGED <<held, call, settled, stop, data, unreported>>

FinishWaits(c) ==
    /\ fiber[c] = "finishing"
    /\ MustWait(Host(c), <<"finish", c>>)
    /\ UNCHANGED <<runners, ref, held, call, fiber, settled, stop, data, histories>>

(* The rest of onIdle: idle is recorded, and done completed.               *)
RecordsIdle(s) ==
    /\ data' = [data EXCEPT ![s] = "idle"]
    /\ unreported' = unreported \ {s}

Idles(c) ==
    /\ FiberGoes(c, "idling", "over")
    /\ RecordsIdle(call[c].session)
    /\ settled' = settled \cup ({c} \cap Loops)
    /\ UNCHANGED <<runners, ref, held, queue, call, stop, evicted>>

-----------------------------------------------------------------------------
(* cancel.                                                                 *)
StopGoes(x, at) == stop' = [stop EXCEPT ![x].at = at]

Stopping(x, s, r, at) ==
    stop' = [stop EXCEPT ![x] = [at |-> at, session |-> s, on |-> r,
                                 shell |-> ref[r].shell, run |-> ref[r].run]]

(* Under the semaphore: the state becomes Idle before anything is stopped. *)
(* Mutant: the loop behind a shell is forgotten, not failed.               *)
StopsShellOnly(x, s, r) ==
    /\ ref[r].tag # "Idle"
    /\ ref' = [ref EXCEPT ![r] = IdleState]
    /\ IF ref[r].shell # None
       THEN stop' = [stop EXCEPT ![x] = [at |-> "ready", session |-> s,
                        on |-> r, shell |-> ref[r].shell, run |-> None]]
            /\ UNCHANGED fiber
       ELSE /\ Stopping(x, s, r, "awaits")
            /\ \E phase \in Interrupted(fiber[ref[r].run]) :
                  fiber' = [fiber EXCEPT ![ref[r].run] = phase]

Stops(x, s, r) ==
    /\ ref[r].tag # "Idle"
    /\ ref' = [ref EXCEPT ![r] = IdleState]
    /\ IF ref[r].shell # None
       THEN Stopping(x, s, r, "ready") /\ UNCHANGED fiber
       ELSE /\ Stopping(x, s, r, "awaits")
            /\ \E phase \in Interrupted(fiber[ref[r].run]) :
                  fiber' = [fiber EXCEPT ![ref[r].run] = phase]

FindsIdle(x, s, r) ==
    /\ ref[r].tag = "Idle"
    /\ stop' = [stop EXCEPT ![x].at = "over"]
    /\ UNCHANGED <<ref, fiber>>

CancelEnters(x, s, r) == Stops(x, s, r) \/ FindsIdle(x, s, r)

CancelCalled(x, s) ==
    /\ stop[x].at = "off"
    /\ LET r == runners[s] IN
          \/ /\ r = None
             /\ stop' = [stop EXCEPT ![x].at = "idling", ![x].session = s]
             /\ UNCHANGED <<ref, fiber, queue>>
          \/ /\ r # None /\ Free(r) /\ UNCHANGED queue
             /\ CancelEnters(x, s, r)
          \/ /\ r # None
             /\ MustWait(r, <<"cancel", x>>)
             /\ stop' = [stop EXCEPT ![x].at = "queued", ![x].session = s,
                                     ![x].on = r]
             /\ UNCHANGED <<ref, fiber>>
    /\ UNCHANGED <<runners, held, call, settled, data, histories>>

CancelAdmitted(x) ==
    /\ stop[x].at = "queued"
    /\ Turn(stop[x].on, <<"cancel", x>>)
    /\ CancelEnters(x, stop[x].session, stop[x].on)
    /\ UNCHANGED <<runners, held, call, settled, data, histories>>

(* stopShell: wait for the shell's latch, then interrupt it.               *)
StopsShell(x) ==
    /\ stop[x].at = "ready"
    /\ LET h == stop[x].shell IN
          /\ fiber[h] \notin {"setup", "doomed", "unborn"}
          /\ \E phase \in Interrupted(fiber[h]) :
                fiber' = [fiber EXCEPT ![h] = phase]
    /\ StopGoes(x, "awaits")
    /\ UNCHANGED <<runners, ref, held, queue, call, settled, data, histories>>

(* Then, the fiber being over: fail the run's deferred and, if the runner  *)
(* is Idle still, take the session's runner out of the map.                *)
Target(x) == IF stop[x].shell # None THEN stop[x].shell ELSE stop[x].run

(* Mutant: a cancel leaves the report to the work it stopped.               *)
NeverIdles(x, r) == StopGoes(x, "over") /\ Keeps

(* Mutant: the state is not looked at again.                               *)
IdleRegardless(x, r) ==
    /\ Deletes(stop[x].session, r)
    /\ StopGoes(x, "idling")

IdleIfCurrent(x, r) ==
    \/ /\ ref[r].tag = "Idle"
       /\ Deletes(stop[x].session, r)
       /\ StopGoes(x, "idling")
    \/ ref[r].tag # "Idle" /\ StopGoes(x, "over") /\ Keeps

CancelAwaited(x) ==
    /\ stop[x].at = "awaits"
    /\ fiber[Target(x)] = "over"
    /\ settled' = settled \cup ({stop[x].run} \ {None})
    /\ \/ Free(stop[x].on) /\ IdleIfCurrent(x, stop[x].on) /\ UNCHANGED queue
       \/ /\ MustWait(stop[x].on, <<"idle", x>>)
          /\ StopGoes(x, "queuedIdle")
          /\ Keeps
    /\ UNCHANGED <<ref, held, call, fiber, data, unreported>>

CancelIdles(x) ==
    /\ stop[x].at = "queuedIdle"
    /\ Turn(stop[x].on, <<"idle", x>>)
    /\ IdleIfCurrent(x, stop[x].on)
    /\ UNCHANGED <<ref, held, call, fiber, settled, data, unreported>>

CancelRecords(x) ==
    /\ stop[x].at = "idling"
    /\ RecordsIdle(stop[x].session)
    /\ StopGoes(x, "over")
    /\ UNCHANGED <<runners, ref, held, queue, call, fiber, settled, evicted>>

(* A cancel interrupted where it awaits does nothing of what it had still  *)
(* to do, though the runner is Idle by then.  An await of what is over     *)
(* already is none.                                                        *)
CancelAbandoned(x) ==
    /\ x \in Impatient
    /\ \/ /\ stop[x].at = "queued"
          /\ Leaves(stop[x].on, <<"cancel", x>>)
          /\ StopGoes(x, "over") /\ UNCHANGED unreported
       \/ /\ \/ stop[x].at \in {"ready", "idling"} /\ UNCHANGED queue
             \/ stop[x].at = "awaits" /\ fiber[Target(x)] # "over"
                   /\ UNCHANGED queue
             \/ stop[x].at = "queuedIdle" /\ Leaves(stop[x].on, <<"idle", x>>)
          /\ StopGoes(x, "left")
          /\ unreported' = unreported \cup {stop[x].session}
    /\ UNCHANGED <<runners, ref, held, call, fiber, settled, data, evicted>>

-----------------------------------------------------------------------------
CallNext(c) == Admitted(c) \/ Answered(c)

FiberNext(c) ==
    \/ LoopBegins(c) \/ ShellReady(c) \/ WorkEnds(c)
    \/ FinishRun(c) \/ FinishShell(c) \/ FinishWaits(c) \/ Idles(c)

CancelNext(x) ==
    \/ CancelAdmitted(x) \/ StopsShell(x) \/ CancelAwaited(x)
    \/ CancelIdles(x) \/ CancelRecords(x)

RunNext ==
    \/ \E c \in Calls : CallNext(c) \/ FiberNext(c) \/ CallAbandoned(c)
                         \/ \E s \in Sessions : Called(c, s)
    \/ \E h \in Shells : ShellStarts(h)
    \/ \E x \in Cancels : CancelNext(x) \/ CancelAbandoned(x)
                           \/ \E s \in Sessions : CancelCalled(x, s)

RunSpec == RunInit /\ [][RunNext]_runVars

(* Every fiber that can go on does, and a loop or a shell comes to an end: *)
(* providers have timeouts, and the finalizers of both are short.  Nobody  *)
(* need give up.                                                           *)
RunFairness ==
    /\ \A c \in Calls : WF_runVars(CallNext(c)) /\ WF_runVars(FiberNext(c))
    /\ \A h \in Shells : WF_runVars(ShellStarts(h))
    /\ \A x \in Cancels : WF_runVars(CancelNext(x))

RunFairSpec == RunSpec /\ RunFairness

-----------------------------------------------------------------------------
(* Properties.                                                             *)

(* Work nobody has interrupted: it may still change the session.           *)
AtWork(c) == fiber[c] \in {"setup", "started", "working"}

(* A cancel has claimed the work and is to stop it; or it had, and gave up *)
(* before it was done, which leaves a shell it was to interrupt at work    *)
(* with its runner Idle.                                                   *)
Claimed(c) == \E x \in Cancels : /\ stop[x].at \in {"ready", "awaits"}
                                 /\ c \in {stop[x].shell, stop[x].run}

Forsaken(c) == \E x \in Cancels : /\ stop[x].at = "left"
                                  /\ c \in {stop[x].shell, stop[x].run}

(* Of the loops and shells a runner started, at most one is at work that   *)
(* no cancel has claimed, the one its state names ("shell runs             *)
(* exclusively", runner.test.ts): replacement work may overlap with the    *)
(* finalizers of cancelled work, never with work.  The exception is a      *)
(* shell whose cancel was itself interrupted while it awaited the latch    *)
(* (runner.ts:110): that shell works on beside what comes next.            *)
WorkIsExclusive ==
    \A c \in Calls : AtWork(c) /\ ~Claimed(c) /\ ~Forsaken(c) =>
        c \in {ref[Host(c)].shell, ref[Host(c)].run}

(* A run behind a shell that nothing will settle: the cancel that was to   *)
(* fail it gave up in stopShell, or the shell was interrupted before it    *)
(* began, and neither finishShell nor a cancel gets past it.               *)
Deserted(run) ==
    \/ \E x \in Cancels :
          /\ stop[x].run = run /\ stop[x].shell # None
          /\ stop[x].at = "left" \/ fiber[stop[x].shell] = "unborn"
    \/ LET st == ref[Host(run)] IN
          st.run = run /\ st.shell # None /\ fiber[st.shell] = "unborn"

(* Nobody waits for a run that nothing will settle: its fiber goes on, it  *)
(* waits behind a shell that does, or a cancel is about to fail it; the    *)
(* deserted runs excepted.                                                 *)
NobodyStranded ==
    \A c \in Loops : call[c].at = "waiting" /\ call[c].run \notin settled =>
        LET run == call[c].run IN
        \/ fiber[run] \notin {"none", "over"}
        \/ ref[Host(run)].tag = "ShellThenRun" /\ ref[Host(run)].run = run
              /\ fiber[ref[Host(run)].shell] \notin {"none", "over", "unborn"}
        \/ \E x \in Cancels : stop[x].run = run /\ stop[x].at \in {"ready", "awaits"}
        \/ Deserted(run)

(* Work at hand can be found: the session's runner in the map is the one   *)
(* that hosts it, so assertNotBusy fails and cancel reaches it, unless a   *)
(* cancel has taken the runner out of the map too late, or made it Idle    *)
(* and given up on the work.                                               *)
WorkIsReachable ==
    \A c \in Calls : AtWork(c) /\ ~Claimed(c) /\ ~Forsaken(c) =>
        \/ runners[call[c].session] = Host(c)
        \/ call[c].session \in evicted

(* The same without the exceptions, as prompt.test.ts has it               *)
(* ("assertNotBusy fails with BusyError when loop running").               *)
RunningIsBusy ==
    \A c \in Loops : fiber[c] = "working" /\ ~Claimed(c) => Busy(call[c].session)

(* A session nobody works on shows idle, however the reports of its        *)
(* runners and of its cancels were ordered, unless a cancel was            *)
(* interrupted between making the runner Idle and recording idle           *)
(* (runner.ts:178-180) and nothing has recorded it since.  A shell that    *)
(* was interrupted before it began is never over.                          *)
Reporting(x) == stop[x].at \in {"ready", "awaits", "queuedIdle", "idling"}

QuietShowsIdle ==
    \A s \in Sessions :
        \/ data[s] = "idle"
        \/ \E c \in Calls : /\ call[c].session = s /\ ~Forsaken(c)
                             /\ fiber[c] \notin {"none", "over"}
        \/ \E x \in Cancels : stop[x].session = s /\ Reporting(x)
        \/ s \in unreported

(* Every caller is answered, and every cancel returns, so the session      *)
(* falls quiet again and again: but for the callers of deserted runs and   *)
(* the cancels that await the latch of a shell that never began.           *)
CallsReturn ==
    []<>(/\ \A c \in Calls :
              \/ call[c].at \in {"off", "rejected", "answered"}
              \/ c \in Loops /\ call[c].at = "waiting" /\ Deserted(call[c].run)
         /\ \A x \in Cancels :
              \/ stop[x].at \in {"off", "left", "over"}
              \/ stop[x].at = "ready" /\ fiber[stop[x].shell] = "unborn")
=============================================================================
