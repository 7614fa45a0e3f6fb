------------------------------ MODULE TaskTool ------------------------------
(***************************************************************************)
(* Subagent tasks: the task tool                                           *)
(* (packages/spinosa-kernel/src/tool/task.ts) over the registry of         *)
(* background jobs, with the two others that touch a task's job: the       *)
(* request that moves a session's tasks to the background                  *)
(* (handlers/experimental.ts, sessionBackground) and whoever cancels a     *)
(* session (session/run-state.ts, cancelBackgroundJobs).                   *)
(*                                                                         *)
(* A call of the tool extends the job of its session if it runs, starts it *)
(* otherwise, and then waits for the result (foreground) or arranges to    *)
(* have it injected into the parent session (notify, background).          *)
(***************************************************************************)
EXTENDS BackgroundJob

CONSTANTS
    CallModes,          \* how calls may ask for their task
    Promoters           \* requests that promote jobs

ASSUME TaskAssumption == CallModes \subseteq Modes

VARIABLES
    call,       \* where each call of the tool is, and what it returned
    promoter,   \* where each promote is
    notifier,   \* notify fibers: <<call whose arguments it has, incarnation>>
    injected,   \* those that injected their result into the parent session
    shared,     \* history: incarnations whose result another call than the one
                \*   that started them waits for: a start joined them, or they
                \*   replaced the job a call looks up again by id
    unheard     \* history: incarnations whose promotion ended before notify

toolVars == <<call, promoter, notifier, injected, shared, unheard>>
taskVars == <<jobVars, toolVars>>

(* "updated": told that the running task was extended; "background": told  *)
(* that it runs in the background.                                         *)
Outcomes == {"none", "updated", "background", "completed", "error",
             "cancelled", "interrupted"}

CallStates == {"idle", "extend", "start", "fork", "deliver", "race", "returned"}

NotCalled == [at |-> "idle", job |-> None, mode |-> "foreground", on |-> None,
              outcome |-> "none"]

NotPromoting == [at |-> "idle", job |-> None, token |-> None]

TaskTypeOK ==
    /\ JobType
    /\ call \in [Calls -> [at : CallStates, job : Jobs \cup {None}, mode : Modes,
                           on : Calls \cup {None}, outcome : Outcomes]]
    /\ promoter \in [Promoters -> [at : {"idle", "deferred", "hook"},
                                   job : Jobs \cup {None},
                                   token : Calls \cup {None}]]
    /\ injected \subseteq notifier /\ notifier \subseteq Calls \X Calls
    /\ shared \subseteq Calls /\ unheard \subseteq Calls

TaskInit ==
    /\ JobInit
    /\ call = [c \in Calls |-> NotCalled]
    /\ promoter = [p \in Promoters |-> NotPromoting]
    /\ notifier = {} /\ injected = {} /\ shared = {} /\ unheard = {}

-----------------------------------------------------------------------------
(* A call of the tool.                                                     *)
CallGoes(c, at) == call' = [call EXCEPT ![c].at = at]

Returns(c, outcome) ==
    call' = [call EXCEPT ![c].at = "returned", ![c].outcome = outcome]

Called(c, j, mode) ==
    /\ call[c].at = "idle"
    /\ call' = [call EXCEPT ![c].at = "extend", ![c].job = j, ![c].mode = mode]
    /\ UNCHANGED <<jobVars, promoter, notifier, injected, shared, unheard>>

Extend(c) ==
    LET j == call[c].job IN
    /\ call[c].at = "extend"
    /\ \/ /\ ExtendRegisters(c, j)
          /\ call' = [call EXCEPT ![c].at = "fork", ![c].on = job[j].token]
       \/ ~IsRunning(j) /\ CallGoes(c, "start") /\ UNCHANGED jobVars
    /\ UNCHANGED <<promoter, notifier, injected, shared, unheard>>

Start(c) ==
    LET j == call[c].job IN
    /\ call[c].at = "start"
    /\ \/ /\ StartRegisters(c, j, call[c].mode)
          /\ CallGoes(c, "fork")
       \/ /\ IsRunning(j)
          /\ CallGoes(c, "deliver")
          /\ UNCHANGED jobVars
    /\ UNCHANGED <<promoter, notifier, injected, shared, unheard>>

ForkWork(c) ==
    /\ call[c].at = "fork"
    /\ Fork(c)
    /\ IF work[c].seq > 0 THEN Returns(c, "updated") ELSE CallGoes(c, "deliver")
    /\ UNCHANGED <<promoter, notifier, injected, shared, unheard>>

(* notify, wait and waitForPromotion look the job up by its id once more.  *)
LooksUp(c, j) == shared' = shared \cup ({job[j].token} \ {c})

Notify(c, j) == notifier' = notifier \cup {<<c, job[j].token>>}

(* A job found ended or in the background answers at once.                 *)
Answer(j) == IF job[j].mode = "background" THEN "background" ELSE job[j].status

Deliver(c) ==
    LET j == call[c].job
        t == job[j].token IN
    /\ call[c].at = "deliver"
    /\ \/ /\ call[c].mode = "background"
          /\ Notify(c, j)
          /\ call' = [call EXCEPT ![c].at = "returned", ![c].on = t,
                                  ![c].outcome = "background"]
       \/ /\ call[c].mode = "foreground" /\ Answer(j) # "running"
          /\ call' = [call EXCEPT ![c].at = "returned", ![c].on = t,
                                  ![c].outcome = Answer(j)]
          /\ UNCHANGED notifier
       \/ /\ call[c].mode = "foreground" /\ Answer(j) = "running"
          /\ call' = [call EXCEPT ![c].at = "race", ![c].on = t]
          /\ UNCHANGED notifier
    /\ LooksUp(c, j)
    /\ UNCHANGED <<jobVars, promoter, injected, unheard>>

(* The race of wait and waitForPromotion for the job's deferreds.          *)
Wins(c) ==
    LET t == call[c].on IN
    /\ call[c].at = "race"
    /\ \/ /\ t \in published
          /\ Returns(c, IF final[t].mode = "background" THEN "background"
                        ELSE final[t].status)
       \/ t \in promoted /\ Returns(c, "background")
    /\ UNCHANGED <<jobVars, promoter, notifier, injected, shared, unheard>>

(* The tool call is interrupted: it cancels its session's job, if any.     *)
Interrupted(c) ==
    LET j == call[c].job IN
    /\ call[c].at = "race"
    /\ Returns(c, "interrupted")
    /\ CancelJob(j) \/ (~IsRunning(j) /\ UNCHANGED jobVars)
    /\ UNCHANGED <<promoter, notifier, injected, shared, unheard>>

(* The notify fiber: a completed or failed job is injected.                *)
(* Mutant: only completed jobs are reported.                               *)
InjectCompleted(c, t) ==
    /\ <<c, t>> \in notifier \ injected
    /\ t \in published /\ final[t].status = "completed"
    /\ injected' = injected \cup {<<c, t>>}
    /\ UNCHANGED <<jobVars, call, promoter, notifier, shared, unheard>>

Inject(c, t) ==
    /\ <<c, t>> \in notifier \ injected
    /\ t \in published /\ final[t].status # "cancelled"
    /\ injected' = injected \cup {<<c, t>>}
    /\ UNCHANGED <<jobVars, call, promoter, notifier, shared, unheard>>

-----------------------------------------------------------------------------
(* promote, in its three steps, and the hook of the call that started the  *)
(* job.                                                                    *)
Promote(p, j) ==
    /\ promoter[p].at = "idle"
    /\ PromoteMarks(j)
    /\ promoter' = [promoter EXCEPT ![p] =
           [at |-> "deferred", job |-> j, token |-> job[j].token]]
    /\ UNCHANGED <<call, notifier, injected, shared, unheard>>

PromoteResolves(p) ==
    /\ promoter[p].at = "deferred"
    /\ PromoteCompletes(promoter[p].token)
    /\ promoter' = [promoter EXCEPT ![p].at = "hook"]
    /\ UNCHANGED <<call, notifier, injected, shared, unheard>>

PromoteHook(p) ==
    /\ promoter[p].at = "hook"
    /\ Notify(promoter[p].token, promoter[p].job)
    /\ LooksUp(promoter[p].token, promoter[p].job)
    /\ promoter' = [promoter EXCEPT ![p] = NotPromoting]
    /\ UNCHANGED <<jobVars, call, injected, unheard>>

(* The request is interrupted, or the hook's ctx.metadata fails, which is  *)
(* ignored: nobody calls notify.                                           *)
PromoteStops(p) ==
    /\ promoter[p].at # "idle"
    /\ promoter' = [promoter EXCEPT ![p] = NotPromoting]
    /\ unheard' = unheard \cup {promoter[p].token}
    /\ UNCHANGED <<jobVars, call, notifier, injected, shared>>

Cancel(j) == CancelJob(j) /\ UNCHANGED toolVars

-----------------------------------------------------------------------------
CallNext(c) ==
    \/ Extend(c) \/ Start(c) \/ ForkWork(c) \/ Deliver(c) \/ Wins(c)
    \/ \E t \in Calls : Inject(c, t)

WorkNext(c) ==
    /\ \/ WorkBegins(c) \/ WorkInterrupted(c) \/ Settle(c)
       \/ \E exit \in Exits : WorkEnds(c, exit)
       \/ PublishEnd(c)
    /\ UNCHANGED toolVars

PromoterNext(p) == PromoteResolves(p) \/ PromoteHook(p)

TaskNext ==
    \/ \E c \in Calls : CallNext(c) \/ WorkNext(c) \/ Interrupted(c)
    \/ \E c \in Calls, j \in Jobs, mode \in CallModes : Called(c, j, mode)
    \/ \E p \in Promoters : PromoterNext(p) \/ PromoteStops(p)
    \/ \E p \in Promoters, j \in Jobs : Promote(p, j)
    \/ \E j \in Jobs : Cancel(j)

TaskSpec == TaskInit /\ [][TaskNext]_taskVars

TaskFairness ==
    /\ \A c \in Calls : WF_taskVars(CallNext(c)) /\ WF_taskVars(WorkNext(c))
    /\ \A p \in Promoters : WF_taskVars(PromoterNext(p))

TaskFairSpec == TaskSpec /\ TaskFairness

-----------------------------------------------------------------------------
(* Properties.                                                             *)

(* The work of one incarnation is done one piece at a time, in the order   *)
(* it was registered, however earlier pieces ended, until its scope is     *)
(* closed ("runs extensions after earlier work completes").                *)
WorkInOrder ==
    \A c, d \in Calls :
        /\ work[c].token = work[d].token /\ work[c].seq < work[d].seq
        /\ work[d].at \in {"working", "settling"}
        => work[c].at \in {"settling", "over"} \/ work[c].token \in published

(* A completed incarnation is complete: everything registered on it ran    *)
(* and succeeded, and its output is that of the last piece, although the   *)
(* pieces may settle in another order than they ended ("waits for          *)
(* extensions before completing a running job").                           *)
CompletedIsComplete ==
    \A t \in Calls : final[t].status = "completed" =>
        /\ \A c \in Calls : work[c].token = t =>
              work[c].at = "over" /\ work[c].exit = "success"
        /\ final[t].output # None
        /\ \A c \in Calls : work[c].token = t =>
              work[c].seq <= work[final[t].output].seq

(* Only work of the incarnation itself ends it or gives it its output      *)
(* ("ignores stale settlements after restarting a failed job").            *)
OwnResult ==
    /\ \A t \in Calls : final[t].output # None => work[final[t].output].token = t
    /\ \A j \in Jobs : job[j].output # None =>
          work[job[j].output].token = job[j].token

(* A task's result reaches the parent once: a call that returned it was    *)
(* not also told that the task runs in the background, and nothing is      *)
(* injected for it, unless another call waits for it as well.              *)
DeliveredOnce ==
    \A t \in Calls \ shared :
        /\ \A c, d \in Calls : <<c, t>> \in notifier /\ <<d, t>> \in notifier => c = d
        /\ \A c, d \in Calls :
              call[c].on = t /\ call[c].outcome \in {"completed", "error"}
                  => <<d, t>> \notin injected

(* A task that a call reported to run in the background is injected into   *)
(* the parent once it completed or failed, whether it was started there or *)
(* promoted ("You will be notified automatically when it finishes").  Two  *)
(* exceptions: the session's job was started anew meanwhile, and the       *)
(* notify fiber, which looks the job up by id, may wait for that one       *)
(* instead; and its promotion ended half-way, after the job was marked as  *)
(* a background job and before notify (background-job.ts:333-334).         *)
Promised(c) ==
    /\ call[c].at = "returned" /\ call[c].outcome = "background"
    /\ final[call[c].on].status \in {"completed", "error"}

Notified(c) == \E d \in Calls : <<d, call[c].on>> \in injected

Replaced(c) == \E j \in Jobs : j = call[c].job /\ job[j].token # call[c].on

BackgroundIsNotified ==
    []<>(\A c \in Calls :
            Promised(c) => \/ Notified(c) \/ Replaced(c)
                           \/ call[c].on \in unheard)

(* A foreground call returns once its job ended or was promoted, although  *)
(* it waits by id for a job that may have ended and been started anew.     *)
ForegroundReturns ==
    []<>(\A c \in Calls :
            call[c].at = "race" => final[call[c].on].status = "none")

(* "you can pass a prior task_id and the task will continue the same       *)
(* subagent session": the prompt of a call that returns a result was given *)
(* to the session.                                                         *)
ResultIsOwn ==
    \A c \in Calls : call[c].outcome \in {"completed", "error"} =>
        work[c].at # "none"
=============================================================================
