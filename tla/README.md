# A verification project for Spinosa

Spinosa is a local-first research workspace: a TypeScript program (Bun, Effect)
made of a session runtime that runs agents, servers and clients around it, and
the workspace tools that import documents and keep workspaces up to date. This
directory holds TLA+ modules for the parts whose correctness depends on what
happens at the same time, TLC configurations for small instances of them, and
theorems checked by TLAPS.

To check: `tlc -config <cfg> <MC module>` for a run of PROJECT.json; `tlapm` on the
eight modules whose names end in `Proofs`.

## The system's parts

Paths are below `src/packages/`. PROJECT.json ("components") has every part with
its sources; this is what they keep, do and depend on.

**Session run coordinator** (`core/src/session/run-coordinator.ts`). Keeps a map
from session to its active entry: a deferred, an owner fiber, the flags
pendingWake and stopping. `run` starts or joins an execution, `wake` starts one or
asks for a follow-up, `interrupt` stops one, `settle` runs when the owner's drain
exits. Hard: settle races with the three others. Correct when executions of a
session never overlap, no wake is lost, nobody waits on an abandoned deferred.

**Prompt inbox and session service** (`core/src/session/input.ts`,
`core/src/session.ts`). A database row per admitted prompt with its delivery
(queue or steer), admission and promotion sequence; the session service's `prompt`
admits and wakes. Hard: check and publish are two steps, a retry reuses its id, a
queued prompt can become a steer while the runner is about to promote it, the
process can stop anywhere. Correct when every prompt enters the transcript once
and in order, and none is forgotten.

**Runner** (`core/src/session/runner/llm.ts`). Drains the inbox: looks for steers,
for queued prompts, promotes, runs provider turns until neither the model nor the
inbox asks for another. Called by the coordinator's owner fiber. Hard: what it read
is stale after the next await.

**Execution service and status** (`core/src/session/execution/local.ts`,
`spinosa-kernel/src/session/status.ts`, `execution-status-bridge.ts`). Wraps wake,
drain and interrupt of the coordinator with reports of busy and idle, each of which
publishes and then records. Hard: three fibers report on one session in no fixed
order. Correct when a quiet session is idle and a working one busy.

**Background jobs** (`core/src/background-job.ts`,
`spinosa-kernel/src/background/job.ts`). A registry of jobs by id; a job counts
pieces of work that run one after another, and ends with the last success or the
first failure. start, extend, cancel, promote, wait. Hard: work of an ended
incarnation settles after a new one started; pieces settle in any order.

**Task tool** (`spinosa-kernel/src/tool/task.ts`). Runs a subagent session as a
background job whose id is the session's: extends it if it runs, starts it
otherwise, then waits for result or promotion, or has the result injected into the
parent. `sessionBackground` promotes, `cancelBackgroundJobs` cancels. Hard: its
calls to the registry are separate steps, and it looks the job up by id each time.

**V1 run state** (`spinosa-kernel/src/effect/runner.ts`,
`spinosa-kernel/src/session/run-state.ts`). The older runtime's runner per session:
Idle, Running, Shell, ShellThenRun, behind a semaphore. ensureRunning, startShell,
cancel. Hard: cancel goes to Idle before it interrupts, so new work starts while the
old one unwinds, and a late onIdle deletes whatever runner the map holds by then.
Correct when work excludes work, nobody waits for a run that nothing settles, and a
quiet session shows idle.

**Event log** (`core/src/event.ts`). Commits an event with its projections in one
transaction, then notifies; replays events of another node under an owner check;
streams a session from any position, first from the table, then on wakes. Correct when
a reader gets each event once, in order, with no gap between replay and live.

**Workspace sync** (`spinosa-kernel/src/control-plane/workspace.ts`, the handlers in
`server/routes/instance/httpapi/handlers/sync.ts`, `spinosa-kernel/src/event-v2-bridge.ts`).
Home mirrors the sessions of remote workspaces: a loop per remote opens its stream,
asks for the history, replays both; a warp moves a session to another workspace.
Hard: history and stream overlap, notifications come in an order of their own,
connections are lost, and old and new workspace publish at the same time. Correct when
home's copy is one history, and what the old workspace does after a warp stays out.

**Keyed mutex** (`core/src/effect/keyed-mutex.ts`). A map from key to a semaphore and
a count of its users; the last user removes the entry. Hard: between a user's count and
its permit another may leave, or an interruption arrive.

**Permission requests** (`core/src/permission.ts`, `core/src/permission/saved.ts`).
assert evaluates rules, and where they say ask puts a request with a deferred in a map;
reply settles it, and with it others: a rejection the rest of its session, an "always"
whatever the new rule allows. Hard: every settlement publishes first, so the map changes
under the walk. Correct when open requests are those of callers that wait, and a
cascade leaves none behind. The V1 permissions and the questions repeat parts of it.

**File tools** (`core/src/tool/edit.ts`, `write.ts`, `apply-patch.ts`,
`core/src/file-mutation.ts`). Ask for permission, read, compute, and apply each change
under its file's lock, an update only if the file is still what was read. Hard: the
answer may come long after the read, and many calls run at once. Correct when no
change is computed from content that another call has replaced.

**Locks between processes** (`core/src/util/flock.ts`,
`spinosa-core/src/system/update-lock.ts`, `spinosa-core/src/workspace/registry.ts`).
Each is a directory that mkdir makes or finds, and that may be declared stale: by pid
and age, by pid once the wait is long, by a heartbeat that stopped. Hard: two that find
the same stale lock, a process that dies between any two steps. Correct when one process
holds it and a dead one does not hold it for ever.

**Workspace tools** (`spinosa-core`, `spinosa-runtime`): the import pipeline and its
job runner, presence and recovery, the update and upgrade commands, the workflow engine.

**The rest**: providers and LLM protocols, MCP, LSP, plugins, servers, schemas, SDK,
clients (TUI, web, desktop), database adapters, installer, release scripts, website.
They translate, display or drive external programs, and are not modelled.

The parts meet like this: a server handler calls the session service, which writes
the inbox and wakes the execution service; this reports busy and calls the
coordinator, whose owner fiber runs the runner, which promotes from the inbox and
calls tools; the task tool is one of them, and starts jobs whose results come back
as prompts of the parent session; the file tools are others, which ask for permissions
and lock files by the keyed mutex. What all of them publish goes to the event log, which
workspace sync copies from server to server.

## What each module models

`RunCoordinator` - the coordinator. Entries are identities that settle frees, `active` is the map,
`entry[e]` an entry's key, its owner's phase (starting, running, settling) and exit;
`pendingWake`, `stopping` and `forced` are sets of entries; `client` is where a
caller of run or interrupt waits. run, wake, interrupt and settle are one action
each, for each is one synchronous piece of code; a drain's begin and end are steps
of the owner fiber. `owed` is history: the sessions with a wake no drain began
after. What a drain does is left open, so that other modules can say.

`SerialExecution` - what the execution service promises: executions of a key do not overlap, a
request stays owed until one begins. `RunCoordinator` implements it
(`ServiceProvided`), with executions the owner fibers in their drain
and owed the keys whose entry starts or has a pending wake.

`SessionInbox` - the transactions and queries of the inbox: rows, the session's
event sequence, and the transcript.

`SessionPrompts` - extends RunCoordinator, uses SessionInbox. Senders go through prompt
(find, publish, equivalence check, wake), owner fibers through the runner's loop, one
action per await; between them lies what was read (`rows`, `cutoff`). The rows held are a
set, promoted in order of admission (`FirstOf`). A row whose
delivery changed under a promotion makes the projector die and the drain with it
(`PublishDies`). `Crash` loses the coordinator and every fiber and keeps the inbox.
A provider turn is its outcome: continue (not after step `MaxSteps`, the agent's
steps) or not, or the drain fails. An agent without a step limit, hooks that stop
the loop, and compaction are left out.

`SessionExecution` - extends RunCoordinator with the reports around wake, drain and interrupt: each is
publish (`wire`), then record (`data`). Either step may fail, and so may the lookup of the session
with which a drain begins (`WakeDies`, `DrainDies`, `HushDies`; `Fallible` bounds whose): only once a
drain has reported busy does a finalizer ensure its report of idle. `hushed` is history: sessions an
interrupt reported idle after the drain that is on had reported them busy; so is `lapsed`: where a report of
idle was due from somebody who failed, until the next one lands.

`BackgroundJob` - the registry: `job[j]` is the entry, `work[c]` the fiber of one piece of work,
named after the call that brought it; the call that starts an incarnation is its
token. `final` is what the modify of settle or cancel decided, `published` that its
deferred is completed and its scope closed, which later steps do. `promoted` is the
promotion's deferred.

`TaskTool` - extends BackgroundJob with calls of the tool (extend, start, fork, deliver, race),
notify fibers, promotions in their three steps and cancels. Calls ask for the foreground or the
background. A promotion may end before its hook calls notify: its request is interrupted, or the hook's
`ctx.metadata` fails, which is ignored. `shared` is history: the incarnations that more than the
call that started them waits for; so is `unheard`: those whose promotion ended that way.

`SessionRunState` - runner.ts and run-state.ts. `runners` is the map from session to
runner, `ref[r]` the runner's state, `queue[r]` who waits for its semaphore, `held[r]` the
startShell that holds it across onBusy, the one place where the code awaits inside.
`call`, `fiber` and `stop` say where the callers, the fibers of the work and the cancels
are. A call names the runner or run it creates. A transition under the semaphore is one
action when it is free and joins the queue when not. The callers and cancels in `Impatient` may be
interrupted wherever they await. A caller's interruption ends the shell it forked, also before the shell
has begun (`unborn`: it never opens its latch nor calls finishShell) or before its latch (`doomed`). A cancel
that is interrupted once it made the runner Idle does none of the rest: it interrupts no shell,
fails no pending loop, reports no idle (`CancelAbandoned`). `evicted` is history: sessions
whose busy runner a late onIdle took out of the map; so is `unreported`: those such a cancel left
before idle was recorded, until it next is.

`EventFeed` - what the durable stream promises a reader: a growing prefix of the log,
each event once, and in the end all of it.

`EventLog` - the table of events of each node, the owner of the session, `Publish`,
`Replay` with its checks of sequence, content and owner, `Claim`, and one reader: it reads
the table past its cursor, emits, waits for a wake that a pubsub of size one keeps.

`WorkspaceSync` - extends EventLog to home and its remotes. `unsent[r]` holds the positions
remote r has committed and not notified (commit and notification are two steps, so
notifications may overtake one another), `stream[r]` what its event stream carries,
`loop[r]` syncWorkspaceLoop (connecting, asking for the history, replaying it, streaming,
retrying, dead; `missed`, history, that home ignored a part of what it was answered), `warp[w]` sessionWarp (ask the old workspace for the rest, replay it, claim
the log, read and send it in pieces, steal, and publish the move at home). Home and remotes
publish work of their own agents; requests and connections fail at any moment. `late` is
history: what a remote published after home had claimed the log for another.

`KeyedMutex` - `locks[k]` is the entry of a key, `users[k][e]` its count, `place[f]` where a fiber
is in withLock: outside, waiting for the permit, holding it. Entries are named after the
fiber that made them, so a stale entry and its successor are told apart.

`Permissions` - `ask[c]` is a call of assert (with the saved rules it read), `pending` the map,
`settled` the deferreds, `reply[r]` a reply with those it has still to walk. The order of
the walk is left open. `stale` is history: requests made in the window between
reading the rules and publishing, while another call saved a rule that covers them.

`FileTools` - extends both: a call asks for its permission, reads, takes the lock of one
file after the other, compares, truncates and fills. A call belongs to a Location, and each Location has
a FileMutation of its own with its own mutex (`Lock(c)` is the pair of Location and file): two edits of
one file by an absolute path from two Locations do not exclude each other. `Requests` are the calls
of one Location, whose permission service is modelled; the others' is their own. A file is the set of
the changes it holds, missing, or torn; two that write at once may leave a mix. `lost` is history:
changes that an update dropped; so is `crossed`: changes of a file that a call of another Location was
changing too.

`LockDirectory` - the three locks, `protocol` chosen in Init since they share the directory and
most steps. `lock` records who made the directory, the pid in it, its heartbeat and
whether it is old; `breaker` is flock's second directory; `pc[p]` where a process is. Time is
the flag `old`. Writing the pid may fail: the update then throws and leaves the directory, the registry
goes on without. `misled` is history: who is about to remove a directory that is no longer the one it
judged, or a registry's that had no pid when the wait passed its deadline; so is `mistake`: that one of
them has removed a lock in use.

The `MC` modules define symmetry sets and what a cfg cannot write.

## What each run checks

| run | bounds | shows |
|---|---|---|
| prompts_order | 3 prompts, 1 sender, 2 steps, 1 restart | `NoStrandedPrompt`, `QueueIsFifo`, `SteerOvertakenOnce`: a woken prompt is not left in an idle session, queued ones enter in order, a steer is overtaken at most once; `PromptsTypeOK` |
| prompts_live | 1 prompt, 2 senders, 1 client, 1 step, 1 restart | `PromotedOnce`, `PromotedIsAnswered`; with fairness `WokenIsPromoted` |
| prompts_steer | 1 prompt | violated, `SteerNeverStrands`: a prompt that becomes a steer between two queries stays behind |
| execution | 1 session, 2 entries, 1 waker, 2 clients; the reports of one entry, the waker and one client may fail | `QuiescentIdle`, `BusyUnlessHushed`, `OneOwner`, `NobodyOrphaned`, `NoLostWake`, `StoppedStaysStopped`, `ServiceProvided`; with fairness `BusyEnds`, `WaitersAnswered` |
| task_safety | 2 calls of either mode, 1 promotion that may end early | `WorkInOrder`, `CompletedIsComplete`, `OwnResult`, `DeliveredOnce` |
| task_liveness | the same | with fairness `BackgroundIsNotified`, `ForegroundReturns` |
| task_resume | 2 calls | violated, `ResultIsOwn`: a call returns the result of a prompt that was not its own |
| run_state | 2 loops, 1 shell, 2 cancels; one loop, the shell and one cancel may be interrupted | `WorkIsExclusive`, `NobodyStranded`, `WorkIsReachable`, `QuietShowsIdle`, with fairness `CallsReturn`; `RunTypeOK` |
| run_state_lost | 3 loops, 1 cancel | violated, `RunningIsBusy`: a late onIdle makes a running loop unreachable |
| workspace_sync | home, 2 remotes, 1 warp, 2 events of work per agent | `OneHistory`, `HistoryIsWhole`, `OnlyDivergedDies`, `FencedOut`, `StolenWhole`; with fairness `ReaderFollows`, which instantiates EventFeed |
| tools | of one file, 2 edits, and either a patch with 2 replies or an edit from another Location with 1; 2 sessions | `PendingIsWaiting`, `RejectSweeps`, `AlwaysIsRemembered`, `UpdatesLoseNothing` |
| locks | 3 processes (4 for flock), 2 deaths | `HeldByOne`; with fairness `NotWedged` |

Why the bounds are enough. Sessions do not interact in the coordinator or in the V1 run
state (every operation touches one key), so one session shows what can go wrong; where
theorems exist they hold for any number. Two entries are needed for a successor to start
while the entry it succeeds still answers its callers; MCSessionExecution assumes one more
than keys. Two clients and a waker cover one that owns, one that joins or interrupts,
and a wake from outside. Two senders race on one id; three prompts let one be overtaken twice. Two steps
give a turn that continues and one that may not. Two calls of the task tool are one that
started a job and one that extends, joins or restarts it. In the V1 run state a loop, a
shell and a cancel each can meet a second loop and a second cancel; the lost runner
takes three loops (the one cancelled, the one that keeps the map's runner, the one lost). That one
loop, the shell and one cancel may be interrupted leaves one of each that is not, to meet what
the interrupted one left; the theorems hold for any `Impatient`, as those of execution for any `Fallible`.
One warp between two remotes and home has an old and a new owner and a third party; two
events of work let one be committed before, one after each step of the protocol, and be
notified in the other order. Two edits and a patch of one file are an update against an
update and against removal and recreation; two replies let a cascade meet another. With an edit from
another Location, which needs no reply of this one, `ThreeCalls` leaves the patch and the second reply out:
two Locations' changes cross in either order with a third call of one of them. A lock
needs a holder that dies, one that reaps and one that has taken the new lock; flock's
breaker hides a fourth. `MaxSteps`, `MaxCrashes`, `MaxWork` and `MaxDeaths` bound what
could repeat for ever; every other counter is bounded by the number of calls, each of
which is used once.

`CHECK_DEADLOCK FALSE` is set for the task, run-state, sync and tools runs: when every call
has returned nothing is left to do.

## Fairness

Weak fairness of each fiber's own steps: an owner fiber, a sender, a waker, the
finalizer of an interrupt, a call, a piece of work and a notify fiber that can go on do so,
as Effect's scheduler runs every ready fiber. A drain, a turn and a piece of work end:
the code puts timeouts on providers, and a drain that never ends would keep its
session by design. Callers are not obliged to call, to interrupt or to give up,
nor is the process to crash. `WaitersAnswered` excepts a caller whose session is woken
again and again: a follow-up keeps the entry, and the caller with it.

In `RunFairSpec` each call, each fiber and each cancel of the V1 run state that can go on
does; a shell whose onBusy is done starts; nobody need be interrupted. No fairness makes a report,
a pid file or a promotion succeed where the code lets it fail. In `SyncFairness` each loop, warp, notification
and the reader do, but connections and requests may fail as often as they like and nobody
has to reconnect a lost one. In LockDirectory the processes that live go on and retry
(the code polls), deadlines pass and directories grow old; nobody has to die.

## What the violations mean

- `SteerNeverStrands`: the runner's two queries are not one read.
- `ResultIsOwn`: between a call's `extend` and its `start` another call may start the
  job; `start` then drops the work it was given, and the call waits for the other's.

- `RunningIsBusy`: a cancel that has awaited the old loop finds the runner Idle and takes
  "the session's runner" out of the map, though by then a new call may hold that very runner and
  start its loop on it. prompt.test.ts expects assertNotBusy to fail while a loop runs.

Several properties carry exceptions for weaknesses of the same kind: a promoted task whose job
was started anew may never be reported (`BackgroundIsNotified`, `Replaced`), because
notify looks the job up by id, nor may one whose promotion ended between marking the job and notify
(`unheard`); a result may be reported twice when calls share an
incarnation (`DeliveredOnce`, `shared`); a sync loop part of whose history was ignored may end up short of it or
dead (`HistoryIsWhole`, `OnlyDivergedDies`, `missed`); an interrupt reports idle after it waited, whatever
started since (`BusyUnlessHushed`, `hushed`); a drain that dies before its finalizer is there, for
want of its session say, and a report of idle that fails leave a session busy until the next report
(`QuiescentIdle`, `BusyEnds`, `lapsed`); a runner may leave the map while it works
(`WorkIsReachable`, `evicted`); a cancel whose own caller is interrupted after the runner became Idle
leaves a shell at work beside what comes next (`WorkIsExclusive`, `WorkIsReachable`, `Forsaken`), the
loop behind it to wait for ever (`NobodyStranded`, `CallsReturn`, `Deserted`, as does a shell that was
interrupted before it began), and the session busy (`QuietShowsIdle`, `unreported`); an update may
be lost to a call of another Location (`UpdatesLoseNothing`, `crossed`), where the comment of
`file-mutation.ts` on one lock for each target holds only within a Location; a request made while an "always" is being saved is not settled
by it (`AlwaysIsRemembered`, `stale`). `HeldByOne` and `NotWedged` say exactly when
the locks fail to be locks. Age, pid and removal are separate steps: a waiting process that found an
update lock old, held for long or left, may find a new lock with no pid yet in its place and remove that, or judge
one lock and remove the next, and nobody need have died for it. The registry's pid is read once, when a wait
passes its deadline, and may not be written yet, or never (a failed write is ignored); its lock is
removed by whoever reclaims or releases, its owner unchecked, and one acquisition reclaims at most once.
A process that died inside flock's breaker leaves a stale breaker that two may clear. No other
way to two holders exists in the model. A warp that fails after its claim leaves
home deaf to the workspace the session is still in: `FencedOut` holds then as well, and nothing
in the code takes the claim back.

## What is proved

`RunCoordinatorProofs` proves, for every set of keys, entries and callers, from the
single assumption that `None` is neither a key nor an entry:

| theorem | states |
|---|---|
| TypeCorrect | `Spec => []TypeOK` |
| Serialised | `Spec => []OneOwner`: map and owner fibers agree, executions of a key never overlap |
| NoOrphans | `Spec => []NobodyOrphaned`: who waits, waits on the entry its key maps to |
| WakesKept | `Spec => []NoLostWake` |
| StoppedForGood | `Spec => StoppedStaysStopped` |
| ImplementsService | `Spec => ServiceSafety`, the refinement of SerialExecution |

The inductive invariant is `IInv`: types, `NoLostWake` and `Shape`. `OneOwner` alone
is not inductive: settle writes `active[entry[e].key]`, and only if the entry it
settles is the one the map holds does it not evict another. `Shape` adds that a free
entry keeps no flag of its former life (or a successor would inherit a pending wake),
that a stopped entry is past its start, and that waiting callers wait on mapped
entries, which settle's `Complete` needs to leave none behind. One lemma per part
(`TypeStep`, `ShapeStep`, ...) has a step per action; the refinement maps each action to
a step of the service or to a stutter.

`SessionPromptsProofs` proves, for every set of prompts, senders, sessions, entries and callers,
any number of restarts and of steps, from the assumptions that every prompt has a session,
that `Resumes` are Booleans, that an agent has at least one step, and that `None` is new:

| theorem | states |
|---|---|
| PromptsTypeCorrect | `Spec => []PromptsTypeOK` |
| PromotedExactlyOnce | `PromotedOnce` |
| FirstInFirstOut | `QueueIsFifo` |
| NothingStranded | `NoStrandedPrompt` |
| PromotedAnswered | `PromotedIsAnswered` |
| OvertakenAtMostOnce | `SteerOvertakenOnce` |
| RestartsCoordinate | every step is the coordinator's or its Init again; `OneOwner`, `NobodyOrphaned`, `NoLostWake`, `StoppedStaysStopped` |

Its invariants come in layers. `InboxInv` is about the database: sequence numbers are given out
once (`Distinct`), a promotion comes after its admission (`Dated`), and a queued prompt in the
transcript has none before it still in the queue (`QueueFirst`). `PInv` adds what fibers
hold: a sender is past its check only with the row stored, and a queued row that a runner holds
is its only one and still the oldest (`Holds`), which is what makes the promotion of a stale read
one in order. `StrandInv` says, of every prompt that was woken, who still comes for it (`Comes`):
an owner that has the query ahead of it (`Ahead`), a pending wake, or a sender about to wake.
`AnswerInv` and `OvertakenInv` (`SteersFirst`) follow a promotion to its turn and a steer past the one
queued prompt that the runner may already hold. A crash returns the coordinator to its Init,
and the inbox alone carries these over.

`SessionExecutionProofs` proves, for any keys, entries, wakers and callers:

| theorem | states |
|---|---|
| ExecTypeCorrect | `ExecSpec => []ExecTypeOK` |
| ExecCoordinates | the coordinator's invariant with the reports around it |
| ExecImplementsCoordinator | `ExecSpec` implements the coordinator's `Spec`, so that its theorems carry over |
| IdleIsShown | `QuiescentIdle` |
| BusyIsShown | `BusyUnlessHushed` |

`ExecInv` holds three things no report states. A stopped entry has an interrupt waiting on it that
will report idle (`StoppedByHush`); without it a drain that was interrupted, and does not report,
would leave the session busy. Whenever the last report published or recorded says busy, somebody has
an idle report ahead, or failed to make it (`ReportsEnd`, `Awaited`, `Lapsed`), though which of the three fibers
it is changes with every step. A body that runs has shown busy unless an interrupt spoke since (`BodyShows`).

`TaskToolProofs` proves, for every set of jobs, calls and promoters, from two
assumptions (`None` is neither a job nor a call; calls ask for one of the two modes):

| theorem | states |
|---|---|
| TypeCorrect | `TaskSpec => []TaskTypeOK` |
| OwnResultHolds | `TaskSpec => []OwnResult`: stale settlements never reach another incarnation |
| WorkInOrderHolds | `TaskSpec => []WorkInOrder` |
| CompletedIsCompleteHolds | `TaskSpec => []CompletedIsComplete` |
| ResultsDeliveredOnce | `TaskSpec => []DeliveredOnce` |

Its invariant adds to these what the registry never states but relies on: work
belongs to one incarnation of one job (`Belongs`); an incarnation is in the registry
exactly while it has not ended (`Registry`), which is why `settle` may ignore work
whose token is not there; no two pieces of an incarnation have the same number (`Numbered`);
`pending` is the number of pieces not settled (`Counted`), the fact that makes
`pending <= 1` mean "I am the last"; what settled so far succeeded
(`OverSucceeded`), and the output is that of the latest of it (`LatestOutput`). A
call that has not registered left no trace (`FreshUnused`). The lemmas go in three
layers: what an operation changes field by field (`...Effect`), that it keeps the
registry's invariant (`...Keeps`; `MoveKeeps` and `EndKeeps` carry most of it), and
that each step of the tool is one such operation (`...Step`).

`DeliveredOnce` has an invariant of its own, `DeliveryInv`, on top of that one. Who injects and
who returns a result decide at different times and from different places (the registry, the end
it recorded, the promotion), so what ties them together is the mode: while the job runs the
registry holds it, afterwards its end holds the same (`EndedAgrees`), and it only ever goes to the
background (`KeepsModes`). A promotion holds an incarnation that is in the background from its
first step on (`Marked`); a call that reports a result found its incarnation in the foreground
(`CallDelivers`); a notify fiber of an incarnation nobody else joined is that of the call that
started it, which was told so or promoted (`OwnNotifiers`). `DeliveryStep` lists what a step has to show.

`SessionRunStateProofs` proves, for every set of sessions, loops, shells and cancels, from the
assumption that loops and shells are different calls and `None` is new:

| theorem | states |
|---|---|
| RunTypeCorrect | `RunSpec => []RunTypeOK` |
| RunsExclusively | `WorkIsExclusive` |
| RunsSettled | `NobodyStranded` |
| RunnersReachable | `WorkIsReachable` |
| QuietSessionsIdle | `QuietShowsIdle` |

Its invariant `RunInv` says whom everything belongs to. Calls, cancels and the map refer to runners
of their session (`Placed`); what a runner's state names is one of its own works and not over
(`Named`); the semaphore is held exactly by a startShell in onBusy, with the state Idle (`HeldRight`),
which is why an interleaved operation cannot change the state under it. A cancel goes to Idle
first, so what it took no state names again (`ClaimsRight`), and a fiber that is not over is named
by its runner, claimed by a cancel that still waits for it, or was left by one that gave up (`Owned`; a loop
is never left at work, for it is interrupted in the step that claims it, `InterruptedRuns`). From these each run has
somebody who settles it or is deserted (`RunsSettle`), and a busy runner is in the map unless a late onIdle evicted it
(`Reachable`). `QuietShowsIdle` is inductive beside them.

`LockDirectoryProofs` proves, for any processes and any number of deaths, `LockTypeCorrect` and
`OneHolder` (`HeldByOne`). Each protocol has its own reason why nobody else removes a lock. Of update and
registry (`PidLockInOrder`, as long as no mistake was made): the lock is of whoever is in it, the pid in it is
its maker's and, at the update lock, written before the lock can grow old (`OwnersOwn`); so who found the lock
that is still there old and without a live owner, and goes to remove it, removes one that was left
(`JudgesKnow`). In flock only a dead process's lock grows old, and who has the breaker is alone between
taking and leaving it and removes the lock only while it is the dead one's (`FlockInOrder`).

`FileToolsProofs` proves about the keyed mutex, for every set of keys and every finite set of fibers,
`MutualExclusion` and `EntriesAreReclaimed`. The invariant counts: an entry's users are
exactly the fibers inside withLock on that entry, and all of them are on the entry
the map holds. The count is what makes removal safe; without it exclusion is not
inductive, for a removed entry's waiter and the maker of its successor would both get in.

About permissions it proves, for every set of requests, replies, sessions, rules and actions:

| theorem | states |
|---|---|
| PermTypeCorrect | the types |
| PendingCorrect | `PendingIsWaiting` |
| RejectReachesAll | `RejectSweeps` |
| AlwaysReachesAll | `AlwaysIsRemembered` |

Its invariant adds that what a walk has still to visit covers every request of
its kind that was open when it began (or has been settled), so that an entry added or
removed under the walk does no harm.

About the file tools it proves, for any calls, plans and files, `NothingLost` (`UpdatesLoseNothing`),
`TornOnlyUnderLock`, and that the composition keeps to its parts: `ToolsUseTheMutex`,
`ToolsUseTheRequests`, from which `ToolsRequestsCorrect` follows. The invariant `ToolInv` takes
the invariants of mutex and requests and adds that a call that changes a file holds its
lock (`LocksItsFile`), has read what it updates (`HasRead`), and that between its comparison and its
write the file is what it compared unless another Location crosses it (`ComparedIsCurrent`), which the
exclusion of a Location's lock preserves. Locations and what belongs to them are constants, so this is for any number.

`WorkspaceSyncProofs` proves, for any set of remotes, warps and agents, any reordering and loss:

| theorem | states |
|---|---|
| SyncTypeCorrect | the types; a position on its way is one its sender has |
| HomeMirrors | `OneHistory` |
| LateStaysOut | `FencedOut` |
| StolenSessionsAreWhole | `StolenWhole` |
| HistoryArrives | `HistoryIsWhole` |
| SyncDiesOfDivergence | `OnlyDivergedDies` |
| ReaderIsAFeed | the reader implements EventFeed's safety part, by a refinement mapping |

Logs only grow, at the end (`Grows`, one lemma for all steps). `LogsInv` says that an event
was made by its author at its place or copied from there (`Authentic`), and that a late event
is fenced by the owner (`LateIsFenced`); `RemotesInv` that whatever a stream or an answer carries
agrees with its sender's log; `WarpsInv` that what a warp sends is the rest of what it read
(`IsRestOf`) and the pieces sent are a prefix at the receiver (`Sent`, `CopyOK`). For the reader
`GotIsRead` says what it was given is the log between where it began and its cursor.

`HistoryInv` follows a loop's history: the answer is numbered up to the fence, and home is at most
what is left to replay behind it, so an event home does not have is the next one, and one that is
refused is one where home has another (`Diverged`). The invariant needed the exception
`missed`: home ignores events of a workspace while the log is claimed for another, and if a warp claims the
session back while the loop replays, the loop meets a gap and dies although neither log contradicts the
other. With one warp that does not happen; with two it does, and both properties say so.

Only model-checked: all liveness (`WokenIsPromoted`, `BusyEnds`, `WaitersAnswered`,
`BackgroundIsNotified`, `ForegroundReturns`, `CallsReturn`, `NotWedged`, and what `ServiceProvided` and `ReaderFollows`
say beyond the safety parts that `ImplementsService` and `ReaderIsAFeed` prove), for TLAPS has neither
fairness nor ENABLED. Every invariant of a passing run is the conclusion of a theorem. What a
recursive definition computes for every input needs induction over data, which is beyond TLAPS.

## Not modelled

The map covers a small share of the repository's lines because most of it has no protocol of
its own: generated SDK types and clients, user interfaces, the website, provider and model
translations, document conversion, database adapters. They would be transliterated, not
modelled. Of the parts with state, these are left:

- the job runner and import pipeline of `spinosa-core` (cancellation against the registration
  of children; batches and their manifest),
- compaction, context epochs, revert (derived from the event log),
- the V1 processor and prompt loop (sequential inside the runner that is modelled),
- the workflow engine and the template update decision (pure functions of their inputs),
- presence and recovery of workspaces, instance store, pseudo terminals,
- V1 permissions and questions: the same settlement as `Permissions`, with fewer cascades.

Inside the modelled parts: `remove` and bounded streams of the event log, projectors, creation and
removal of workspaces, failing writes of the file tools, programs that change files without a
lock, the heartbeat's timer against the removal of flock's files (`flock.ts:132` removes the
heartbeat before the meta file; the model removes the directory in one step). The locks take a pid for its
process: a pid the system gives out again, which would keep a dead one's lock, and EPERM of another user's
live process, which the code takes for a dead one, are left out. `Permissions` is the service of one Location; rules
another Location of the project saves are left out. `WarpBegins` takes a local source workspace (cancel, then
claim, `workspace.ts:584-590`) for no workspace: neither has a remote that could publish late.

## Order of further work

Job runner first, then compaction on top of `EventLog`, then the workflow engine as a transition
function against its documented stages, each with its theorems.
