-------------------------- MODULE SessionExecution --------------------------
(***************************************************************************)
(* The execution service of the V2 runtime                                 *)
(* (packages/core/src/session/execution/local.ts): the run coordinator     *)
(* with the status reports that go around it, as the kernel publishes them *)
(* (packages/spinosa-kernel/src/session/execution-status-bridge.ts and     *)
(* status.ts).                                                             *)
(*                                                                         *)
(* A report is two steps, publish on the wire and record in the status     *)
(* map, with an await between and before them.  Three fibers report on one *)
(* session: who wakes it, the drain, and who interrupts it.                *)
(***************************************************************************)
EXTENDS RunCoordinator

CONSTANTS
    Wakers,     \* fibers that call wake
    Fallible    \* the wakers, entries and clients whose reports may fail

VARIABLES
    wire,       \* the last session.status published for each session
    data,       \* the status map: what SessionStatus.get returns
    report,     \* where each owner fiber is in drain
    waker,      \* where each fiber is in wake
    hush,       \* where each client is in interrupt's finalizer
    hushed,     \* history: sessions that an interrupt has reported idle
                \*   since the drain that is on reported them busy
    lapsed      \* history: sessions whose wire or data somebody was to set
                \*   idle who failed, nobody having done it since

statusVars == <<wire, data, report, waker, hush, hushed, lapsed>>
coordVars == <<active, entry, pendingWake, stopping, forced, client, owed>>
execVars == <<coordVars, statusVars>>

Statuses == {"idle", "busy"}

(* "busy"/"idle": about to publish that status; "busyRecord"/"idleRecord": *)
(* published, not recorded; "body": in the runner; "over": about to exit.  *)
ReportStates == {"off", "busy", "busyRecord", "body", "idle", "idleRecord",
                 "over"}

Silent == [at |-> "off", key |-> None]

ExecTypeOK ==
    /\ TypeOK
    /\ wire \in [Keys -> Statuses] /\ data \in [Keys -> Statuses]
    /\ report \in [Entries -> ReportStates]
    /\ waker \in [Wakers -> [at : {"off", "busy", "busyRecord", "wake"},
                             key : Keys \cup {None}]]
    /\ hush \in [Clients -> [at : {"off", "wait", "idle", "idleRecord"},
                             key : Keys \cup {None}]]
    /\ hushed \in SUBSET Keys
    /\ lapsed \in SUBSET (Keys \X {"wire", "data"})

ExecInit ==
    /\ Init
    /\ wire = [k \in Keys |-> "idle"] /\ data = [k \in Keys |-> "idle"]
    /\ report = [e \in Entries |-> "off"]
    /\ waker = [w \in Wakers |-> Silent]
    /\ hush = [c \in Clients |-> Silent]
    /\ hushed = {}
    /\ lapsed = {}

-----------------------------------------------------------------------------
(* SessionStatus.set, in two steps, each of which may fail instead: the    *)
(* session cannot be found, its directory not be loaded, the event not be  *)
(* published.                                                              *)
Sets(k, status, where) ==
    lapsed' = IF status = "idle" THEN lapsed \ {<<k, where>>} ELSE lapsed

Publish(k, status) ==
    /\ wire' = [wire EXCEPT ![k] = status]
    /\ Sets(k, status, "wire")
    /\ UNCHANGED data

Record(k, status) ==
    /\ data' = [data EXCEPT ![k] = status]
    /\ Sets(k, status, "data")
    /\ UNCHANGED wire

(* What the histories remember: an interrupt's report over a drain's, and  *)
(* reports of idle that were due and will not be made, on the wire and in  *)
(* the map or in the map alone.                                            *)
Hushes(k) ==
    hushed' = IF \E e \in Entries : /\ entry[e].key = k
                                    /\ report[e] \in {"busyRecord", "body"}
              THEN hushed \cup {k} ELSE hushed

Unhushed(k) == hushed' = hushed \ {k}

Lapses(k, at) ==
    lapsed' = lapsed \cup
        ({k} \X IF at = "idleRecord" THEN {"data"} ELSE {"wire", "data"})

-----------------------------------------------------------------------------
(* wake: setBusy, then the coordinator's wake.                             *)
WakerGoes(w, at) == waker' = [waker EXCEPT ![w].at = at]

WakeCalled(w, k) ==
    /\ waker[w].at = "off"
    /\ waker' = [waker EXCEPT ![w] = [at |-> "busy", key |-> k]]
    /\ UNCHANGED <<coordVars, wire, data, report, hush, hushed, lapsed>>

WakePublishes(w) ==
    /\ waker[w].at = "busy"
    /\ Publish(waker[w].key, "busy")
    /\ WakerGoes(w, "busyRecord")
    /\ UNCHANGED <<coordVars, report, hush, hushed>>

WakeRecords(w) ==
    /\ waker[w].at = "busyRecord"
    /\ Record(waker[w].key, "busy")
    /\ WakerGoes(w, "wake")
    /\ UNCHANGED <<coordVars, report, hush, hushed>>

WakeWakes(w) ==
    /\ waker[w].at = "wake"
    /\ Wake(waker[w].key)
    /\ waker' = [waker EXCEPT ![w] = Silent]
    /\ UNCHANGED <<wire, data, report, hush, hushed, lapsed>>

(* A wake whose report fails does not reach the coordinator.               *)
WakeDies(w) ==
    /\ w \in Fallible
    /\ waker[w].at \in {"busy", "busyRecord"}
    /\ waker' = [waker EXCEPT ![w] = Silent]
    /\ lapsed' = IF waker[w].at = "busyRecord"
                 THEN lapsed \cup {<<waker[w].key, "wire">>} ELSE lapsed
    /\ UNCHANGED <<coordVars, wire, data, report, hush, hushed>>

-----------------------------------------------------------------------------
(* drain: setBusy, the runner, and setIdle however the runner ends.  An    *)
(* interrupt takes effect at once before the runner, where no finalizer is *)
(* installed yet; setIdle itself cannot be interrupted.                    *)
ReportGoes(e, at) == report' = [report EXCEPT ![e] = at]

Draining(e, at) == entry[e].phase = "running" /\ report[e] = at

(* Mutant: wake has set the session busy already.                          *)
DrainUnreported(e) ==
    /\ DrainBegin(e)
    /\ ReportGoes(e, "body")
    /\ UNCHANGED <<wire, data, waker, hush, hushed, lapsed>>

Drain(e) ==
    /\ DrainBegin(e)
    /\ ReportGoes(e, "busy")
    /\ UNCHANGED <<wire, data, waker, hush, hushed, lapsed>>

DrainPublishesBusy(e) ==
    /\ Draining(e, "busy")
    /\ Publish(entry[e].key, "busy")
    /\ ReportGoes(e, "busyRecord")
    /\ UNCHANGED <<coordVars, waker, hush, hushed>>

DrainRecordsBusy(e) ==
    /\ Draining(e, "busyRecord")
    /\ Record(entry[e].key, "busy")
    /\ ReportGoes(e, "body")
    /\ UNCHANGED <<coordVars, waker, hush, hushed>>

(* Mutant: setIdle follows the runner instead of being ensured.            *)
RunnerEndsUnensured(e) ==
    /\ Draining(e, "body")
    /\ \E at \in {"idle", "over"} : ReportGoes(e, at)
    /\ Unhushed(entry[e].key)
    /\ UNCHANGED <<coordVars, wire, data, waker, hush, lapsed>>

RunnerEnds(e) ==
    /\ Draining(e, "body")
    /\ ReportGoes(e, "idle")
    /\ Unhushed(entry[e].key)
    /\ UNCHANGED <<coordVars, wire, data, waker, hush, lapsed>>

DrainPublishesIdle(e) ==
    /\ Draining(e, "idle")
    /\ Publish(entry[e].key, "idle")
    /\ ReportGoes(e, "idleRecord")
    /\ UNCHANGED <<coordVars, waker, hush, hushed>>

DrainRecordsIdle(e) ==
    /\ Draining(e, "idleRecord")
    /\ Record(entry[e].key, "idle")
    /\ ReportGoes(e, "over")
    /\ UNCHANGED <<coordVars, waker, hush, hushed>>

DrainExits(e) ==
    /\ \/ Draining(e, "over") /\ \E exit \in Exits : DrainEnd(e, exit)
       \/ /\ e \in stopping
          /\ Draining(e, "busy") \/ Draining(e, "busyRecord")
          /\ DrainEnd(e, "interrupted")
    /\ ReportGoes(e, "off")
    /\ Unhushed(entry[e].key)
    /\ UNCHANGED <<wire, data, waker, hush, lapsed>>

(* The session's row is missing or cannot be read, or a report fails: up   *)
(* to setBusy nothing ensures setIdle yet.                                 *)
DrainDies(e) ==
    /\ e \in Fallible
    /\ report[e] \in {"busy", "busyRecord", "idle", "idleRecord"}
    /\ DrainEnd(e, "failure")
    /\ ReportGoes(e, "off")
    /\ Lapses(entry[e].key, report[e])
    /\ Unhushed(entry[e].key)
    /\ UNCHANGED <<wire, data, waker, hush>>

Settles(e) == settle(e) /\ UNCHANGED statusVars

-----------------------------------------------------------------------------
(* interrupt: the coordinator's interrupt, then setIdle, also when there   *)
(* was nothing to interrupt.                                               *)
Quiet(c) == hush[c].at = "off"

HushGoes(c, at) == hush' = [hush EXCEPT ![c].at = at]

InterruptCalled(c, k) ==
    /\ Quiet(c) /\ client[c].at = "idle"
    /\ \/ /\ Interrupt(c, k)
          /\ hush' = [hush EXCEPT ![c] = [at |-> "wait", key |-> k]]
       \/ /\ Idle(k)
          /\ hush' = [hush EXCEPT ![c] = [at |-> "idle", key |-> k]]
          /\ UNCHANGED coordVars
    /\ UNCHANGED <<wire, data, report, waker, hushed, lapsed>>

InterruptWaited(c) ==
    /\ hush[c].at = "wait" /\ client[c].at = "idle"
    /\ HushGoes(c, "idle")
    /\ UNCHANGED <<coordVars, wire, data, report, waker, hushed, lapsed>>

HushPublishes(c) ==
    /\ hush[c].at = "idle"
    /\ Publish(hush[c].key, "idle")
    /\ Hushes(hush[c].key)
    /\ HushGoes(c, "idleRecord")
    /\ UNCHANGED <<coordVars, report, waker>>

HushRecords(c) ==
    /\ hush[c].at = "idleRecord"
    /\ Record(hush[c].key, "idle")
    /\ Hushes(hush[c].key)
    /\ hush' = [hush EXCEPT ![c] = Silent]
    /\ UNCHANGED <<coordVars, report, waker>>

(* The report fails.                                                       *)
HushDies(c) ==
    /\ c \in Fallible
    /\ hush[c].at \in {"idle", "idleRecord"}
    /\ hush' = [hush EXCEPT ![c] = Silent]
    /\ Lapses(hush[c].key, hush[c].at)
    /\ UNCHANGED <<coordVars, wire, data, report, waker, hushed>>

(* resume is the coordinator's run.                                        *)
ResumeCalls(c) ==
    /\ Quiet(c)
    /\ (\E k \in Keys : Run(c, k)) \/ RunAgain(c) \/ Abandon(c) \/ Return(c)
    /\ UNCHANGED statusVars

-----------------------------------------------------------------------------
WakerNext(w) == WakePublishes(w) \/ WakeRecords(w) \/ WakeWakes(w) \/ WakeDies(w)

DrainNext(e) ==
    \/ Drain(e) \/ DrainPublishesBusy(e) \/ DrainRecordsBusy(e)
    \/ RunnerEnds(e)
    \/ DrainPublishesIdle(e) \/ DrainRecordsIdle(e) \/ DrainExits(e)
    \/ DrainDies(e) \/ Settles(e)

HushNext(c) ==
    InterruptWaited(c) \/ HushPublishes(c) \/ HushRecords(c) \/ HushDies(c)

ExecNext ==
    \/ \E w \in Wakers : WakerNext(w) \/ \E k \in Keys : WakeCalled(w, k)
    \/ \E e \in Entries : DrainNext(e)
    \/ \E c \in Clients : HushNext(c) \/ ResumeCalls(c)
                            \/ \E k \in Keys : InterruptCalled(c, k)

ExecSpec == ExecInit /\ [][ExecNext]_execVars

ExecFairness ==
    /\ \A w \in Wakers : WF_execVars(WakerNext(w))
    /\ \A e \in Entries : WF_execVars(DrainNext(e))
    /\ \A c \in Clients : WF_execVars(HushNext(c))

ExecFairSpec == ExecSpec /\ ExecFairness

-----------------------------------------------------------------------------
(* Properties.                                                             *)

(* Nobody has work under way for session k: no entry, no call to wake and  *)
(* no interrupt that has not reported yet.                                 *)
Quiescent(k) ==
    /\ active[k] = None
    /\ \A w \in Wakers : waker[w].key # k
    /\ \A c \in Clients : hush[c].key # k

(* "so TUI ESC/spinner UX stays intact" (execution-status-bridge.ts): the  *)
(* status of a session nobody works on is idle, on the wire and in the     *)
(* map, in whatever order the reports of three fibers landed; unless       *)
(* whoever was to report it failed to, or died before it had installed the *)
(* finalizer that would (local.ts:20-22), and nobody has reported since.   *)
QuiescentIdle ==
    \A k \in Keys : Quiescent(k) =>
        /\ wire[k] = "idle" \/ <<k, "wire">> \in lapsed
        /\ data[k] = "idle" \/ <<k, "data">> \in lapsed

(* While the runner of a session runs, the session shows busy, unless the  *)
(* report of an interrupt landed after the drain's own.                    *)
BusyUnlessHushed ==
    \A e \in Entries : Draining(e, "body") =>
        \/ wire[entry[e].key] = "busy" /\ data[entry[e].key] = "busy"
        \/ entry[e].key \in hushed

(* A session that shows busy goes back to idle: whoever set it busy is     *)
(* followed by a report of idle, however the runner ends and whoever is    *)
(* interrupted.  Not so if a drain dies before its finalizer is installed, *)
(* for want of its session say, or if a report of idle fails.              *)
BusyEnds ==
    \A k \in Keys : []<>(data[k] = "idle" \/ <<k, "data">> \in lapsed)
=============================================================================
