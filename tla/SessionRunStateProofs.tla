------------------------ MODULE SessionRunStateProofs ------------------------
(***************************************************************************)
(* Proofs about SessionRunState, for any sessions and calls.  A runner's   *)
(* state, the fibers it names and the cancels that have claimed some are   *)
(* kept together by what each knows of the others: the parts of the        *)
(* invariant below say what.                                               *)
(***************************************************************************)
EXTENDS SessionRunState, TLAPS

(* A runner is named for the call that made it and is of one session: that *)
(* of its calls, of its cancels and of the map.                            *)
IsRunner(r, s) == r \in Calls /\ call[r].on = r /\ call[r].session = s

CallPlaced(c) ==
    /\ call[c].at = "off" => call[c].on = None /\ call[c].session = None
    /\ call[c].at # "off" => call[c].session \in Sessions
                              /\ IsRunner(call[c].on, call[c].session)

StopPlaced(x) ==
    /\ stop[x].on # None => stop[x].session \in Sessions
                             /\ IsRunner(stop[x].on, stop[x].session)
    /\ stop[x].at = "off" =>
          stop[x].on = None /\ stop[x].shell = None /\ stop[x].run = None
    /\ stop[x].at \in {"queued", "ready", "awaits", "queuedIdle"} =>
          stop[x].on # None
    /\ stop[x].at = "idling" => stop[x].session \in Sessions

MapPlaced(s) == runners[s] # None => IsRunner(runners[s], s)

Placed ==
    /\ \A c \in Calls : CallPlaced(c)
    /\ \A x \in Cancels : StopPlaced(x)
    /\ \A s \in Sessions : MapPlaced(s)

(* A call that has not brought its work to a runner left no trace of it.   *)
Entered(c) == call[c].at \in {"waiting", "answered"}

Created(c) == Entered(c) /\ call[c].run = c

Unused(c) ==
    /\ fiber[c] = "none"
    /\ \A r \in Calls : ref[r].shell # c /\ ref[r].run # c
    /\ \A x \in Cancels : stop[x].shell # c /\ stop[x].run # c

FreshUnused == \A c \in Calls : ~Entered(c) => Unused(c)

(* What a runner's state names is there, its own, and not over.            *)
ShellNamed(r, h) ==
    /\ Host(h) = r /\ Created(h)
    /\ fiber[h] \in {"setup", "doomed", "unborn", "working", "cleanup", "finishing"}

RunNamed(r, l) ==
    /\ Host(l) = r /\ Created(l)
    /\ ref[r].tag = "Running" => fiber[l] \in {"started", "working", "finishing"}
    /\ ref[r].tag = "ShellThenRun" => fiber[l] = "none"

Named ==
    \A r \in Calls :
        /\ ref[r].shell # None => ShellNamed(r, ref[r].shell)
        /\ ref[r].run # None => RunNamed(r, ref[r].run)

(* The semaphore is held by the startShell in onBusy, with the state Idle. *)
HeldRight ==
    /\ \A r \in Calls : held[r] # None =>
          ref[r].tag = "Idle" /\ call[held[r]].at = "onBusy" /\ call[held[r]].on = r
    /\ \A c \in Calls : call[c].at = "onBusy" => c \in Shells /\ held[call[c].on] = c

(* What a cancel took from a runner's state is named by no state again.    *)
Taken(x, c) ==
    /\ stop[x].on = Host(c) /\ Created(c)
    /\ \A r \in Calls : ref[r].shell # c /\ ref[r].run # c

ClaimsRight ==
    \A x \in Cancels :
        /\ stop[x].shell # None => Taken(x, stop[x].shell)
        /\ stop[x].run # None => Taken(x, stop[x].run)
        /\ stop[x].shell # None /\ stop[x].run # None =>
              fiber[stop[x].run] = "none"
        /\ stop[x].at = "ready" => stop[x].shell # None
        /\ stop[x].at = "awaits" => stop[x].shell # None \/ stop[x].run # None

(* A shell is not begun as a loop is, and a run that a cancel took without *)
(* a shell has been interrupted.                                           *)
InterruptedRuns ==
    /\ \A h \in Shells : fiber[h] # "started"
    /\ \A x \in Cancels : stop[x].shell = None /\ stop[x].run # None =>
          fiber[stop[x].run] \in {"cleanup", "finishing", "over"}

(* A fiber that is not over is named by its runner's state, or a cancel    *)
(* that took it waits for it or gave up on it, unless it is in onIdle.     *)
Owned ==
    \A c \in Calls : fiber[c] \notin {"none", "idling", "over"} =>
        c \in {ref[Host(c)].shell, ref[Host(c)].run} \/ Claimed(c) \/ Forsaken(c)

(* A run that was created is settled by its fiber, behind a shell, or by a *)
(* cancel, unless the cancel that took it with a shell gave up; and who    *)
(* waits waits for one.                                                    *)
Settling(l) ==
    \/ fiber[l] \notin {"none", "over"}
    \/ ref[Host(l)].tag = "ShellThenRun" /\ ref[Host(l)].run = l
    \/ \E x \in Cancels : stop[x].run = l /\ stop[x].at \in {"ready", "awaits"}
    \/ \E x \in Cancels :
          stop[x].run = l /\ stop[x].shell # None /\ stop[x].at = "left"

RunsSettle ==
    /\ \A l \in Loops : Created(l) /\ l \notin settled => Settling(l)
    /\ \A c \in Loops : Entered(c) => call[c].run \in Loops /\ Created(call[c].run)
    /\ \A c \in Shells : call[c].at = "waiting" => call[c].run = c

(* A runner that is busy, or about to be, is the one in the map.           *)
InsideOf(r) ==
    \E c \in Calls : call[c].at \in {"onBusy", "queued"} /\ call[c].on = r

Reachable ==
    \A r \in Calls : \A s \in Sessions :
        IsRunner(r, s) /\ (ref[r].tag # "Idle" \/ InsideOf(r)) =>
            runners[s] = r \/ s \in evicted

(* That a session shows busy only for a reason is inductive as it stands.  *)
RunInv ==
    /\ RunTypeOK /\ Placed /\ FreshUnused /\ Named /\ HeldRight /\ ClaimsRight
    /\ InterruptedRuns /\ Owned /\ RunsSettle /\ Reachable /\ QuietShowsIdle

(***************************************************************************)
(* What each step changes, field by field.                                 *)
(***************************************************************************)
RefRec == [tag : Tags, shell : Shells \cup {None}, run : Loops \cup {None}]

CallRec == [at : {"off", "queued", "onBusy", "waiting", "rejected", "answered"},
            session : Sessions \cup {None},
            on : Calls \cup {None}, run : Calls \cup {None}]

StopRec == [at : {"off", "queued", "ready", "awaits", "queuedIdle", "idling",
                  "left", "over"},
            session : Sessions \cup {None}, on : Calls \cup {None},
            shell : Shells \cup {None}, run : Loops \cup {None}]

LEMMA Typed ==
    RunTypeOK =>
        /\ ref \in [Calls -> RefRec] /\ call \in [Calls -> CallRec]
        /\ stop \in [Cancels -> StopRec] /\ fiber \in [Calls -> Phases]
        /\ runners \in [Sessions -> Calls \cup {None}]
        /\ held \in [Calls -> Shells \cup {None}]
  BY DEF RunTypeOK, RefRec, CallRec, StopRec

CallSet(c, at, s, r, run) ==
    /\ call' \in [Calls -> CallRec]
    /\ \A d \in Calls \ {c} : call'[d] = call[d]
    /\ call'[c].at = at /\ call'[c].session = s
    /\ call'[c].on = r /\ call'[c].run = run

CallAt(c, at) == CallSet(c, at, call[c].session, call[c].on, call[c].run)

RefSet(r, tag, shell, run) ==
    /\ ref' \in [Calls -> RefRec]
    /\ \A q \in Calls \ {r} : ref'[q] = ref[q]
    /\ ref'[r].tag = tag /\ ref'[r].shell = shell /\ ref'[r].run = run

StopSet(x, at, s, r, shell, run) ==
    /\ stop' \in [Cancels -> StopRec]
    /\ \A y \in Cancels \ {x} : stop'[y] = stop[y]
    /\ stop'[x].at = at /\ stop'[x].session = s /\ stop'[x].on = r
    /\ stop'[x].shell = shell /\ stop'[x].run = run

StopAt(x, at) ==
    StopSet(x, at, stop[x].session, stop[x].on, stop[x].shell, stop[x].run)

FiberSet(c, phase) == fiber' = [fiber EXCEPT ![c] = phase]

(* A call comes to a runner, or is let into it.                            *)
Comes(c, s, r) ==
    /\ c \in Calls /\ s \in Sessions /\ r \in Calls
    /\ \/ /\ call[c].at = "off" /\ r = RunnerOf(c, s)
          /\ runners' = [runners EXCEPT ![s] = r]
       \/ /\ call[c].at = "queued" /\ s = call[c].session /\ r = call[c].on
          /\ UNCHANGED runners
    /\ UNCHANGED <<settled, stop, data, evicted, unreported>>

CallParks(c, s, r) ==
    /\ Comes(c, s, r)
    /\ \E at \in {"queued", "rejected"} : CallSet(c, at, s, r, None)
    /\ UNCHANGED <<ref, held, fiber>>

CallJoins(c, s, r) ==
    /\ Comes(c, s, r) /\ c \in Loops /\ ref[r].run # None
    /\ CallSet(c, "waiting", s, r, ref[r].run)
    /\ UNCHANGED <<ref, held, fiber>>

CallFollows(c, s, r) ==
    /\ Comes(c, s, r) /\ c \in Loops /\ ref[r].tag = "Shell" /\ Free(r)
    /\ CallSet(c, "waiting", s, r, c)
    /\ RefSet(r, "ShellThenRun", ref[r].shell, c)
    /\ UNCHANGED <<held, fiber>>

CallStarts(c, s, r) ==
    /\ Comes(c, s, r) /\ c \in Loops /\ ref[r].tag = "Idle" /\ Free(r)
    /\ CallSet(c, "waiting", s, r, c)
    /\ RefSet(r, "Running", None, c)
    /\ FiberSet(c, "started")
    /\ UNCHANGED held

CallReports(h, s, r) ==
    /\ Comes(h, s, r) /\ h \in Shells /\ ref[r].tag = "Idle" /\ Free(r)
    /\ CallSet(h, "onBusy", s, r, None)
    /\ held' = [held EXCEPT ![r] = h]
    /\ UNCHANGED <<ref, fiber>>

ShellBegins(h) ==
    /\ h \in Shells /\ call[h].at = "onBusy"
    /\ CallSet(h, "waiting", call[h].session, Host(h), h)
    /\ RefSet(Host(h), "Shell", h, None)
    /\ held' = [held EXCEPT ![Host(h)] = None]
    /\ FiberSet(h, "setup")
    /\ data' = [data EXCEPT ![call[h].session] = "busy"]
    /\ UNCHANGED <<runners, settled, stop, evicted, unreported>>

CallLeaves(c) ==
    /\ c \in Calls
    /\ \/ /\ call[c].at = "waiting" /\ CallAt(c, "answered")
          /\ UNCHANGED <<held, fiber>>
       \/ /\ call[c].at = "queued" /\ CallAt(c, "rejected")
          /\ UNCHANGED <<held, fiber>>
       \/ /\ call[c].at = "onBusy" /\ CallAt(c, "rejected")
          /\ held' = [held EXCEPT ![Host(c)] = None] /\ UNCHANGED fiber
       \/ /\ call[c].at = "waiting" /\ c \in Shells /\ CallAt(c, "answered")
          /\ \E phase \in Interrupted(fiber[c]) : FiberSet(c, phase)
          /\ UNCHANGED held
    /\ UNCHANGED <<runners, ref, settled, stop, data, evicted, unreported>>

(* A fiber goes on, or is about to finish.                                 *)
FiberMoves(c) ==
    /\ c \in Calls
    /\ \/ /\ fiber[c] = "started" /\ FiberSet(c, "working")
          /\ data' = [data EXCEPT ![call[c].session] = "busy"]
       \/ /\ fiber[c] = "setup" /\ FiberSet(c, "working") /\ UNCHANGED data
       \/ /\ fiber[c] = "doomed" /\ FiberSet(c, "cleanup") /\ UNCHANGED data
       \/ /\ fiber[c] \in {"setup", "doomed", "working", "cleanup"}
          /\ FiberSet(c, "finishing") /\ UNCHANGED data
    /\ UNCHANGED <<runners, ref, held, call, settled, stop, evicted, unreported>>

(* finishRun and finishShell: the runner becomes Idle, goes on to the loop *)
(* that waited, or is left alone.                                          *)
WorkIdles(c) ==
    /\ c \in Calls /\ fiber[c] = "finishing"
    /\ \/ c \in Loops /\ ref[Host(c)].tag = "Running" /\ ref[Host(c)].run = c
       \/ c \in Shells /\ ref[Host(c)].tag = "Shell" /\ ref[Host(c)].shell = c
    /\ RefSet(Host(c), "Idle", None, None)
    /\ Deletes(call[c].session, Host(c))
    /\ FiberSet(c, "idling")
    /\ UNCHANGED <<held, call, settled, stop, data, unreported>>

WorkHandsOver(h) ==
    /\ h \in Shells /\ fiber[h] = "finishing"
    /\ ref[Host(h)].tag = "ShellThenRun" /\ ref[Host(h)].shell = h
    /\ RefSet(Host(h), "Running", None, ref[Host(h)].run)
    /\ fiber' = [fiber EXCEPT ![h] = "over", ![ref[Host(h)].run] = "started"]
    /\ UNCHANGED <<runners, held, call, settled, stop, data, evicted, unreported>>

WorkIsOver(c) ==
    /\ c \in Calls /\ fiber[c] = "finishing"
    /\ \/ c \in Loops /\ ~IsCurrent(Host(c), c) /\ settled' = settled \cup {c}
       \/ c \in Shells /\ ref[Host(c)].shell # c /\ UNCHANGED settled
    /\ FiberSet(c, "over")
    /\ UNCHANGED <<runners, ref, held, call, stop, data, evicted, unreported>>

WorkReports(c) ==
    /\ c \in Calls /\ fiber[c] = "idling"
    /\ FiberSet(c, "over")
    /\ RecordsIdle(call[c].session)
    /\ settled' = settled \cup ({c} \cap Loops)
    /\ UNCHANGED <<runners, ref, held, call, stop, evicted>>

(* A cancel comes to a runner, or is let into it.                          *)
StopComes(x, s, r) ==
    /\ x \in Cancels /\ s \in Sessions /\ r \in Calls
    /\ \/ stop[x].at = "off" /\ r = runners[s]
       \/ stop[x].at = "queued" /\ s = stop[x].session /\ r = stop[x].on
    /\ UNCHANGED <<runners, held, call, settled, data, evicted, unreported>>

StopTakesShell(x, s, r) ==
    /\ StopComes(x, s, r) /\ ref[r].shell # None
    /\ StopSet(x, "ready", s, r, ref[r].shell, ref[r].run)
    /\ RefSet(r, "Idle", None, None)
    /\ UNCHANGED fiber

StopTakesRun(x, s, r) ==
    /\ StopComes(x, s, r) /\ ref[r].shell = None /\ ref[r].run # None
    /\ StopSet(x, "awaits", s, r, None, ref[r].run)
    /\ RefSet(r, "Idle", None, None)
    /\ \E phase \in Interrupted(fiber[ref[r].run]) : FiberSet(ref[r].run, phase)

StopFindsIdle(x, s, r) ==
    /\ StopComes(x, s, r) /\ ref[r].tag = "Idle"
    /\ StopAt(x, "over")
    /\ UNCHANGED <<ref, fiber>>

StopParks(x, s) ==
    /\ x \in Cancels /\ s \in Sessions /\ stop[x].at = "off"
    /\ \/ /\ runners[s] = None
          /\ StopSet(x, "idling", s, stop[x].on, stop[x].shell, stop[x].run)
       \/ /\ runners[s] # None
          /\ StopSet(x, "queued", s, runners[s], stop[x].shell, stop[x].run)
    /\ UNCHANGED <<runners, ref, held, call, fiber, settled, data, evicted, unreported>>

StopInterrupts(x) ==
    /\ x \in Cancels /\ stop[x].at = "ready" 
    /\ fiber[stop[x].shell] \notin {"setup", "doomed", "unborn"}
    /\ \E phase \in Interrupted(fiber[stop[x].shell]) :
          FiberSet(stop[x].shell, phase)
    /\ StopAt(x, "awaits")
    /\ UNCHANGED <<runners, ref, held, call, settled, data, evicted, unreported>>

(* The end of a cancel: onIdle if the runner is Idle still.                *)
StopIdles(x) ==
    /\ x \in Cancels
    /\ \/ /\ stop[x].at = "awaits" /\ fiber[Target(x)] = "over"
          /\ settled' = settled \cup ({stop[x].run} \ {None})
       \/ stop[x].at = "queuedIdle" /\ UNCHANGED settled
    /\ \/ /\ ref[stop[x].on].tag = "Idle" /\ StopAt(x, "idling")
          /\ Deletes(stop[x].session, stop[x].on)
       \/ ref[stop[x].on].tag # "Idle" /\ StopAt(x, "over") /\ Keeps
    /\ UNCHANGED <<ref, held, call, fiber, data, unreported>>

StopWaits(x) ==
    /\ x \in Cancels /\ stop[x].at = "awaits" /\ fiber[Target(x)] = "over"
    /\ settled' = settled \cup ({stop[x].run} \ {None})
    /\ StopAt(x, "queuedIdle")
    /\ UNCHANGED <<runners, ref, held, call, fiber, data, evicted, unreported>>

StopReports(x) ==
    /\ x \in Cancels /\ stop[x].at = "idling"
    /\ RecordsIdle(stop[x].session)
    /\ StopAt(x, "over")
    /\ UNCHANGED <<runners, ref, held, call, fiber, settled, evicted>>

(* A cancel gives up: in the queue it is over, later it leaves the rest.   *)
StopAbandons(x) ==
    /\ x \in Cancels
    /\ \/ stop[x].at = "queued" /\ StopAt(x, "over") /\ UNCHANGED unreported
       \/ /\ Reporting(x)
          /\ stop[x].at = "awaits" => fiber[Target(x)] # "over"
          /\ StopAt(x, "left")
          /\ unreported' = unreported \cup {stop[x].session}
    /\ UNCHANGED <<runners, ref, held, call, fiber, settled, data, evicted>>

Rests ==
    UNCHANGED <<runners, ref, held, call, fiber, settled, stop, data, evicted, unreported>>

CallStep ==
    \/ \E c \in Calls, s \in Sessions, r \in Calls :
          CallParks(c, s, r) \/ CallJoins(c, s, r) \/ CallFollows(c, s, r)
             \/ CallStarts(c, s, r) \/ CallReports(c, s, r)
    \/ \E h \in Shells : ShellBegins(h)
    \/ \E c \in Calls : CallLeaves(c)

FiberStep ==
    \/ \E c \in Calls : FiberMoves(c) \/ WorkIdles(c) \/ WorkIsOver(c)
                         \/ WorkReports(c)
    \/ \E h \in Shells : WorkHandsOver(h)

StopStep ==
    \/ \E x \in Cancels, s \in Sessions, r \in Calls :
          StopTakesShell(x, s, r) \/ StopTakesRun(x, s, r)
             \/ StopFindsIdle(x, s, r)
    \/ \E x \in Cancels, s \in Sessions : StopParks(x, s)
    \/ \E x \in Cancels : StopInterrupts(x) \/ StopIdles(x) \/ StopWaits(x)
                           \/ StopReports(x) \/ StopAbandons(x)

LEMMA CallGoesEffect ==
    ASSUME RunTypeOK, NEW c \in Calls, NEW s \in Sessions, NEW r \in Calls,
           NEW at \in {"queued", "onBusy", "waiting", "rejected"},
           NEW run \in Calls \cup {None}, CallGoes(c, s, r, at, run)
    PROVE  CallSet(c, at, s, r, run)
  BY Typed DEF CallGoes, CallSet, CallRec

LEMMA CallAtEffect ==
    ASSUME RunTypeOK, NEW c \in Calls, NEW at \in {"answered", "rejected"},
           call' = [call EXCEPT ![c].at = at]
    PROVE  CallAt(c, at)
  BY Typed DEF CallAt, CallSet, CallRec

LEMMA RefEffect ==
    ASSUME RunTypeOK, NEW r \in Calls, NEW rec \in RefRec,
           ref' = [ref EXCEPT ![r] = rec]
    PROVE  RefSet(r, rec.tag, rec.shell, rec.run)
  BY Typed DEF RefSet, RefRec

LEMMA RefIdleEffect ==
    ASSUME RunTypeOK, NEW r \in Calls, ref' = [ref EXCEPT ![r] = IdleState]
    PROVE  RefSet(r, "Idle", None, None)
<1>1. IdleState \in RefRec
  BY DEF IdleState, RefRec, Tags
<1> QED
  BY <1>1, RefEffect DEF IdleState

LEMMA RefRunningEffect ==
    ASSUME RunTypeOK, NEW r \in Calls, NEW l \in Loops,
           ref' = [ref EXCEPT ![r] = Running(l)]
    PROVE  RefSet(r, "Running", None, l)
<1>1. Running(l) \in RefRec
  BY DEF Running, RefRec, Tags
<1> QED
  BY <1>1, RefEffect DEF Running

LEMMA StopAtEffect ==
    ASSUME RunTypeOK, NEW x \in Cancels,
           NEW at \in {"ready", "awaits", "queuedIdle", "idling", "left", "over"},
           stop' = [stop EXCEPT ![x].at = at]
    PROVE  StopAt(x, at)
  BY Typed DEF StopAt, StopSet, StopRec

LEMMA StoppingEffect ==
    ASSUME RunTypeOK, NEW x \in Cancels, NEW s \in Sessions, NEW r \in Calls,
           NEW at \in {"ready", "awaits"}, Stopping(x, s, r, at)
    PROVE  StopSet(x, at, s, r, ref[r].shell, ref[r].run)
<1>1. ref[r] \in RefRec
  BY Typed
<1>2. ref[r].shell \in Shells \cup {None} /\ ref[r].run \in Loops \cup {None}
  BY <1>1 DEF RefRec
<1> QED
  BY <1>2, Typed DEF Stopping, StopSet, StopRec

LEMMA QueueStep ==
    ASSUME RunTypeOK, [RunNext]_runVars
    PROVE  queue' \in [Calls -> Seq(Operations)]
<1>1. queue \in [Calls -> Seq(Operations)]
  BY DEF RunTypeOK
<1>2. ASSUME NEW r, NEW op, Turn(r, op)
      PROVE  queue' \in [Calls -> Seq(Operations)]
  <2>1. CASE r \in Calls /\ queue[r] # <<>>
    <3>1. Tail(queue[r]) \in Seq(Operations)
      BY <1>1, <2>1
    <3>2. queue' = queue \/ queue' = [queue EXCEPT ![r] = Tail(@)]
      BY <1>2 DEF Turn
    <3> QED
      BY <1>1, <2>1, <3>1, <3>2
  <2>2. CASE queue[r] = <<>>
    BY <1>1, <1>2, <2>2 DEF Turn
  <2>3. CASE r \notin Calls
    BY <1>1, <1>2, <2>3 DEF Turn
  <2> QED
    BY <2>1, <2>2, <2>3
<1>3. ASSUME NEW r, NEW op \in Operations, MustWait(r, op)
      PROVE  queue' \in [Calls -> Seq(Operations)]
  <2>1. CASE r \in Calls
    BY <1>1, <1>3, <2>1 DEF MustWait
  <2>2. CASE r \notin Calls
    BY <1>1, <1>3, <2>2 DEF MustWait
  <2> QED
    BY <2>1, <2>2
<1>9. ASSUME NEW r, NEW op, Leaves(r, op)
      PROVE  queue' \in [Calls -> Seq(Operations)]
  <2>1. PICK i \in DOMAIN queue[r] : queue' = [queue EXCEPT ![r] = RemoveAt(@, i)]
    BY <1>9 DEF Leaves
  <2>2. CASE r \in Calls
    <3>1. queue[r] \in Seq(Operations) /\ i \in 1 .. Len(queue[r])
      BY <1>1, <2>1, <2>2
    <3>2. /\ SubSeq(queue[r], 1, i - 1) \in Seq(Operations)
          /\ SubSeq(queue[r], i + 1, Len(queue[r])) \in Seq(Operations)
      BY <3>1
    <3>3. RemoveAt(queue[r], i) \in Seq(Operations)
      BY <3>2 DEF RemoveAt
    <3> QED
      BY <1>1, <2>1, <2>2, <3>3
  <2>3. CASE r \notin Calls
    BY <1>1, <2>1, <2>3
  <2> QED
    BY <2>2, <2>3
<1>4. \A c \in Calls \cup Cancels : \A kind \in {"enter", "finish", "cancel", "idle"} :
        <<kind, c>> \in Operations
  BY DEF Operations
<1>5. \A h \in Shells : h \in Calls
  BY DEF Calls
<1>6. ASSUME NEW c \in Calls,
             \/ CallNext(c) \/ FiberNext(c) \/ CallAbandoned(c)
             \/ \E s \in Sessions : Called(c, s)
      PROVE  queue' \in [Calls -> Seq(Operations)]
  BY <1>1, <1>2, <1>3, <1>4, <1>6, <1>9
     DEF CallAbandoned, CallNext, FiberNext, Called, Admitted, Answered, LoopBegins, ShellReady,
         WorkEnds, FinishRun, FinishShell, FinishWaits, Idles
<1>7. ASSUME NEW x \in Cancels,
             \/ CancelNext(x) \/ CancelAbandoned(x)
             \/ \E s \in Sessions : CancelCalled(x, s)
      PROVE  queue' \in [Calls -> Seq(Operations)]
  BY <1>1, <1>2, <1>3, <1>4, <1>7, <1>9
     DEF CancelAbandoned, CancelNext, CancelCalled, CancelAdmitted, StopsShell, CancelAwaited,
         CancelIdles, CancelRecords
<1>8. ASSUME NEW h \in Shells, ShellStarts(h)
      PROVE  queue' \in [Calls -> Seq(Operations)]
  BY <1>1, <1>8 DEF ShellStarts
<1> QED
  BY <1>1, <1>6, <1>7, <1>8 DEF RunNext, runVars

(* Every action is one of these steps.                                     *)
LEMMA EntersSteps ==
    ASSUME RunTypeOK, NEW c \in Calls, NEW s \in Sessions, NEW r \in Calls,
           Comes(c, s, r), Free(r), Enters(c, s, r)
    PROVE  CallParks(c, s, r) \/ CallJoins(c, s, r) \/ CallFollows(c, s, r)
              \/ CallStarts(c, s, r) \/ CallReports(c, s, r)
<1>0. ref[r] \in RefRec /\ c \notin Loops \cap Shells
  BY Typed, KindsDisjoint
<1>1. CASE c \in Loops /\ Joins(c, s, r) /\ UNCHANGED held
  <2>1. ref[r].run \in Calls \cup {None}
    BY <1>0 DEF RefRec, Calls
  <2>2. CallSet(c, "waiting", s, r, ref[r].run)
    BY <1>1, <2>1, CallGoesEffect DEF Joins
  <2> QED
    BY <1>1, <2>2 DEF CallJoins, Joins
<1>2. CASE c \in Loops /\ WaitsForShell(c, s, r) /\ UNCHANGED held
  <2> DEFINE rec == [ref[r] EXCEPT !.tag = "ShellThenRun", !.run = c]
  <2>1. /\ rec \in RefRec /\ rec.tag = "ShellThenRun"
        /\ rec.shell = ref[r].shell /\ rec.run = c
    BY <1>0, <1>2 DEF RefRec, Tags
  <2>2. ref' = [ref EXCEPT ![r] = rec]
    BY <1>2 DEF WaitsForShell
  <2>3. RefSet(r, "ShellThenRun", ref[r].shell, c)
    BY <2>1, <2>2, RefEffect
  <2>4. CallSet(c, "waiting", s, r, c)
    BY <1>2, CallGoesEffect DEF WaitsForShell
  <2> QED
    BY <1>2, <2>3, <2>4 DEF CallFollows, WaitsForShell
<1>3. CASE c \in Loops /\ Starts(c, s, r) /\ UNCHANGED held
  <2>1. RefSet(r, "Running", None, c)
    BY <1>3, RefRunningEffect DEF Starts
  <2>2. CallSet(c, "waiting", s, r, c)
    BY <1>3, CallGoesEffect DEF Starts
  <2> QED
    BY <1>3, <2>1, <2>2 DEF CallStarts, Starts, FiberSet
<1>4. CASE c \in Shells /\ ShellEnters(c, s, r)
  <2>1. CASE CallGoes(c, s, r, "rejected", None) /\ UNCHANGED held
    BY <1>4, <2>1, CallGoesEffect DEF CallParks, ShellEnters
  <2>2. CASE ~Rejected(r) /\ CallGoes(c, s, r, "onBusy", None)
               /\ held' = [held EXCEPT ![r] = c]
    BY <1>4, <2>2, CallGoesEffect DEF CallReports, ShellEnters, Rejected
  <2> QED
    BY <1>4, <2>1, <2>2 DEF ShellEnters
<1> QED
  BY <1>1, <1>2, <1>3, <1>4 DEF Enters, LoopEnters

LEMMA CalledSteps ==
    ASSUME RunTypeOK, Placed, NEW c \in Calls, NEW s \in Sessions, Called(c, s)
    PROVE  CallStep
<1> DEFINE r == RunnerOf(c, s)
<1>1. r \in Calls
  BY DEF RunTypeOK, RunnerOf
<1>2. Comes(c, s, r)
  BY <1>1 DEF Comes, Called, histories
<1>3. CASE Free(r) /\ Enters(c, s, r)
  BY <1>1, <1>2, <1>3, EntersSteps DEF CallStep
<1>4. CASE CallGoes(c, s, r, "queued", None) /\ UNCHANGED <<ref, fiber, held>>
  BY <1>1, <1>2, <1>4, CallGoesEffect DEF CallStep, CallParks
<1> QED
  BY <1>3, <1>4 DEF Called

LEMMA AdmittedSteps ==
    ASSUME RunTypeOK, Placed, NEW c \in Calls, Admitted(c)
    PROVE  CallStep
<1> DEFINE r == call[c].on
           s == call[c].session
<1>1. s \in Sessions /\ r \in Calls
  BY DEF Placed, CallPlaced, IsRunner, Admitted
<1>2. Comes(c, s, r)
  BY <1>1 DEF Comes, Admitted, histories
<1> QED
  BY <1>1, <1>2, EntersSteps DEF CallStep, Admitted, Turn

LEMMA CallSteps ==
    ASSUME RunTypeOK, Placed,
           \/ \E c \in Calls : \/ CallNext(c) \/ CallAbandoned(c)
                              \/ \E s \in Sessions : Called(c, s)
           \/ \E h \in Shells : ShellStarts(h)
    PROVE  CallStep
<1>1. ASSUME NEW c \in Calls, Answered(c)
      PROVE  CallLeaves(c)
  BY <1>1, CallAtEffect DEF CallLeaves, Answered, histories
<1>2. ASSUME NEW c \in Calls, CallAbandoned(c)
      PROVE  CallLeaves(c)
  <2>1. \/ /\ call[c].at = "queued" /\ CallAt(c, "rejected")
           /\ UNCHANGED <<held, fiber>>
        \/ /\ call[c].at = "onBusy" /\ CallAt(c, "rejected")
           /\ held' = [held EXCEPT ![Host(c)] = None] /\ UNCHANGED fiber
        \/ /\ call[c].at = "waiting" /\ CallAt(c, "answered")
           /\ UNCHANGED <<held, fiber>>
        \/ /\ call[c].at = "waiting" /\ c \in Shells /\ CallAt(c, "answered")
           /\ \E phase \in Interrupted(fiber[c]) : FiberSet(c, phase)
           /\ UNCHANGED held
    BY <1>2, CallAtEffect DEF CallAbandoned, FiberSet, Host
  <2> QED
    BY <1>2, <2>1 DEF CallLeaves, CallAbandoned, histories
<1>3. ASSUME NEW h \in Shells, ShellStarts(h)
      PROVE  ShellBegins(h)
  <2>1. /\ h \in Calls /\ Host(h) \in Calls /\ call[h].session \in Sessions
        /\ call[h].at = "onBusy"
    BY <1>3 DEF Placed, CallPlaced, IsRunner, Host, Calls, ShellStarts
  <2> DEFINE rec == [tag |-> "Shell", shell |-> h, run |-> None]
  <2>2. rec \in RefRec /\ rec.tag = "Shell" /\ rec.shell = h /\ rec.run = None
    BY DEF RefRec, Tags
  <2>5. ref' = [ref EXCEPT ![Host(h)] = rec]
    BY <1>3 DEF ShellStarts, Host
  <2>3. RefSet(Host(h), "Shell", h, None)
    BY <2>1, <2>2, <2>5, RefEffect
  <2>4. CallSet(h, "waiting", call[h].session, Host(h), h)
    BY <1>3, <2>1, Typed DEF ShellStarts, CallSet, CallRec, Host
  <2> QED
    BY <1>3, <2>1, <2>3, <2>4 DEF ShellStarts, ShellBegins, FiberSet, Host, histories
<1> QED
  BY <1>1, <1>2, <1>3, CalledSteps, AdmittedSteps DEF CallStep, CallNext


LEMMA FiberSteps ==
    ASSUME RunTypeOK, Placed, FreshUnused, NEW c \in Calls, FiberNext(c)
    PROVE  FiberStep \/ Rests
<1>1. CASE FinishWaits(c)
  BY <1>1 DEF FinishWaits, Rests, histories
<1>2. CASE LoopBegins(c) \/ ShellReady(c) \/ WorkEnds(c)
  BY <1>2 DEF LoopBegins, ShellReady, WorkEnds, FiberGoes, FiberStep, FiberMoves,
              FiberSet, histories
<1>3. CASE Idles(c)
  BY <1>3 DEF Idles, FiberGoes, FiberStep, WorkReports, FiberSet
<1>4. ASSUME fiber[c] # "none"
      PROVE  Host(c) \in Calls
  BY <1>4 DEF Placed, CallPlaced, IsRunner, FreshUnused, Unused, Entered, Host
<1>5. CASE FinishRun(c)
  <2>1. Host(c) \in Calls
    BY <1>4, <1>5 DEF FinishRun
  <2>2. CASE IsCurrent(Host(c), c)
    <3>1. RefSet(Host(c), "Idle", None, None)
      BY <1>5, <2>1, <2>2, RefIdleEffect DEF FinishRun
    <3> QED
      BY <1>5, <2>2, <3>1 DEF FinishRun, IsCurrent, FiberStep, WorkIdles, FiberSet
  <2>3. CASE ~IsCurrent(Host(c), c)
    BY <1>5, <2>3 DEF FinishRun, FiberStep, WorkIsOver, FiberSet, Keeps
  <2> QED
    BY <2>2, <2>3
<1>6. CASE FinishShell(c)
  <2> DEFINE r == Host(c)
  <2>1. r \in Calls /\ c \in Shells /\ fiber[c] = "finishing"
    BY <1>4, <1>6 DEF FinishShell
  <2>2. CASE /\ ref[r].tag = "Shell" /\ ref[r].shell = c
             /\ ref' = [ref EXCEPT ![r] = IdleState]
             /\ Deletes(call[c].session, r)
             /\ fiber' = [fiber EXCEPT ![c] = "idling"]
    <3>1. RefSet(Host(c), "Idle", None, None)
      BY <2>1, <2>2, RefIdleEffect
    <3> QED
      BY <1>6, <2>1, <2>2, <3>1 DEF FinishShell, FiberStep, WorkIdles, FiberSet
  <2>3. CASE /\ ref[r].tag = "ShellThenRun" /\ ref[r].shell = c
             /\ ref' = [ref EXCEPT ![r] = Running(ref[r].run)]
             /\ fiber' = [fiber EXCEPT ![c] = "over", ![ref[r].run] = "started"]
             /\ Keeps
    <3>1. ref[r].run \in Loops
      BY <2>1, <2>3, Typed DEF RunTypeOK, RefRec
    <3>2. RefSet(Host(c), "Running", None, ref[r].run)
      BY <2>1, <2>3, <3>1, RefRunningEffect
    <3> QED
      BY <1>6, <2>1, <2>3, <3>2 DEF FinishShell, FiberStep, WorkHandsOver, Keeps
  <2>4. CASE /\ ref[r].shell # c
             /\ fiber' = [fiber EXCEPT ![c] = "over"]
             /\ Keeps /\ UNCHANGED ref
    BY <1>6, <2>1, <2>4 DEF FinishShell, FiberStep, WorkIsOver, FiberSet, Keeps
  <2> QED
    BY <1>6, <2>2, <2>3, <2>4 DEF FinishShell
<1> QED
  BY <1>1, <1>2, <1>3, <1>5, <1>6 DEF FiberNext

LEMMA CancelEntersSteps ==
    ASSUME RunTypeOK, NEW x \in Cancels, NEW s \in Sessions, NEW r \in Calls,
           StopComes(x, s, r), CancelEnters(x, s, r)
    PROVE  StopStep
<1>0. /\ ref[r] \in RefRec
      /\ ref[r].tag # "Idle" => ref[r].shell # None \/ ref[r].run # None
  BY Typed DEF RunTypeOK, RefRec, Tags
<1>1. CASE Stops(x, s, r) /\ ref[r].shell # None
  <2>1. RefSet(r, "Idle", None, None)
    BY <1>1, RefIdleEffect DEF Stops
  <2>2. StopSet(x, "ready", s, r, ref[r].shell, ref[r].run)
    BY <1>1, StoppingEffect DEF Stops
  <2> QED
    BY <1>1, <2>1, <2>2 DEF Stops, StopStep, StopTakesShell
<1>2. CASE Stops(x, s, r) /\ ref[r].shell = None
  <2>1. RefSet(r, "Idle", None, None)
    BY <1>2, RefIdleEffect DEF Stops
  <2>2. StopSet(x, "awaits", s, r, None, ref[r].run)
    BY <1>2, StoppingEffect DEF Stops
  <2> QED
    BY <1>0, <1>2, <2>1, <2>2 DEF Stops, StopStep, StopTakesRun, FiberSet
<1>3. CASE FindsIdle(x, s, r)
  <2>1. StopAt(x, "over")
    BY <1>3, StopAtEffect DEF FindsIdle
  <2> QED
    BY <1>3, <2>1 DEF FindsIdle, StopStep, StopFindsIdle
<1> QED
  BY <1>1, <1>2, <1>3 DEF CancelEnters

LEMMA CancelCalledSteps ==
    ASSUME RunTypeOK, NEW x \in Cancels, NEW s \in Sessions, CancelCalled(x, s)
    PROVE  StopStep
<1> DEFINE r == runners[s]
<1>0. r \in Calls \cup {None} /\ stop[x] \in StopRec /\ stop \in [Cancels -> StopRec]
  BY Typed
<1>1. CASE r = None
  <2>1. stop' = [stop EXCEPT ![x].at = "idling", ![x].session = s]
    BY <1>1 DEF CancelCalled
  <2>2. StopSet(x, "idling", s, stop[x].on, stop[x].shell, stop[x].run)
    BY <1>0, <2>1 DEF StopSet, StopRec
  <2> QED
    BY <1>1, <2>2 DEF CancelCalled, StopStep, StopParks, histories
<1>2. CASE r # None /\ CancelEnters(x, s, r)
  BY <1>0, <1>2, CancelEntersSteps DEF CancelCalled, StopComes, histories
<1>3. CASE /\ r # None
           /\ stop' = [stop EXCEPT ![x].at = "queued", ![x].session = s,
                                   ![x].on = r]
           /\ UNCHANGED <<ref, fiber>>
  <2>1. StopSet(x, "queued", s, r, stop[x].shell, stop[x].run)
    BY <1>0, <1>3 DEF StopSet, StopRec
  <2> QED
    BY <1>3, <2>1 DEF CancelCalled, StopStep, StopParks, histories
<1> QED
  BY <1>1, <1>2, <1>3 DEF CancelCalled

LEMMA CancelSteps ==
    ASSUME RunTypeOK, Placed, NEW x \in Cancels, CancelNext(x)
    PROVE  StopStep
<1>1. CASE CancelAdmitted(x)
  <2>1. stop[x].session \in Sessions /\ stop[x].on \in Calls
    BY <1>1 DEF CancelAdmitted, Placed, StopPlaced, IsRunner
  <2>2. StopComes(x, stop[x].session, stop[x].on)
    BY <1>1, <2>1 DEF CancelAdmitted, StopComes, histories
  <2> QED
    BY <1>1, <2>1, <2>2, CancelEntersSteps DEF CancelAdmitted
<1>2. CASE StopsShell(x)
  BY <1>2, StopAtEffect
     DEF StopsShell, StopGoes, StopStep, StopInterrupts, FiberSet, histories
<1>3. ASSUME IdleIfCurrent(x, stop[x].on)
      PROVE  \/ /\ ref[stop[x].on].tag = "Idle" /\ StopAt(x, "idling")
                /\ Deletes(stop[x].session, stop[x].on)
             \/ ref[stop[x].on].tag # "Idle" /\ StopAt(x, "over") /\ Keeps
  BY <1>3, StopAtEffect DEF IdleIfCurrent, StopGoes
<1>4. CASE CancelAwaited(x)
  BY <1>3, <1>4, StopAtEffect
     DEF CancelAwaited, StopGoes, StopStep, StopIdles, StopWaits, Keeps
<1>5. CASE CancelIdles(x)
  BY <1>3, <1>5 DEF CancelIdles, StopStep, StopIdles
<1>6. CASE CancelRecords(x)
  BY <1>6, StopAtEffect DEF CancelRecords, StopGoes, StopStep, StopReports
<1> QED
  BY <1>1, <1>2, <1>4, <1>5, <1>6 DEF CancelNext

LEMMA AbandonedSteps ==
    ASSUME RunTypeOK, NEW x \in Cancels, CancelAbandoned(x)
    PROVE  StopStep
<1>1. \/ stop[x].at = "queued" /\ StopAt(x, "over") /\ UNCHANGED unreported
      \/ /\ Reporting(x)
         /\ stop[x].at = "awaits" => fiber[Target(x)] # "over"
         /\ StopAt(x, "left")
         /\ unreported' = unreported \cup {stop[x].session}
  BY StopAtEffect DEF CancelAbandoned, StopGoes, Reporting
<1> QED
  BY <1>1 DEF CancelAbandoned, StopAbandons, StopStep

LEMMA RunSteps ==
    ASSUME RunTypeOK, Placed, FreshUnused, [RunNext]_runVars
    PROVE  CallStep \/ FiberStep \/ StopStep \/ Rests
<1>1. CASE UNCHANGED runVars
  BY <1>1 DEF runVars, Rests
<1>2. CASE RunNext
  BY <1>2, CallSteps, FiberSteps, CancelSteps, CancelCalledSteps, AbandonedSteps
     DEF RunNext
<1> QED
  BY <1>1, <1>2

(***************************************************************************)
(* Every part of the invariant holds at first and is kept by every step.   *)
(***************************************************************************)
LEMMA RunInitInv == RunInit => RunInv
<1> SUFFICES ASSUME RunInit
             PROVE  RunInv
  OBVIOUS
<1> USE DEF RunInit
<1>1. RunTypeOK
  BY DEF RunTypeOK, IdleState, Tags, Phases
<1>2. Placed
  BY DEF Placed, CallPlaced, StopPlaced, MapPlaced
<1>3. FreshUnused /\ Named /\ HeldRight /\ ClaimsRight
  BY KindsDisjoint
     DEF FreshUnused, Unused, Named, HeldRight, ClaimsRight, IdleState, Calls
<1>4. InterruptedRuns /\ Owned /\ RunsSettle /\ Reachable /\ QuietShowsIdle
  BY DEF InterruptedRuns, Owned, RunsSettle, Created, Entered, Reachable, IsRunner,
         InsideOf, QuietShowsIdle, IdleState, Calls
<1> QED
  BY <1>1, <1>2, <1>3, <1>4 DEF RunInv

LEMMA DeletesTypes ==
    ASSUME RunTypeOK, NEW s \in Sessions, NEW r, Deletes(s, r)
    PROVE  /\ runners' \in [Sessions -> Calls \cup {None}]
           /\ evicted' \in SUBSET Sessions
  BY DEF RunTypeOK, Deletes

TagsMatch ==
    \A r \in Calls :
        /\ ref[r].shell # None <=> ref[r].tag \in {"Shell", "ShellThenRun"}
        /\ ref[r].run # None <=> ref[r].tag \in {"Running", "ShellThenRun"}

LEMMA RefSetTypes ==
    ASSUME RunTypeOK, NEW r \in Calls, NEW tag, NEW shell, NEW run,
           RefSet(r, tag, shell, run),
           shell # None <=> tag \in {"Shell", "ShellThenRun"},
           run # None <=> tag \in {"Running", "ShellThenRun"}
    PROVE  ref' \in [Calls -> RefRec] /\ TagsMatch'
<1>1. ASSUME NEW q \in Calls
      PROVE  /\ ref'[q].shell # None <=> ref'[q].tag \in {"Shell", "ShellThenRun"}
             /\ ref'[q].run # None <=> ref'[q].tag \in {"Running", "ShellThenRun"}
  <2>1. CASE q = r
    BY <2>1 DEF RefSet
  <2>2. CASE q # r
    BY <2>2 DEF RefSet, RunTypeOK
  <2> QED
    BY <2>1, <2>2
<1> QED
  BY <1>1 DEF RefSet, TagsMatch

LEMMA TypedParts ==
    RunTypeOK <=>
        /\ ref \in [Calls -> RefRec] /\ TagsMatch
        /\ call \in [Calls -> CallRec]
        /\ stop \in [Cancels -> StopRec] /\ fiber \in [Calls -> Phases]
        /\ runners \in [Sessions -> Calls \cup {None}]
        /\ held \in [Calls -> Shells \cup {None}]
        /\ queue \in [Calls -> Seq(Operations)]
        /\ settled \in SUBSET Loops /\ data \in [Sessions -> {"idle", "busy"}]
        /\ evicted \in SUBSET Sessions /\ unreported \in SUBSET Sessions
  BY DEF RunTypeOK, RefRec, CallRec, StopRec, TagsMatch

LEMMA RunTypeStep ==
    ASSUME RunInv, [RunNext]_runVars
    PROVE  RunTypeOK'
<1>1. RunTypeOK /\ queue' \in [Calls -> Seq(Operations)]
  BY QueueStep DEF RunInv
<1> SUFFICES
        /\ ref' \in [Calls -> RefRec] /\ TagsMatch'
        /\ call' \in [Calls -> CallRec]
        /\ stop' \in [Cancels -> StopRec] /\ fiber' \in [Calls -> Phases]
        /\ runners' \in [Sessions -> Calls \cup {None}]
        /\ held' \in [Calls -> Shells \cup {None}]
        /\ settled' \in SUBSET Loops /\ data' \in [Sessions -> {"idle", "busy"}]
        /\ evicted' \in SUBSET Sessions /\ unreported' \in SUBSET Sessions
  BY <1>1 DEF RunTypeOK, RefRec, CallRec, StopRec, TagsMatch
<1>2. /\ Loops \subseteq Calls /\ Shells \subseteq Calls
      /\ None \notin Calls /\ Loops \cap Shells = {}
      /\ {"started", "finishing", "over", "setup", "doomed", "working", "cleanup",
          "idling"} \subseteq Phases
  BY KindsDisjoint DEF Calls, Phases
<1>3. \A c \in Calls : fiber[c] # "none" \/ call[c].at # "off" =>
         Host(c) \in Calls /\ call[c].session \in Sessions
  BY DEF RunInv, Placed, CallPlaced, IsRunner, FreshUnused, Unused, Entered, Host
<1>4. ASSUME NEW c, NEW s, NEW r, Comes(c, s, r)
      PROVE  /\ runners' \in [Sessions -> Calls \cup {None}]
             /\ UNCHANGED <<settled, stop, data, evicted, unreported>>
  <2>1. UNCHANGED <<settled, stop, data, evicted, unreported>>
    BY <1>4 DEF Comes
  <2>2. runners \in [Sessions -> Calls \cup {None}]
    BY <1>1, TypedParts
  <2> QED
    BY <1>4, <2>1, <2>2 DEF Comes
<1> USE <1>2
<1>9. ASSUME NEW phase \in Phases
      PROVE  Interrupted(phase) \subseteq Phases
  BY <1>9 DEF Interrupted, Phases
<1>5. CASE CallStep
  <2>1. ASSUME NEW c, NEW s, NEW r, CallParks(c, s, r) \/ CallJoins(c, s, r)
        PROVE  ref' = ref /\ fiber' = fiber /\ held' = held /\ call' \in [Calls -> CallRec]
               /\ Comes(c, s, r)
    BY <2>1 DEF CallParks, CallJoins, CallSet
  <2>2. ASSUME NEW c \in Calls, NEW s, NEW r \in Calls, CallFollows(c, s, r)
        PROVE  /\ ref' \in [Calls -> RefRec] /\ TagsMatch'
               /\ fiber' = fiber /\ held' = held /\ call' \in [Calls -> CallRec]
               /\ Comes(c, s, r)
    BY <1>1, <2>2, RefSetTypes, TypedParts DEF CallFollows, CallSet, TagsMatch
  <2>3. ASSUME NEW c \in Calls, NEW s, NEW r \in Calls, CallStarts(c, s, r)
        PROVE  /\ ref' \in [Calls -> RefRec] /\ TagsMatch'
               /\ fiber' \in [Calls -> Phases] /\ held' = held
               /\ call' \in [Calls -> CallRec]
               /\ Comes(c, s, r)
    BY <1>1, <2>3, RefSetTypes, Typed DEF CallStarts, CallSet, FiberSet
  <2>4. ASSUME NEW c \in Calls, NEW s, NEW r \in Calls, CallReports(c, s, r)
        PROVE  /\ ref' = ref /\ fiber' = fiber
               /\ held' \in [Calls -> Shells \cup {None}]
               /\ call' \in [Calls -> CallRec] /\ Comes(c, s, r)
    BY <1>1, <2>4, Typed DEF CallReports, CallSet
  <2>5. ASSUME NEW h \in Shells, ShellBegins(h)
        PROVE  /\ ref' \in [Calls -> RefRec] /\ TagsMatch'
               /\ fiber' \in [Calls -> Phases]
               /\ held' \in [Calls -> Shells \cup {None}]
               /\ call' \in [Calls -> CallRec]
               /\ data' \in [Sessions -> {"idle", "busy"}]
               /\ UNCHANGED <<runners, settled, stop, evicted, unreported>>
    <3>1. RefSet(Host(h), "Shell", h, None) /\ Host(h) \in Calls
      BY <1>3, <2>5 DEF ShellBegins
    <3>2. ref' \in [Calls -> RefRec] /\ TagsMatch'
      BY <1>1, <3>1, RefSetTypes
    <3> QED
      BY <1>1, <2>5, <3>2, Typed, TypedParts DEF ShellBegins, CallSet, FiberSet
  <2>6. ASSUME NEW c \in Calls, CallLeaves(c)
        PROVE  /\ ref' = ref /\ fiber' \in [Calls -> Phases]
               /\ held' \in [Calls -> Shells \cup {None}]
               /\ call' \in [Calls -> CallRec]
               /\ UNCHANGED <<runners, settled, stop, data, evicted, unreported>>
    <3>1. fiber' \in [Calls -> Phases]
      BY <1>1, <1>9, <2>6, Typed DEF CallLeaves, FiberSet
    <3>2. held' \in [Calls -> Shells \cup {None}]
      BY <1>1, <2>6, Typed DEF CallLeaves
    <3> QED
      BY <2>6, <3>1, <3>2 DEF CallLeaves, CallAt, CallSet
  <2>7. ASSUME ref' = ref
        PROVE  TagsMatch'
    BY <1>1, <2>7, TypedParts DEF TagsMatch
  <2> QED
    BY <1>1, <1>4, <1>5, <2>1, <2>2, <2>3, <2>4, <2>5, <2>6, <2>7, TypedParts
       DEF CallStep
<1>6. CASE FiberStep
  <2>1. ASSUME NEW c \in Calls, FiberMoves(c) \/ WorkIsOver(c) \/ WorkReports(c)
        PROVE  /\ fiber' \in [Calls -> Phases] /\ settled' \in SUBSET Loops
               /\ data' \in [Sessions -> {"idle", "busy"}]
               /\ unreported' \in SUBSET Sessions
               /\ UNCHANGED <<runners, ref, held, call, stop, evicted>>
    <3>0. /\ fiber \in [Calls -> Phases] /\ settled \in SUBSET Loops
          /\ data \in [Sessions -> {"idle", "busy"}]
          /\ unreported \in SUBSET Sessions
      BY <1>1, TypedParts
    <3>1. CASE FiberMoves(c)
      BY <3>0, <3>1 DEF FiberMoves, FiberSet
    <3>2. CASE WorkIsOver(c)
      BY <3>0, <3>2 DEF WorkIsOver, FiberSet
    <3>3. CASE WorkReports(c)
      BY <3>0, <3>3 DEF WorkReports, FiberSet, RecordsIdle
    <3> QED
      BY <2>1, <3>1, <3>2, <3>3
  <2>2. ASSUME NEW c \in Calls, WorkIdles(c)
        PROVE  /\ ref' \in [Calls -> RefRec] /\ TagsMatch'
               /\ fiber' \in [Calls -> Phases]
               /\ runners' \in [Sessions -> Calls \cup {None}]
               /\ evicted' \in SUBSET Sessions
               /\ UNCHANGED <<held, call, settled, stop, data, unreported>>
    <3>1. Host(c) \in Calls /\ call[c].session \in Sessions
      BY <1>3, <2>2 DEF WorkIdles
    <3>2. ref' \in [Calls -> RefRec] /\ TagsMatch'
      BY <1>1, <2>2, <3>1, RefSetTypes DEF WorkIdles
    <3> QED
      BY <1>1, <2>2, <3>1, <3>2, DeletesTypes, Typed DEF WorkIdles, FiberSet
  <2>3. ASSUME NEW h \in Shells, WorkHandsOver(h)
        PROVE  /\ ref' \in [Calls -> RefRec] /\ TagsMatch'
               /\ fiber' \in [Calls -> Phases]
               /\ UNCHANGED <<runners, held, call, settled, stop, data, evicted, unreported>>
    <3>1. Host(h) \in Calls /\ ref[Host(h)] \in RefRec
      BY <1>1, <1>3, <2>3, Typed DEF WorkHandsOver
    <3>2. ref[Host(h)].run # None
      BY <1>1, <2>3, <3>1, TypedParts DEF WorkHandsOver, TagsMatch
    <3>3. ref' \in [Calls -> RefRec] /\ TagsMatch'
      BY <1>1, <2>3, <3>1, <3>2, RefSetTypes DEF WorkHandsOver
    <3> QED
      BY <1>1, <2>3, <3>3, Typed DEF WorkHandsOver
  <2> QED
    BY <1>1, <1>6, <2>1, <2>2, <2>3, TypedParts DEF FiberStep, TagsMatch
<1>7. CASE StopStep
  <2>1. ASSUME NEW x, NEW s, NEW r, StopComes(x, s, r)
        PROVE  UNCHANGED <<runners, held, call, settled, data, evicted, unreported>>
    BY <2>1 DEF StopComes
  <2>2. \A phase \in Phases : Interrupted(phase) \subseteq Phases
    BY <1>9
  <2>3. ASSUME NEW x, NEW s, NEW r \in Calls,
               StopTakesShell(x, s, r) \/ StopTakesRun(x, s, r)
        PROVE  /\ ref' \in [Calls -> RefRec] /\ TagsMatch'
               /\ stop' \in [Cancels -> StopRec] /\ fiber' \in [Calls -> Phases]
               /\ UNCHANGED <<runners, held, call, settled, data, evicted, unreported>>
    <3>1. ref' \in [Calls -> RefRec] /\ TagsMatch'
      BY <1>1, <2>3, RefSetTypes DEF StopTakesShell, StopTakesRun
    <3>2. fiber' \in [Calls -> Phases]
      <4>1. CASE StopTakesShell(x, s, r)
        BY <1>1, <4>1, Typed DEF StopTakesShell
      <4>2. CASE StopTakesRun(x, s, r)
        <5>1. ref[r].run \in Calls
          BY <1>1, <4>2, Typed DEF StopTakesRun, RefRec
        <5> QED
          BY <1>1, <2>2, <4>2, <5>1, Typed DEF StopTakesRun, FiberSet
      <4> QED
        BY <2>3, <4>1, <4>2
    <3> QED
      BY <2>1, <2>3, <3>1, <3>2 DEF StopTakesShell, StopTakesRun, StopSet
  <2>4. ASSUME NEW x, NEW s, NEW r,
               StopFindsIdle(x, s, r) \/ StopParks(x, s)
        PROVE  /\ stop' \in [Cancels -> StopRec]
               /\ UNCHANGED <<ref, fiber, runners, held, call, settled, data, evicted, unreported>>
    BY <2>1, <2>4 DEF StopFindsIdle, StopParks, StopAt, StopSet
  <2>5. ASSUME NEW x \in Cancels, StopInterrupts(x)
        PROVE  /\ stop' \in [Cancels -> StopRec] /\ fiber' \in [Calls -> Phases]
               /\ UNCHANGED <<runners, ref, held, call, settled, data, evicted, unreported>>
    <3>1. stop[x].shell \in Calls
      BY <2>5 DEF StopInterrupts, RunInv, ClaimsRight, Taken, Created, Entered,
                  RunTypeOK
    <3> QED
      BY <1>1, <2>2, <2>5, <3>1, Typed DEF StopInterrupts, StopAt, StopSet, FiberSet
  <2>6. ASSUME NEW x \in Cancels, \/ StopIdles(x) \/ StopWaits(x)
               \/ StopReports(x) \/ StopAbandons(x)
        PROVE  /\ stop' \in [Cancels -> StopRec] /\ settled' \in SUBSET Loops
               /\ data' \in [Sessions -> {"idle", "busy"}]
               /\ runners' \in [Sessions -> Calls \cup {None}]
               /\ evicted' \in SUBSET Sessions /\ unreported' \in SUBSET Sessions
               /\ UNCHANGED <<ref, held, call, fiber>>
    <3>1. stop[x].run \in Loops \cup {None}
      BY <1>1, Typed DEF StopRec
    <3>2. stop[x].at = "queuedIdle" \/ Reporting(x) => stop[x].session \in Sessions
      BY DEF RunInv, Placed, StopPlaced, Reporting
    <3> QED
      BY <1>1, <2>6, <3>1, <3>2, DeletesTypes, TypedParts
         DEF StopIdles, StopWaits, StopReports, StopAbandons, StopAt, StopSet, Keeps,
             RecordsIdle, Reporting
  <2> QED
    BY <1>1, <1>7, <2>3, <2>4, <2>5, <2>6, TypedParts DEF StopStep, TagsMatch
<1>8. CASE Rests
  BY <1>1, <1>8, TypedParts DEF Rests, TagsMatch
<1> QED
  BY <1>5, <1>6, <1>7, <1>8, RunSteps DEF RunInv


LEMMA CallUnchanged ==
    ASSUME FiberStep \/ StopStep \/ Rests
    PROVE  UNCHANGED <<call, held>>
<1>1. CASE FiberStep
  <2>1. ASSUME NEW c, WorkIdles(c) \/ WorkHandsOver(c)
        PROVE  UNCHANGED <<call, held>>
    BY <2>1 DEF WorkIdles, WorkHandsOver
  <2>2. ASSUME NEW c, FiberMoves(c) \/ WorkIsOver(c) \/ WorkReports(c)
        PROVE  UNCHANGED <<call, held>>
    BY <2>2 DEF FiberMoves, WorkIsOver, WorkReports
  <2> QED
    BY <1>1, <2>1, <2>2 DEF FiberStep
<1>2. CASE StopStep
  <2>1. ASSUME NEW x, NEW s, NEW r,
               StopTakesShell(x, s, r) \/ StopTakesRun(x, s, r) \/ StopFindsIdle(x, s, r)
        PROVE  UNCHANGED <<call, held>>
    <3>1. StopComes(x, s, r)
      BY <2>1 DEF StopTakesShell, StopTakesRun, StopFindsIdle
    <3> QED
      BY <3>1 DEF StopComes
  <2>2. ASSUME NEW x, NEW s, StopParks(x, s)
        PROVE  UNCHANGED <<call, held>>
    BY <2>2 DEF StopParks
  <2>3. ASSUME NEW x,
               \/ StopInterrupts(x) \/ StopIdles(x) \/ StopWaits(x)
               \/ StopReports(x) \/ StopAbandons(x)
        PROVE  UNCHANGED <<call, held>>
    BY <2>3 DEF StopInterrupts, StopIdles, StopWaits, StopReports, StopAbandons
  <2> QED
    BY <1>2, <2>1, <2>2, <2>3 DEF StopStep
<1> QED
  BY <1>1, <1>2 DEF Rests

LEMMA StopUnchanged ==
    ASSUME CallStep \/ FiberStep \/ Rests
    PROVE  UNCHANGED stop
<1>1. CASE FiberStep
  <2>1. ASSUME NEW c, WorkIdles(c) \/ WorkHandsOver(c)
        PROVE  UNCHANGED stop
    BY <2>1 DEF WorkIdles, WorkHandsOver
  <2>2. ASSUME NEW c, FiberMoves(c) \/ WorkIsOver(c) \/ WorkReports(c)
        PROVE  UNCHANGED stop
    BY <2>2 DEF FiberMoves, WorkIsOver, WorkReports
  <2> QED
    BY <1>1, <2>1, <2>2 DEF FiberStep
<1>2. CASE CallStep
  <2>1. ASSUME NEW c, NEW s, NEW r,
               \/ CallParks(c, s, r) \/ CallJoins(c, s, r) \/ CallReports(c, s, r)
               \/ CallFollows(c, s, r) \/ CallStarts(c, s, r)
        PROVE  UNCHANGED stop
    <3>1. Comes(c, s, r)
      BY <2>1 DEF CallParks, CallJoins, CallReports, CallFollows, CallStarts
    <3> QED
      BY <3>1 DEF Comes
  <2>2. ASSUME NEW c, ShellBegins(c) \/ CallLeaves(c)
        PROVE  UNCHANGED stop
    BY <2>2 DEF ShellBegins, CallLeaves
  <2> QED
    BY <1>2, <2>1, <2>2 DEF CallStep
<1> QED
  BY <1>1, <1>2 DEF Rests

(* A completed deferred stays so, and so does the mark of an eviction.     *)
LEMMA HistoryGrows ==
    ASSUME RunInv, [RunNext]_runVars
    PROVE  settled \subseteq settled' /\ evicted \subseteq evicted'
<1>1. CallStep \/ FiberStep \/ StopStep \/ Rests
  BY RunSteps DEF RunInv
<1>2. ASSUME NEW s, NEW r, Deletes(s, r) \/ Keeps
      PROVE  evicted \subseteq evicted'
  BY <1>2 DEF Deletes, Keeps
<1>3. ASSUME NEW c, NEW s, NEW r, Comes(c, s, r)
      PROVE  UNCHANGED <<settled, evicted>>
  BY <1>3 DEF Comes
<1>4. CASE CallStep
  <2>1. ASSUME NEW c, NEW s, NEW r,
               \/ CallParks(c, s, r) \/ CallJoins(c, s, r) \/ CallReports(c, s, r)
               \/ CallFollows(c, s, r) \/ CallStarts(c, s, r)
        PROVE  UNCHANGED <<settled, evicted>>
    BY <1>3, <2>1 DEF CallParks, CallJoins, CallReports, CallFollows, CallStarts
  <2>2. ASSUME NEW c, ShellBegins(c) \/ CallLeaves(c)
        PROVE  UNCHANGED <<settled, evicted>>
    BY <2>2 DEF ShellBegins, CallLeaves
  <2> QED
    BY <1>4, <2>1, <2>2 DEF CallStep
<1>5. CASE FiberStep
  <2>1. ASSUME NEW c, WorkIdles(c)
        PROVE  settled' = settled /\ evicted \subseteq evicted'
    BY <1>2, <2>1 DEF WorkIdles
  <2>2. ASSUME NEW c,
               \/ FiberMoves(c) \/ WorkIsOver(c) \/ WorkReports(c) \/ WorkHandsOver(c)
        PROVE  settled \subseteq settled' /\ evicted' = evicted
    BY <2>2 DEF FiberMoves, WorkIsOver, WorkReports, WorkHandsOver
  <2> QED
    BY <1>5, <2>1, <2>2 DEF FiberStep
<1>6. CASE StopStep
  <2>1. ASSUME NEW x, NEW s, NEW r,
               \/ StopTakesShell(x, s, r) \/ StopTakesRun(x, s, r)
               \/ StopFindsIdle(x, s, r) \/ StopParks(x, s)
        PROVE  UNCHANGED <<settled, evicted>>
    BY <2>1 DEF StopTakesShell, StopTakesRun, StopFindsIdle, StopComes, StopParks
  <2>2. ASSUME NEW x, StopIdles(x)
        PROVE  settled \subseteq settled' /\ evicted \subseteq evicted'
    BY <1>2, <2>2 DEF StopIdles
  <2>3. ASSUME NEW x,
               StopInterrupts(x) \/ StopWaits(x) \/ StopReports(x) \/ StopAbandons(x)
        PROVE  settled \subseteq settled' /\ evicted' = evicted
    BY <2>3 DEF StopInterrupts, StopWaits, StopReports, StopAbandons
  <2>4. CASE \E x \in Cancels, s \in Sessions : StopParks(x, s)
    <3>1. UNCHANGED <<settled, evicted>>
      BY <2>1, <2>4
    <3> QED
      BY <3>1
  <2> QED
    BY <1>6, <2>1, <2>2, <2>3, <2>4 DEF StopStep
<1> QED
  BY <1>1, <1>4, <1>5, <1>6 DEF Rests

(* A call that has come to its runner stays with it, and with its run.     *)
CallsStay ==
    \A c \in Calls :
        /\ call[c].at # "off" =>
              /\ call'[c].at # "off"
              /\ call'[c].on = call[c].on /\ call'[c].session = call[c].session
        /\ Entered(c) => Entered(c)' /\ call'[c].run = call[c].run

LEMMA CallsStayStep ==
    ASSUME RunInv, [RunNext]_runVars
    PROVE  CallsStay
<1>1. RunInv /\ (CallStep \/ FiberStep \/ StopStep \/ Rests)
  BY RunSteps DEF RunInv
<1>2. CASE CallStep
  <2>1. ASSUME NEW c \in Calls, NEW s \in Sessions, NEW r \in Calls,
               CallParks(c, s, r) \/ CallJoins(c, s, r) \/ CallFollows(c, s, r)
                  \/ CallStarts(c, s, r) \/ CallReports(c, s, r)
        PROVE  CallsStay
    <3>1. Comes(c, s, r) /\ \E at, run : at # "off" /\ CallSet(c, at, s, r, run)
      BY <2>1 DEF CallParks, CallJoins, CallFollows, CallStarts, CallReports
    <3> QED
      BY <3>1 DEF CallsStay, Comes, CallSet, Entered
  <2>2. ASSUME NEW h \in Shells, ShellBegins(h)
        PROVE  CallsStay
    BY <2>2 DEF ShellBegins, CallsStay, CallSet, Entered, Host
  <2>3. ASSUME NEW c \in Calls, CallLeaves(c)
        PROVE  CallsStay
    BY <2>3 DEF CallLeaves, CallsStay, CallAt, CallSet, Entered
  <2> QED
    BY <1>2, <2>1, <2>2, <2>3 DEF CallStep
<1>3. CASE FiberStep \/ StopStep \/ Rests
  BY <1>3, CallUnchanged DEF CallsStay, Entered
<1> QED
  BY <1>1, <1>2, <1>3

LEMMA RunnersStay ==
    ASSUME RunInv, [RunNext]_runVars
    PROVE  \A r, s : IsRunner(r, s) => IsRunner(r, s)'
<1>1. CallsStay
  BY CallsStayStep
<1>2. None \notin Calls
  BY KindsDisjoint DEF Calls
<1> QED
  BY <1>1, <1>2 DEF IsRunner, CallsStay, RunInv, Placed, CallPlaced

LEMMA PlacedStep ==
    ASSUME RunInv, [RunNext]_runVars
    PROVE  Placed'
<1>1. RunInv /\ (CallStep \/ FiberStep \/ StopStep \/ Rests)
  BY RunSteps DEF RunInv
<1>2. Placed /\ CallsStay /\ \A r, s : IsRunner(r, s) => IsRunner(r, s)'
  BY CallsStayStep, RunnersStay DEF RunInv
<1>0. None \notin Calls /\ \A s \in Sessions : runners[s] \in Calls \cup {None}
  BY KindsDisjoint DEF Calls, RunInv, RunTypeOK
<1>3. ASSUME UNCHANGED call
      PROVE  \A c \in Calls : CallPlaced(c)'
  BY <1>2, <1>3 DEF Placed, CallPlaced, IsRunner
<1>4. ASSUME UNCHANGED stop
      PROVE  \A x \in Cancels : StopPlaced(x)'
  BY <1>2, <1>4 DEF Placed, StopPlaced
<1>5. ASSUME NEW s \in Sessions, NEW r,
             Deletes(s, r) \/ UNCHANGED runners
      PROVE  \A z \in Sessions : MapPlaced(z)'
  BY <1>2, <1>5 DEF Placed, MapPlaced, Deletes, RunInv, RunTypeOK
<1>6. CASE CallStep
  <2>1. ASSUME NEW c \in Calls, NEW s \in Sessions, NEW r \in Calls,
               Comes(c, s, r), NEW at, NEW run, at # "off",
               CallSet(c, at, s, r, run)
        PROVE  /\ \A d \in Calls : CallPlaced(d)'
               /\ \A z \in Sessions : MapPlaced(z)'
    <3>1. IsRunner(r, s)'
      <4>1. CASE call[c].at = "off" /\ runners[s] = None
        BY <2>1, <4>1 DEF Comes, RunnerOf, CallSet, IsRunner
      <4>2. CASE call[c].at = "off" /\ runners[s] # None
        BY <1>2, <2>1, <4>2 DEF Comes, RunnerOf, Placed, MapPlaced
      <4>3. CASE call[c].at = "queued"
        BY <1>2, <2>1, <4>3 DEF Comes, Placed, CallPlaced
      <4> QED
        BY <2>1, <4>1, <4>2, <4>3 DEF Comes
    <3>2. \A d \in Calls : CallPlaced(d)'
      BY <1>2, <2>1, <3>1 DEF CallSet, Placed, CallPlaced
    <3>3. \A z \in Sessions : MapPlaced(z)'
      BY <1>2, <2>1, <3>1 DEF Comes, Placed, MapPlaced, RunInv, RunTypeOK
    <3> QED
      BY <3>2, <3>3
  <2>2. ASSUME NEW c \in Calls, NEW s \in Sessions, NEW r \in Calls,
               CallParks(c, s, r) \/ CallJoins(c, s, r) \/ CallFollows(c, s, r)
                  \/ CallStarts(c, s, r) \/ CallReports(c, s, r)
        PROVE  Comes(c, s, r) /\ \E at, run : at # "off" /\ CallSet(c, at, s, r, run)
    BY <2>2 DEF CallParks, CallJoins, CallFollows, CallStarts, CallReports
  <2>3. ASSUME NEW c \in Calls, ShellBegins(c) \/ CallLeaves(c)
        PROVE  /\ \A d \in Calls : CallPlaced(d)'
               /\ \A z \in Sessions : MapPlaced(z)'
    <3>1. runners' = runners /\ call[c].at # "off"
      BY <2>3 DEF ShellBegins, CallLeaves
    <3>2. \A d \in Calls \ {c} : call'[d] = call[d]
      BY <2>3 DEF ShellBegins, CallLeaves, CallAt, CallSet
    <3>3. \A d \in Calls : CallPlaced(d)'
      BY <1>2, <3>1, <3>2 DEF Placed, CallPlaced, CallsStay
    <3> QED
      BY <1>2, <3>1, <3>3 DEF Placed, MapPlaced
  <2>4. \A x \in Cancels : StopPlaced(x)'
    BY <1>4, <1>6, StopUnchanged
  <2> QED
    BY <1>6, <2>1, <2>2, <2>3, <2>4 DEF CallStep, Placed, Calls
<1>7. CASE FiberStep
  <2>1. \A z \in Sessions : MapPlaced(z)'
    <3>1. ASSUME NEW c \in Calls, WorkIdles(c)
          PROVE  \A z \in Sessions : MapPlaced(z)'
      BY <1>2, <3>1 DEF WorkIdles, Placed, MapPlaced, Deletes, RunInv, RunTypeOK
    <3>2. CASE UNCHANGED runners
      BY <1>2, <3>2 DEF Placed, MapPlaced
    <3> QED
      BY <1>7, <3>1, <3>2 DEF FiberStep, FiberMoves, WorkIsOver, WorkReports,
                              WorkHandsOver
  <2> QED
    BY <1>3, <1>4, <1>7, <2>1, CallUnchanged, StopUnchanged DEF Placed
<1>8. CASE StopStep
  <2>1. \A z \in Sessions : MapPlaced(z)'
    <3>1. ASSUME NEW x \in Cancels, StopIdles(x)
          PROVE  \A z \in Sessions : MapPlaced(z)'
      BY <1>2, <3>1 DEF StopIdles, Keeps, Placed, MapPlaced, Deletes, RunInv, RunTypeOK
    <3>2. CASE UNCHANGED runners
      BY <1>2, <3>2 DEF Placed, MapPlaced
    <3> QED
      BY <1>8, <3>1, <3>2
         DEF StopStep, StopTakesShell, StopTakesRun, StopFindsIdle, StopComes,
             StopParks, StopInterrupts, StopWaits, StopReports, StopAbandons
  <2>2. ASSUME NEW x \in Cancels, NEW s \in Sessions, NEW r \in Calls,
               StopTakesShell(x, s, r) \/ StopTakesRun(x, s, r)
        PROVE  \A y \in Cancels : StopPlaced(y)'
    <3>1. IsRunner(r, s)
      BY <1>0, <1>2, <2>2
         DEF StopTakesShell, StopTakesRun, StopComes, Placed, MapPlaced, StopPlaced
    <3>2. /\ stop'[x].on = r /\ stop'[x].session = s
          /\ stop'[x].at \in {"ready", "awaits"}
      BY <2>2 DEF StopTakesShell, StopTakesRun, StopSet
    <3>3. IsRunner(r, s)'
      BY <1>2, <3>1
    <3>4. StopPlaced(x)'
      BY <1>0, <3>2, <3>3 DEF StopPlaced, IsRunner
    <3> QED
      BY <1>2, <2>2, <3>4
         DEF StopTakesShell, StopTakesRun, StopSet, Placed, StopPlaced
  <2>3. ASSUME NEW x \in Cancels, NEW s \in Sessions, StopParks(x, s)
        PROVE  \A y \in Cancels : StopPlaced(y)'
    <3>1. StopPlaced(x)'
      BY <1>0, <1>2, <2>3 DEF StopParks, StopSet, StopPlaced, Placed, MapPlaced
    <3> QED
      BY <1>2, <2>3, <3>1 DEF StopParks, StopSet, Placed, StopPlaced
  <2>4. ASSUME NEW x \in Cancels, NEW at, StopAt(x, at), stop[x].at # "off",
               at \in {"left", "over"} \/ stop[x].at \in {"ready", "awaits", "queuedIdle"},
               at # "off"
        PROVE  \A y \in Cancels : StopPlaced(y)'
    <3>1. StopPlaced(x)'
      BY <1>2, <2>4 DEF StopAt, StopSet, StopPlaced, Placed
    <3> QED
      BY <1>2, <2>4, <3>1 DEF StopAt, StopSet, Placed, StopPlaced
  <2>5. ASSUME NEW x \in Cancels, NEW s, NEW r, StopFindsIdle(x, s, r)
        PROVE  \A y \in Cancels : StopPlaced(y)'
    <3>1. StopPlaced(x)'
      BY <1>2, <2>5 DEF StopFindsIdle, StopAt, StopSet, StopPlaced, Placed
    <3> QED
      BY <1>2, <2>5, <3>1 DEF StopFindsIdle, StopAt, StopSet, Placed, StopPlaced
  <2>6. ASSUME NEW x \in Cancels,
               \/ StopInterrupts(x) \/ StopIdles(x) \/ StopWaits(x)
               \/ StopReports(x) \/ StopAbandons(x)
        PROVE  \A y \in Cancels : StopPlaced(y)'
    BY <2>4, <2>6
       DEF StopInterrupts, StopIdles, StopWaits, StopReports, StopAbandons, Reporting
  <2> QED
    BY <1>3, <1>8, <2>1, <2>2, <2>3, <2>5, <2>6, CallUnchanged DEF StopStep, Placed
<1>9. CASE Rests
  BY <1>2, <1>3, <1>4, <1>9 DEF Rests, Placed, MapPlaced
<1> QED
  BY <1>1, <1>6, <1>7, <1>8, <1>9

(* A runner's state only comes to name the work of a call that enters it,  *)
(* a cancel that of a runner it makes Idle.                                *)
Names(r, c) == ref[r].shell = c \/ ref[r].run = c

HasTaken(x, c) == stop[x].shell = c \/ stop[x].run = c

NamesGrow ==
    \A r \in Calls, c \in Calls : Names(r, c)' =>
        \/ Names(r, c)
        \/ ~Entered(c) /\ Created(c)' /\ call'[c].on = r

TakenGrows ==
    \A x \in Cancels, c \in Calls : HasTaken(x, c)' =>
        \/ HasTaken(x, c) /\ UNCHANGED stop[x].on
        \/ \E r \in Calls : /\ Names(r, c) /\ stop'[x].on = r
                            /\ ref'[r].shell = None /\ ref'[r].run = None

FibersBegin ==
    \A c \in Calls : fiber[c] = "none" =>
        \/ fiber'[c] = "none"
        \/ Created(c)' /\ ~\E x \in Cancels : HasTaken(x, c)

LEMMA NamedFacts ==
    ASSUME RunInv
    PROVE  /\ None \notin Calls /\ Loops \subseteq Calls /\ Shells \subseteq Calls
           /\ Loops \cap Shells = {}
           /\ \A r \in Calls : /\ ref[r].shell \in Shells \cup {None}
                               /\ ref[r].run \in Loops \cup {None}
           /\ \A x \in Cancels : /\ stop[x].shell \in Shells \cup {None}
                                 /\ stop[x].run \in Loops \cup {None}
           /\ \A c \in Calls : fiber[c] # "none" \/ call[c].at # "off" =>
                 Host(c) \in Calls /\ call[c].session \in Sessions
           /\ fiber \in [Calls -> Phases]
           /\ \A r \in Calls, c \in Calls : Names(r, c) =>
                 Host(c) = r /\ Created(c) /\ ~\E x \in Cancels : HasTaken(x, c)
<1>1. /\ None \notin Calls /\ Loops \subseteq Calls /\ Shells \subseteq Calls
      /\ Loops \cap Shells = {}
  BY KindsDisjoint DEF Calls
<1>2. RunTypeOK
  BY DEF RunInv
<1>3. /\ \A r \in Calls : /\ ref[r].shell \in Shells \cup {None}
                          /\ ref[r].run \in Loops \cup {None}
      /\ \A x \in Cancels : /\ stop[x].shell \in Shells \cup {None}
                            /\ stop[x].run \in Loops \cup {None}
      /\ fiber \in [Calls -> Phases]
  BY <1>2, Typed DEF RefRec, StopRec
<1>4. \A c \in Calls : fiber[c] # "none" \/ call[c].at # "off" =>
         Host(c) \in Calls /\ call[c].session \in Sessions
  BY DEF RunInv, Placed, CallPlaced, IsRunner, FreshUnused, Unused, Entered, Host
<1>5. ASSUME NEW r \in Calls, NEW c \in Calls, Names(r, c)
      PROVE  Host(c) = r /\ Created(c) /\ ~\E x \in Cancels : HasTaken(x, c)
  <2>1. Host(c) = r /\ Created(c)
    BY <1>1, <1>5 DEF Names, RunInv, Named, ShellNamed, RunNamed
  <2>2. ASSUME NEW x \in Cancels, HasTaken(x, c)
        PROVE  FALSE
    BY <1>1, <1>5, <2>2 DEF Names, HasTaken, RunInv, ClaimsRight, Taken
  <2> QED
    BY <2>1, <2>2
<1> QED
  BY <1>1, <1>3, <1>4, <1>5

LEMMA NamesGrowStep ==
    ASSUME RunInv, [RunNext]_runVars
    PROVE  NamesGrow
<1>1. RunInv /\ (CallStep \/ FiberStep \/ StopStep \/ Rests)
  BY RunSteps DEF RunInv
<1> USE NamedFacts DEF NamesGrow, Names
<1>2. CASE UNCHANGED ref
  BY <1>2
<1>3. ASSUME NEW c \in Calls, NEW s \in Sessions, NEW r \in Calls,
             CallFollows(c, s, r) \/ CallStarts(c, s, r)
      PROVE  NamesGrow
  BY <1>1, <1>3 DEF CallFollows, CallStarts, Comes, RefSet, CallSet, Entered, Created
<1>4. ASSUME NEW h \in Shells, ShellBegins(h)
      PROVE  NamesGrow
  BY <1>1, <1>4 DEF ShellBegins, RefSet, CallSet, Entered, Created
<1>5. ASSUME NEW c \in Calls, WorkIdles(c) \/ WorkHandsOver(c)
      PROVE  NamesGrow
  <2>1. \A q \in Calls : \/ ref'[q] = ref[q]
                         \/ /\ ref'[q].shell = None
                            /\ ref'[q].run \in {None, ref[q].run}
    BY <1>5 DEF WorkIdles, WorkHandsOver, RefSet
  <2> QED
    BY <1>1, <2>1
<1>6. ASSUME NEW x \in Cancels, NEW s \in Sessions, NEW r \in Calls,
             StopTakesShell(x, s, r) \/ StopTakesRun(x, s, r)
      PROVE  NamesGrow
  <2>1. \A q \in Calls : \/ ref'[q] = ref[q]
                         \/ ref'[q].shell = None /\ ref'[q].run = None
    BY <1>6 DEF StopTakesShell, StopTakesRun, RefSet
  <2> QED
    BY <1>1, <2>1
<1>7. CASE CallStep
  BY <1>1, <1>2, <1>3, <1>4, <1>7
     DEF CallStep, CallParks, CallJoins, CallReports, CallLeaves
<1>8. CASE FiberStep
  BY <1>1, <1>2, <1>5, <1>8 DEF FiberStep, FiberMoves, WorkIsOver, WorkReports
<1>9. CASE StopStep
  BY <1>2, <1>6, <1>9
     DEF StopStep, StopFindsIdle, StopParks, StopInterrupts, StopIdles, StopWaits,
         StopReports, StopAbandons
<1> QED
  BY <1>1, <1>2, <1>7, <1>8, <1>9 DEF Rests

LEMMA TakenGrowsStep ==
    ASSUME RunInv, [RunNext]_runVars
    PROVE  TakenGrows
<1>1. RunInv /\ (CallStep \/ FiberStep \/ StopStep \/ Rests)
  BY RunSteps DEF RunInv
<1> USE NamedFacts DEF TakenGrows, HasTaken
<1>2. CASE UNCHANGED stop
  BY <1>2
<1>3. ASSUME NEW x \in Cancels, NEW s \in Sessions, NEW r \in Calls,
             StopTakesShell(x, s, r) \/ StopTakesRun(x, s, r)
      PROVE  TakenGrows
  BY <1>1, <1>3 DEF StopTakesShell, StopTakesRun, RefSet, StopSet, Names
<1>4. ASSUME NEW x \in Cancels, NEW at, StopAt(x, at)
      PROVE  TakenGrows
  BY <1>4 DEF StopAt, StopSet
<1>5. ASSUME NEW x \in Cancels, NEW s \in Sessions, StopParks(x, s)
      PROVE  TakenGrows
  <2>1. stop[x].shell = None /\ stop[x].run = None
    BY <1>1, <1>5 DEF StopParks, RunInv, Placed, StopPlaced
  <2> QED
    BY <1>1, <1>5, <2>1 DEF StopParks, StopSet
<1>6. CASE StopStep
  BY <1>3, <1>4, <1>5, <1>6
     DEF StopStep, StopFindsIdle, StopInterrupts, StopIdles, StopWaits, StopReports, StopAbandons
<1> QED
  BY <1>1, <1>2, <1>6, StopUnchanged

LEMMA FibersBeginStep ==
    ASSUME RunInv, [RunNext]_runVars
    PROVE  FibersBegin
<1>1. RunInv /\ (CallStep \/ FiberStep \/ StopStep \/ Rests)
  BY RunSteps DEF RunInv
<1>2. /\ fiber \in [Calls -> Phases] /\ Loops \subseteq Calls /\ Shells \subseteq Calls
      /\ None \notin Calls
  BY NamedFacts DEF RunInv
<1>3. ASSUME NEW c \in Calls, ~Entered(c)
      PROVE  ~\E x \in Cancels : HasTaken(x, c)
  BY <1>1, <1>3 DEF RunInv, FreshUnused, Unused, HasTaken
<1> USE DEF FibersBegin
<1>4. CASE UNCHANGED fiber
  BY <1>4
<1>5. ASSUME NEW c \in Calls, NEW s \in Sessions, NEW r \in Calls,
             CallStarts(c, s, r)
      PROVE  FibersBegin
  <2>1. ~Entered(c) /\ Created(c)'
    BY <1>5 DEF CallStarts, Comes, CallSet, Created, Entered
  <2> QED
    BY <1>2, <1>3, <1>5, <2>1 DEF CallStarts, FiberSet
<1>6. ASSUME NEW h \in Shells, ShellBegins(h)
      PROVE  FibersBegin
  <2>1. ~Entered(h) /\ Created(h)'
    BY <1>6 DEF ShellBegins, CallSet, Created, Entered
  <2> QED
    BY <1>2, <1>3, <1>6, <2>1 DEF ShellBegins, FiberSet
<1>7. ASSUME NEW c \in Calls, NEW phase, FiberSet(c, phase), fiber[c] # "none"
      PROVE  FibersBegin
  BY <1>2, <1>7 DEF FiberSet
<1>8. ASSUME NEW h \in Shells, WorkHandsOver(h)
      PROVE  FibersBegin
  <2>1. Host(h) \in Calls
    BY <1>8, NamedFacts, <1>2, <1>1 DEF WorkHandsOver
  <2>2. PICK l \in Loops : l = ref[Host(h)].run
    BY <1>1, <1>8, <2>1, NamedFacts DEF WorkHandsOver, RunInv, RunTypeOK
  <2>3. Created(l) /\ ~\E x \in Cancels : HasTaken(x, l)
    BY <1>1, <1>2, <2>1, <2>2, NamedFacts DEF Names
  <2>4. Created(l)'
    BY <1>8, <2>3 DEF Created, Entered, WorkHandsOver
  <2> QED
    BY <1>2, <1>8, <2>2, <2>3, <2>4 DEF WorkHandsOver
<1>9. ASSUME NEW x \in Cancels, NEW s \in Sessions, NEW r \in Calls,
             StopTakesRun(x, s, r)
      PROVE  FibersBegin
  <2>1. ref[r].run \in Calls /\ fiber[ref[r].run] # "none"
    <3>1. ref[r].run \in Loops /\ ref[r].tag = "Running"
      BY <1>1, <1>9, Typed DEF StopTakesRun, RunInv, RunTypeOK, RefRec
    <3> QED
      BY <1>1, <1>2, <1>9, <3>1 DEF StopTakesRun, RunInv, Named, RunNamed
  <2> QED
    BY <1>7, <1>9, <2>1 DEF StopTakesRun
<1>10. ASSUME NEW x \in Cancels, StopInterrupts(x)
       PROVE  FibersBegin
  <2>1. stop[x].shell \in Calls
    BY <1>1, <1>2, <1>10, NamedFacts DEF StopInterrupts, RunInv, ClaimsRight
  <2>2. CASE fiber[stop[x].shell] = "none"
    <3>1. Interrupted(fiber[stop[x].shell]) = {"none"}
      BY <2>2 DEF Interrupted
    <3>2. FiberSet(stop[x].shell, "none")
      BY <1>10, <3>1 DEF StopInterrupts
    <3> QED
      BY <1>2, <2>1, <2>2, <3>2 DEF FiberSet
  <2>3. CASE fiber[stop[x].shell] # "none"
    BY <1>7, <1>10, <2>1, <2>3 DEF StopInterrupts
  <2> QED
    BY <2>2, <2>3
<1>11. CASE CallStep
  <2>1. ASSUME NEW c \in Calls, CallLeaves(c)
        PROVE  FibersBegin
    <3>1. CASE fiber[c] # "none"
      BY <1>4, <1>7, <2>1, <3>1 DEF CallLeaves
    <3>2. CASE fiber[c] = "none"
      BY <1>2, <1>4, <2>1, <3>2 DEF CallLeaves, FiberSet, Interrupted
    <3> QED
      BY <3>1, <3>2
  <2> QED
    BY <1>4, <1>5, <1>6, <1>11, <2>1
       DEF CallStep, CallParks, CallJoins, CallFollows, CallReports
<1>12. CASE FiberStep
  <2>1. ASSUME NEW c \in Calls,
               FiberMoves(c) \/ WorkIdles(c) \/ WorkIsOver(c) \/ WorkReports(c)
        PROVE  FibersBegin
    BY <1>7, <2>1 DEF FiberMoves, WorkIdles, WorkIsOver, WorkReports
  <2> QED
    BY <1>8, <1>12, <2>1 DEF FiberStep
<1>13. CASE StopStep
  BY <1>4, <1>9, <1>10, <1>13
     DEF StopStep, StopTakesShell, StopFindsIdle, StopParks, StopIdles, StopWaits,
         StopReports, StopAbandons
<1> QED
  BY <1>1, <1>4, <1>11, <1>12, <1>13 DEF Rests

LEMMA FreshUnusedStep ==
    ASSUME RunInv, [RunNext]_runVars
    PROVE  FreshUnused'
<1>1. NamesGrow /\ TakenGrows /\ FibersBegin /\ CallsStay
  BY NamesGrowStep, TakenGrowsStep, FibersBeginStep, CallsStayStep
<1> SUFFICES ASSUME NEW c \in Calls, ~Entered(c)'
             PROVE  Unused(c)'
  BY DEF FreshUnused
<1>2. ~Entered(c) /\ ~Created(c)'
  BY <1>1 DEF CallsStay, Created
<1>3. /\ fiber[c] = "none"
      /\ \A r \in Calls : ~Names(r, c)
      /\ \A x \in Cancels : ~HasTaken(x, c)
  BY <1>2 DEF RunInv, FreshUnused, Unused, Names, HasTaken
<1>4. fiber'[c] = "none"
  BY <1>1, <1>2, <1>3 DEF FibersBegin
<1>5. \A r \in Calls : ~Names(r, c)'
  BY <1>1, <1>2, <1>3 DEF NamesGrow
<1>6. \A x \in Cancels : ~HasTaken(x, c)'
  BY <1>1, <1>3 DEF TakenGrows
<1> QED
  BY <1>4, <1>5, <1>6 DEF Unused, Names, HasTaken

ShellPhases == {"setup", "doomed", "unborn", "working", "cleanup", "finishing"}

FibersNamed ==
    \A r \in Calls :
        /\ ref[r].shell # None => fiber[ref[r].shell] \in ShellPhases
        /\ ref[r].run # None /\ ref[r].tag = "Running" =>
              fiber[ref[r].run] \in {"started", "working", "finishing"}
        /\ ref[r].run # None /\ ref[r].tag = "ShellThenRun" =>
              fiber[ref[r].run] = "none"

LEMMA FibersNamedStep ==
    ASSUME RunInv, [RunNext]_runVars
    PROVE  FibersNamed'
<1>1. RunInv /\ FibersNamed /\ (CallStep \/ FiberStep \/ StopStep \/ Rests)
  BY RunSteps
     DEF RunInv, Named, ShellNamed, RunNamed, FibersNamed, ShellPhases
<1>2. /\ fiber \in [Calls -> Phases] /\ Loops \subseteq Calls /\ Shells \subseteq Calls
      /\ None \notin Calls /\ Loops \cap Shells = {}
      /\ \A r \in Calls : /\ ref[r].shell \in Shells \cup {None}
                          /\ ref[r].run \in Loops \cup {None}
                          /\ ref[r].shell # None => Host(ref[r].shell) = r
                          /\ ref[r].run # None => Host(ref[r].run) = r
  BY NamedFacts DEF RunInv, Named, ShellNamed, RunNamed
<1>3. \A r \in Calls : /\ ref[r].shell # None <=> ref[r].tag \in {"Shell", "ShellThenRun"}
                       /\ ref[r].run # None <=> ref[r].tag \in {"Running", "ShellThenRun"}
  BY DEF RunInv, RunTypeOK
<1>4. \A c \in Calls : ~Entered(c) =>
         fiber[c] = "none" /\ \A r \in Calls : ref[r].shell # c /\ ref[r].run # c
  BY DEF RunInv, FreshUnused, Unused
<1> USE <1>1, <1>2 DEF FibersNamed, ShellPhases
<1>5. CASE UNCHANGED <<ref, fiber>>
  BY <1>5
<1>6. ASSUME NEW c \in Calls, NEW s \in Sessions, NEW r \in Calls,
             CallFollows(c, s, r)
      PROVE  FibersNamed'
  BY <1>3, <1>4, <1>6 DEF CallFollows, Comes, Entered, RefSet
<1>7. ASSUME NEW c \in Calls, NEW s \in Sessions, NEW r \in Calls,
             CallStarts(c, s, r)
      PROVE  FibersNamed'
  BY <1>3, <1>4, <1>7 DEF CallStarts, Comes, Entered, RefSet, FiberSet
<1>8. ASSUME NEW h \in Shells, ShellBegins(h)
      PROVE  FibersNamed'
  BY <1>3, <1>4, <1>8 DEF ShellBegins, Entered, RefSet, FiberSet
<1>9. ASSUME NEW c \in Calls, CallLeaves(c)
      PROVE  FibersNamed'
  <2>1. CASE UNCHANGED fiber
    BY <1>5, <1>9, <2>1 DEF CallLeaves
  <2>2. ASSUME c \in Shells, NEW phase \in Interrupted(fiber[c]), FiberSet(c, phase)
        PROVE  FibersNamed'
    <3>1. /\ fiber[c] \in ShellPhases => fiber'[c] \in ShellPhases
          /\ \A d \in Calls \ {c} : fiber'[d] = fiber[d]
      BY <2>2 DEF FiberSet, Interrupted
    <3>2. UNCHANGED ref /\ \A r \in Calls : ref[r].run # c
      BY <1>9, <2>2 DEF CallLeaves
    <3>3. ASSUME NEW r \in Calls
          PROVE  /\ ref[r].shell # None => fiber'[ref[r].shell] \in ShellPhases
                 /\ ref[r].run # None => fiber'[ref[r].run] = fiber[ref[r].run]
      BY <3>1, <3>2
    <3> QED
      BY <3>2, <3>3
  <2> QED
    BY <1>9, <2>1, <2>2 DEF CallLeaves
<1>10. ASSUME NEW c \in Calls, FiberMoves(c)
       PROVE  FibersNamed'
  BY <1>3, <1>10 DEF FiberMoves, FiberSet
<1>11. ASSUME NEW c \in Calls, WorkIdles(c)
       PROVE  FibersNamed'
  BY <1>3, <1>11 DEF WorkIdles, FiberSet, RefSet
<1>12. ASSUME NEW h \in Shells, WorkHandsOver(h)
       PROVE  FibersNamed'
  <2>1. PICK r \in Calls : r = Host(h)
    BY <1>12, NamedFacts DEF WorkHandsOver
  <2>2. PICK l \in Loops : l = ref[r].run
    BY <1>3, <1>12, <2>1 DEF WorkHandsOver
  <2>3. /\ fiber' = [fiber EXCEPT ![h] = "over", ![l] = "started"]
        /\ \A q \in Calls \ {r} : ref'[q] = ref[q]
        /\ ref'[r].tag = "Running" /\ ref'[r].shell = None /\ ref'[r].run = l
    BY <1>12, <2>1, <2>2 DEF WorkHandsOver, RefSet
  <2>4. /\ \A q \in Calls \ {r} : ref[q].shell # h /\ ref[q].run # l
        /\ \A q \in Calls : ref[q].shell # l /\ ref[q].run # h
    BY <2>1, <2>2
  <2>5. fiber'[l] = "started" /\ \A c \in Calls \ {h, l} : fiber'[c] = fiber[c]
    BY <2>2, <2>3
  <2>6. ASSUME NEW q \in Calls \ {r}
        PROVE  /\ ref'[q] = ref[q]
               /\ ref[q].shell # None => fiber'[ref[q].shell] = fiber[ref[q].shell]
               /\ ref[q].run # None => fiber'[ref[q].run] = fiber[ref[q].run]
    BY <2>3, <2>4, <2>5, <2>6
  <2> QED
    BY <2>3, <2>5, <2>6
<1>13. ASSUME NEW c \in Calls, WorkIsOver(c) \/ WorkReports(c)
       PROVE  FibersNamed'
  BY <1>3, <1>13 DEF WorkIsOver, WorkReports, FiberSet, IsCurrent
<1>14. ASSUME NEW x \in Cancels, NEW s \in Sessions, NEW r \in Calls,
              StopTakesShell(x, s, r) \/ StopTakesRun(x, s, r)
       PROVE  FibersNamed'
  BY <1>3, <1>14 DEF StopTakesShell, StopTakesRun, RefSet, FiberSet
<1>15. ASSUME NEW x \in Cancels, StopInterrupts(x)
       PROVE  FibersNamed'
  <2>1. /\ stop[x].shell # None
        /\ \A r \in Calls : ref[r].shell # stop[x].shell /\ ref[r].run # stop[x].shell
    BY <1>15 DEF StopInterrupts, RunInv, ClaimsRight, Taken
  <2> QED
    BY <1>3, <1>15, <2>1 DEF StopInterrupts, FiberSet
<1>16. CASE CallStep
  BY <1>5, <1>6, <1>7, <1>8, <1>9, <1>16
     DEF CallStep, CallParks, CallJoins, CallReports
<1>17. CASE FiberStep
  BY <1>10, <1>11, <1>12, <1>13, <1>17 DEF FiberStep
<1>18. CASE StopStep
  BY <1>5, <1>14, <1>15, <1>18
     DEF StopStep, StopFindsIdle, StopParks, StopIdles, StopWaits, StopReports, StopAbandons
<1> QED
  BY <1>1, <1>5, <1>16, <1>17, <1>18 DEF Rests

LEMMA NamedStep ==
    ASSUME RunInv, [RunNext]_runVars
    PROVE  Named'
<1>1. FibersNamed' /\ NamesGrow /\ CallsStay /\ RunTypeOK'
  BY FibersNamedStep, NamesGrowStep, CallsStayStep, RunTypeStep
<1>2. \A r \in Calls, c \in Calls : Names(r, c)' => call'[c].on = r /\ Created(c)'
  <2>1. ASSUME NEW r \in Calls, NEW c \in Calls, Names(r, c)
        PROVE  call'[c].on = r /\ Created(c)'
    <3>1. Host(c) = r /\ Created(c)
      BY <2>1, NamedFacts
    <3> QED
      BY <1>1, <3>1 DEF CallsStay, Created, Entered, Host
  <2> QED
    BY <1>1, <2>1 DEF NamesGrow
<1>3. /\ None \notin Calls /\ Loops \subseteq Calls /\ Shells \subseteq Calls
      /\ \A r \in Calls : /\ ref'[r].shell \in Shells \cup {None}
                          /\ ref'[r].run \in Loops \cup {None}
  BY <1>1, NamedFacts DEF RunTypeOK
<1>4. ASSUME NEW r \in Calls
      PROVE  /\ ref'[r].shell # None => ShellNamed(r, ref[r].shell)'
             /\ ref'[r].run # None => RunNamed(r, ref[r].run)'
  BY <1>1, <1>2, <1>3
     DEF Names, ShellNamed, RunNamed, FibersNamed, ShellPhases, Host, Created, Entered
<1> QED
  BY <1>4 DEF Named

(* Where the semaphore stays as it is, its holder and its runner do.       *)
LEMMA HeldRightStep ==
    ASSUME RunInv, [RunNext]_runVars
    PROVE  HeldRight'
<1>1. RunInv /\ HeldRight /\ (CallStep \/ FiberStep \/ StopStep \/ Rests)
  BY RunSteps DEF RunInv
<1>2. /\ held \in [Calls -> Shells \cup {None}] /\ None \notin Calls
      /\ Shells \subseteq Calls /\ Loops \cap Shells = {}
  BY NamedFacts DEF RunInv, RunTypeOK
<1> USE <1>1, <1>2
<1>3. ASSUME \A r \in Calls : held[r] # None => ref'[r].tag = "Idle",
             UNCHANGED <<call, held>>
      PROVE  HeldRight'
  BY <1>3 DEF HeldRight
<1>4. CASE UNCHANGED ref
  <2>1. ASSUME NEW c \in Calls, NEW s \in Sessions, NEW r \in Calls,
               CallParks(c, s, r) \/ CallJoins(c, s, r)
        PROVE  HeldRight'
    <3>1. /\ call[c].at # "onBusy" /\ held' = held /\ ref' = ref
          /\ \A d \in Calls \ {c} : call'[d] = call[d]
          /\ call'[c].at # "onBusy"
      BY <2>1 DEF CallParks, CallJoins, Comes, CallSet
    <3> QED
      BY <3>1 DEF HeldRight
  <2>2. ASSUME NEW h \in Calls, NEW s \in Sessions, NEW r \in Calls,
               CallReports(h, s, r)
        PROVE  HeldRight'
    <3>1. /\ call[h].at # "onBusy" /\ held[r] = None /\ h \in Shells
          /\ held' = [held EXCEPT ![r] = h] /\ ref' = ref /\ ref[r].tag = "Idle"
          /\ \A d \in Calls \ {h} : call'[d] = call[d]
          /\ call'[h].at = "onBusy" /\ call'[h].on = r
      BY <2>2 DEF CallReports, Comes, CallSet, Free
    <3> QED
      BY <3>1 DEF HeldRight
  <2>3. ASSUME NEW c \in Calls, CallLeaves(c)
        PROVE  HeldRight'
    <3>1. /\ \A d \in Calls \ {c} : call'[d] = call[d]
          /\ call'[c].at # "onBusy" /\ ref' = ref
          /\ \/ call[c].at \in {"waiting", "queued"} /\ held' = held
             \/ /\ call[c].at = "onBusy"
                /\ held' = [held EXCEPT ![Host(c)] = None]
      BY <2>3 DEF CallLeaves, CallAt, CallSet
    <3>2. CASE held' = held /\ call[c].at \in {"waiting", "queued"}
      BY <3>1, <3>2 DEF HeldRight
    <3>3. CASE /\ call[c].at = "onBusy"
               /\ held' = [held EXCEPT ![Host(c)] = None]
      <4>1. Host(c) \in Calls /\ held[Host(c)] = c /\ Host(c) = call[c].on
        BY <3>3, NamedFacts DEF HeldRight, Host
      <4>2. \A r \in Calls \ {Host(c)} : held'[r] = held[r] /\ held[r] # c
        BY <3>3, <4>1 DEF HeldRight
      <4> QED
        BY <3>1, <3>3, <4>1, <4>2 DEF HeldRight
    <3> QED
      BY <3>1, <3>2, <3>3
  <2>4. CASE CallStep
    <3>1. ASSUME NEW c \in Calls, NEW s \in Sessions, NEW r \in Calls,
                 CallFollows(c, s, r) \/ CallStarts(c, s, r)
          PROVE  FALSE
      BY <1>4, <3>1 DEF CallFollows, CallStarts, RefSet
    <3>2. ASSUME NEW h \in Shells, ShellBegins(h)
          PROVE  FALSE
      <4>1. Host(h) \in Calls /\ held[Host(h)] = h
        BY <3>2, NamedFacts DEF ShellBegins, HeldRight, Host
      <4>2. ref[Host(h)].tag = "Idle" /\ ref'[Host(h)].tag = "Shell"
        BY <3>2, <4>1 DEF ShellBegins, RefSet, HeldRight
      <4> QED
        BY <1>4, <4>2
    <3> QED
      BY <2>1, <2>2, <2>3, <2>4, <3>1, <3>2 DEF CallStep
  <2> QED
    BY <1>3, <1>4, <2>4, CallUnchanged DEF HeldRight
<1>5. ASSUME NEW c \in Calls, NEW s \in Sessions, NEW r \in Calls,
             CallFollows(c, s, r) \/ CallStarts(c, s, r)
      PROVE  HeldRight'
  <2>1. /\ call[c].at # "onBusy" /\ held' = held /\ held[r] = None
        /\ \A d \in Calls \ {c} : call'[d] = call[d]
        /\ call'[c].at # "onBusy" /\ \A q \in Calls \ {r} : ref'[q] = ref[q]
    BY <1>5 DEF CallFollows, CallStarts, Comes, CallSet, RefSet, Free
  <2> QED
    BY <2>1 DEF HeldRight
<1>6. ASSUME NEW h \in Shells, ShellBegins(h)
      PROVE  HeldRight'
  <2>1. Host(h) \in Calls /\ Host(h) = call[h].on /\ held[Host(h)] = h
    BY <1>6, NamedFacts DEF ShellBegins, HeldRight, Host
  <2>2. /\ \A d \in Calls \ {h} : call'[d] = call[d]
        /\ call'[h].at = "waiting" /\ \A q \in Calls \ {Host(h)} : ref'[q] = ref[q]
        /\ held' = [held EXCEPT ![Host(h)] = None] /\ call[h].at = "onBusy"
    BY <1>6 DEF ShellBegins, CallSet, RefSet
  <2>3. \A r \in Calls \ {Host(h)} : held'[r] = held[r] /\ held[r] # h
    BY <2>1, <2>2 DEF HeldRight
  <2> QED
    BY <2>1, <2>2, <2>3 DEF HeldRight
<1>7. ASSUME \A r \in Calls : held[r] # None /\ ref'[r] # ref[r] => ref'[r].tag = "Idle",
             UNCHANGED <<call, held>>
      PROVE  HeldRight'
  BY <1>3, <1>7 DEF HeldRight
<1>8. ASSUME NEW c \in Calls, WorkIdles(c) \/ WorkHandsOver(c)
      PROVE  HeldRight'
  <2>1. Host(c) \in Calls /\ ref[Host(c)].tag # "Idle"
    BY <1>8, NamedFacts DEF WorkIdles, WorkHandsOver
  <2>2. \A q \in Calls : held[q] # None => ref'[q] = ref[q]
    BY <1>8, <2>1 DEF WorkIdles, WorkHandsOver, RefSet, HeldRight
  <2> QED
    BY <1>7, <1>8, <2>2 DEF WorkIdles, WorkHandsOver
<1>9. ASSUME NEW x \in Cancels, NEW s \in Sessions, NEW r \in Calls,
             StopTakesShell(x, s, r) \/ StopTakesRun(x, s, r)
      PROVE  HeldRight'
  BY <1>7, <1>9 DEF StopTakesShell, StopTakesRun, StopComes, RefSet
<1>10. CASE CallStep
  BY <1>4, <1>5, <1>6, <1>10 DEF CallStep, CallParks, CallJoins, CallReports, CallLeaves
<1>11. CASE FiberStep
  BY <1>4, <1>8, <1>11 DEF FiberStep, FiberMoves, WorkIsOver, WorkReports
<1>12. CASE StopStep
  BY <1>4, <1>9, <1>12
     DEF StopStep, StopFindsIdle, StopParks, StopInterrupts, StopIdles, StopWaits,
         StopReports, StopAbandons
<1> QED
  BY <1>4, <1>10, <1>11, <1>12 DEF Rests

(* A claim is kept: what a cancel took stays its runner's, and is created. *)
LEMMA TakenStep ==
    ASSUME RunInv, [RunNext]_runVars,
           NEW x \in Cancels, NEW c \in Calls, HasTaken(x, c)'
    PROVE  Taken(x, c)'
<1>1. NamesGrow /\ TakenGrows /\ CallsStay
  BY NamesGrowStep, TakenGrowsStep, CallsStayStep
<1>2. None \notin Calls /\ ClaimsRight
  BY NamedFacts DEF RunInv
<1>3. CASE HasTaken(x, c) /\ UNCHANGED stop[x].on
  <2>1. stop[x].on = Host(c) /\ Created(c) /\ \A r \in Calls : ~Names(r, c)
    BY <1>2, <1>3 DEF HasTaken, ClaimsRight, Taken, Names
  <2>2. \A r \in Calls : ~Names(r, c)'
    BY <1>1, <2>1 DEF NamesGrow, Created
  <2>3. call'[c].on = call[c].on /\ Created(c)' /\ call[c].at # "off"
    BY <1>1, <2>1 DEF CallsStay, Created, Entered
  <2> QED
    BY <1>3, <2>1, <2>2, <2>3 DEF Taken, Names, Host
<1>4. ASSUME NEW r \in Calls, Names(r, c), stop'[x].on = r,
             ref'[r].shell = None, ref'[r].run = None
      PROVE  Taken(x, c)'
  <2>1. Host(c) = r /\ Created(c) /\ \A q \in Calls \ {r} : ~Names(q, c)
    BY <1>4, NamedFacts
  <2>2. \A q \in Calls : ~Names(q, c)'
    BY <1>1, <1>2, <1>4, <2>1 DEF NamesGrow, Created, Names
  <2>3. call'[c].on = call[c].on /\ Created(c)'
    BY <1>1, <2>1 DEF CallsStay, Created, Entered
  <2> QED
    BY <1>4, <2>1, <2>2, <2>3 DEF Taken, Names, Host
<1> QED
  BY <1>1, <1>3, <1>4 DEF TakenGrows

(* The run behind a shell that a cancel took has not begun.                *)
RunsBehind ==
    \A x \in Cancels : stop[x].shell # None /\ stop[x].run # None =>
        fiber[stop[x].run] = "none"

ClaimsFull ==
    \A x \in Cancels :
        /\ stop[x].at = "ready" => stop[x].shell # None
        /\ stop[x].at = "awaits" => stop[x].shell # None \/ stop[x].run # None

LEMMA RunsBehindStep ==
    ASSUME RunInv, [RunNext]_runVars
    PROVE  RunsBehind'
<1>1. RunInv /\ RunsBehind /\ (CallStep \/ FiberStep \/ StopStep \/ Rests)
  BY RunSteps DEF RunInv, ClaimsRight, RunsBehind
<1>2. FibersBegin /\ \A x \in Cancels : stop[x].run \in Loops \cup {None}
  BY FibersBeginStep, NamedFacts
<1>3. Loops \subseteq Calls /\ fiber \in [Calls -> Phases]
  BY NamedFacts
<1>4. ASSUME NEW x \in Cancels, stop'[x].shell = stop[x].shell,
             stop'[x].run = stop[x].run
      PROVE  stop'[x].shell # None /\ stop'[x].run # None =>
                fiber'[stop'[x].run] = "none"
  BY <1>1, <1>2, <1>3, <1>4 DEF RunsBehind, FibersBegin, HasTaken
<1>5. CASE CallStep \/ FiberStep \/ Rests
  BY <1>4, <1>5, StopUnchanged DEF RunsBehind
<1>6. ASSUME NEW x \in Cancels, NEW s \in Sessions, NEW r \in Calls,
             StopTakesShell(x, s, r) \/ StopTakesRun(x, s, r)
      PROVE  RunsBehind'
  <2>1. /\ \A y \in Cancels \ {x} : stop'[y] = stop[y]
        /\ stop'[x].shell = ref[r].shell /\ stop'[x].run = ref[r].run
        /\ stop'[x].shell # None => fiber' = fiber
    BY <1>6 DEF StopTakesShell, StopTakesRun, StopSet
  <2>2. ref[r].shell # None /\ ref[r].run # None => fiber[ref[r].run] = "none"
    BY <1>1 DEF RunInv, RunTypeOK, Named, RunNamed
  <2>3. \A y \in Cancels \ {x} : stop'[y].shell # None /\ stop'[y].run # None =>
                fiber'[stop'[y].run] = "none"
    BY <1>4, <2>1
  <2> QED
    BY <2>1, <2>2, <2>3 DEF RunsBehind
<1>7. ASSUME NEW x \in Cancels, NEW at, StopAt(x, at)
      PROVE  RunsBehind'
  BY <1>4, <1>7 DEF StopAt, StopSet, RunsBehind
<1>8. ASSUME NEW x \in Cancels, NEW s \in Sessions, StopParks(x, s)
      PROVE  RunsBehind'
  BY <1>4, <1>8 DEF StopParks, StopSet, RunsBehind
<1>9. CASE StopStep
  BY <1>6, <1>7, <1>8, <1>9
     DEF StopStep, StopFindsIdle, StopInterrupts, StopIdles, StopWaits, StopReports, StopAbandons
<1> QED
  BY <1>1, <1>5, <1>9

LEMMA ClaimsFullStep ==
    ASSUME RunInv, [RunNext]_runVars
    PROVE  ClaimsFull'
<1>1. RunInv /\ ClaimsFull /\ (CallStep \/ FiberStep \/ StopStep \/ Rests)
  BY RunSteps DEF RunInv, ClaimsRight, ClaimsFull
<1>2. CASE CallStep \/ FiberStep \/ Rests
  BY <1>1, <1>2, StopUnchanged DEF ClaimsFull
<1>3. ASSUME NEW x \in Cancels, NEW s \in Sessions, NEW r \in Calls,
             StopTakesShell(x, s, r) \/ StopTakesRun(x, s, r)
      PROVE  ClaimsFull'
  BY <1>1, <1>3 DEF StopTakesShell, StopTakesRun, StopSet, ClaimsFull
<1>4. ASSUME NEW x \in Cancels, NEW at \in {"queuedIdle", "idling", "left", "over"},
             StopAt(x, at)
      PROVE  ClaimsFull'
  BY <1>1, <1>4 DEF StopAt, StopSet, ClaimsFull
<1>5. ASSUME NEW x \in Cancels, StopInterrupts(x)
      PROVE  ClaimsFull'
  BY <1>1, <1>5 DEF StopInterrupts, StopAt, StopSet, ClaimsFull
<1>6. ASSUME NEW x \in Cancels, NEW s \in Sessions, StopParks(x, s)
      PROVE  ClaimsFull'
  BY <1>1, <1>6 DEF StopParks, StopSet, ClaimsFull
<1>7. CASE StopStep
  BY <1>3, <1>4, <1>5, <1>6, <1>7
     DEF StopStep, StopFindsIdle, StopIdles, StopWaits, StopReports, StopAbandons
<1> QED
  BY <1>1, <1>2, <1>7

LEMMA ClaimsRightStep ==
    ASSUME RunInv, [RunNext]_runVars
    PROVE  ClaimsRight'
<1>1. RunTypeOK' /\ RunsBehind' /\ ClaimsFull'
  BY RunTypeStep, RunsBehindStep, ClaimsFullStep
<1>2. \A x \in Cancels : /\ stop'[x].shell \in Shells \cup {None}
                         /\ stop'[x].run \in Loops \cup {None}
  BY <1>1 DEF RunTypeOK
<1>3. Loops \subseteq Calls /\ Shells \subseteq Calls
  BY NamedFacts
<1>4. ASSUME NEW x \in Cancels, stop'[x].shell # None
      PROVE  Taken(x, stop[x].shell)'
  <2>1. PICK h \in Calls : h = stop'[x].shell
    BY <1>2, <1>3, <1>4
  <2>2. HasTaken(x, h)'
    BY <2>1 DEF HasTaken
  <2>3. Taken(x, h)'
    BY <2>2, TakenStep
  <2> QED
    BY <2>1, <2>3 DEF Taken, Host, Created, Entered
<1>5. ASSUME NEW x \in Cancels, stop'[x].run # None
      PROVE  Taken(x, stop[x].run)'
  <2>1. PICK l \in Calls : l = stop'[x].run
    BY <1>2, <1>3, <1>5
  <2>2. HasTaken(x, l)'
    BY <2>1 DEF HasTaken
  <2>3. Taken(x, l)'
    BY <2>2, TakenStep
  <2> QED
    BY <2>1, <2>3 DEF Taken, Host, Created, Entered
<1> QED
  BY <1>1, <1>4, <1>5 DEF ClaimsRight, RunsBehind, ClaimsFull

(* A cancel keeps what it has taken until the fiber it waits for is over,  *)
(* and then completes the run it took, unless it gives up before.          *)
Waiting(x) == stop[x].at \in {"ready", "awaits"}

GivesUp(x) ==
    /\ stop[x].at = "awaits" => fiber[Target(x)] # "over"
    /\ stop'[x].at = "left" /\ stop'[x].shell = stop[x].shell
    /\ stop'[x].run = stop[x].run
    /\ UNCHANGED fiber

LEMMA ClaimsKept ==
    ASSUME RunInv, [RunNext]_runVars, NEW x \in Cancels, Waiting(x)
    PROVE  \/ /\ Waiting(x)' /\ UNCHANGED stop[x].shell /\ UNCHANGED stop[x].run
           \/ /\ fiber[Target(x)] = "over" /\ UNCHANGED fiber
              /\ stop[x].run # None => stop[x].run \in settled'
           \/ GivesUp(x)
<1>1. RunInv /\ (CallStep \/ FiberStep \/ StopStep \/ Rests)
  BY RunSteps DEF RunInv
<1> USE DEF Waiting
<1>2. CASE UNCHANGED stop[x]
  BY <1>2
<1>3. ASSUME NEW y \in Cancels, NEW s \in Sessions, NEW r,
             \/ StopTakesShell(y, s, r) \/ StopTakesRun(y, s, r)
             \/ StopFindsIdle(y, s, r) \/ StopParks(y, s)
      PROVE  UNCHANGED stop[x]
  <2>1. x # y
    BY <1>3 DEF StopTakesShell, StopTakesRun, StopFindsIdle, StopComes, StopParks
  <2> QED
    BY <1>3, <2>1 DEF StopTakesShell, StopTakesRun, StopFindsIdle, StopParks,
                      StopSet, StopAt
<1>4. ASSUME NEW y \in Cancels, StopInterrupts(y)
      PROVE  Waiting(x)' /\ UNCHANGED stop[x].shell /\ UNCHANGED stop[x].run
  BY <1>4 DEF StopInterrupts, StopSet, StopAt
<1>5. ASSUME NEW y \in Cancels, StopIdles(y) \/ StopWaits(y) \/ StopReports(y)
      PROVE  \/ UNCHANGED stop[x]
             \/ /\ fiber[Target(x)] = "over" /\ UNCHANGED fiber
                /\ stop[x].run # None => stop[x].run \in settled'
  BY <1>5 DEF StopIdles, StopWaits, StopReports, StopSet, StopAt
<1>12. ASSUME NEW y \in Cancels, StopAbandons(y)
       PROVE  UNCHANGED stop[x] \/ GivesUp(x)
  BY <1>12 DEF StopAbandons, StopSet, StopAt, GivesUp
<1>6. CASE CallStep \/ FiberStep \/ Rests
  BY <1>2, <1>6, StopUnchanged
<1>7. CASE \E y \in Cancels, s \in Sessions, r \in Calls :
            StopTakesShell(y, s, r) \/ StopTakesRun(y, s, r) \/ StopFindsIdle(y, s, r)
  <2>1. UNCHANGED stop[x]
    BY <1>3, <1>7
  <2> QED
    BY <1>2, <2>1
<1>8. CASE \E y \in Cancels, s \in Sessions : StopParks(y, s)
  <2>1. UNCHANGED stop[x]
    BY <1>3, <1>8
  <2> QED
    BY <1>2, <2>1
<1>9. CASE \E y \in Cancels : StopIdles(y) \/ StopWaits(y) \/ StopReports(y)
  <2>1. \/ UNCHANGED stop[x]
        \/ /\ fiber[Target(x)] = "over" /\ UNCHANGED fiber
           /\ stop[x].run # None => stop[x].run \in settled'
    BY <1>5, <1>9
  <2> QED
    BY <1>2, <2>1
<1>10. CASE \E y \in Cancels : StopInterrupts(y)
  BY <1>4, <1>10
<1>13. CASE \E y \in Cancels : StopAbandons(y)
  <2>1. UNCHANGED stop[x] \/ GivesUp(x)
    BY <1>12, <1>13
  <2> QED
    BY <1>2, <2>1
<1>11. CASE StopStep
  BY <1>7, <1>8, <1>9, <1>10, <1>11, <1>13 DEF StopStep
<1> QED
  BY <1>1, <1>6, <1>11

(* A cancel that has given up stays as it was left.                        *)
LEMMA LeftStays ==
    ASSUME RunInv, [RunNext]_runVars, NEW x \in Cancels, stop[x].at = "left"
    PROVE  UNCHANGED stop[x]
<1>1. RunInv /\ (CallStep \/ FiberStep \/ StopStep \/ Rests)
  BY RunSteps DEF RunInv
<1>2. ASSUME NEW y \in Cancels, NEW s \in Sessions, NEW r \in Calls,
             \/ StopTakesShell(y, s, r) \/ StopTakesRun(y, s, r)
             \/ StopFindsIdle(y, s, r)
      PROVE  UNCHANGED stop[x]
  BY <1>2 DEF StopTakesShell, StopTakesRun, StopFindsIdle, StopComes, StopSet, StopAt
<1>3. ASSUME NEW y \in Cancels, NEW s \in Sessions, StopParks(y, s)
      PROVE  UNCHANGED stop[x]
  BY <1>3 DEF StopParks, StopSet
<1>4. ASSUME NEW y \in Cancels,
             \/ StopInterrupts(y) \/ StopIdles(y) \/ StopWaits(y)
             \/ StopReports(y) \/ StopAbandons(y)
      PROVE  UNCHANGED stop[x]
  BY <1>4 DEF StopInterrupts, StopIdles, StopWaits, StopReports, StopAbandons,
              Reporting, StopSet, StopAt
<1>5. CASE CallStep \/ FiberStep \/ Rests
  BY <1>5, StopUnchanged
<1>6. CASE \E y \in Cancels, s \in Sessions, r \in Calls :
            StopTakesShell(y, s, r) \/ StopTakesRun(y, s, r) \/ StopFindsIdle(y, s, r)
  BY <1>2, <1>6
<1>7. CASE \E y \in Cancels, s \in Sessions : StopParks(y, s)
  BY <1>3, <1>7
<1>8. CASE StopStep
  BY <1>4, <1>6, <1>7, <1>8 DEF StopStep
<1> QED
  BY <1>1, <1>5, <1>8

LEMMA ForsakenStays ==
    ASSUME RunInv, [RunNext]_runVars, NEW c \in Calls, Forsaken(c)
    PROVE  Forsaken(c)'
<1>1. PICK x \in Cancels : stop[x].at = "left" /\ c \in {stop[x].shell, stop[x].run}
  BY DEF Forsaken
<1>2. UNCHANGED stop[x]
  BY <1>1, LeftStays
<1> QED
  BY <1>1, <1>2 DEF Forsaken

(* What a cancel took without a shell was interrupted, and no state starts *)
(* it again.                                                               *)
Ending == {"cleanup", "finishing", "over"}

LEMMA EndingStays ==
    ASSUME RunInv, [RunNext]_runVars, NEW x \in Cancels, NEW l \in Loops,
           stop[x].run = l, fiber[l] \in Ending
    PROVE  fiber'[l] \in Ending
<1>1. RunInv /\ (CallStep \/ FiberStep \/ StopStep \/ Rests)
  BY RunSteps DEF RunInv
<1>2. /\ None \notin Calls /\ fiber \in [Calls -> Phases] /\ l \in Calls
      /\ Loops \subseteq Calls /\ Shells \subseteq Calls /\ Loops \cap Shells = {}
  BY NamedFacts
<1>3. Created(l) /\ \A r \in Calls : ref[r].shell # l /\ ref[r].run # l
  BY <1>2 DEF RunInv, ClaimsRight, Taken
<1> USE <1>2 DEF Ending
<1>4. CASE UNCHANGED fiber
  BY <1>4
<1>5. ASSUME NEW d \in Calls, NEW phase, FiberSet(d, phase),
             d = l => phase \in Ending
      PROVE  fiber'[l] \in Ending
  BY <1>5 DEF FiberSet
<1>6. Interrupted(fiber[l]) \subseteq Ending
  BY DEF Interrupted
<1>7. CASE CallStep
  <2>1. ASSUME NEW d \in Calls, NEW s \in Sessions, NEW q \in Calls, CallStarts(d, s, q)
        PROVE  fiber'[l] \in Ending
    BY <1>3, <1>5, <2>1 DEF CallStarts, Comes, Created, Entered
  <2>2. ASSUME NEW h \in Shells, ShellBegins(h)
        PROVE  fiber'[l] \in Ending
    BY <1>5, <2>2 DEF ShellBegins
  <2>3. ASSUME NEW d \in Calls, CallLeaves(d)
        PROVE  fiber'[l] \in Ending
    BY <1>4, <1>5, <1>6, <2>3 DEF CallLeaves
  <2> QED
    BY <1>4, <1>7, <2>1, <2>2, <2>3
       DEF CallStep, CallParks, CallJoins, CallFollows, CallReports
<1>8. CASE FiberStep
  <2>1. ASSUME NEW d \in Calls, WorkIdles(d)
        PROVE  fiber'[l] \in Ending
    <3>1. d # l
      BY <1>3, <2>1, NamedFacts DEF WorkIdles
    <3> QED
      BY <1>5, <2>1, <3>1 DEF WorkIdles
  <2>2. ASSUME NEW d \in Calls, FiberMoves(d) \/ WorkIsOver(d) \/ WorkReports(d)
        PROVE  fiber'[l] \in Ending
    BY <1>5, <2>2 DEF FiberMoves, WorkIsOver, WorkReports
  <2>3. ASSUME NEW h \in Shells, WorkHandsOver(h)
        PROVE  fiber'[l] \in Ending
    <3>1. PICK r \in Calls : r = Host(h)
      BY <2>3, NamedFacts DEF WorkHandsOver
    <3>2. fiber' = [fiber EXCEPT ![h] = "over", ![ref[r].run] = "started"]
      BY <2>3, <3>1 DEF WorkHandsOver
    <3>3. ref[r].run # l
      BY <1>3
    <3> QED
      BY <3>2, <3>3
  <2> QED
    BY <1>8, <2>1, <2>2, <2>3 DEF FiberStep
<1>9. CASE StopStep
  <2>1. ASSUME NEW y \in Cancels, NEW s \in Sessions, NEW r \in Calls,
               StopTakesRun(y, s, r)
        PROVE  fiber'[l] \in Ending
    <3>1. ref[r].run \in Calls
      BY <1>1, <2>1, NamedFacts DEF StopTakesRun
    <3> QED
      BY <1>5, <1>6, <2>1, <3>1 DEF StopTakesRun
  <2>2. ASSUME NEW y \in Cancels, StopInterrupts(y)
        PROVE  fiber'[l] \in Ending
    <3>1. stop[y].shell \in Calls
      BY <1>1, <2>2, NamedFacts DEF StopInterrupts, RunInv, ClaimsRight
    <3> QED
      BY <1>5, <1>6, <2>2, <3>1 DEF StopInterrupts
  <2> QED
    BY <1>4, <1>9, <2>1, <2>2
       DEF StopStep, StopTakesShell, StopFindsIdle, StopParks, StopIdles, StopWaits,
           StopReports, StopAbandons
<1> QED
  BY <1>1, <1>4, <1>7, <1>8, <1>9 DEF Rests

LEMMA ShellsNeverStarted ==
    ASSUME RunInv, [RunNext]_runVars, NEW h \in Shells
    PROVE  fiber'[h] # "started"
<1>1. RunInv /\ fiber[h] # "started" /\ (CallStep \/ FiberStep \/ StopStep \/ Rests)
  BY RunSteps DEF RunInv, InterruptedRuns
<1>2. /\ None \notin Calls /\ fiber \in [Calls -> Phases] /\ h \in Calls
      /\ Loops \subseteq Calls /\ Shells \subseteq Calls /\ Loops \cap Shells = {}
  BY NamedFacts
<1> USE <1>1, <1>2
<1>3. CASE UNCHANGED fiber
  BY <1>3
<1>4. ASSUME NEW d \in Calls, NEW phase, FiberSet(d, phase),
             d = h => phase # "started"
      PROVE  fiber'[h] # "started"
  BY <1>4 DEF FiberSet
<1>5. \A phase : "started" \notin Interrupted(phase)
  BY DEF Interrupted
<1>6. CASE CallStep
  <2>1. ASSUME NEW d \in Calls, NEW s \in Sessions, NEW q \in Calls, CallStarts(d, s, q)
        PROVE  fiber'[h] # "started"
    BY <1>4, <2>1 DEF CallStarts
  <2>2. ASSUME NEW d \in Shells, ShellBegins(d)
        PROVE  fiber'[h] # "started"
    BY <1>4, <2>2 DEF ShellBegins
  <2>3. ASSUME NEW d \in Calls, CallLeaves(d)
        PROVE  fiber'[h] # "started"
    BY <1>3, <1>4, <1>5, <2>3 DEF CallLeaves
  <2> QED
    BY <1>3, <1>6, <2>1, <2>2, <2>3
       DEF CallStep, CallParks, CallJoins, CallFollows, CallReports
<1>7. CASE FiberStep
  <2>1. ASSUME NEW d \in Calls,
               FiberMoves(d) \/ WorkIdles(d) \/ WorkIsOver(d) \/ WorkReports(d)
        PROVE  fiber'[h] # "started"
    BY <1>4, <2>1 DEF FiberMoves, WorkIdles, WorkIsOver, WorkReports
  <2>2. ASSUME NEW d \in Shells, WorkHandsOver(d)
        PROVE  fiber'[h] # "started"
    <3>1. PICK r \in Calls : r = Host(d)
      BY <2>2, NamedFacts DEF WorkHandsOver
    <3>2. fiber' = [fiber EXCEPT ![d] = "over", ![ref[r].run] = "started"]
      BY <2>2, <3>1 DEF WorkHandsOver
    <3>3. ref[r].run # h
      BY NamedFacts
    <3> QED
      BY <3>2, <3>3
  <2> QED
    BY <1>7, <2>1, <2>2 DEF FiberStep
<1>8. CASE StopStep
  <2>1. ASSUME NEW y \in Cancels, NEW s \in Sessions, NEW r \in Calls,
               StopTakesRun(y, s, r)
        PROVE  fiber'[h] # "started"
    <3>1. ref[r].run \in Calls
      BY <2>1, NamedFacts DEF StopTakesRun
    <3> QED
      BY <1>4, <1>5, <2>1, <3>1 DEF StopTakesRun
  <2>2. ASSUME NEW y \in Cancels, StopInterrupts(y)
        PROVE  fiber'[h] # "started"
    <3>1. stop[y].shell \in Calls
      BY <2>2, NamedFacts DEF StopInterrupts, RunInv, ClaimsRight
    <3> QED
      BY <1>4, <1>5, <2>2, <3>1 DEF StopInterrupts
  <2> QED
    BY <1>3, <1>8, <2>1, <2>2
       DEF StopStep, StopTakesShell, StopFindsIdle, StopParks, StopIdles, StopWaits,
           StopReports, StopAbandons
<1> QED
  BY <1>3, <1>6, <1>7, <1>8 DEF Rests

LEMMA InterruptedRunsStep ==
    ASSUME RunInv, [RunNext]_runVars
    PROVE  InterruptedRuns'
<1>1. RunInv /\ (CallStep \/ FiberStep \/ StopStep \/ Rests)
  BY RunSteps DEF RunInv
<1>2. /\ None \notin Calls /\ Loops \subseteq Calls /\ fiber \in [Calls -> Phases]
      /\ \A x \in Cancels : stop[x].run \in Loops \cup {None}
      /\ \A r \in Calls : ref[r].run \in Loops \cup {None}
  BY NamedFacts
<1> SUFFICES ASSUME NEW x \in Cancels, stop'[x].shell = None, stop'[x].run # None
             PROVE  fiber'[stop'[x].run] \in Ending
  BY ShellsNeverStarted DEF InterruptedRuns, Ending
<1>3. CASE stop'[x].shell = stop[x].shell /\ stop'[x].run = stop[x].run
  <2>1. stop[x].run \in Loops /\ fiber[stop[x].run] \in Ending
    BY <1>1, <1>2, <1>3 DEF RunInv, InterruptedRuns, Ending
  <2> QED
    BY <1>3, <2>1, EndingStays
<1>4. ASSUME NEW y \in Cancels, NEW s \in Sessions, NEW r \in Calls,
             StopTakesRun(y, s, r)
      PROVE  fiber'[stop'[x].run] \in Ending
  <2>1. CASE y = x
    <3>1. stop'[x].run = ref[r].run /\ ref[r].run \in Loops
      BY <1>2, <1>4, <2>1 DEF StopTakesRun, StopSet
    <3>2. fiber[ref[r].run] \in {"started", "working", "finishing"}
      BY <1>1, <1>4, <3>1 DEF StopTakesRun, RunInv, RunTypeOK, Named, RunNamed
    <3>3. Interrupted(fiber[ref[r].run]) \subseteq Ending
      BY <3>2 DEF Interrupted, Ending
    <3> QED
      BY <1>2, <1>4, <3>1, <3>3 DEF StopTakesRun, FiberSet
  <2>2. CASE y # x
    BY <1>3, <1>4, <2>2 DEF StopTakesRun, StopSet
  <2> QED
    BY <2>1, <2>2
<1>5. ASSUME NEW y \in Cancels, NEW s \in Sessions, NEW r \in Calls,
             StopTakesShell(y, s, r)
      PROVE  fiber'[stop'[x].run] \in Ending
  BY <1>3, <1>5 DEF StopTakesShell, StopSet
<1>6. ASSUME NEW y \in Cancels, NEW at, StopAt(y, at)
      PROVE  fiber'[stop'[x].run] \in Ending
  BY <1>3, <1>6 DEF StopAt, StopSet
<1>7. ASSUME NEW y \in Cancels, NEW s \in Sessions, StopParks(y, s)
      PROVE  fiber'[stop'[x].run] \in Ending
  BY <1>3, <1>7 DEF StopParks, StopSet
<1>8. CASE CallStep \/ FiberStep \/ Rests
  BY <1>3, <1>8, StopUnchanged
<1>9. CASE StopStep
  BY <1>4, <1>5, <1>6, <1>7, <1>9
     DEF StopStep, StopFindsIdle, StopInterrupts, StopIdles, StopWaits, StopReports,
         StopAbandons
<1> QED
  BY <1>1, <1>8, <1>9

LEMMA ClaimedStep ==
    ASSUME RunInv, [RunNext]_runVars, NEW c \in Calls, Claimed(c)
    PROVE  Claimed(c)' \/ Forsaken(c)' \/ fiber'[c] \in {"none", "over"}
<1>1. PICK x \in Cancels : Waiting(x) /\ HasTaken(x, c)
  BY DEF Claimed, Waiting, HasTaken
<1>2. CASE Waiting(x)' /\ UNCHANGED stop[x].shell /\ UNCHANGED stop[x].run
  BY <1>1, <1>2 DEF Claimed, Waiting, HasTaken
<1>3. CASE fiber[Target(x)] = "over" /\ UNCHANGED fiber
  <2>1. c # None
    BY NamedFacts
  <2>2. fiber[c] \in {"none", "over"}
    BY <1>1, <1>3, <2>1 DEF HasTaken, Target, RunInv, ClaimsRight
  <2> QED
    BY <1>3, <2>2
<1>4. CASE GivesUp(x)
  BY <1>1, <1>4 DEF GivesUp, HasTaken, Forsaken
<1> QED
  BY <1>1, <1>2, <1>3, <1>4, ClaimsKept

(* A fiber its runner names is named still, claimed, or past its work.     *)
AtRest == {"none", "idling", "over"}

LEMMA NamesKept ==
    ASSUME RunInv, [RunNext]_runVars,
           NEW r \in Calls, NEW c \in Calls, Names(r, c)
    PROVE  Names(r, c)' \/ Claimed(c)' \/ fiber'[c] \in AtRest
<1>1. RunInv /\ (CallStep \/ FiberStep \/ StopStep \/ Rests)
  BY RunSteps DEF RunInv
<1>2. /\ None \notin Calls /\ fiber \in [Calls -> Phases]
      /\ Loops \subseteq Calls /\ Shells \subseteq Calls
      /\ \A q \in Calls : /\ ref[q].shell # None <=> ref[q].tag \in {"Shell", "ShellThenRun"}
                          /\ ref[q].run # None <=> ref[q].tag \in {"Running", "ShellThenRun"}
  BY NamedFacts DEF RunInv, RunTypeOK
<1> USE <1>2 DEF Names
<1>3. CASE UNCHANGED ref[r]
  BY <1>3
<1>4. ASSUME NEW d \in Calls, NEW s \in Sessions, NEW q \in Calls,
             CallFollows(d, s, q) \/ CallStarts(d, s, q)
      PROVE  Names(r, c)'
  BY <1>4 DEF CallFollows, CallStarts, RefSet
<1>5. ASSUME NEW h \in Shells, ShellBegins(h)
      PROVE  Names(r, c)'
  <2>1. Host(h) \in Calls /\ held[Host(h)] = h
    BY <1>1, <1>5, NamedFacts DEF ShellBegins, RunInv, HeldRight, Host
  <2>2. ref[Host(h)].tag = "Idle"
    BY <1>1, <2>1 DEF RunInv, HeldRight
  <2> QED
    BY <1>5, <2>1, <2>2 DEF ShellBegins, RefSet
<1>6. ASSUME NEW d \in Calls, WorkIdles(d)
      PROVE  Names(r, c)' \/ fiber'[c] \in AtRest
  BY <1>6 DEF WorkIdles, RefSet, FiberSet, AtRest
<1>7. ASSUME NEW h \in Shells, WorkHandsOver(h)
      PROVE  Names(r, c)' \/ fiber'[c] \in AtRest
  <2>1. CASE r # Host(h) \/ ref[r].run = c
    BY <1>7, <2>1 DEF WorkHandsOver, RefSet
  <2>2. CASE r = Host(h) /\ ref[r].run # c
    <3>1. c = h /\ fiber' = [fiber EXCEPT ![h] = "over", ![ref[r].run] = "started"]
      BY <1>7, <2>2 DEF WorkHandsOver
    <3> QED
      BY <2>2, <3>1 DEF AtRest
  <2> QED
    BY <2>1, <2>2
<1>8. ASSUME NEW x \in Cancels, NEW s \in Sessions, NEW q \in Calls,
             StopTakesShell(x, s, q) \/ StopTakesRun(x, s, q)
      PROVE  Names(r, c)' \/ Claimed(c)'
  BY <1>8 DEF StopTakesShell, StopTakesRun, RefSet, StopSet, Claimed
<1>9. CASE CallStep
  BY <1>3, <1>4, <1>5, <1>9 DEF CallStep, CallParks, CallJoins, CallReports, CallLeaves
<1>10. CASE FiberStep
  BY <1>3, <1>6, <1>7, <1>10 DEF FiberStep, FiberMoves, WorkIsOver, WorkReports
<1>11. CASE StopStep
  BY <1>3, <1>8, <1>11
     DEF StopStep, StopFindsIdle, StopParks, StopInterrupts, StopIdles, StopWaits,
         StopReports, StopAbandons
<1> QED
  BY <1>1, <1>3, <1>9, <1>10, <1>11 DEF Rests

(* A fiber that begins its work is the one its runner names.               *)
LEMMA FibersStart ==
    ASSUME RunInv, [RunNext]_runVars,
           NEW c \in Calls, fiber[c] \in AtRest, fiber'[c] \notin AtRest
    PROVE  Entered(c)' /\ Names(Host(c), c)'
<1>1. RunInv /\ (CallStep \/ FiberStep \/ StopStep \/ Rests)
  BY RunSteps DEF RunInv
<1>2. /\ None \notin Calls /\ fiber \in [Calls -> Phases]
      /\ Loops \subseteq Calls /\ Shells \subseteq Calls
  BY NamedFacts
<1> USE <1>2 DEF Names, AtRest
<1>3. CASE UNCHANGED fiber
  BY <1>3
<1>4. ASSUME NEW d \in Calls, NEW phase, FiberSet(d, phase),
             fiber[d] \in AtRest => phase = fiber[d]
      PROVE  FALSE
  BY <1>4 DEF FiberSet
<1>5. ASSUME NEW d \in Calls, NEW s \in Sessions, NEW q \in Calls,
             CallStarts(d, s, q)
      PROVE  Entered(c)' /\ Names(Host(c), c)'
  BY <1>5 DEF CallStarts, FiberSet, RefSet, CallSet, Entered, Host
<1>6. ASSUME NEW h \in Shells, ShellBegins(h)
      PROVE  Entered(c)' /\ Names(Host(c), c)'
  BY <1>6 DEF ShellBegins, FiberSet, RefSet, CallSet, Entered, Host
<1>7. ASSUME NEW h \in Shells, WorkHandsOver(h)
      PROVE  Entered(c)' /\ Names(Host(c), c)'
  <2>1. PICK r \in Calls : r = Host(h)
    BY <1>7, NamedFacts DEF WorkHandsOver
  <2>2. /\ fiber' = [fiber EXCEPT ![h] = "over", ![ref[r].run] = "started"]
        /\ ref'[r].run = ref[r].run /\ call' = call
    BY <1>7, <2>1 DEF WorkHandsOver, RefSet
  <2>3. c = ref[r].run
    BY <2>2
  <2>4. Host(c) = r /\ Created(c)
    BY <1>1, <2>3, NamedFacts
  <2> QED
    BY <2>2, <2>3, <2>4 DEF Host, Created, Entered
<1>8. ASSUME NEW x \in Cancels, NEW s \in Sessions, NEW r \in Calls,
             StopTakesRun(x, s, r)
      PROVE  FALSE
  <2>1. ref[r].run \in Calls
    BY <1>1, <1>8, NamedFacts DEF StopTakesRun
  <2> QED
    BY <1>4, <1>8, <2>1 DEF StopTakesRun, Interrupted
<1>9. ASSUME NEW x \in Cancels, StopInterrupts(x)
      PROVE  FALSE
  <2>1. stop[x].shell \in Calls
    BY <1>1, <1>9, NamedFacts DEF StopInterrupts, RunInv, ClaimsRight
  <2> QED
    BY <1>4, <1>9, <2>1 DEF StopInterrupts, Interrupted
<1>10. CASE CallStep
  <2>1. ASSUME NEW d \in Calls, CallLeaves(d)
        PROVE  FALSE
    BY <1>3, <1>4, <2>1 DEF CallLeaves, Interrupted
  <2> QED
    BY <1>3, <1>5, <1>6, <1>10, <2>1
       DEF CallStep, CallParks, CallJoins, CallFollows, CallReports
<1>11. CASE FiberStep
  <2>1. ASSUME NEW d \in Calls,
               FiberMoves(d) \/ WorkIdles(d) \/ WorkIsOver(d) \/ WorkReports(d)
        PROVE  FALSE
    BY <2>1 DEF FiberMoves, WorkIdles, WorkIsOver, WorkReports, FiberSet
  <2> QED
    BY <1>7, <1>11, <2>1 DEF FiberStep
<1>12. CASE StopStep
  BY <1>3, <1>8, <1>9, <1>12
     DEF StopStep, StopTakesShell, StopFindsIdle, StopParks, StopIdles, StopWaits,
         StopReports, StopAbandons
<1> QED
  BY <1>1, <1>3, <1>10, <1>11, <1>12 DEF Rests

LEMMA OwnedStep ==
    ASSUME RunInv, [RunNext]_runVars
    PROVE  Owned'
<1> SUFFICES ASSUME NEW c \in Calls, fiber'[c] \notin AtRest
             PROVE  Names(Host(c), c)' \/ Claimed(c)' \/ Forsaken(c)'
  BY DEF Owned, AtRest, Names
<1>1. CASE fiber[c] \in AtRest
  BY <1>1, FibersStart DEF Host, Names
<1>2. CASE fiber[c] \notin AtRest
  <2>1. PICK r \in Calls : r = Host(c)
    BY <1>2, NamedFacts DEF AtRest
  <2>2. call'[c].on = r
    BY <1>2, <2>1, CallsStayStep
       DEF RunInv, FreshUnused, Unused, Entered, AtRest, CallsStay, Host
  <2>3. Names(r, c) \/ Claimed(c) \/ Forsaken(c)
    BY <1>2, <2>1 DEF RunInv, Owned, AtRest, Names
  <2>4. Names(r, c)' \/ Claimed(c)' \/ Forsaken(c)'
    BY <2>3, NamesKept, ClaimedStep, ForsakenStays DEF AtRest
  <2> QED
    BY <2>2, <2>4 DEF Host, Names
<1> QED
  BY <1>1, <1>2

(* What the deferred of a run waits for stays there until it is completed. *)
LEMMA SettlingStep ==
    ASSUME RunInv, [RunNext]_runVars,
           NEW l \in Loops, Created(l), Settling(l), l \notin settled'
    PROVE  Settling(l)'
<1>1. RunInv /\ (CallStep \/ FiberStep \/ StopStep \/ Rests)
  BY RunSteps DEF RunInv
<1>2. /\ None \notin Calls /\ fiber \in [Calls -> Phases] /\ l \in Calls
      /\ Loops \subseteq Calls /\ Shells \subseteq Calls /\ Loops \cap Shells = {}
      /\ l # None
  BY NamedFacts
<1>3. ASSUME NEW x \in Cancels, stop[x].run = l, Waiting(x)
      PROVE  Settling(l)'
  <2>1. CASE GivesUp(x)
    <3>1. CASE stop[x].shell # None
      BY <1>3, <2>1, <3>1 DEF GivesUp, Settling
    <3>2. CASE stop[x].shell = None
      <4>1. fiber[l] \in {"cleanup", "finishing", "over"} /\ stop[x].at = "awaits"
        BY <1>1, <1>2, <1>3, <3>2 DEF RunInv, InterruptedRuns, ClaimsRight, Waiting
      <4>2. fiber'[l] \notin {"none", "over"}
        BY <1>3, <2>1, <3>2, <4>1 DEF GivesUp, Target
      <4> QED
        BY <4>2 DEF Settling
    <3> QED
      BY <3>1, <3>2
  <2> QED
    BY <1>2, <1>3, <2>1, ClaimsKept DEF Settling, Waiting
<1>4. CASE fiber[l] \notin {"none", "over"}
  <2>1. CASE fiber'[l] \notin {"none", "over"}
    BY <2>1 DEF Settling
  <2>2. CASE fiber'[l] \in {"none", "over"}
    <3> USE <1>1, <1>2, <1>4, <2>2
    <3>1. ASSUME NEW d \in Calls, NEW phase, FiberSet(d, phase),
                 phase \notin {"none", "over"}
          PROVE  FALSE
      BY <3>1 DEF FiberSet
    <3>2. ASSUME UNCHANGED fiber
          PROVE  FALSE
      BY <3>2
    <3>3. ASSUME NEW c \in Calls, WorkIsOver(c) \/ WorkReports(c)
          PROVE  FALSE
      BY <3>3 DEF WorkIsOver, WorkReports, FiberSet
    <3>4. ASSUME NEW h \in Shells, WorkHandsOver(h)
          PROVE  FALSE
      BY <3>4 DEF WorkHandsOver
    <3>5. ASSUME NEW x \in Cancels, NEW s \in Sessions, NEW r \in Calls,
                 StopTakesRun(x, s, r)
          PROVE  Settling(l)'
      <4>1. ref[r].run = l
        BY <3>5 DEF StopTakesRun, FiberSet
      <4> QED
        BY <3>5, <4>1 DEF StopTakesRun, StopSet, Settling
    <3>6. ASSUME NEW x \in Cancels, StopInterrupts(x)
          PROVE  FALSE
      <4>1. stop[x].shell \in Shells
        BY <3>6, NamedFacts DEF StopInterrupts, RunInv, ClaimsRight
      <4> QED
        BY <3>6, <4>1 DEF StopInterrupts, FiberSet
    <3>10. ASSUME NEW c \in Calls, CallLeaves(c)
           PROVE  FALSE
      BY <3>2, <3>10 DEF CallLeaves, FiberSet
    <3>7. CASE CallStep
      BY <3>1, <3>2, <3>7, <3>10
         DEF CallStep, CallParks, CallJoins, CallFollows, CallStarts, CallReports,
             ShellBegins
    <3>8. CASE FiberStep
      BY <3>1, <3>3, <3>4, <3>8 DEF FiberStep, FiberMoves, WorkIdles
    <3>9. CASE StopStep
      BY <3>2, <3>5, <3>6, <3>9
         DEF StopStep, StopTakesShell, StopFindsIdle, StopParks, StopIdles, StopWaits,
             StopReports, StopAbandons
    <3> QED
      BY <3>2, <3>7, <3>8, <3>9 DEF Rests
  <2> QED
    BY <2>1, <2>2
<1>5. ASSUME NEW r \in Calls, ref[r].tag = "ShellThenRun", ref[r].run = l
      PROVE  Settling(l)'
  <2>1. Host(l) = r /\ Created(l) /\ fiber[l] = "none"
    BY <1>1, <1>2, <1>5 DEF RunInv, Named, RunNamed
  <2>2. Host(l)' = r
    BY <2>1, CallsStayStep, <1>2 DEF CallsStay, Host, Created, Entered
  <2>3. CASE UNCHANGED ref[r]
    BY <1>5, <2>2, <2>3 DEF Settling
  <2>4. CASE fiber'[l] = "started"
    BY <2>4 DEF Settling
  <2>5. ASSUME NEW q \in Calls, ref[q].tag # "ShellThenRun",
               NEW tag, NEW shell, NEW run, RefSet(q, tag, shell, run)
        PROVE  UNCHANGED ref[r]
    BY <1>5, <2>5 DEF RefSet
  <2>6. ASSUME NEW h \in Shells, ShellBegins(h)
        PROVE  UNCHANGED ref[r]
    <3>1. Host(h) \in Calls /\ held[Host(h)] = h
      BY <1>1, <2>6, NamedFacts DEF ShellBegins, RunInv, HeldRight, Host
    <3>2. ref[Host(h)].tag = "Idle"
      BY <1>1, <1>2, <2>6, <3>1 DEF RunInv, HeldRight
    <3> QED
      BY <2>5, <2>6, <3>1, <3>2 DEF ShellBegins
  <2>7. ASSUME NEW c \in Calls, WorkIdles(c)
        PROVE  UNCHANGED ref[r]
    BY <2>5, <2>7, NamedFacts DEF WorkIdles
  <2>8. ASSUME NEW h \in Shells, WorkHandsOver(h)
        PROVE  UNCHANGED ref[r] \/ fiber'[l] = "started"
    <3>1. CASE r = Host(h)
      BY <1>2, <1>5, <2>8, <3>1 DEF WorkHandsOver
    <3>2. CASE r # Host(h)
      BY <2>8, <3>2 DEF WorkHandsOver, RefSet
    <3> QED
      BY <3>1, <3>2
  <2>9. ASSUME NEW x \in Cancels, NEW s \in Sessions, NEW q \in Calls,
               StopTakesShell(x, s, q) \/ StopTakesRun(x, s, q)
        PROVE  Settling(l)'
    <3>1. CASE q = r
      BY <1>5, <2>9, <3>1 DEF StopTakesShell, StopTakesRun, StopSet, Settling
    <3>2. CASE q # r
      BY <2>3, <2>9, <3>2 DEF StopTakesShell, StopTakesRun, RefSet
    <3> QED
      BY <3>1, <3>2
  <2>10. CASE CallStep
    <3>1. ASSUME NEW c, NEW s, NEW q \in Calls,
                 CallFollows(c, s, q) \/ CallStarts(c, s, q)
          PROVE  UNCHANGED ref[r]
      BY <2>5, <3>1 DEF CallFollows, CallStarts
    <3> QED
      BY <2>3, <2>6, <2>10, <3>1
         DEF CallStep, CallParks, CallJoins, CallReports, CallLeaves
  <2>11. CASE FiberStep
    BY <2>3, <2>4, <2>7, <2>8, <2>11
       DEF FiberStep, FiberMoves, WorkIsOver, WorkReports
  <2>12. CASE StopStep
    BY <2>3, <2>9, <2>12
       DEF StopStep, StopFindsIdle, StopParks, StopInterrupts, StopIdles, StopWaits,
           StopReports, StopAbandons
  <2> QED
    BY <1>1, <2>3, <2>10, <2>11, <2>12 DEF Rests
<1>6. CASE ref[Host(l)].tag = "ShellThenRun" /\ ref[Host(l)].run = l
  <2>1. Host(l) \in Calls
    BY <1>2, NamedFacts DEF Created, Entered
  <2> QED
    BY <1>5, <1>6, <2>1
<1>7. ASSUME NEW x \in Cancels, stop[x].run = l, stop[x].shell # None,
             stop[x].at = "left"
      PROVE  Settling(l)'
  BY <1>7, LeftStays DEF Settling
<1> QED
  BY <1>3, <1>4, <1>6, <1>7 DEF Settling, Waiting

LEMMA RunsSettleStep ==
    ASSUME RunInv, [RunNext]_runVars
    PROVE  RunsSettle'
<1>1. RunInv /\ RunsSettle /\ (CallStep \/ FiberStep \/ StopStep \/ Rests)
  BY RunSteps DEF RunInv
<1>2. CallsStay /\ NamesGrow /\ settled \subseteq settled'
  BY HistoryGrows, CallsStayStep, NamesGrowStep
<1>3. /\ None \notin Calls /\ fiber \in [Calls -> Phases]
      /\ Loops \subseteq Calls /\ Shells \subseteq Calls /\ Loops \cap Shells = {}
  BY NamedFacts
<1>4. ASSUME NEW l \in Loops, Created(l)', l \notin settled'
      PROVE  Settling(l)'
  <2>1. CASE Created(l)
    BY <1>1, <1>2, <1>4, <2>1, SettlingStep DEF RunsSettle
  <2>2. CASE ~Created(l)
    <3>1. call'[l] # call[l] /\ call[l].at \notin {"waiting", "answered"}
      BY <1>2, <1>3, <1>4, <2>2 DEF Created, Entered, CallsStay
    <3>2. ASSUME NEW c \in Calls, NEW s \in Sessions, NEW r \in Calls,
                 \/ CallParks(c, s, r) \/ CallJoins(c, s, r) \/ CallReports(c, s, r)
          PROVE  FALSE
      <4>1. c = l
        BY <1>3, <3>1, <3>2 DEF CallParks, CallJoins, CallReports, CallSet
      <4>2. ~CallReports(c, s, r) /\ ~CallParks(c, s, r)
        BY <1>3, <1>4, <4>1 DEF CallReports, CallParks, CallSet, Created, Entered
      <4>3. ref[r].run = l
        BY <1>3, <1>4, <3>2, <4>1, <4>2 DEF CallJoins, CallSet, Created
      <4> QED
        BY <1>1, <1>3, <2>2, <4>3, NamedFacts DEF Names
    <3>3. ASSUME NEW c \in Calls, NEW s \in Sessions, NEW r \in Calls,
                 CallFollows(c, s, r) \/ CallStarts(c, s, r)
          PROVE  Settling(l)'
      <4>1. c = l
        BY <1>3, <3>1, <3>3 DEF CallFollows, CallStarts, CallSet
      <4> QED
        BY <1>3, <3>3, <4>1
           DEF CallFollows, CallStarts, CallSet, RefSet, FiberSet, Settling, Host
    <3>4. ASSUME NEW h \in Shells, ShellBegins(h)
          PROVE  FALSE
      BY <1>3, <3>1, <3>4 DEF ShellBegins, CallSet
    <3>5. ASSUME NEW c \in Calls, CallLeaves(c)
          PROVE  FALSE
      BY <1>3, <1>4, <3>1, <3>5 DEF CallLeaves, CallAt, CallSet, Created, Entered
    <3>6. CASE CallStep
      BY <3>2, <3>3, <3>4, <3>5, <3>6 DEF CallStep
    <3> QED
      BY <1>1, <3>1, <3>6, CallUnchanged
  <2> QED
    BY <2>1, <2>2
<1>5. ASSUME NEW c \in Loops, Entered(c)'
      PROVE  call'[c].run \in Loops /\ Created(call[c].run)'
  <2>1. CASE Entered(c)
    <3>1. PICK l \in Loops : l = call[c].run
      BY <1>1, <2>1 DEF RunsSettle
    <3>2. Created(l) /\ call'[c].run = l
      BY <1>1, <1>2, <1>3, <2>1, <3>1 DEF RunsSettle, CallsStay
    <3>3. Created(l)'
      BY <1>2, <1>3, <3>2 DEF Created, CallsStay
    <3> QED
      BY <3>2, <3>3 DEF Created, Entered
  <2>2. CASE ~Entered(c)
    <3>1. call'[c] # call[c]
      BY <1>5, <2>2 DEF Entered
    <3>2. ASSUME NEW d \in Calls, NEW s \in Sessions, NEW r \in Calls,
                 CallParks(d, s, r) \/ CallReports(d, s, r)
          PROVE  FALSE
      BY <1>3, <1>5, <3>1, <3>2 DEF CallParks, CallReports, CallSet, Entered
    <3>3. ASSUME NEW d \in Calls, NEW s \in Sessions, NEW r \in Calls,
                 CallJoins(d, s, r)
          PROVE  call'[c].run \in Loops /\ Created(call[c].run)'
      <4>1. PICK l \in Loops : l = ref[r].run
        BY <1>1, <3>3, NamedFacts DEF CallJoins
      <4>2. Created(l)
        BY <1>1, <1>3, <4>1, NamedFacts DEF Names
      <4>3. Created(l)' /\ call'[c].run = l
        <5>1. Created(l)'
          BY <1>2, <1>3, <4>2 DEF Created, CallsStay
        <5> QED
          BY <1>3, <3>1, <3>3, <4>1, <5>1 DEF CallJoins, CallSet
      <4> QED
        BY <4>3 DEF Created, Entered
    <3>4. ASSUME NEW d \in Calls, NEW s \in Sessions, NEW r \in Calls,
                 CallFollows(d, s, r) \/ CallStarts(d, s, r)
          PROVE  call'[c].run \in Loops /\ Created(call[c].run)'
      BY <1>3, <1>5, <3>1, <3>4 DEF CallFollows, CallStarts, CallSet, Created, Entered
    <3>5. ASSUME NEW h \in Shells, ShellBegins(h)
          PROVE  FALSE
      BY <1>3, <3>1, <3>5 DEF ShellBegins, CallSet
    <3>6. ASSUME NEW d \in Calls, CallLeaves(d)
          PROVE  FALSE
      BY <1>3, <1>5, <2>2, <3>1, <3>6 DEF CallLeaves, CallAt, CallSet, Entered
    <3>7. CASE CallStep
      BY <3>2, <3>3, <3>4, <3>5, <3>6, <3>7 DEF CallStep
    <3> QED
      BY <1>1, <3>1, <3>7, CallUnchanged
  <2> QED
    BY <2>1, <2>2
<1>6. ASSUME NEW c \in Shells, call'[c].at = "waiting"
      PROVE  call'[c].run = c
  <2>1. CASE call'[c] = call[c]
    BY <1>1, <1>6, <2>1 DEF RunsSettle
  <2>2. CASE call'[c] # call[c] /\ CallStep
    <3>1. ASSUME NEW d \in Calls, NEW s \in Sessions, NEW r \in Calls,
                 \/ CallParks(d, s, r) \/ CallReports(d, s, r) \/ CallJoins(d, s, r)
                 \/ CallFollows(d, s, r) \/ CallStarts(d, s, r)
          PROVE  FALSE
      BY <1>3, <1>6, <2>2, <3>1
         DEF CallParks, CallReports, CallJoins, CallFollows, CallStarts, CallSet
    <3>2. ASSUME NEW h \in Shells, ShellBegins(h)
          PROVE  call'[c].run = c
      BY <1>3, <2>2, <3>2 DEF ShellBegins, CallSet
    <3>3. ASSUME NEW d \in Calls, CallLeaves(d)
          PROVE  FALSE
      BY <1>3, <1>6, <2>2, <3>3 DEF CallLeaves, CallAt, CallSet
    <3> QED
      BY <2>2, <3>1, <3>2, <3>3 DEF CallStep
  <2> QED
    BY <1>1, <2>1, <2>2, CallUnchanged
<1> QED
  BY <1>4, <1>5, <1>6 DEF RunsSettle

(* Work comes to a runner only with a call that finds it in the map, or    *)
(* puts it there.                                                          *)
AtHand(r) == ref[r].tag # "Idle" \/ InsideOf(r)

Arrives(c, s, r) ==
    /\ call[c].at = "off" /\ r = RunnerOf(c, s)
    /\ runners' = [runners EXCEPT ![s] = r]
    /\ call'[c].on = r /\ call'[c].session = s

LEMMA ComesArrives ==
    ASSUME RunInv, NEW c, NEW s, NEW r, Comes(c, s, r), ~InsideOf(r),
           NEW at, NEW run, CallSet(c, at, s, r, run)
    PROVE  Arrives(c, s, r)
  BY DEF Comes, InsideOf, CallSet, Arrives

LEMMA WorkArrives ==
    ASSUME RunInv, [RunNext]_runVars, NEW r \in Calls, ~AtHand(r), AtHand(r)'
    PROVE  \E c \in Calls, s \in Sessions : Arrives(c, s, r)
<1>1. RunInv /\ (CallStep \/ FiberStep \/ StopStep \/ Rests)
  BY RunSteps DEF RunInv
<1>2. /\ ref[r].tag = "Idle" /\ ~InsideOf(r)
      /\ ref'[r].tag # "Idle" \/ InsideOf(r)'
  BY DEF AtHand
<1>3. Loops \subseteq Calls /\ Shells \subseteq Calls
  BY NamedFacts
<1>4. ASSUME UNCHANGED call, ref'[r] = ref[r] \/ ref'[r].tag = "Idle"
      PROVE  FALSE
  BY <1>2, <1>4 DEF InsideOf
<1>5. ASSUME NEW c \in Calls, NEW s \in Sessions, NEW q \in Calls,
             \/ CallParks(c, s, q) \/ CallJoins(c, s, q) \/ CallReports(c, s, q)
             \/ CallFollows(c, s, q) \/ CallStarts(c, s, q)
      PROVE  Arrives(c, s, r)
  <2>1. /\ Comes(c, s, q) /\ \E at, run : CallSet(c, at, s, q, run)
        /\ q # r => ref'[r] = ref[r]
    BY <1>5 DEF CallParks, CallJoins, CallReports, CallFollows, CallStarts, RefSet
  <2>2. CASE q = r
    BY <1>2, <2>1, <2>2, ComesArrives
  <2>3. CASE q # r
    <3>1. InsideOf(r)'
      BY <1>2, <2>1, <2>3
    <3>2. PICK d \in Calls : call'[d].at \in {"onBusy", "queued"} /\ call'[d].on = r
      BY <3>1 DEF InsideOf
    <3>3. d # c
      BY <2>1, <2>3, <3>2 DEF CallSet
    <3> QED
      BY <1>2, <2>1, <3>2, <3>3 DEF CallSet, InsideOf
  <2> QED
    BY <2>2, <2>3
<1>6. ASSUME NEW h \in Shells, ShellBegins(h)
      PROVE  FALSE
  <2>1. Host(h) # r
    BY <1>2, <1>3, <1>6 DEF ShellBegins, InsideOf, Host
  <2>2. ref'[r] = ref[r] /\ \A d \in Calls \ {h} : call'[d] = call[d]
    BY <1>6, <2>1 DEF ShellBegins, RefSet, CallSet
  <2>3. call'[h].at = "waiting"
    BY <1>6 DEF ShellBegins, CallSet
  <2> QED
    BY <1>2, <2>2, <2>3 DEF InsideOf
<1>7. ASSUME NEW c \in Calls, CallLeaves(c)
      PROVE  FALSE
  BY <1>2, <1>7 DEF CallLeaves, CallAt, CallSet, InsideOf
<1>8. CASE CallStep
  BY <1>5, <1>6, <1>7, <1>8 DEF CallStep
<1>9. CASE FiberStep
  BY <1>2, <1>4, <1>9
     DEF FiberStep, FiberMoves, WorkIdles, WorkHandsOver, WorkIsOver, WorkReports, RefSet
<1>10. CASE StopStep
  BY <1>2, <1>4, <1>10
     DEF StopStep, StopTakesShell, StopTakesRun, StopFindsIdle, StopComes, StopParks,
         StopInterrupts, StopIdles, StopWaits, StopReports, StopAbandons, RefSet
<1> QED
  BY <1>1, <1>4, <1>8, <1>9, <1>10 DEF Rests

LEMMA RunnerArrives ==
    ASSUME RunInv, [RunNext]_runVars, NEW r \in Calls, NEW s \in Sessions,
           ~IsRunner(r, s), IsRunner(r, s)'
    PROVE  Arrives(r, s, r)
<1>1. RunInv /\ (CallStep \/ FiberStep \/ StopStep \/ Rests)
  BY RunSteps DEF RunInv
<1>2. call[r].at = "off" /\ call'[r].on = r /\ call'[r].session = s /\ call'[r] # call[r]
  BY CallsStayStep DEF IsRunner, CallsStay
<1>3. ASSUME NEW c \in Calls, NEW z \in Sessions, NEW q \in Calls,
             \/ CallParks(c, z, q) \/ CallJoins(c, z, q) \/ CallReports(c, z, q)
             \/ CallFollows(c, z, q) \/ CallStarts(c, z, q)
      PROVE  Arrives(r, s, r)
  <2>1. Comes(c, z, q) /\ \E at, run : CallSet(c, at, z, q, run)
    BY <1>3 DEF CallParks, CallJoins, CallReports, CallFollows, CallStarts
  <2>2. c = r /\ q = r /\ z = s
    BY <1>2, <2>1 DEF CallSet
  <2> QED
    BY <1>2, <2>1, <2>2 DEF Comes, Arrives
<1>4. ASSUME NEW c \in Calls, ShellBegins(c) \/ CallLeaves(c)
      PROVE  FALSE
  BY <1>2, <1>4 DEF ShellBegins, CallLeaves, CallAt, CallSet
<1>5. CASE CallStep
  BY <1>3, <1>4, <1>5, NamedFacts DEF CallStep
<1> QED
  BY <1>1, <1>2, <1>5, CallUnchanged

LEMMA ArrivesReaches ==
    ASSUME RunInv, [RunNext]_runVars, NEW c \in Calls, NEW z \in Sessions,
           NEW r \in Calls, Arrives(c, z, r), NEW s \in Sessions, IsRunner(r, s)'
    PROVE  runners'[s] = r
<1>1. z = s
  <2>1. CASE runners[z] = None
    BY <2>1 DEF Arrives, RunnerOf, IsRunner
  <2>2. CASE runners[z] # None
    <3>1. IsRunner(r, z)
      BY <2>2 DEF Arrives, RunnerOf, RunInv, Placed, MapPlaced
    <3>2. IsRunner(r, z)'
      BY <3>1, RunnersStay
    <3> QED
      BY <3>2 DEF IsRunner
  <2> QED
    BY <2>1, <2>2
<1> QED
  BY <1>1 DEF Arrives, RunInv, RunTypeOK

(* Whoever takes the session's runner out of the map while there is work   *)
(* at hand evicts the session.                                             *)
LEMMA MapKept ==
    ASSUME RunInv, [RunNext]_runVars, NEW s \in Sessions, NEW r \in Calls,
           runners[s] = r, AtHand(r)'
    PROVE  runners'[s] = r \/ s \in evicted'
<1>1. RunInv /\ (CallStep \/ FiberStep \/ StopStep \/ Rests)
  BY RunSteps DEF RunInv
<1>2. None \notin Calls /\ runners \in [Sessions -> Calls \cup {None}]
  BY NamedFacts DEF RunInv, RunTypeOK
<1>3. CASE UNCHANGED runners
  BY <1>3
<1>4. ASSUME NEW z \in Sessions, NEW q \in Calls, Deletes(z, q), UNCHANGED call,
             ref'[q].tag = "Idle", \A p \in Calls \ {q} : ref'[p] = ref[p]
      PROVE  runners'[s] = r \/ s \in evicted'
  <2>1. CASE z # s
    BY <1>2, <1>4, <2>1 DEF Deletes
  <2>2. CASE z = s /\ InsideOf(r)'
    <3>1. CallsInside(r)
      BY <1>4, <2>2 DEF InsideOf, CallsInside
    <3> QED
      BY <1>4, <2>2, <3>1 DEF Deletes
  <2>3. CASE z = s /\ ref'[r].tag # "Idle"
    <3>1. q # r /\ ref[r].tag # "Idle"
      BY <1>4, <2>3
    <3>2. Busy(s)
      BY <1>2, <3>1 DEF Busy
    <3> QED
      BY <1>4, <2>3, <3>1, <3>2 DEF Deletes
  <2> QED
    BY <2>1, <2>2, <2>3 DEF AtHand
<1>5. ASSUME NEW c \in Calls, NEW z \in Sessions, NEW q \in Calls,
             \/ CallParks(c, z, q) \/ CallJoins(c, z, q) \/ CallReports(c, z, q)
             \/ CallFollows(c, z, q) \/ CallStarts(c, z, q)
      PROVE  runners'[s] = r
  <2>1. Comes(c, z, q)
    BY <1>5 DEF CallParks, CallJoins, CallReports, CallFollows, CallStarts
  <2> QED
    BY <1>2, <2>1 DEF Comes, RunnerOf
<1>6. CASE CallStep
  BY <1>3, <1>5, <1>6 DEF CallStep, ShellBegins, CallLeaves
<1>7. CASE FiberStep
  <2>1. ASSUME NEW c \in Calls, WorkIdles(c)
        PROVE  runners'[s] = r \/ s \in evicted'
    <3>1. PICK z \in Sessions, q \in Calls : z = call[c].session /\ q = Host(c)
      BY <2>1, NamedFacts DEF WorkIdles
    <3>2. Deletes(z, q) /\ UNCHANGED call /\ RefSet(q, "Idle", None, None)
      BY <2>1, <3>1 DEF WorkIdles
    <3> QED
      BY <1>4, <3>2 DEF RefSet
  <2> QED
    BY <1>3, <1>7, <2>1
       DEF FiberStep, FiberMoves, WorkHandsOver, WorkIsOver, WorkReports
<1>8. CASE StopStep
  <2>1. ASSUME NEW x \in Cancels, StopIdles(x)
        PROVE  runners'[s] = r \/ s \in evicted'
    <3>1. PICK z \in Sessions, q \in Calls : z = stop[x].session /\ q = stop[x].on
      BY <1>1, <2>1 DEF StopIdles, RunInv, Placed, StopPlaced, IsRunner
    <3>2. /\ UNCHANGED <<ref, call>>
          /\ \/ UNCHANGED runners
             \/ Deletes(z, q) /\ ref[q].tag = "Idle"
      BY <2>1, <3>1 DEF StopIdles, Keeps
    <3>3. CASE Deletes(z, q) /\ ref[q].tag = "Idle"
      BY <1>4, <3>2, <3>3
    <3> QED
      BY <1>3, <3>2, <3>3
  <2> QED
    BY <1>3, <1>8, <2>1
       DEF StopStep, StopTakesShell, StopTakesRun, StopFindsIdle, StopComes, StopParks,
           StopInterrupts, StopWaits, StopReports, StopAbandons
<1> QED
  BY <1>1, <1>3, <1>6, <1>7, <1>8 DEF Rests

LEMMA ReachableStep ==
    ASSUME RunInv, [RunNext]_runVars
    PROVE  Reachable'
<1>1. RunInv /\ (CallStep \/ FiberStep \/ StopStep \/ Rests)
  BY RunSteps DEF RunInv
<1>2. evicted \subseteq evicted'
  BY HistoryGrows
<1> SUFFICES ASSUME NEW r \in Calls, NEW s \in Sessions, IsRunner(r, s)', AtHand(r)'
             PROVE  runners'[s] = r \/ s \in evicted'
  BY DEF Reachable, AtHand
<1>3. CASE IsRunner(r, s) /\ AtHand(r)
  <2>1. runners[s] = r \/ s \in evicted
    BY <1>1, <1>3 DEF RunInv, Reachable, AtHand
  <2> QED
    BY <1>2, <2>1, MapKept
<1>4. CASE ~AtHand(r)
  BY <1>4, WorkArrives, ArrivesReaches
<1>5. CASE ~IsRunner(r, s)
  BY <1>5, RunnerArrives, ArrivesReaches
<1> QED
  BY <1>3, <1>4, <1>5

(* A session that shows busy has a fiber that is not over or a cancel that *)
(* has yet to report: each hands the reason on, or shows the session idle, *)
(* or leaves the session with its report undone.                           *)
FiberReason(s) ==
    \E c \in Calls : /\ call[c].session = s /\ ~Forsaken(c)
                      /\ fiber[c] \notin {"none", "over"}

StopReason(s) == \E x \in Cancels : stop[x].session = s /\ Reporting(x)

Reasoned(s) ==
    data[s] = "idle" \/ FiberReason(s) \/ StopReason(s) \/ s \in unreported

(* A claimed fiber and the cancel that claimed it are of one session.      *)
LEMMA ClaimedSession ==
    ASSUME RunInv, NEW x \in Cancels, NEW c \in Calls, HasTaken(x, c)
    PROVE  stop[x].session = call[c].session
<1>1. stop[x].on = Host(c) /\ Created(c) /\ None \notin Calls
  BY NamedFacts DEF HasTaken, RunInv, ClaimsRight, Taken
<1>2. /\ Host(c) \in Calls /\ call[Host(c)].session = call[c].session
  BY <1>1 DEF Created, Entered, RunInv, Placed, CallPlaced, IsRunner, Host
<1>3. call[stop[x].on].session = stop[x].session
  BY <1>1, <1>2 DEF RunInv, Placed, StopPlaced, IsRunner
<1> QED
  BY <1>1, <1>2, <1>3

(* A fiber that is over leaves its reason to another, or its session idle. *)
LEMMA FibersReason ==
    ASSUME RunInv, [RunNext]_runVars, NEW c \in Calls,
           fiber[c] \notin {"none", "over"}, fiber'[c] \in {"none", "over"},
           ~Forsaken(c), NEW s \in Sessions, s = call[c].session
    PROVE  data'[s] = "idle" \/ FiberReason(s)' \/ StopReason(s)'
<1>1. RunInv /\ (CallStep \/ FiberStep \/ StopStep \/ Rests)
  BY RunSteps DEF RunInv
<1>2. /\ None \notin Calls /\ fiber \in [Calls -> Phases]
      /\ Loops \subseteq Calls /\ Shells \subseteq Calls
      /\ data \in [Sessions -> {"idle", "busy"}]
  BY NamedFacts DEF RunInv, RunTypeOK
<1>3. ASSUME UNCHANGED fiber
      PROVE  FALSE
  BY <1>3
<1>4. ASSUME NEW d \in Calls, NEW phase, FiberSet(d, phase), d # c \/ phase \notin {"none", "over"}
      PROVE  FALSE
  BY <1>2, <1>4 DEF FiberSet
<1>5. ASSUME NEW h \in Shells, WorkHandsOver(h)
      PROVE  FiberReason(s)'
  <2>1. PICK r \in Calls : r = Host(h)
    BY <1>5, NamedFacts DEF WorkHandsOver
  <2>2. PICK l \in Loops : l = ref[r].run
    BY <1>1, <1>5, <2>1, NamedFacts DEF WorkHandsOver, RunInv, RunTypeOK
  <2>3. /\ fiber' = [fiber EXCEPT ![h] = "over", ![l] = "started"]
        /\ UNCHANGED <<call, stop>>
    BY <1>5, <2>1, <2>2 DEF WorkHandsOver
  <2>4. c = h /\ fiber'[l] = "started"
    BY <1>2, <2>2, <2>3
  <2>5. Host(l) = r /\ Created(l) /\ Created(h)
    BY <1>1, <1>2, <1>5, <2>1, <2>2, NamedFacts DEF Names, WorkHandsOver
  <2>6. call[l].session = call[h].session
    BY <1>1, <1>2, <2>1, <2>2, <2>5
       DEF RunInv, Placed, CallPlaced, IsRunner, Created, Entered, Host
  <2>7. ~Forsaken(l)
    BY <1>1, <1>2, <2>1, <2>2, NamedFacts DEF Names, HasTaken, Forsaken
  <2>8. ~Forsaken(l)'
    BY <2>3, <2>7 DEF Forsaken
  <2> QED
    BY <1>2, <2>2, <2>3, <2>4, <2>6, <2>8 DEF FiberReason
<1>6. ASSUME NEW d \in Calls, WorkIsOver(d)
      PROVE  StopReason(s)'
  <2>1. d = c
    BY <1>4, <1>6 DEF WorkIsOver
  <2>2. ~Names(Host(c), c)
    BY <1>1, <1>2, <1>6, <2>1, NamedFacts
       DEF WorkIsOver, IsCurrent, Names, RunInv, RunTypeOK, Named, RunNamed
  <2>3. Claimed(c) /\ UNCHANGED stop
    BY <1>1, <1>6, <2>1, <2>2 DEF WorkIsOver, RunInv, Owned, Names
  <2>4. PICK x \in Cancels : Waiting(x) /\ HasTaken(x, c)
    BY <2>3 DEF Claimed, Waiting, HasTaken
  <2> QED
    BY <2>3, <2>4, ClaimedSession DEF StopReason, Reporting, Waiting
<1>7. ASSUME NEW d \in Calls, WorkReports(d)
      PROVE  data'[s] = "idle"
  <2>1. d = c
    BY <1>4, <1>7 DEF WorkReports
  <2> QED
    BY <1>2, <1>7, <2>1 DEF WorkReports, RecordsIdle
<1>8. ASSUME NEW x \in Cancels, NEW z \in Sessions, NEW r \in Calls,
             StopTakesRun(x, z, r)
      PROVE  StopReason(s)'
  <2>1. ref[r].run \in Calls
    BY <1>1, <1>8, NamedFacts DEF StopTakesRun
  <2>2. c = ref[r].run
    BY <1>4, <1>8, <2>1 DEF StopTakesRun
  <2>3. Host(c) = r /\ Created(c)
    BY <1>1, <2>2, NamedFacts DEF Names
  <2>4. call[r].session = s
    BY <2>3 DEF RunInv, Placed, CallPlaced, IsRunner, Created, Entered, Host
  <2>5. call[r].session = z
    BY <1>1, <1>2, <1>8 DEF StopTakesRun, StopComes, RunInv, Placed, MapPlaced,
                            StopPlaced, IsRunner
  <2> QED
    BY <1>8, <2>4, <2>5 DEF StopTakesRun, StopSet, StopReason, Reporting
<1>9. ASSUME NEW x \in Cancels, StopInterrupts(x)
      PROVE  StopReason(s)'
  <2>1. stop[x].shell \in Calls
    BY <1>1, <1>9, NamedFacts DEF StopInterrupts, RunInv, ClaimsRight
  <2>2. c = stop[x].shell
    BY <1>4, <1>9, <2>1 DEF StopInterrupts
  <2>3. stop[x].session = s
    BY <2>2, ClaimedSession DEF HasTaken
  <2> QED
    BY <1>9, <2>3 DEF StopInterrupts, StopAt, StopSet, StopReason, Reporting
<1>10. CASE CallStep
  <2>1. ASSUME NEW d \in Calls, CallLeaves(d)
        PROVE  FALSE
    <3>1. ASSUME d \in Shells, d = c
          PROVE  Interrupted(fiber[d]) \cap {"none", "over"} = {}
      BY <1>1, <3>1 DEF RunInv, InterruptedRuns, Interrupted
    <3> QED
      BY <1>3, <1>4, <2>1, <3>1 DEF CallLeaves
  <2>2. ASSUME NEW d \in Calls, NEW z \in Sessions, NEW q \in Calls,
               CallStarts(d, z, q)
        PROVE  FALSE
    BY <1>4, <2>2 DEF CallStarts
  <2>3. ASSUME NEW h \in Shells, ShellBegins(h)
        PROVE  FALSE
    BY <1>2, <1>4, <2>3 DEF ShellBegins
  <2> QED
    BY <1>3, <1>10, <2>1, <2>2, <2>3
       DEF CallStep, CallParks, CallJoins, CallFollows, CallReports
<1>11. CASE FiberStep
  <2>1. ASSUME NEW d \in Calls, FiberMoves(d) \/ WorkIdles(d)
        PROVE  FALSE
    BY <1>4, <2>1 DEF FiberMoves, WorkIdles
  <2> QED
    BY <1>5, <1>6, <1>7, <1>11, <2>1 DEF FiberStep
<1>12. CASE StopStep
  BY <1>3, <1>8, <1>9, <1>12
     DEF StopStep, StopTakesShell, StopFindsIdle, StopParks, StopIdles, StopWaits,
         StopReports, StopAbandons
<1> QED
  BY <1>1, <1>3, <1>10, <1>11, <1>12 DEF Rests

(* A cancel that ends shows its session idle, or has found its runner at   *)
(* work again, unless it gave up.                                          *)
LEMMA StopsReason ==
    ASSUME RunInv, [RunNext]_runVars, NEW x \in Cancels, Reporting(x),
           NEW s \in Sessions, s = stop[x].session
    PROVE  Reasoned(s)'
<1>1. RunInv /\ (CallStep \/ FiberStep \/ StopStep \/ Rests)
  BY RunSteps DEF RunInv
<1>2. /\ None \notin Calls /\ Loops \subseteq Calls /\ Shells \subseteq Calls
      /\ data \in [Sessions -> {"idle", "busy"}]
  BY NamedFacts DEF RunInv, RunTypeOK
<1> USE DEF Reasoned
<1>3. ASSUME Reporting(x)', stop'[x].session = s
      PROVE  StopReason(s)'
  BY <1>3 DEF StopReason
<1>4. ASSUME UNCHANGED stop[x]
      PROVE  StopReason(s)'
  <2>1. Reporting(x)' /\ stop'[x].session = s
    BY <1>4 DEF Reporting
  <2> QED
    BY <1>3, <2>1
<1>5. ASSUME NEW y \in Cancels, NEW z, NEW r,
             \/ StopTakesShell(y, z, r) \/ StopTakesRun(y, z, r)
             \/ StopFindsIdle(y, z, r) \/ StopParks(y, z)
      PROVE  UNCHANGED stop[x]
  <2>1. y # x
    BY <1>5 DEF StopTakesShell, StopTakesRun, StopFindsIdle, StopComes, StopParks,
                Reporting
  <2> QED
    BY <1>5, <2>1 DEF StopTakesShell, StopTakesRun, StopFindsIdle, StopParks,
                      StopAt, StopSet
<1>6. ASSUME NEW y \in Cancels, StopInterrupts(y) \/ StopWaits(y)
      PROVE  Reporting(x)' /\ stop'[x].session = s
  BY <1>6 DEF StopInterrupts, StopWaits, StopAt, StopSet, Reporting
<1>7. ASSUME NEW y \in Cancels, StopReports(y)
      PROVE  UNCHANGED stop[x] \/ data'[s] = "idle"
  BY <1>2, <1>7 DEF StopReports, RecordsIdle, StopAt, StopSet
<1>12. ASSUME NEW y \in Cancels, StopAbandons(y)
       PROVE  UNCHANGED stop[x] \/ s \in unreported'
  BY <1>12 DEF StopAbandons, Reporting, StopAt, StopSet
<1>8. ASSUME NEW r \in Calls, ref[r].tag # "Idle", UNCHANGED <<call, fiber>>,
             \A c \in Calls : ~Forsaken(c) => ~Forsaken(c)',
             call[r].session = s
      PROVE  FiberReason(s)'
  <2>1. PICK c \in Calls : Names(r, c) /\ fiber[c] \notin {"none", "over"}
    <3>1. \/ ref[r].shell # None
          \/ ref[r].run # None /\ ref[r].tag = "Running"
      <4>1. ref[r].tag \in {"Running", "Shell", "ShellThenRun"}
        BY <1>1, <1>8, Typed DEF RunInv, Tags, RefRec
      <4> QED
        BY <1>1, <4>1 DEF RunInv, RunTypeOK
    <3>4. ref[r].shell \in Shells \cup {None} /\ ref[r].run \in Loops \cup {None}
      BY <1>1, NamedFacts
    <3>2. CASE ref[r].shell # None
      BY <1>1, <1>2, <3>4, <3>2 DEF RunInv, Named, ShellNamed, Names
    <3>3. CASE ref[r].run # None /\ ref[r].tag = "Running"
      BY <1>1, <1>2, <3>4, <3>3 DEF RunInv, Named, RunNamed, Names
    <3> QED
      BY <3>1, <3>2, <3>3
  <2>2. Host(c) = r /\ Created(c) /\ ~Forsaken(c)
    BY <2>1, NamedFacts DEF HasTaken, Forsaken
  <2>3. call[c].session = s
    BY <1>8, <2>2 DEF RunInv, Placed, CallPlaced, IsRunner, Created, Entered, Host
  <2> QED
    BY <1>8, <2>1, <2>2, <2>3 DEF FiberReason
<1>9. ASSUME NEW y \in Cancels, StopIdles(y)
      PROVE  FiberReason(s)' \/ StopReason(s)'
  <2>1. CASE y # x
    BY <1>4, <1>9, <2>1 DEF StopIdles, StopAt, StopSet
  <2>2. CASE y = x /\ ref[stop[x].on].tag = "Idle"
    BY <1>3, <1>9, <2>2 DEF StopIdles, StopAt, StopSet, Reporting
  <2>3. CASE y = x /\ ref[stop[x].on].tag # "Idle"
    <3>1. PICK r \in Calls : r = stop[x].on /\ call[r].session = s
      BY <1>1, <1>9, <2>3 DEF StopIdles, RunInv, Placed, StopPlaced, IsRunner
    <3>2. \A c \in Calls : ~Forsaken(c) => ~Forsaken(c)'
      BY <1>9, <2>3 DEF StopIdles, StopAt, StopSet, Forsaken
    <3> QED
      BY <1>8, <1>9, <2>3, <3>1, <3>2 DEF StopIdles
  <2> QED
    BY <2>1, <2>2, <2>3
<1>10. CASE CallStep \/ FiberStep \/ Rests
  BY <1>4, <1>10, StopUnchanged
<1>11. CASE StopStep
  <2>1. CASE \E y \in Cancels : StopIdles(y)
    BY <1>9, <2>1
  <2>2. CASE \E y \in Cancels : StopInterrupts(y) \/ StopWaits(y)
    BY <1>3, <1>6, <2>2
  <2>3. CASE \E y \in Cancels : StopReports(y)
    BY <1>4, <1>7, <2>3
  <2>4. CASE \E y \in Cancels, z \in Sessions, r \in Calls :
                StopTakesShell(y, z, r) \/ StopTakesRun(y, z, r)
                   \/ StopFindsIdle(y, z, r)
    <3>1. UNCHANGED stop[x]
      BY <1>5, <2>4
    <3> QED
      BY <1>4, <3>1
  <2>5. CASE \E y \in Cancels, z \in Sessions : StopParks(y, z)
    <3>1. UNCHANGED stop[x]
      BY <1>5, <2>5
    <3> QED
      BY <1>4, <3>1
  <2>6. CASE \E y \in Cancels : StopAbandons(y)
    BY <1>4, <1>12, <2>6
  <2> QED
    BY <1>11, <2>1, <2>2, <2>3, <2>4, <2>5, <2>6 DEF StopStep
<1> QED
  BY <1>1, <1>10, <1>11

(* Whoever shows a session busy works on it.                               *)
LEMMA ReportsBusy ==
    ASSUME RunInv, [RunNext]_runVars, NEW s \in Sessions,
           data[s] = "idle", data'[s] # "idle"
    PROVE  FiberReason(s)'
<1>1. RunInv /\ (CallStep \/ FiberStep \/ StopStep \/ Rests)
  BY RunSteps DEF RunInv
<1>2. /\ fiber \in [Calls -> Phases] /\ data \in [Sessions -> {"idle", "busy"}]
      /\ Loops \subseteq Calls /\ Shells \subseteq Calls
  BY NamedFacts DEF RunInv, RunTypeOK
<1>3. ASSUME NEW h \in Shells, ShellBegins(h)
      PROVE  FiberReason(s)'
  <2>1. call'[h].session = s /\ fiber'[h] = "setup"
    BY <1>2, <1>3 DEF ShellBegins, CallSet, FiberSet
  <2>2. ~Forsaken(h)
    BY <1>1, <1>2, <1>3 DEF ShellBegins, RunInv, FreshUnused, Unused, Entered, Forsaken
  <2>3. ~Forsaken(h)'
    BY <1>3, <2>2 DEF ShellBegins, Forsaken
  <2> QED
    BY <1>2, <2>1, <2>3 DEF FiberReason
<1>4. ASSUME NEW c \in Calls, FiberMoves(c)
      PROVE  FiberReason(s)'
  <2>1. call'[c].session = s /\ fiber[c] = "started" /\ fiber'[c] = "working"
    BY <1>2, <1>4 DEF FiberMoves, FiberSet
  <2>2. ~Forsaken(c)
    <3>1. ASSUME NEW x \in Cancels, c \in {stop[x].shell, stop[x].run}
          PROVE  FALSE
      BY <1>1, <2>1, <3>1, NamedFacts DEF RunInv, InterruptedRuns, ClaimsRight
    <3> QED
      BY <3>1 DEF Forsaken
  <2>3. ~Forsaken(c)'
    BY <1>4, <2>2 DEF FiberMoves, Forsaken
  <2> QED
    BY <2>1, <2>3 DEF FiberReason
<1>5. ASSUME NEW c \in Calls, WorkReports(c)
      PROVE  FALSE
  BY <1>2, <1>5 DEF WorkReports, RecordsIdle
<1>6. ASSUME NEW x \in Cancels, StopReports(x)
      PROVE  FALSE
  BY <1>2, <1>6 DEF StopReports, RecordsIdle
<1>7. CASE CallStep
  BY <1>3, <1>7 DEF CallStep, CallParks, CallJoins, CallFollows, CallStarts,
                    CallReports, Comes, CallLeaves
<1>8. CASE FiberStep
  BY <1>4, <1>5, <1>8 DEF FiberStep, WorkIdles, WorkHandsOver, WorkIsOver
<1>9. CASE StopStep
  BY <1>6, <1>9
     DEF StopStep, StopTakesShell, StopTakesRun, StopFindsIdle, StopComes, StopParks,
         StopInterrupts, StopIdles, StopWaits, StopAbandons
<1> QED
  BY <1>1, <1>7, <1>8, <1>9 DEF Rests

(* A report left undone is so until somebody makes one.                    *)
LEMMA UnreportedKept ==
    ASSUME RunInv, [RunNext]_runVars, NEW s \in Sessions, s \in unreported
    PROVE  s \in unreported' \/ data'[s] = "idle"
<1>1. RunInv /\ (CallStep \/ FiberStep \/ StopStep \/ Rests)
  BY RunSteps DEF RunInv
<1>2. data \in [Sessions -> {"idle", "busy"}]
  BY <1>1 DEF RunInv, RunTypeOK
<1>3. ASSUME NEW z, RecordsIdle(z)
      PROVE  s \in unreported' \/ data'[s] = "idle"
  BY <1>2, <1>3 DEF RecordsIdle
<1>4. CASE CallStep
  BY <1>4 DEF CallStep, CallParks, CallJoins, CallFollows, CallStarts, CallReports,
              Comes, ShellBegins, CallLeaves
<1>5. CASE FiberStep
  BY <1>3, <1>5 DEF FiberStep, FiberMoves, WorkIdles, WorkHandsOver, WorkIsOver,
                    WorkReports
<1>6. CASE StopStep
  BY <1>3, <1>6
     DEF StopStep, StopTakesShell, StopTakesRun, StopFindsIdle, StopComes, StopParks,
         StopInterrupts, StopIdles, StopWaits, StopReports, StopAbandons
<1> QED
  BY <1>1, <1>4, <1>5, <1>6 DEF Rests

(* A fiber is forsaken by a cancel of its session, which leaves the report.*)
LEMMA ForsakenUnreported ==
    ASSUME RunInv, [RunNext]_runVars, NEW c \in Calls, ~Forsaken(c), Forsaken(c)'
    PROVE  call[c].session \in unreported'
<1>1. RunInv /\ (CallStep \/ FiberStep \/ StopStep \/ Rests)
  BY RunSteps DEF RunInv
<1>2. PICK x \in Cancels : stop'[x].at = "left" /\ HasTaken(x, c)'
  BY DEF Forsaken, HasTaken
<1>3. stop'[x] # stop[x]
  BY <1>2 DEF Forsaken, HasTaken
<1>4. ASSUME NEW y \in Cancels, StopAbandons(y)
      PROVE  call[c].session \in unreported'
  <2>1. y = x /\ Reporting(x)
    BY <1>2, <1>3, <1>4 DEF StopAbandons, StopAt, StopSet
  <2>2. HasTaken(x, c) /\ unreported' = unreported \cup {stop[x].session}
    BY <1>2, <1>4, <2>1 DEF StopAbandons, StopAt, StopSet, HasTaken, Reporting
  <2> QED
    BY <1>1, <2>2, ClaimedSession
<1>5. ASSUME NEW y \in Cancels, NEW at, NEW s, NEW r, NEW shell, NEW run,
             StopSet(y, at, s, r, shell, run), at # "left"
      PROVE  FALSE
  BY <1>2, <1>3, <1>5 DEF StopSet
<1>6. CASE StopStep
  BY <1>4, <1>5, <1>6
     DEF StopStep, StopTakesShell, StopTakesRun, StopFindsIdle, StopParks,
         StopInterrupts, StopIdles, StopWaits, StopReports, StopAt
<1> QED
  BY <1>1, <1>3, <1>6, StopUnchanged

LEMMA QuietShowsIdleStep ==
    ASSUME RunInv, [RunNext]_runVars
    PROVE  QuietShowsIdle'
<1> SUFFICES ASSUME NEW s \in Sessions
             PROVE  Reasoned(s)'
  BY DEF QuietShowsIdle, Reasoned, FiberReason, StopReason
<1> USE DEF Reasoned
<1>1. CASE data[s] = "idle"
  BY <1>1, ReportsBusy
<1>2. ASSUME NEW c \in Calls, call[c].session = s, fiber[c] \notin {"none", "over"},
             ~Forsaken(c)
      PROVE  Reasoned(s)'
  <2>1. CASE fiber'[c] \in {"none", "over"}
    BY <1>2, <2>1, FibersReason
  <2>2. CASE fiber'[c] \notin {"none", "over"}
    <3>1. call'[c].session = s
      BY <1>2, CallsStayStep
         DEF CallsStay, RunInv, FreshUnused, Unused, Entered
    <3>2. CASE ~Forsaken(c)'
      BY <2>2, <3>1, <3>2 DEF FiberReason
    <3>3. CASE Forsaken(c)'
      BY <1>2, <3>3, ForsakenUnreported
    <3> QED
      BY <3>2, <3>3
  <2> QED
    BY <2>1, <2>2
<1>3. ASSUME NEW x \in Cancels, stop[x].session = s, Reporting(x)
      PROVE  Reasoned(s)'
  BY <1>3, StopsReason
<1>4. CASE s \in unreported
  BY <1>4, UnreportedKept
<1> QED
  BY <1>1, <1>2, <1>3, <1>4 DEF RunInv, QuietShowsIdle

(***************************************************************************)
(* The theorems.                                                           *)
(***************************************************************************)
LEMMA RunInvStep == RunInv /\ [RunNext]_runVars => RunInv'
  BY RunTypeStep, PlacedStep, FreshUnusedStep, NamedStep, HeldRightStep,
     ClaimsRightStep, InterruptedRunsStep, OwnedStep, RunsSettleStep, ReachableStep,
     QuietShowsIdleStep
     DEF RunInv

LEMMA RunSafe == RunSpec => []RunInv
  BY RunInitInv, RunInvStep, PTL DEF RunSpec

(* Runners, calls, fibers, cancels and the map keep their types; a         *)
(* runner's tag says which of a shell and a run its state names.           *)
THEOREM RunTypeCorrect == RunSpec => []RunTypeOK
<1>1. RunInv => RunTypeOK
  BY DEF RunInv
<1> QED
  BY <1>1, RunSafe, PTL

(* However calls, cancels and finishing fibers interleave, and whichever   *)
(* callers give up, of the work a runner started only the one its state    *)
(* names is at work that no cancel has claimed ("shell runs exclusively",  *)
(* runner.test.ts), but for work whose cancel was itself interrupted.      *)
THEOREM RunsExclusively == RunSpec => []WorkIsExclusive
<1>1. RunInv => WorkIsExclusive
  BY DEF RunInv, WorkIsExclusive, Owned, AtWork
<1> QED
  BY <1>1, RunSafe, PTL

(* A caller of ensureRunning never waits for a deferred nobody is left to  *)
(* complete: not the loop behind a cancelled shell, nor one that joined a  *)
(* run as it ended.  The deserted runs are named: those behind a shell     *)
(* whose cancel gave up, or that was interrupted before it began.          *)
THEOREM RunsSettled == RunSpec => []NobodyStranded
<1>1. RunInv => NobodyStranded
  <2> SUFFICES ASSUME RunInv, NEW c \in Loops, call[c].at = "waiting",
                      call[c].run \notin settled
               PROVE  LET run == call[c].run IN
                      \/ fiber[run] \notin {"none", "over"}
                      \/ /\ ref[Host(run)].tag = "ShellThenRun"
                         /\ ref[Host(run)].run = run
                         /\ fiber[ref[Host(run)].shell] \notin {"none", "over", "unborn"}
                      \/ \E x \in Cancels :
                            stop[x].run = run /\ stop[x].at \in {"ready", "awaits"}
                      \/ Deserted(run)
    BY DEF NobodyStranded
  <2>1. PICK l \in Loops : l = call[c].run
    BY DEF RunInv, RunsSettle, Entered
  <2>2. Created(l)
    BY <2>1 DEF RunInv, RunsSettle, Entered
  <2>3. Settling(l)
    BY <2>1, <2>2 DEF RunInv, RunsSettle
  <2>4. CASE ref[Host(l)].tag = "ShellThenRun" /\ ref[Host(l)].run = l
    <3>1. PICK r \in Calls : r = Host(l)
      BY <2>2, NamedFacts DEF Created, Entered
    <3>2. ref[r].shell # None
      BY <2>4, <3>1 DEF RunInv, RunTypeOK
    <3>3. fiber[ref[r].shell] \notin {"none", "over"}
      BY <3>2 DEF RunInv, Named, ShellNamed
    <3>4. fiber[ref[r].shell] = "unborn" => Deserted(l)
      BY <2>4, <3>1, <3>2 DEF Deserted
    <3> QED
      BY <2>1, <2>4, <3>1, <3>3, <3>4
  <2>5. CASE \E x \in Cancels :
                stop[x].run = l /\ stop[x].shell # None /\ stop[x].at = "left"
    BY <2>1, <2>5 DEF Deserted
  <2> QED
    BY <2>1, <2>3, <2>4, <2>5 DEF Settling
<1> QED
  BY <1>1, RunSafe, PTL

(* The runner whose work is going on is the one the map names, so that     *)
(* assertNotBusy and cancel find it, but for a session whose busy runner a *)
(* late onIdle has taken out of the map, and for work whose cancel was     *)
(* itself interrupted.                                                     *)
THEOREM RunnersReachable == RunSpec => []WorkIsReachable
<1>1. RunInv => WorkIsReachable
  <2> SUFFICES ASSUME RunInv, NEW c \in Calls, AtWork(c), ~Claimed(c), ~Forsaken(c)
               PROVE  \/ runners[call[c].session] = Host(c)
                      \/ call[c].session \in evicted
    BY DEF WorkIsReachable
  <2>1. Names(Host(c), c)
    BY DEF AtWork, RunInv, Owned, Names
  <2>2. Host(c) \in Calls /\ call[c].session \in Sessions /\ c # None
    BY NamedFacts DEF AtWork
  <2>3. IsRunner(Host(c), call[c].session)
    BY DEF AtWork, RunInv, FreshUnused, Unused, Entered, Placed, CallPlaced, Host
  <2>4. ref[Host(c)].tag # "Idle"
    BY <2>1, <2>2 DEF Names, RunInv, RunTypeOK
  <2> QED
    BY <2>2, <2>3, <2>4 DEF RunInv, Reachable
<1> QED
  BY <1>1, RunSafe, PTL

(* SessionStatus shows a session busy only while a fiber of its is going   *)
(* on or a cancel has not returned, in whatever order the reports of       *)
(* runners and cancels are recorded, unless a cancel was interrupted       *)
(* before its report and nobody has made one since.                        *)
THEOREM QuietSessionsIdle == RunSpec => []QuietShowsIdle
<1>1. RunInv => QuietShowsIdle
  BY DEF RunInv
<1> QED
  BY <1>1, RunSafe, PTL
=============================================================================
