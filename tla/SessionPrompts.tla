--------------------------- MODULE SessionPrompts ---------------------------
(***************************************************************************)
(* Prompts from admission to the provider: the session service's prompt    *)
(* operation (packages/core/src/session.ts), the durable inbox, the run    *)
(* coordinator and the runner's drain loop                                 *)
(* (packages/core/src/session/runner/llm.ts, run and the promotion part of *)
(* runTurnAttempt).                                                        *)
(*                                                                         *)
(* The owner fiber of an entry runs the runner: `runner[e]` is where it is *)
(* between two awaits, with what it read before and still holds.  What a   *)
(* provider turn does is its outcome here.  The process may stop at any    *)
(* point; the inbox survives it, the coordinator's map does not.           *)
(***************************************************************************)
EXTENDS RunCoordinator, Naturals, Sequences

CONSTANTS
    Prompts,    \* message ids; a retry reuses the id with the same text
    SessionOf,  \* the session each prompt is sent to
    Senders,    \* fibers that call prompt
    Resumes,    \* the values of `resume` they pass
    MaxSteps,   \* agent.info.steps: the last step disables tools
    MaxCrashes  \* bound on process restarts

ASSUME SessionOfAssumption == SessionOf \in [Prompts -> Keys]
ASSUME ResumesAssumption == Resumes \subseteq BOOLEAN
ASSUME StepsAssumption == MaxSteps \in Nat \ {0} /\ MaxCrashes \in Nat

VARIABLES
    row, seq, transcript,   \* the inbox, see SessionInbox
    runner,     \* the runner of each entry's owner fiber
    sender,     \* where each calling fiber is in prompt
    crashes,    \* how often the process was restarted
    woken,      \* history: prompts whose call reached wake
    quiet,      \* history: those of them made a steer since by a call that
                \*   does not wake (resume is false)
    seen,       \* history: prompts a provider turn was given
    cut,        \* history: sessions whose last drain was cut short, by a
                \*   failure, an interrupt or a crash, and left idle
    unanswered, \* history: sessions a promotion of which was cut short before
                \*   its provider turn
    overtaken   \* history: queued prompts promoted past each waiting steer

INSTANCE SessionInbox

inbox == <<row, seq, transcript>>
promptVars == <<runner, sender, crashes, woken, quiet, seen, cut, unanswered,
                overtaken>>
coordVars == <<active, entry, pendingWake, stopping, forced, client, owed>>
allVars == <<coordVars, inbox, promptVars>>

RunnerStates == {"off", "checkSteer", "checkQueue", "cutoff", "queued",
                 "steers", "publish", "model", "afterTurn", "outer"}

(* promotion: the delivery the next turn promotes, or "none".  rows: what  *)
(* the last query returned and publish has still to promote.               *)
Off == [at |-> "off", promotion |-> "none", cutoff |-> 0, rows |-> {},
        step |-> 1]

SenderStates == {"idle", "admit", "steer", "wake"}

Resting == [at |-> "idle", prompt |-> None, delivery |-> "queue",
            resume |-> TRUE]

PromptType ==
    /\ runner \in [Entries -> [at : RunnerStates,
                               promotion : Deliveries \cup {"none"},
                               cutoff : Nat,
                               rows : SUBSET [prompt : Prompts, delivery : Deliveries],
                               step : 1..MaxSteps]]
    /\ sender \in [Senders -> [at : SenderStates, prompt : Prompts \cup {None},
                               delivery : Deliveries, resume : BOOLEAN]]
    /\ crashes \in 0..MaxCrashes
    /\ woken \in SUBSET Prompts /\ quiet \in SUBSET woken /\ seen \in SUBSET Prompts
    /\ cut \in SUBSET Keys /\ unanswered \in SUBSET Keys
    /\ overtaken \in [Prompts -> Nat]

PromptsInit ==
    /\ Init
    /\ InboxInit
    /\ runner = [e \in Entries |-> Off]
    /\ sender = [s \in Senders |-> Resting]
    /\ crashes = 0
    /\ woken = {} /\ quiet = {} /\ seen = {} /\ cut = {} /\ unanswered = {}
    /\ overtaken = [p \in Prompts |-> 0]

-----------------------------------------------------------------------------
(* prompt: admit, check the admission is equivalent, wake.  The whole call *)
(* is uninterruptible.                                                     *)
history == <<seen, cut, unanswered, overtaken>>

PromptsOf(k) == {p \in Prompts : SessionOf[p] = k}

Calls(s, at, p, delivery, resume) ==
    sender' = [sender EXCEPT ![s] = [at |-> at, prompt |-> p,
                                     delivery |-> delivery, resume |-> resume]]

Returns(s) == sender' = [sender EXCEPT ![s] = Resting]

(* SessionInput.equivalent against what the caller asked for, then wake    *)
(* unless resume is false; otherwise PromptConflictError.                  *)
Admitted(s, stored) ==
    IF stored = sender[s].delivery /\ sender[s].resume
    THEN sender' = [sender EXCEPT ![s].at = "wake"] ELSE Returns(s)

(* admit's find: a new id is published; an unpromoted queued prompt sent   *)
(* again as a steer is upgraded; any other stored admission is returned.   *)
Upgrades(p, delivery) ==
    Pending(p) /\ row[p].delivery = "queue" /\ delivery = "steer"

Prompt(s, p, delivery, resume) ==
    /\ sender[s].at = "idle"
    /\ \/ ~Stored(p) /\ Calls(s, "admit", p, delivery, resume)
       \/ Upgrades(p, delivery) /\ Calls(s, "steer", p, delivery, resume)
       \/ /\ Stored(p) /\ ~Upgrades(p, delivery)
          /\ row[p].delivery = delivery /\ resume
          /\ Calls(s, "wake", p, delivery, resume)
    /\ UNCHANGED <<coordVars, inbox, runner, crashes, woken, quiet, history>>

(* PromptAdmitted; when another call admitted the id in between, what it   *)
(* stored is returned.                                                     *)
Admit(s) ==
    LET p == sender[s].prompt IN
    /\ sender[s].at = "admit"
    /\ \/ projectAdmitted(p, sender[s].delivery) /\ Admitted(s, sender[s].delivery)
       \/ AdmitConflicts(p) /\ RollBack /\ Admitted(s, row[p].delivery)
    /\ UNCHANGED <<coordVars, runner, crashes, woken, quiet, history>>

(* steerQueued: reads the row again, then publishes PromptDeliveryChanged. *)
(* A prompt promoted before the second read is a conflict, one promoted    *)
(* after it only if it was not as a steer; a steer by now is returned.     *)
Steer(s) ==
    LET p == sender[s].prompt IN
    /\ sender[s].at = "steer"
    /\ \/ projectDeliveryChanged(p) /\ Admitted(s, "steer")
       \/ SteerConflicts(p) /\ RollBack /\ Admitted(s, row[p].delivery)
       \/ SteerConflicts(p) /\ RollBack /\ Returns(s)
       \/ ~SteerConflicts(p) /\ row[p].delivery = "steer"
          /\ RollBack /\ Admitted(s, "steer")
    /\ quiet' = IF Upgrades(p, "steer") /\ ~sender[s].resume
                THEN quiet \cup ({p} \cap woken) ELSE quiet
    /\ UNCHANGED <<coordVars, runner, crashes, woken, history>>

WakeSession(s) ==
    LET p == sender[s].prompt IN
    /\ sender[s].at = "wake"
    /\ Wake(SessionOf[p])
    /\ Returns(s)
    /\ woken' = woken \cup {p}
    /\ quiet' = quiet \ PromptsOf(SessionOf[p])
    /\ cut' = cut \ {SessionOf[p]}
    /\ UNCHANGED <<inbox, runner, crashes, seen, unanswered, overtaken>>

-----------------------------------------------------------------------------
(* The runner, in the owner fiber of entry e.                              *)
Session(e) == entry[e].key

At(e, at) == entry[e].phase = "running" /\ runner[e].at = at

Goes(e, at) == runner' = [runner EXCEPT ![e].at = at]

GoesPromoting(e, at, promotion) ==
    runner' = [runner EXCEPT ![e].at = at, ![e].promotion = promotion]

others == <<sender, crashes, woken, quiet>>

Begin(e) ==
    /\ DrainBegin(e)
    /\ runner' = [runner EXCEPT ![e] = [Off EXCEPT !.at = "checkSteer"]]
    /\ UNCHANGED <<inbox, others, history>>

(* run: look for steers, then for queued prompts; an unforced run with     *)
(* neither is over.                                                        *)
CheckSteer(e) ==
    /\ At(e, "checkSteer")
    /\ IF hasPending(Session(e), "steer") THEN GoesPromoting(e, "cutoff", "steer")
                                          ELSE Goes(e, "checkQueue")
    /\ UNCHANGED <<coordVars, inbox, others, history>>

CheckQueue(e) ==
    /\ At(e, "checkQueue")
    /\ \/ /\ hasPending(Session(e), "queue")
          /\ GoesPromoting(e, "cutoff", "queue")
       \/ /\ ~hasPending(Session(e), "queue") /\ e \in forced
          /\ GoesPromoting(e, "model", "none")
    /\ UNCHANGED <<coordVars, inbox, others, history>>

(* Mutant: nothing is pending any more, so the turn is skipped.            *)
FinishedEarly(e) ==
    At(e, "model") /\ e \notin forced /\ ~hasPending(Session(e), "queue")

Finished(e) ==
    \/ /\ At(e, "checkQueue") /\ e \notin forced
       /\ ~hasPending(Session(e), "queue")
    \/ At(e, "outer") /\ ~hasPending(Session(e), "queue")

(* runTurnAttempt: the cutoff is the latest sequence before any promotion. *)
Cutoff(e) ==
    /\ At(e, "cutoff")
    /\ runner' = [runner EXCEPT
          ![e].cutoff = seq[Session(e)],
          ![e].at = IF runner[e].promotion = "queue" THEN "queued" ELSE "steers"]
    /\ UNCHANGED <<coordVars, inbox, others, history>>

Read(p) == [prompt |-> p, delivery |-> row[p].delivery]

(* publish goes on with the rows left; after the last, the queued prompt's *)
(* promotion is followed by that of steers, which ends in the model turn.  *)
Publishing(rows, promotion) ==
    IF rows # {} THEN "publish"
    ELSE IF promotion = "queue" THEN "steers" ELSE "model"

(* Mutant: the query has no limit 1.                                       *)
ReadAllQueued(e) ==
    /\ At(e, "queued")
    /\ \/ \E p \in OldestQueued(Session(e)) :
             runner' = [runner EXCEPT ![e].at = "publish",
                 ![e].rows = {Read(q) : q \in PendingOf(Session(e), "queue")}]
       \/ OldestQueued(Session(e)) = {} /\ Goes(e, "steers")
    /\ UNCHANGED <<coordVars, inbox, others, history>>

ReadQueued(e) ==
    /\ At(e, "queued")
    /\ \/ \E p \in OldestQueued(Session(e)) :
             runner' = [runner EXCEPT ![e].at = "publish",
                                      ![e].rows = {Read(p)}]
       \/ OldestQueued(Session(e)) = {} /\ Goes(e, "steers")
    /\ UNCHANGED <<coordVars, inbox, others, history>>

ReadSteers(e) ==
    LET rows == {Read(p) : p \in SteersUpTo(Session(e), runner[e].cutoff)} IN
    /\ At(e, "steers")
    /\ runner' = [runner EXCEPT
          ![e].at = Publishing(rows, "none"), ![e].rows = rows,
          ![e].promotion = "none", ![e].cutoff = 0]
    /\ UNCHANGED <<coordVars, inbox, others, history>>

(* publish: one Prompted event per row read, in the order of admission.  A *)
(* row promoted in between is skipped; see PublishDies for one whose       *)
(* delivery changed.  A promotion resets the step allowance.               *)
FirstOf(rows) ==
    {r \in rows : \A q \in rows : row[r.prompt].admitted <= row[q.prompt].admitted}

Waiters(p, delivery) ==
    IF delivery = "queue" THEN PendingOf(SessionOf[p], "steer") ELSE {}

Prompted(r) ==
    /\ projectPrompted(r.prompt, r.delivery)
    /\ overtaken' = [p \in Prompts |-> overtaken[p] +
                        IF p \in Waiters(r.prompt, r.delivery) THEN 1 ELSE 0]

Skips(r) == ~Pending(r.prompt) /\ RollBack /\ UNCHANGED overtaken

Publish(e) ==
    /\ At(e, "publish")
    /\ \E r \in FirstOf(runner[e].rows) :
          LET rest == runner[e].rows \ {r} IN
          /\ Prompted(r) \/ Skips(r)
          /\ runner' = [runner EXCEPT
                ![e].at = Publishing(rest, runner[e].promotion),
                ![e].rows = rest, ![e].step = 1]
    /\ UNCHANGED <<coordVars, others, seen, cut, unanswered>>

(* The provider turn, given every promoted prompt of the session.  It asks *)
(* for another turn (tools ran and this was not the last step) or not.     *)
(* Mutant: off by one in isLastStep.                                       *)
TurnOneMore(e) ==
    /\ At(e, "model")
    /\ seen' = seen \cup {p \in Prompts : SessionOf[p] = Session(e) /\
                                          row[p].promoted # 0}
    /\ unanswered' = unanswered \ {Session(e)}
    /\ \/ /\ runner[e].step <= MaxSteps
          /\ runner' = [runner EXCEPT ![e].at = "cutoff",
                            ![e].promotion = "steer", ![e].step = @ + 1]
       \/ GoesPromoting(e, "afterTurn", "steer")
    /\ UNCHANGED <<coordVars, inbox, others, cut, overtaken>>

Turn(e) ==
    /\ At(e, "model")
    /\ seen' = seen \cup {p \in Prompts : SessionOf[p] = Session(e) /\
                                          row[p].promoted # 0}
    /\ unanswered' = unanswered \ {Session(e)}
    /\ \/ /\ runner[e].step < MaxSteps
          /\ runner' = [runner EXCEPT ![e].at = "cutoff",
                            ![e].promotion = "steer", ![e].step = @ + 1]
       \/ GoesPromoting(e, "afterTurn", "steer")
    /\ UNCHANGED <<coordVars, inbox, others, cut, overtaken>>

(* No continuation: pending steers start another turn, then queued prompts *)
(* another round with a fresh step count.                                  *)
AfterTurn(e) ==
    /\ At(e, "afterTurn")
    /\ Goes(e, IF hasPending(Session(e), "steer") THEN "cutoff" ELSE "outer")
    /\ UNCHANGED <<coordVars, inbox, others, history>>

(* Mutant: the next round starts as a steered one.                         *)
NextRoundSteered(e) ==
    /\ At(e, "outer")
    /\ hasPending(Session(e), "queue")
    /\ runner' = [runner EXCEPT ![e].at = "cutoff", ![e].promotion = "steer",
                                ![e].step = 1]
    /\ UNCHANGED <<coordVars, inbox, others, history>>

NextRound(e) ==
    /\ At(e, "outer")
    /\ hasPending(Session(e), "queue")
    /\ runner' = [runner EXCEPT ![e].at = "cutoff", ![e].promotion = "queue",
                                ![e].step = 1]
    /\ UNCHANGED <<coordVars, inbox, others, history>>

(* A row read as queued that became a steer before its Prompted event: the *)
(* projector dies, the row is still unpromoted, and so does the drain.     *)
PublishDies(e) ==
    /\ At(e, "publish")
    /\ \E r \in FirstOf(runner[e].rows) :
          Pending(r.prompt) /\ PromptConflicts(r.prompt, r.delivery)

(* The drain ends: with success when the loop is over; with a failure when *)
(* it dies in publish, or anywhere a turn's preparation or the provider    *)
(* fails; interrupted when told to stop, or by itself in a turn.           *)
InTurn(e) == At(e, "cutoff") \/ At(e, "model")

Exiting(e, exit) ==
    CASE exit = "success" -> Finished(e)
      [] exit = "failure" -> PublishDies(e) \/ InTurn(e)
      [] exit = "interrupted" -> e \in stopping \/ InTurn(e)

Owing(k) == \E p \in Prompts : SessionOf[p] = k /\ row[p].promoted # 0 /\ p \notin seen

End(e, exit) ==
    /\ Exiting(e, exit)
    /\ DrainEnd(e, exit)
    /\ runner' = [runner EXCEPT ![e] = Off]
    /\ unanswered' = IF Owing(Session(e)) /\ (exit # "success" \/ e \in stopping)
                     THEN unanswered \cup {Session(e)} ELSE unanswered
    /\ UNCHANGED <<inbox, others, seen, cut, overtaken>>

Settle(e) ==
    /\ settle(e)
    /\ cut' = IF active'[Session(e)] = None /\
                 (entry[e].exit # "success" \/ e \in stopping)
              THEN cut \cup {Session(e)} ELSE cut
    /\ UNCHANGED <<inbox, runner, others, seen, unanswered, overtaken>>

-----------------------------------------------------------------------------
Idles == UNCHANGED <<inbox, promptVars>>

(* The process stops and starts again: only the database is left.          *)
Crash ==
    /\ crashes < MaxCrashes
    /\ crashes' = crashes + 1
    /\ active' = [k \in Keys |-> None]
    /\ entry' = [e \in Entries |-> Blank]
    /\ pendingWake' = {} /\ stopping' = {} /\ forced' = {} /\ owed' = {}
    /\ client' = [c \in Clients |-> Rest]
    /\ runner' = [e \in Entries |-> Off]
    /\ sender' = [s \in Senders |-> Resting]
    /\ cut' = Keys
    /\ unanswered' = unanswered \cup {k \in Keys : Owing(k)}
    /\ UNCHANGED <<inbox, woken, quiet, seen, overtaken>>

SenderNext(s) == Admit(s) \/ Steer(s) \/ WakeSession(s)

RunnerNext(e) ==
    \/ Begin(e) \/ CheckSteer(e) \/ CheckQueue(e) \/ Cutoff(e) \/ ReadQueued(e)
    \/ ReadSteers(e) \/ Publish(e) \/ Turn(e) \/ AfterTurn(e)
    \/ NextRound(e) \/ Settle(e)
    \/ \E exit \in Exits : End(e, exit)

PromptsNext ==
    \/ \E s \in Senders, p \in Prompts, d \in Deliveries, r \in Resumes :
          Prompt(s, p, d, r)
    \/ \E s \in Senders : SenderNext(s)
    \/ \E e \in Entries : RunnerNext(e)
    \/ \E c \in Clients : ClientNext(c) /\ Idles
    \/ Crash

PromptsSpec == PromptsInit /\ [][PromptsNext]_allVars

PromptsFairness ==
    /\ \A s \in Senders : WF_allVars(SenderNext(s))
    /\ \A e \in Entries : WF_allVars(RunnerNext(e))

PromptsFairSpec == PromptsSpec /\ PromptsFairness

-----------------------------------------------------------------------------
(* Properties.                                                             *)

PromptsTypeOK == TypeOK /\ InboxType /\ PromptType

(* The transcript is exactly the promoted prompts, each once, in the order *)
(* of their promoted sequence, whatever races, dies or restarts.           *)
PromotedOnce ==
    \A k \in Keys :
        LET t == transcript[k] IN
        /\ {t[i] : i \in DOMAIN t} =
               {p \in Prompts : SessionOf[p] = k /\ row[p].promoted # 0}
        /\ \A i, j \in DOMAIN t :
               i < j => row[t[i]].promoted < row[t[j]].promoted

(* "promotes queued inputs one at a time in FIFO order": prompts promoted  *)
(* from the queue enter the transcript in the order they were admitted.    *)
QueueIsFifo ==
    \A k \in Keys : \A i, j \in DOMAIN transcript[k] :
        LET p == transcript[k][i]
            q == transcript[k][j]
        IN  i < j /\ row[p].delivery = "queue" /\ row[q].delivery = "queue"
              => row[p].admitted < row[q].admitted

(* Steer makes a prompt go next: at most the one queued prompt whose round *)
(* had begun is promoted ahead of a steer that waits.                      *)
SteerOvertakenOnce == \A p \in Prompts : overtaken[p] <= 1

(* A prompt whose call woke the session is not left in the inbox of an     *)
(* idle session no call is about to wake, unless the last drain was cut    *)
(* short, or the prompt was made a steer by a call that does not wake, and *)
(* nothing woke the session since: the drain's last look at the inbox and  *)
(* the wake that races with it never miss each other.                      *)
Waking(k) == \E s \in Senders : sender[s].at = "wake" /\ SessionOf[sender[s].prompt] = k

LeftBehind(p) ==
    LET k == SessionOf[p] IN
    Pending(p) /\ active[k] = None /\ ~Waking(k) /\ k \notin cut

NoStrandedPrompt == \A p \in woken \ quiet : ~LeftBehind(p)

(* "Upgrade an unpromoted queued admission to steer so the runner breaks   *)
(* for it next" (input.ts): steering a queued prompt that already has a    *)
(* drain coming does not make that drain leave it behind.                  *)
SteerNeverStrands == \A p \in woken : ~LeftBehind(p)

(* A promoted prompt is given to the provider before the session goes      *)
(* idle, unless the drain that promoted it was cut short.                  *)
PromotedIsAnswered ==
    \A p \in Prompts \ seen :
        row[p].promoted # 0 /\ active[SessionOf[p]] = None
            => SessionOf[p] \in unanswered

(* Every prompt that woke its session is eventually promoted, or else a    *)
(* drain of the session is cut short: the loop of turns does not starve it. *)
CutShort(k) == \E e \in Entries :
    /\ entry[e].key = k
    /\ e \in stopping \/ entry[e].exit # "success"

WokenIsPromoted ==
    \A p \in Prompts :
        (p \in woken) ~> (\/ row[p].promoted # 0
                             \/ SessionOf[p] \in cut \/ CutShort(SessionOf[p])
                             \/ p \in quiet)
=============================================================================
