--------------------------- MODULE BackgroundJob ---------------------------
(***************************************************************************)
(* The registry of background jobs (packages/core/src/background-job.ts).  *)
(*                                                                         *)
(* A job id has at most one running incarnation, identified by its token.  *)
(* start makes one; extend appends work that runs after what is there;     *)
(* settle counts work that ended; cancel and a failure end it at once.     *)
(* Each operator is one SynchronizedRef.modify or one later step of the    *)
(* same operation.  Who calls them is TaskTool.                            *)
(***************************************************************************)
EXTENDS Naturals

CONSTANTS
    Jobs,       \* job ids; a task's job has the id of its session
    Calls,      \* callers of start or extend: each brings one piece of work,
                \*   and the call that starts an incarnation is its token
    None

ASSUME JobNoneAssumption == None \notin Jobs \cup Calls

VARIABLES
    job,        \* the registry
    work,       \* the fiber of each call's work
    final,      \* what each incarnation ended with, set by the modify
    published,  \* incarnations whose `done` is completed with it and whose
                \*   scope is closed
    promoted    \* incarnations whose `promoted` is completed

jobVars == <<job, work, final, published, promoted>>

Statuses == {"none", "running", "completed", "error", "cancelled"}
Ended == {"completed", "error", "cancelled"}
Exits == {"success", "failure", "interrupted"}
Modes == {"foreground", "background"}

(* "fork": registered, not forked yet; "waiting": for the tail of the work *)
(* before it; "settling": the tail is completed, settle is next.           *)
WorkStates == {"none", "fork", "waiting", "working", "settling", "over"}

NoJob == [status |-> "none", token |-> None, pending |-> 0, next |-> 0,
          output |-> None, mode |-> "foreground"]

NoWork == [at |-> "none", job |-> None, token |-> None, seq |-> 0,
           exit |-> "success"]

NotEnded == [status |-> "none", output |-> None, mode |-> "foreground"]

JobType ==
    /\ job \in [Jobs -> [status : Statuses, token : Calls \cup {None},
                         pending : Nat, next : Nat, output : Calls \cup {None},
                         mode : Modes]]
    /\ work \in [Calls -> [at : WorkStates, job : Jobs \cup {None},
                           token : Calls \cup {None}, seq : Nat, exit : Exits]]
    /\ final \in [Calls -> [status : Ended \cup {"none"},
                            output : Calls \cup {None}, mode : Modes]]
    /\ published \subseteq Calls /\ promoted \subseteq Calls

JobInit ==
    /\ job = [j \in Jobs |-> NoJob]
    /\ work = [c \in Calls |-> NoWork]
    /\ final = [c \in Calls |-> NotEnded]
    /\ published = {} /\ promoted = {}

IsRunning(j) == job[j].status = "running"

-----------------------------------------------------------------------------
(* start and extend: register in one modify, then fork.  A running job is  *)
(* joined: start returns its info and drops the work it was given.         *)
Registers(c, j, token, seq) ==
    work' = [work EXCEPT ![c] = [at |-> "fork", job |-> j, token |-> token,
                                 seq |-> seq, exit |-> "success"]]

StartRegisters(c, j, mode) ==
    /\ ~IsRunning(j)
    /\ job' = [job EXCEPT ![j] = [status |-> "running", token |-> c,
                                  pending |-> 1, next |-> 1, output |-> None,
                                  mode |-> mode]]
    /\ Registers(c, j, c, 0)
    /\ UNCHANGED <<final, published, promoted>>

(* Mutant: pending is incremented once the work begins.                    *)
ExtendUncounted(c, j) ==
    /\ IsRunning(j)
    /\ job' = [job EXCEPT ![j].next = @ + 1]
    /\ Registers(c, j, job[j].token, job[j].next)
    /\ UNCHANGED <<final, published, promoted>>

ExtendRegisters(c, j) ==
    /\ IsRunning(j)
    /\ job' = [job EXCEPT ![j].pending = @ + 1, ![j].next = @ + 1]
    /\ Registers(c, j, job[j].token, job[j].next)
    /\ UNCHANGED <<final, published, promoted>>

WorkGoes(c, at) == work' = [work EXCEPT ![c].at = at]

(* forkIn a scope that is closed already interrupts the fiber at once.     *)
Fork(c) ==
    /\ work[c].at = "fork"
    /\ WorkGoes(c, IF work[c].token \in published THEN "over"
                   ELSE IF work[c].seq = 0 THEN "working" ELSE "waiting")
    /\ UNCHANGED <<job, final, published, promoted>>

-----------------------------------------------------------------------------
(* The fiber of a piece of work.                                           *)

(* `previous`: the tail of the work before c, completed however it ended.  *)
(* Mutant: extensions do not wait for their turn.                          *)
NoTail(c) == TRUE

PreviousEnded(c) ==
    \E d \in Calls : /\ work[d].token = work[c].token
                     /\ work[d].seq + 1 = work[c].seq
                     /\ work[d].at \in {"settling", "over"}

WorkBegins(c) ==
    /\ work[c].at = "waiting"
    /\ PreviousEnded(c)
    /\ WorkGoes(c, "working")
    /\ UNCHANGED <<job, final, published, promoted>>

WorkEnds(c, exit) ==
    /\ work[c].at = "working"
    /\ work' = [work EXCEPT ![c].at = "settling", ![c].exit = exit]
    /\ UNCHANGED <<job, final, published, promoted>>

(* The scope of its job was closed: whatever it still does is ignored.     *)
WorkInterrupted(c) ==
    /\ work[c].token \in published
    /\ work[c].at \in {"waiting", "working", "settling"}
    /\ WorkGoes(c, "over")
    /\ UNCHANGED <<job, final, published, promoted>>

(* settle: stale work is ignored; the last success, or any failure, ends   *)
(* the job.  The output is that of the latest work that succeeded.         *)
EndsWith(j, status, output) ==
    /\ job' = [job EXCEPT ![j].status = status, ![j].pending = 0,
                          ![j].output = output]
    /\ final' = [final EXCEPT ![job[j].token] =
           [status |-> status, output |-> output,
            mode |-> job[j].mode]]

(* Mutant: the token is not compared.                                      *)
AnyIncarnation(c) == job[work[c].job].status = "running"

Current(c) ==
    /\ job[work[c].job].token = work[c].token
    /\ job[work[c].job].status = "running"

(* Mutant: whoever settles last gives the output.                          *)
OutputOfLast(c) == IF work[c].exit = "success" THEN c ELSE job[work[c].job].output

OutputAfter(c) ==
    LET now == job[work[c].job].output IN
    IF work[c].exit = "success" /\ (now = None \/ work[c].seq > work[now].seq)
    THEN c ELSE now

StatusOf(exit) ==
    CASE exit = "success" -> "completed"
      [] exit = "failure" -> "error"
      [] exit = "interrupted" -> "cancelled"

Settle(c) ==
    LET j == work[c].job IN
    /\ work[c].at = "settling"
    /\ \/ ~Current(c) /\ UNCHANGED <<job, final>>
       \/ /\ Current(c)
          /\ work[c].exit = "success" /\ job[j].pending > 1
          /\ job' = [job EXCEPT ![j].pending = @ - 1, ![j].output = OutputAfter(c)]
          /\ UNCHANGED final
       \/ /\ Current(c)
          /\ work[c].exit # "success" \/ job[j].pending <= 1
          /\ EndsWith(j, StatusOf(work[c].exit), OutputAfter(c))
    /\ WorkGoes(c, "over")
    /\ UNCHANGED <<published, promoted>>

(* What follows the modify of settle and of cancel: complete done and, with *)
(* no suspension in between, close the scope.                              *)
(* Mutant: cancel leaves done open.                                        *)
PublishSettled(t) ==
    /\ final[t].status \in {"completed", "error"} /\ t \notin published
    /\ published' = published \cup {t}
    /\ UNCHANGED <<job, work, final, promoted>>

PublishEnd(t) ==
    /\ final[t].status # "none" /\ t \notin published
    /\ published' = published \cup {t}
    /\ UNCHANGED <<job, work, final, promoted>>

-----------------------------------------------------------------------------
(* cancel and promote; on a job that is not running both do nothing.       *)
CancelJob(j) ==
    /\ IsRunning(j)
    /\ EndsWith(j, "cancelled", job[j].output)
    /\ UNCHANGED <<work, published, promoted>>

(* The hook of start, onPromote, is there exactly while the job runs and   *)
(* is not in the background.                                               *)
(* Mutant: the job is not marked as a background job.                      *)
PromoteUnmarked(j) ==
    /\ IsRunning(j) /\ job[j].mode = "foreground"
    /\ UNCHANGED jobVars

PromoteMarks(j) ==
    /\ IsRunning(j) /\ job[j].mode = "foreground"
    /\ job' = [job EXCEPT ![j].mode = "background"]
    /\ UNCHANGED <<work, final, published, promoted>>

PromoteCompletes(t) ==
    /\ promoted' = promoted \cup {t}
    /\ UNCHANGED <<job, work, final, published>>
=============================================================================
