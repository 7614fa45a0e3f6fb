--------------------------- MODULE TaskToolProofs ---------------------------
(***************************************************************************)
(* Theorems about BackgroundJob as TaskTool uses it, for any sets of jobs, *)
(* calls and promoters.                                                    *)
(***************************************************************************)
EXTENDS TaskTool, FiniteSets, FiniteSetTheorems, TLAPS

(***************************************************************************)
(* The inductive invariant.                                                *)
(***************************************************************************)

(* A call that has not registered its work left no trace in the registry.  *)
Fresh(c) == call[c].at \in {"idle", "extend", "start"}

Unused(c) ==
    /\ work[c] = NoWork /\ final[c] = NotEnded
    /\ c \notin published
    /\ \A d \in Calls : work[d].token # c
    /\ \A j \in Jobs : job[j].token # c

FreshUnused == \A c \in Calls : Fresh(c) => Unused(c)

(* What the calls and promotions refer to exists.                          *)
Placed(c) ==
    /\ call[c].at # "idle" => call[c].job \in Jobs
    /\ call[c].at = "race" => call[c].on \in Calls
    /\ call[c].at \in {"fork", "deliver"} => job[call[c].job].token \in Calls

Promoting(p) ==
    promoter[p].at # "idle" =>
        /\ promoter[p].job \in Jobs /\ promoter[p].token \in Calls
        /\ job[promoter[p].job].token \in Calls

Referring == (\A c \in Calls : Placed(c)) /\ (\A p \in Promoters : Promoting(p))

(* Work belongs to one incarnation of one job, which its first piece names. *)
Belongs ==
    /\ \A c \in Calls : work[c].token \in Calls =>
          /\ work[c].job \in Jobs /\ work[c].at # "none"
          /\ work[work[c].token].token = work[c].token
          /\ work[work[c].token].job = work[c].job
    /\ \A c \in Calls : work[c].token = None => work[c] = NoWork
    /\ \A j \in Jobs : job[j].token \in Calls =>
          /\ work[job[j].token].token = job[j].token
          /\ work[job[j].token].job = j

(* The registry holds every incarnation that has not ended.                *)
Registry ==
    /\ \A j \in Jobs : IsRunning(j) =>
          job[j].token \in Calls /\ final[job[j].token] = NotEnded
    /\ \A j \in Jobs : job[j].token = None => job[j] = NoJob
    /\ \A t \in Calls : work[t].token = t /\ final[t].status = "none" =>
          IsRunning(work[t].job) /\ job[work[t].job].token = t
    /\ \A t \in published : final[t].status # "none"
    /\ \A t \in Calls : work[t].token # t => final[t] = NotEnded

(* Work of one incarnation is numbered, below what the registry gives next. *)
Numbered ==
    /\ \A c, d \in Calls : work[c].token \in Calls /\ work[c].token = work[d].token
                             /\ work[c].seq = work[d].seq => c = d
    /\ \A j \in Jobs, c \in Calls : IsRunning(j) /\ work[c].token = job[j].token =>
          work[c].seq < job[j].next

(* Until the scope is closed, work begins after all before it ended.       *)
Prefix ==
    \A c, d \in Calls :
        /\ work[c].token = work[d].token /\ work[c].seq < work[d].seq
        /\ work[d].at \in {"working", "settling", "over"}
        => work[c].at \in {"settling", "over"} \/ work[c].token \in published

(* pending counts the work not settled, and what settled succeeded.        *)
Unsettled(t) == {c \in Calls : work[c].token = t /\ work[c].at # "over"}

Counted ==
    \A j \in Jobs : IsRunning(j) =>
        /\ IsFiniteSet(Unsettled(job[j].token))
        /\ job[j].pending = Cardinality(Unsettled(job[j].token))

OverSucceeded ==
    \A j \in Jobs, c \in Calls :
        IsRunning(j) /\ work[c].token = job[j].token /\ work[c].at = "over"
            => work[c].exit = "success"

(* The output is that of the latest settled work.                          *)
LatestOutput ==
    \A j \in Jobs : IsRunning(j) =>
        /\ job[j].output # None =>
              /\ work[job[j].output].token = job[j].token
              /\ work[job[j].output].at = "over"
        /\ \A c \in Calls : work[c].token = job[j].token /\ work[c].at = "over" =>
              job[j].output # None /\ work[c].seq <= work[job[j].output].seq

JobInv ==
    /\ JobType /\ Belongs /\ Registry /\ Numbered /\ Prefix
    /\ Counted /\ OverSucceeded /\ LatestOutput /\ OwnResult /\ CompletedIsComplete

IInv == TaskTypeOK /\ FreshUnused /\ Referring /\ JobInv

(***************************************************************************)
(* What each operation changes, field by field.                            *)
(***************************************************************************)
JobRec == [status : Statuses, token : Calls \cup {None}, pending : Nat,
           next : Nat, output : Calls \cup {None}, mode : Modes]

WorkRec == [at : WorkStates, job : Jobs \cup {None}, token : Calls \cup {None},
            seq : Nat, exit : Exits]

FinalRec == [status : Ended \cup {"none"}, output : Calls \cup {None}, mode : Modes]

JobKept(j) == \A i \in Jobs \ {j} : job'[i] = job[i]
WorkKept(c) == \A d \in Calls \ {c} : work'[d] = work[d]

LEMMA Typed ==
    JobType <=> /\ job \in [Jobs -> JobRec] /\ work \in [Calls -> WorkRec]
                /\ final \in [Calls -> FinalRec]
                /\ published \subseteq Calls /\ promoted \subseteq Calls
BY DEF JobType, JobRec, WorkRec, FinalRec

(* Work c goes on to `at`.                                                 *)
WorkMoves(c, at) ==
    /\ work' \in [Calls -> WorkRec] /\ WorkKept(c)
    /\ work'[c].at = at /\ work'[c].job = work[c].job
    /\ work'[c].token = work[c].token /\ work'[c].seq = work[c].seq

LEMMA WorkGoesEffect ==
    ASSUME JobType, NEW c \in Calls, NEW at \in WorkStates, WorkGoes(c, at)
    PROVE  WorkMoves(c, at) /\ work'[c].exit = work[c].exit
BY Typed DEF WorkGoes, WorkMoves, WorkKept, WorkRec

LEMMA WorkEndsEffect ==
    ASSUME JobType, NEW c \in Calls, NEW exit \in Exits, WorkEnds(c, exit)
    PROVE  WorkMoves(c, "settling") /\ work'[c].exit = exit
<1>1. "settling" \in WorkStates
  BY DEF WorkStates
<1> DEFINE r == [work[c] EXCEPT !.at = "settling", !.exit = exit]
<1>2. r \in WorkRec
  BY <1>1, Typed DEF WorkRec
<1>3. work' = [work EXCEPT ![c] = r]
  BY Typed DEF WorkEnds, WorkRec
<1>4. /\ r.at = "settling" /\ r.exit = exit /\ r.job = work[c].job
      /\ r.token = work[c].token /\ r.seq = work[c].seq
  BY Typed DEF WorkRec
<1> HIDE DEF r
<1> QED BY <1>2, <1>3, <1>4, Typed DEF WorkMoves, WorkKept

LEMMA RegistersEffect ==
    ASSUME JobType, NEW c \in Calls, NEW j \in Jobs, NEW t \in Calls,
           NEW seq \in Nat, Registers(c, j, t, seq)
    PROVE  /\ work' \in [Calls -> WorkRec] /\ WorkKept(c)
           /\ work'[c] = [at |-> "fork", job |-> j, token |-> t, seq |-> seq,
                          exit |-> "success"]
BY Typed DEF Registers, WorkKept, WorkRec, WorkStates, Exits

LEMMA StartEffect ==
    ASSUME JobType, NEW c \in Calls, NEW j \in Jobs, NEW mode \in Modes,
           StartRegisters(c, j, mode)
    PROVE  /\ job' \in [Jobs -> JobRec] /\ JobKept(j)
           /\ job'[j] = [status |-> "running", token |-> c, pending |-> 1,
                         next |-> 1, output |-> None, mode |-> mode]
BY Typed DEF StartRegisters, JobKept, JobRec, Statuses

LEMMA ExtendEffect ==
    ASSUME JobType, NEW c \in Calls, NEW j \in Jobs, ExtendRegisters(c, j)
    PROVE  /\ job' \in [Jobs -> JobRec] /\ JobKept(j)
           /\ job'[j] = [job[j] EXCEPT !.pending = @ + 1, !.next = @ + 1]
<1> DEFINE r == [job[j] EXCEPT !.pending = @ + 1, !.next = @ + 1]
<1>0. job[j] \in JobRec /\ job[j].pending + 1 \in Nat /\ job[j].next + 1 \in Nat
  BY Typed DEF JobRec
<1>1. r \in JobRec
  BY <1>0 DEF JobRec
<1>2. job' = [job EXCEPT ![j] = r]
  BY <1>0, Typed DEF ExtendRegisters, JobRec
<1> HIDE DEF r
<1>3. job' \in [Jobs -> JobRec] /\ JobKept(j) /\ job'[j] = r
  BY <1>1, <1>2, Typed DEF JobKept
<1> QED BY <1>3 DEF r

LEMMA EndsEffect ==
    ASSUME JobType, NEW j \in Jobs, job[j].token \in Calls, NEW status \in Ended,
           NEW output \in Calls \cup {None}, EndsWith(j, status, output)
    PROVE  /\ job' \in [Jobs -> JobRec] /\ JobKept(j)
           /\ job'[j].status = status /\ job'[j].output = output
           /\ job'[j].token = job[j].token
           /\ final' \in [Calls -> FinalRec]
           /\ \A t \in Calls \ {job[j].token} : final'[t] = final[t]
           /\ final'[job[j].token].status = status
           /\ final'[job[j].token].output = output
<1>1. status \in Statuses
  BY DEF Statuses, Ended
<1> DEFINE r == [job[j] EXCEPT !.status = status, !.pending = 0, !.output = output]
<1>2. r \in JobRec
  BY <1>1, Typed DEF JobRec
<1>3. job' = [job EXCEPT ![j] = r]
  BY Typed DEF EndsWith, JobRec
<1>4. r.status = status /\ r.output = output /\ r.token = job[j].token
  BY Typed DEF JobRec
<1> HIDE DEF r
<1>5. /\ job' \in [Jobs -> JobRec] /\ JobKept(j) /\ job'[j] = r
  BY <1>2, <1>3, Typed DEF JobKept
<1> DEFINE f == [status |-> status, output |-> output, mode |-> job[j].mode]
<1>6. f \in FinalRec /\ f.status = status /\ f.output = output
  BY Typed DEF FinalRec, JobRec
<1>7. final' = [final EXCEPT ![job[j].token] = f]
  BY DEF EndsWith
<1> HIDE DEF f
<1>8. /\ final' \in [Calls -> FinalRec] /\ final'[job[j].token] = f
      /\ \A t \in Calls \ {job[j].token} : final'[t] = final[t]
  BY <1>6, <1>7, Typed
<1> QED BY <1>4, <1>5, <1>6, <1>8

(***************************************************************************)
(* The operations keep the invariant.                                      *)
(***************************************************************************)

(* Work keeps its place: only where it is and how it ended change.         *)
SameWork ==
    \A d \in Calls :
        /\ work'[d].token = work[d].token /\ work'[d].job = work[d].job
        /\ work'[d].seq = work[d].seq
        /\ work[d].at # "none" => work'[d].at # "none"
        /\ work[d].token = None => work'[d] = work[d]

(* Jobs keep their incarnations, and none begins to run.                   *)
SameJobs ==
    \A i \in Jobs :
        /\ job'[i].token = job[i].token /\ job'[i].next = job[i].next
        /\ job'[i].status = "running" => job[i].status = "running"

LEMMA HasToken ==
    ASSUME JobInv, NEW c \in Calls, work[c].at # "none"
    PROVE  work[c].token \in Calls /\ work[c].job \in Jobs
BY Typed DEF JobInv, Belongs, NoWork, WorkRec

LEMMA MovesSameWork ==
    ASSUME JobInv, NEW c \in Calls, work[c].at # "none", NEW at, at # "none",
           WorkMoves(c, at)
    PROVE  SameWork
BY HasToken, JobNoneAssumption DEF WorkMoves, WorkKept, SameWork

LEMMA BelongsKept ==
    ASSUME JobInv, SameWork, SameJobs
    PROVE  Belongs' /\ Numbered'
<1>1. Belongs'
  BY DEF JobInv, Belongs, SameWork, SameJobs
<1>2. Numbered'
  BY DEF JobInv, Numbered, IsRunning, SameWork, SameJobs
<1> QED BY <1>1, <1>2

(* A running incarnation is registered once.                               *)
LEMMA OneJob ==
    ASSUME JobInv, NEW i \in Jobs, NEW j \in Jobs, job[i].token \in Calls,
           job[i].token = job[j].token
    PROVE  i = j
BY DEF JobInv, Belongs

LEMMA RunningToken ==
    ASSUME JobInv, NEW j \in Jobs, IsRunning(j)
    PROVE  /\ job[j].token \in Calls /\ final[job[j].token] = NotEnded
           /\ final[job[j].token].status = "none"
           /\ job[j].token \notin published
BY DEF JobInv, Registry, NotEnded

(* The turn of c has come.                                                 *)
Turn(c) ==
    \A d \in Calls : work[d].token = work[c].token /\ work[d].seq < work[c].seq =>
        work[d].at \in {"settling", "over"} \/ work[d].token \in published

(* Work that moves on in its turn, and is over only when its incarnation   *)
(* has ended, keeps the invariant.                                         *)
LEMMA MoveKeeps ==
    ASSUME JobInv, NEW c \in Calls, NEW at \in {"waiting", "working", "settling", "over"},
           work[c].at \notin {"none", "over"}, WorkMoves(c, at),
           UNCHANGED <<job, final, published, promoted>>,
           at # "waiting" => Turn(c),
           work[c].at = "settling" => at = "over",
           at = "over" => final[work[c].token].status # "none"
    PROVE  JobInv'
<1>1. SameWork /\ SameJobs /\ work[c].token \in Calls
  BY MovesSameWork, HasToken DEF SameJobs
<1>2. Belongs' /\ Numbered' /\ JobType'
  BY <1>1, BelongsKept, Typed DEF WorkMoves, JobInv, JobType, WorkRec
<1>3. Registry'
  BY <1>1 DEF JobInv, Registry, SameWork, IsRunning
<1>4. Prefix'
  <2> SUFFICES ASSUME NEW a \in Calls, NEW b \in Calls,
                      work'[a].token = work'[b].token, work'[a].seq < work'[b].seq,
                      work'[b].at \in {"working", "settling", "over"}
               PROVE  work'[a].at \in {"settling", "over"} \/ work'[a].token \in published'
    BY DEF Prefix
  <2>1. work[a].token = work[b].token /\ work[a].seq < work[b].seq
    BY <1>1 DEF SameWork
  <2>2. work[a].at \in {"settling", "over"} \/ work[a].token \in published
    <3>1. CASE b = c
      BY <2>1, <3>1 DEF Turn, WorkMoves
    <3>2. CASE b # c
      BY <2>1, <3>2 DEF WorkMoves, WorkKept, JobInv, Prefix
    <3> QED BY <3>1, <3>2
  <2> QED BY <2>2, <1>1 DEF WorkMoves, WorkKept, SameWork
<1>5. ASSUME NEW j \in Jobs, IsRunning(j)
      PROVE  /\ \A d \in Calls : work[d].token = job[j].token =>
                   (work'[d].at = "over" <=> work[d].at = "over")
             /\ \A d \in Calls : work[d].at = "over" => work'[d] = work[d]
  BY <1>5, RunningToken DEF WorkMoves, WorkKept
<1>6. Counted'
  <2> SUFFICES ASSUME NEW j \in Jobs, IsRunning(j)
               PROVE  Unsettled(job[j].token)' = Unsettled(job[j].token)
    BY DEF JobInv, Counted, IsRunning
  <2> QED BY <1>1, <1>5 DEF Unsettled, SameWork
<1>7. OverSucceeded' /\ LatestOutput'
  <2> SUFFICES ASSUME NEW j \in Jobs, IsRunning(j)
               PROVE  /\ \A d \in Calls : work'[d].token = job[j].token /\ work'[d].at = "over"
                            => /\ work'[d].exit = "success" /\ job[j].output # None
                               /\ work'[d].seq <= work'[job[j].output].seq
                      /\ job[j].output # None =>
                            /\ work'[job[j].output].token = job[j].token
                            /\ work'[job[j].output].at = "over"
    BY DEF OverSucceeded, LatestOutput, IsRunning
  <2>1. job[j].output # None => job[j].output \in Calls
    BY Typed DEF JobInv, JobRec
  <2>2. \A d \in Calls : work[d].token = job[j].token /\ work[d].at = "over"
           => /\ work[d].exit = "success" /\ job[j].output # None
              /\ work[d].seq <= work[job[j].output].seq
    BY DEF JobInv, OverSucceeded, LatestOutput
  <2>3. job[j].output # None => /\ work[job[j].output].token = job[j].token
                               /\ work[job[j].output].at = "over"
    BY DEF JobInv, LatestOutput
  <2> QED BY <1>1, <1>5, <2>1, <2>2, <2>3 DEF SameWork
<1>8. OwnResult'
  BY <1>1, Typed DEF JobInv, OwnResult, SameWork, JobRec, FinalRec
<1>9. CompletedIsComplete'
  BY <1>1, Typed DEF JobInv, CompletedIsComplete, SameWork, WorkMoves, WorkKept, FinalRec
<1> QED BY <1>2, <1>3, <1>4, <1>6, <1>7, <1>8, <1>9 DEF JobInv
LEMMA TurnCome ==
    ASSUME JobInv, NEW c \in Calls, work[c].at \in {"working", "settling"}
    PROVE  Turn(c)
BY DEF JobInv, Prefix, Turn

LEMMA ForkKeeps ==
    ASSUME JobInv, NEW c \in Calls, Fork(c)
    PROVE  JobInv'
<1>1. work[c].at = "fork" /\ UNCHANGED <<job, final, published, promoted>> /\ JobType
  BY DEF Fork, JobInv
<1>2. work[c].token \in Calls /\ work[c].seq \in Nat
  BY <1>1, HasToken, Typed DEF WorkRec
<1>3. CASE work[c].token \in published
  <2>1. WorkGoes(c, "over")
    BY <1>3 DEF Fork
  <2>2. "over" \in WorkStates
    BY DEF WorkStates
  <2>3. Turn(c) /\ final[work[c].token].status # "none"
    BY <1>3 DEF Turn, JobInv, Registry
  <2> QED BY <1>1, <2>1, <2>2, <2>3, WorkGoesEffect, MoveKeeps
<1>4. CASE work[c].token \notin published /\ work[c].seq = 0
  <2>1. WorkGoes(c, "working")
    BY <1>4 DEF Fork
  <2>2. "working" \in WorkStates
    BY DEF WorkStates
  <2>3. Turn(c)
    BY <1>4, Typed DEF Turn, JobInv, WorkRec
  <2> QED BY <1>1, <2>1, <2>2, <2>3, WorkGoesEffect, MoveKeeps
<1>5. CASE work[c].token \notin published /\ work[c].seq # 0
  <2>1. WorkGoes(c, "waiting")
    BY <1>5 DEF Fork
  <2>2. "waiting" \in WorkStates
    BY DEF WorkStates
  <2> QED BY <1>1, <2>1, <2>2, WorkGoesEffect, MoveKeeps
<1> QED BY <1>3, <1>4, <1>5

LEMMA WorkBeginsKeeps ==
    ASSUME JobInv, NEW c \in Calls, WorkBegins(c)
    PROVE  JobInv'
<1>1. /\ work[c].at = "waiting" /\ UNCHANGED <<job, final, published, promoted>>
      /\ JobType /\ WorkGoes(c, "working")
  BY DEF WorkBegins, JobInv
<1>2. PICK d \in Calls : /\ work[d].token = work[c].token
                         /\ work[d].seq + 1 = work[c].seq
                         /\ work[d].at \in {"settling", "over"}
  BY DEF WorkBegins, PreviousEnded
<1>3. Turn(c)
  <2> SUFFICES ASSUME NEW e \in Calls, work[e].token = work[c].token,
                      work[e].seq < work[c].seq
               PROVE  work[e].at \in {"settling", "over"} \/ work[e].token \in published
    BY DEF Turn
  <2>1. work[c].token \in Calls
    BY <1>1, HasToken
  <2>2. work[e].seq \in Nat /\ work[d].seq \in Nat
    BY <1>1, Typed DEF WorkRec
  <2>3. work[e].seq = work[d].seq \/ work[e].seq < work[d].seq
    BY <1>2, <2>2
  <2>4. CASE work[e].seq = work[d].seq
    BY <1>2, <2>1, <2>4 DEF JobInv, Numbered
  <2>5. CASE work[e].seq < work[d].seq
    BY <1>2, <2>5 DEF JobInv, Prefix
  <2> QED BY <2>3, <2>4, <2>5
<1>4. "working" \in WorkStates
  BY DEF WorkStates
<1> QED BY <1>1, <1>3, <1>4, WorkGoesEffect, MoveKeeps

LEMMA WorkInterruptedKeeps ==
    ASSUME JobInv, NEW c \in Calls, WorkInterrupted(c)
    PROVE  JobInv'
<1>1. /\ work[c].at \in {"waiting", "working", "settling"} /\ JobType
      /\ UNCHANGED <<job, final, published, promoted>> /\ WorkGoes(c, "over")
  BY DEF WorkInterrupted, JobInv
<1>2. Turn(c) /\ final[work[c].token].status # "none"
  BY DEF WorkInterrupted, Turn, JobInv, Registry
<1>3. "over" \in WorkStates
  BY DEF WorkStates
<1> QED BY <1>1, <1>2, <1>3, WorkGoesEffect, MoveKeeps

LEMMA WorkEndsKeeps ==
    ASSUME JobInv, NEW c \in Calls, NEW exit \in Exits, WorkEnds(c, exit)
    PROVE  JobInv'
<1>1. /\ work[c].at = "working" /\ JobType
      /\ UNCHANGED <<job, final, published, promoted>>
  BY DEF WorkEnds, JobInv
<1> QED BY <1>1, TurnCome, WorkEndsEffect, MoveKeeps

(* Work that is not current belongs to an incarnation that has ended.      *)
LEMMA SettleStaleKeeps ==
    ASSUME JobInv, NEW c \in Calls, work[c].at = "settling", ~Current(c),
           WorkGoes(c, "over"), UNCHANGED <<job, final, published, promoted>>
    PROVE  JobInv'
<1>1. work[c].token \in Calls /\ work[c].job \in Jobs /\ JobType
  BY HasToken DEF JobInv
<1>2. /\ work[work[c].token].token = work[c].token
      /\ work[work[c].token].job = work[c].job
  BY <1>1 DEF JobInv, Belongs
<1>3. final[work[c].token].status # "none"
  BY <1>1, <1>2 DEF JobInv, Registry, Current, IsRunning
<1>4. "over" \in WorkStates
  BY DEF WorkStates
<1> QED BY <1>1, <1>3, <1>4, TurnCome, WorkGoesEffect, MoveKeeps
(* What a running incarnation's settled work says of the output once c,    *)
(* which succeeded, is over as well.                                       *)
Outputs(j, c, o) ==
    /\ o \in Calls => work[o].token = job[j].token /\ (work[o].at = "over" \/ o = c)
    /\ \A d \in Calls : work[d].token = job[j].token /\ (work[d].at = "over" \/ d = c) =>
          o # None /\ work[d].seq <= work[o].seq

LEMMA OutputAfterLatest ==
    ASSUME JobInv, NEW c \in Calls, work[c].at = "settling", Current(c)
    PROVE  /\ OutputAfter(c) \in Calls \cup {None}
           /\ OutputAfter(c) # None => work[OutputAfter(c)].token = work[c].token
           /\ work[c].exit = "success" => Outputs(work[c].job, c, OutputAfter(c))
<1> DEFINE j == work[c].job
           now == job[j].output
<1>1. /\ j \in Jobs /\ IsRunning(j) /\ job[j].token = work[c].token
      /\ now \in Calls \cup {None} /\ JobType
  BY HasToken, Typed DEF Current, IsRunning, JobInv, JobRec
<1>2. /\ now # None => work[now].token = job[j].token /\ work[now].at = "over"
      /\ \A d \in Calls : work[d].token = job[j].token /\ work[d].at = "over" =>
            now # None /\ work[d].seq <= work[now].seq
  BY <1>1 DEF JobInv, LatestOutput
<1>3. \A d \in Calls : work[d].seq \in Nat
  BY <1>1, Typed DEF WorkRec
<1>4. OutputAfter(c) =
         IF work[c].exit = "success" /\ (now = None \/ work[c].seq > work[now].seq)
         THEN c ELSE now
  BY DEF OutputAfter
<1> HIDE DEF now
<1>5. CASE work[c].exit = "success" /\ (now = None \/ work[c].seq > work[now].seq)
  BY <1>1, <1>2, <1>3, <1>4, <1>5, JobNoneAssumption DEF Outputs
<1>6. CASE ~(work[c].exit = "success" /\ (now = None \/ work[c].seq > work[now].seq))
  BY <1>1, <1>2, <1>3, <1>4, <1>6, JobNoneAssumption DEF Outputs
<1> QED BY <1>5, <1>6

(* Settling work that is not the last.                                     *)
LEMMA SettleCountsKeeps ==
    ASSUME JobInv, NEW c \in Calls, Settle(c), Current(c), NEW j, j = work[c].job,
           work[c].exit = "success", job[j].pending > 1
    PROVE  JobInv'
<1> DEFINE o == OutputAfter(c)
           r == [job[j] EXCEPT !.pending = @ - 1, !.output = o]
<1>0. /\ work[c].at = "settling" /\ WorkGoes(c, "over")
      /\ UNCHANGED <<published, promoted>>
  BY DEF Settle
<1>1. /\ j \in Jobs /\ IsRunning(j) /\ work[c].token \in Calls
      /\ job[j].token = work[c].token /\ JobType
  BY <1>0, HasToken DEF Current, IsRunning, JobInv
<1>2. WorkMoves(c, "over") /\ work'[c].exit = "success" /\ SameWork
  <2>1. "over" \in WorkStates
    BY DEF WorkStates
  <2> QED BY <1>0, <1>1, <2>1, WorkGoesEffect, MovesSameWork
<1>3. o \in Calls \cup {None} /\ Outputs(j, c, o)
  BY <1>0, OutputAfterLatest
<1> HIDE DEF o
<1>4. job[j] \in JobRec /\ job[j].pending \in Nat /\ job[j].pending - 1 \in Nat
  BY <1>1, Typed DEF JobRec
<1>16. /\ final' = final
       /\ job' = [job EXCEPT ![j].pending = @ - 1, ![j].output = o]
  <2>1. ~(job[j].pending <= 1)
    BY <1>4
  <2> QED BY <2>1 DEF Settle, o
<1>5. r \in JobRec
  BY <1>3, <1>4 DEF JobRec
<1>6. job' = [job EXCEPT ![j] = r]
  BY <1>16, <1>4 DEF JobRec
<1>7. /\ r.status = job[j].status /\ r.token = job[j].token /\ r.next = job[j].next
      /\ r.pending = job[j].pending - 1 /\ r.output = o
  BY <1>3, <1>4 DEF JobRec
<1> HIDE DEF r
<1>8. job' \in [Jobs -> JobRec] /\ JobKept(j) /\ job'[j] = r
  BY <1>1, <1>5, <1>6, Typed DEF JobKept
<1>9. SameJobs /\ \A i \in Jobs : IsRunning(i)' <=> IsRunning(i)
  BY <1>7, <1>8 DEF SameJobs, JobKept, IsRunning
<1>10. Belongs' /\ Numbered' /\ JobType'
  BY <1>0, <1>16, <1>1, <1>2, <1>8, <1>9, BelongsKept DEF WorkMoves, JobType, JobRec, WorkRec
<1>11. Registry'
  <2>1. \A i \in Jobs : IsRunning(i)' =>
           job'[i].token \in Calls /\ final'[job'[i].token] = NotEnded
    BY <1>0, <1>16, <1>9 DEF JobInv, Registry, SameJobs
  <2>2. \A i \in Jobs : job'[i].token = None => job'[i] = NoJob
    BY <1>1, <1>7, <1>8, JobNoneAssumption DEF JobInv, Registry, JobKept
  <2>3. \A t \in Calls : work'[t].token = t /\ final'[t].status = "none" =>
           IsRunning(work[t].job)' /\ job'[work'[t].job].token = t
    <3> SUFFICES ASSUME NEW t \in Calls, work[t].token = t, final[t].status = "none"
                 PROVE  IsRunning(work[t].job)' /\ job'[work[t].job].token = t
      BY <1>0, <1>16, <1>2 DEF SameWork
    <3>1. work[t].job \in Jobs /\ IsRunning(work[t].job) /\ job[work[t].job].token = t
      BY DEF JobInv, Belongs, Registry
    <3>2. work'[t].job = work[t].job
      BY <1>2 DEF SameWork
    <3> QED BY <3>1, <3>2, <1>9 DEF SameJobs, IsRunning
  <2>4. /\ \A t \in published' : final'[t].status # "none"
        /\ \A t \in Calls : work'[t].token # t => final'[t] = NotEnded
    BY <1>0, <1>16, <1>2 DEF JobInv, Registry, SameWork
  <2> QED BY <2>1, <2>2, <2>3, <2>4, <1>2 DEF Registry, IsRunning, SameWork
<1>12. Prefix'
  BY <1>0, <1>2, TurnCome DEF JobInv, Prefix, Turn, SameWork, WorkMoves, WorkKept
<1>13. ASSUME NEW i \in Jobs \ {j}, IsRunning(i)
       PROVE  /\ job'[i] = job[i]
              /\ \A d \in Calls : work[d].token = job[i].token => work'[d] = work[d]
              /\ job[i].token # work[c].token
  BY <1>1, <1>2, <1>8, <1>13, OneJob DEF JobKept, WorkMoves, WorkKept
<1>14. Counted'
  <2> SUFFICES ASSUME NEW i \in Jobs, IsRunning(i)
               PROVE  /\ IsFiniteSet(Unsettled(job[i].token)')
                      /\ job'[i].pending = Cardinality(Unsettled(job[i].token)')
    BY <1>9 DEF Counted, SameJobs, IsRunning
  <2>1. /\ IsFiniteSet(Unsettled(job[i].token))
        /\ job[i].pending = Cardinality(Unsettled(job[i].token))
    BY DEF JobInv, Counted
  <2>2. CASE i # j
    <3>1. job'[i] = job[i]
          /\ \A d \in Calls : work'[d].token = work[d].token
                /\ (work[d].token = job[i].token => work'[d] = work[d])
      BY <1>2, <1>13, <2>2 DEF SameWork
    <3>2. Unsettled(job[i].token)' = Unsettled(job[i].token)
      BY <3>1 DEF Unsettled
    <3> QED BY <2>1, <3>1, <3>2
  <2>3. CASE i = j
    <3>1. c \in Unsettled(job[j].token)
      BY <1>0, <1>1 DEF Unsettled
    <3>2. job'[j].token = job[j].token /\ job'[j].pending = job[j].pending - 1
      BY <1>7, <1>8
    <3>3. \A d \in Calls : work'[d].token = work[d].token
             /\ (work'[d].at = "over" <=> work[d].at = "over" \/ d = c)
      BY <1>2 DEF SameWork, WorkMoves, WorkKept
    <3>4. Unsettled(job[j].token)' = Unsettled(job[j].token) \ {c}
      BY <3>2, <3>3 DEF Unsettled
    <3>5. /\ IsFiniteSet(Unsettled(job[j].token) \ {c})
          /\ Cardinality(Unsettled(job[j].token) \ {c}) =
                Cardinality(Unsettled(job[j].token)) - 1
      BY <2>1, <2>3, <3>1, FS_RemoveElement
    <3> QED BY <2>1, <2>3, <3>2, <3>4, <3>5
  <2> QED BY <2>2, <2>3
<1>15. OverSucceeded' /\ LatestOutput'
  <2> SUFFICES ASSUME NEW i \in Jobs, IsRunning(i)
               PROVE  /\ \A d \in Calls : work'[d].token = job'[i].token /\ work'[d].at = "over"
                            => /\ work'[d].exit = "success" /\ job'[i].output # None
                               /\ work'[d].seq <= work'[job'[i].output].seq
                      /\ job'[i].output # None =>
                            /\ work'[job'[i].output].token = job'[i].token
                            /\ work'[job'[i].output].at = "over"
    BY <1>9 DEF OverSucceeded, LatestOutput
  <2>1. \A d \in Calls : work[d].token = job[i].token /\ work[d].at = "over"
           => work[d].exit = "success"
    BY DEF JobInv, OverSucceeded
  <2>2. CASE i # j
    <3>1. job'[i] = job[i]
          /\ \A d \in Calls : work'[d].token = work[d].token
                /\ (work[d].token = job[i].token => work'[d] = work[d])
      BY <1>2, <1>13, <2>2 DEF SameWork
    <3>2. job[i].output # None => job[i].output \in Calls
      BY <1>1, Typed DEF JobRec
    <3> QED BY <2>1, <3>1, <3>2 DEF JobInv, LatestOutput
  <2>3. CASE i = j
    <3>1. job'[j].token = job[j].token /\ job'[j].output = o
      BY <1>7, <1>8
    <3>2. \A d \in Calls : work'[d].token = work[d].token /\ work'[d].seq = work[d].seq
             /\ (work'[d].at = "over" <=> work[d].at = "over" \/ d = c)
             /\ (d # c => work'[d] = work[d])
      BY <1>2 DEF SameWork, WorkMoves, WorkKept
    <3> QED BY <1>2, <1>3, <2>1, <2>3, <3>1, <3>2 DEF Outputs
  <2> QED BY <2>2, <2>3
<1>17. OwnResult'
  <2>1. \A i \in Jobs : job'[i].output # None => work'[job'[i].output].token = job'[i].token
    <3>1. ASSUME NEW i \in Jobs, i # j, job[i].output # None
          PROVE  job'[i] = job[i] /\ work'[job[i].output].token = job[i].token
      <4>1. job[i].output \in Calls /\ work[job[i].output].token = job[i].token
        BY <1>1, <3>1, Typed DEF JobRec, JobInv, OwnResult
      <4> QED BY <1>2, <1>8, <3>1, <4>1 DEF SameWork, JobKept
    <3>2. o # None => work'[o].token = job[j].token
      BY <1>2, <1>3 DEF SameWork, Outputs
    <3> QED BY <1>7, <1>8, <3>1, <3>2 DEF JobKept
  <2>2. \A t \in Calls : final'[t].output # None => work'[final'[t].output].token = t
    <3>1. ASSUME NEW t \in Calls, final[t].output # None
          PROVE  final[t].output \in Calls /\ work[final[t].output].token = t
      BY <1>1, <3>1, Typed DEF FinalRec, JobInv, OwnResult
    <3> QED BY <1>2, <1>16, <3>1 DEF SameWork
  <2> QED BY <2>1, <2>2 DEF OwnResult
<1>18. CompletedIsComplete'
  <2> SUFFICES ASSUME NEW t \in Calls, final[t].status = "completed"
               PROVE  /\ \A d \in Calls : work'[d].token = t =>
                            work'[d].at = "over" /\ work'[d].exit = "success"
                      /\ final[t].output # None
                      /\ \A d \in Calls : work'[d].token = t =>
                            work'[d].seq <= work'[final[t].output].seq
    BY <1>16 DEF CompletedIsComplete
  <2>1. /\ \A d \in Calls : work[d].token = t =>
               work[d].at = "over" /\ work[d].exit = "success"
        /\ final[t].output # None
        /\ \A d \in Calls : work[d].token = t =>
               work[d].seq <= work[final[t].output].seq
    BY DEF JobInv, CompletedIsComplete
  <2>2. final[t].output \in Calls /\ work[c].token # t
    BY <1>0, <1>1, <2>1, Typed DEF FinalRec
  <2> QED BY <1>2, <2>1, <2>2 DEF SameWork, WorkMoves, WorkKept
<1> QED BY <1>10, <1>11, <1>12, <1>14, <1>15, <1>17, <1>18 DEF JobInv
(* Ending a running incarnation t keeps the invariant, if the output is    *)
(* its own, and if it is complete when it is completed.                    *)
LEMMA EndKeeps ==
    ASSUME JobInv, NEW j \in Jobs, IsRunning(j), NEW t, t = job[j].token,
           NEW status \in Ended, NEW output \in Calls \cup {None},
           EndsWith(j, status, output), UNCHANGED <<published, promoted>>,
           SameWork, work' \in [Calls -> WorkRec],
           \A d \in Calls : work[d].token # t => work'[d] = work[d],
           \A d \in Calls :
               /\ work[d].at \in {"settling", "over"} => work'[d].at \in {"settling", "over"}
               /\ work'[d].at \in {"working", "settling", "over"} =>
                     work[d].at \in {"working", "settling", "over"},
           output # None => work[output].token = t,
           status = "completed" =>
               /\ output # None
               /\ \A d \in Calls : work[d].token = t =>
                     /\ work'[d].at = "over" /\ work'[d].exit = "success"
                     /\ work[d].seq <= work[output].seq
    PROVE  JobInv'
<1>1. t \in Calls /\ final[t] = NotEnded /\ JobType /\ t \notin published
  BY RunningToken DEF JobInv
<1>2. /\ job' \in [Jobs -> JobRec] /\ JobKept(j)
      /\ job'[j].status = status /\ job'[j].output = output
      /\ job'[j].token = t
      /\ final' \in [Calls -> FinalRec]
      /\ \A u \in Calls \ {t} : final'[u] = final[u]
      /\ final'[t].status = status /\ final'[t].output = output
  BY <1>1, EndsEffect
<1>3. status # "running" /\ status # "none"
  BY DEF Ended
<1>4. job'[j].next = job[j].next
  BY <1>1, Typed DEF EndsWith, JobRec
<1>5. SameJobs /\ \A i \in Jobs : IsRunning(i)' <=> IsRunning(i) /\ i # j
  BY <1>2, <1>3, <1>4 DEF SameJobs, JobKept, IsRunning
<1>6. Belongs' /\ Numbered' /\ JobType'
  BY <1>1, <1>2, <1>5, BelongsKept DEF JobType, JobRec, WorkRec, FinalRec
<1>7. ASSUME NEW i \in Jobs \ {j}, IsRunning(i)
      PROVE  /\ job'[i] = job[i] /\ job[i].token # t /\ job[i].token \in Calls
             /\ \A d \in Calls : work[d].token = job[i].token => work'[d] = work[d]
  BY <1>1, <1>2, <1>7, OneJob, RunningToken DEF JobKept
<1>8. Registry'
  <2>1. \A i \in Jobs : IsRunning(i)' =>
           job'[i].token \in Calls /\ final'[job'[i].token] = NotEnded
    BY <1>2, <1>5, <1>7, RunningToken
  <2>2. \A i \in Jobs : job'[i].token = None => job'[i] = NoJob
    BY <1>1, <1>2, JobNoneAssumption DEF JobInv, Registry, JobKept
  <2>3. ASSUME NEW u \in Calls, work[u].token = u, final'[u].status = "none"
        PROVE  IsRunning(work[u].job)' /\ job'[work[u].job].token = u
    <3>1. u # t /\ final[u].status = "none"
      BY <1>2, <1>3, <2>3
    <3>2. work[u].job \in Jobs /\ IsRunning(work[u].job) /\ job[work[u].job].token = u
      BY <2>3, <3>1 DEF JobInv, Belongs, Registry
    <3>3. work[u].job # j /\ work'[u].job = work[u].job
      BY <2>3, <3>1, <3>2 DEF SameWork
    <3> QED BY <1>5, <3>2, <3>3 DEF SameJobs, IsRunning
  <2>4. \A u \in published' : final'[u].status # "none"
    BY <1>1, <1>2, <1>3 DEF JobInv, Registry, JobType
  <2>5. \A u \in Calls : work'[u].token # u => final'[u] = NotEnded
    <3>1. work[t].token = t
      BY <1>1 DEF JobInv, Belongs
    <3> QED BY <1>2, <3>1 DEF JobInv, Registry, SameWork
  <2> QED BY <2>1, <2>2, <2>3, <2>4, <2>5 DEF Registry, IsRunning, SameWork
<1>9. Prefix'
  BY DEF JobInv, Prefix, SameWork
<1>10. Counted'
  <2> SUFFICES ASSUME NEW i \in Jobs \ {j}, IsRunning(i)
               PROVE  /\ IsFiniteSet(Unsettled(job[i].token)')
                      /\ job'[i].pending = Cardinality(Unsettled(job[i].token)')
    BY <1>5 DEF Counted
  <2>1. /\ IsFiniteSet(Unsettled(job[i].token))
        /\ job[i].pending = Cardinality(Unsettled(job[i].token))
    BY DEF JobInv, Counted
  <2>2. job'[i] = job[i]
        /\ \A d \in Calls : work'[d].token = work[d].token
              /\ (work[d].token = job[i].token => work'[d] = work[d])
    BY <1>7 DEF SameWork
  <2>3. Unsettled(job[i].token)' = Unsettled(job[i].token)
    BY <2>2 DEF Unsettled
  <2> QED BY <2>1, <2>2, <2>3
<1>11. OverSucceeded' /\ LatestOutput'
  <2> SUFFICES ASSUME NEW i \in Jobs \ {j}, IsRunning(i)
               PROVE  /\ \A d \in Calls : work'[d].token = job'[i].token /\ work'[d].at = "over"
                            => /\ work'[d].exit = "success" /\ job'[i].output # None
                               /\ work'[d].seq <= work'[job'[i].output].seq
                      /\ job'[i].output # None =>
                            /\ work'[job'[i].output].token = job'[i].token
                            /\ work'[job'[i].output].at = "over"
    BY <1>5 DEF OverSucceeded, LatestOutput
  <2>1. \A d \in Calls : work[d].token = job[i].token /\ work[d].at = "over"
           => work[d].exit = "success"
    BY DEF JobInv, OverSucceeded
  <2>2. job'[i] = job[i]
        /\ \A d \in Calls : work'[d].token = work[d].token
              /\ (work[d].token = job[i].token => work'[d] = work[d])
    BY <1>7 DEF SameWork
  <2>3. job[i].output # None => job[i].output \in Calls
    BY <1>1, Typed DEF JobRec
  <2> QED BY <2>1, <2>2, <2>3 DEF JobInv, LatestOutput
<1>12. OwnResult'
  <2>1. ASSUME NEW i \in Jobs \ {j}, job[i].output # None
        PROVE  job'[i] = job[i] /\ work'[job[i].output].token = job[i].token
    <3>1. job[i].output \in Calls /\ work[job[i].output].token = job[i].token
      BY <1>1, <2>1, Typed DEF JobRec, JobInv, OwnResult
    <3> QED BY <1>2, <3>1 DEF SameWork, JobKept
  <2>2. ASSUME NEW u \in Calls, final[u].output # None
        PROVE  final[u].output \in Calls /\ work[final[u].output].token = u
    BY <1>1, <2>2, Typed DEF FinalRec, JobInv, OwnResult
  <2>3. output # None => work'[output].token = t
    BY DEF SameWork
  <2> QED BY <1>2, <2>1, <2>2, <2>3 DEF OwnResult, SameWork, JobKept
<1>13. CompletedIsComplete'
  <2> SUFFICES ASSUME NEW u \in Calls, final'[u].status = "completed"
               PROVE  /\ \A d \in Calls : work'[d].token = u =>
                            work'[d].at = "over" /\ work'[d].exit = "success"
                      /\ final'[u].output # None
                      /\ \A d \in Calls : work'[d].token = u =>
                            work'[d].seq <= work'[final'[u].output].seq
    BY DEF CompletedIsComplete
  <2>1. CASE u = t
    BY <1>2, <2>1 DEF SameWork
  <2>2. CASE u # t
    <3>1. final'[u] = final[u]
      BY <1>2, <2>2
    <3>2. /\ \A d \in Calls : work[d].token = u =>
                work[d].at = "over" /\ work[d].exit = "success"
          /\ final[u].output # None
          /\ \A d \in Calls : work[d].token = u =>
                work[d].seq <= work[final[u].output].seq
      BY <3>1 DEF JobInv, CompletedIsComplete
    <3>3. final[u].output \in Calls
      BY <1>1, <3>2, Typed DEF FinalRec
    <3> QED BY <2>2, <3>1, <3>2, <3>3 DEF SameWork
  <2> QED BY <2>1, <2>2
<1> QED BY <1>6, <1>8, <1>9, <1>10, <1>11, <1>12, <1>13 DEF JobInv

LEMMA CancelKeeps ==
    ASSUME JobInv, NEW j \in Jobs, CancelJob(j)
    PROVE  JobInv'
<1>1. /\ IsRunning(j) /\ EndsWith(j, "cancelled", job[j].output)
      /\ UNCHANGED <<work, published, promoted>> /\ JobType
  BY DEF CancelJob, JobInv
<1>2. SameWork /\ work' \in [Calls -> WorkRec]
  BY <1>1, Typed DEF SameWork
<1>3. job[j].output \in Calls \cup {None} /\ "cancelled" \in Ended
  BY <1>1, Typed DEF JobRec, Ended
<1>4. job[j].output # None => work[job[j].output].token = job[j].token
  BY DEF JobInv, OwnResult
<1> QED BY <1>1, <1>2, <1>3, <1>4, EndKeeps

(* The last work that succeeds, or any that fails, ends the job.           *)
LEMMA SettleEndsKeeps ==
    ASSUME JobInv, NEW c \in Calls, Settle(c), Current(c),
           work[c].exit # "success" \/ job[work[c].job].pending <= 1
    PROVE  JobInv'
<1> DEFINE j == work[c].job
           o == OutputAfter(c)
           status == StatusOf(work[c].exit)
<1>1. /\ work[c].at = "settling" /\ WorkGoes(c, "over")
      /\ UNCHANGED <<published, promoted>>
  BY DEF Settle
<1>2. /\ j \in Jobs /\ IsRunning(j) /\ work[c].token \in Calls
      /\ job[j].token = work[c].token /\ JobType
  BY <1>1, HasToken DEF Current, IsRunning, JobInv
<1>3. work[c].exit \in Exits /\ job[j].pending \in Nat
  BY <1>2, Typed DEF WorkRec, JobRec
<1>4. EndsWith(j, status, o)
  BY <1>3 DEF Settle
<1>5. /\ status \in Ended
      /\ status = "completed" => work[c].exit = "success"
  BY <1>3 DEF StatusOf, Ended, Exits
<1>6. WorkMoves(c, "over") /\ work'[c].exit = work[c].exit /\ SameWork
  <2>1. "over" \in WorkStates
    BY DEF WorkStates
  <2> QED BY <1>1, <1>2, <2>1, WorkGoesEffect, MovesSameWork
<1>7. o \in Calls \cup {None} /\ (o # None => work[o].token = work[c].token)
  BY <1>1, OutputAfterLatest
<1>8. work[c].exit = "success" =>
         /\ o # None
         /\ \A d \in Calls : work[d].token = work[c].token =>
               /\ work'[d].at = "over" /\ work'[d].exit = "success"
               /\ work[d].seq <= work[o].seq
  <2> SUFFICES ASSUME work[c].exit = "success"
               PROVE  /\ o # None
                      /\ \A d \in Calls : work[d].token = work[c].token =>
                            /\ work'[d].at = "over" /\ work'[d].exit = "success"
                            /\ work[d].seq <= work[o].seq
    OBVIOUS
  <2>1. Outputs(j, c, o)
    BY <1>1, OutputAfterLatest
  <2>2. /\ IsFiniteSet(Unsettled(work[c].token))
        /\ Cardinality(Unsettled(work[c].token)) <= 1
    BY <1>2 DEF JobInv, Counted
  <2>3. c \in Unsettled(work[c].token)
    BY <1>1, <1>2 DEF Unsettled
  <2>4. ASSUME NEW d \in Calls, work[d].token = work[c].token, d # c
        PROVE  work[d].at = "over"
    <3> SUFFICES ASSUME d \in Unsettled(work[c].token)
                 PROVE  FALSE
      BY <2>4 DEF Unsettled
    <3>1. /\ IsFiniteSet(Unsettled(work[c].token) \ {c})
          /\ Cardinality(Unsettled(work[c].token) \ {c}) =
                Cardinality(Unsettled(work[c].token)) - 1
      BY <2>2, <2>3, FS_RemoveElement
    <3>2. Cardinality(Unsettled(work[c].token) \ {c}) = 0
      BY <2>2, <3>1, FS_CardinalityType
    <3>3. Unsettled(work[c].token) \ {c} = {}
      BY <3>1, <3>2, FS_EmptySet
    <3> QED BY <2>4, <3>3
  <2>5. \A d \in Calls : work[d].token = work[c].token /\ work[d].at = "over" =>
           work[d].exit = "success"
    BY <1>2 DEF JobInv, OverSucceeded
  <2> QED BY <1>2, <1>6, <2>1, <2>4, <2>5 DEF Outputs, WorkMoves, WorkKept
<1> HIDE DEF o, status
<1>9. work' \in [Calls -> WorkRec] /\ \A d \in Calls : d # c => work'[d] = work[d]
  BY <1>6 DEF WorkMoves, WorkKept
<1>10. \A d \in Calls :
          /\ work[d].at \in {"settling", "over"} => work'[d].at \in {"settling", "over"}
          /\ work'[d].at \in {"working", "settling", "over"} =>
                work[d].at \in {"working", "settling", "over"}
  BY <1>1, <1>6, <1>9 DEF WorkMoves
<1> QED BY <1>1, <1>2, <1>4, <1>5, <1>6, <1>7, <1>8, <1>9, <1>10, EndKeeps

LEMMA SettleKeeps ==
    ASSUME JobInv, NEW c \in Calls, Settle(c)
    PROVE  JobInv'
<1>1. CASE ~Current(c)
  BY <1>1, SettleStaleKeeps DEF Settle
<1>2. CASE Current(c) /\ (work[c].exit # "success" \/ job[work[c].job].pending <= 1)
  BY <1>2, SettleEndsKeeps
<1>3. CASE Current(c) /\ work[c].exit = "success" /\ job[work[c].job].pending > 1
  BY <1>3, SettleCountsKeeps
<1>4. Current(c) => job[work[c].job].pending \in Nat
  BY HasToken, Typed DEF Settle, JobInv, JobRec
<1> QED BY <1>1, <1>2, <1>3, <1>4
(* Work that is registered, on a new incarnation or on a running one.      *)
LEMMA NewWork ==
    ASSUME JobInv, NEW c \in Calls, Unused(c), NEW j \in Jobs, NEW t \in Calls,
           NEW seq \in Nat, Registers(c, j, t, seq)
    PROVE  /\ work' \in [Calls -> WorkRec]
           /\ \A d \in Calls : d # c => work'[d] = work[d]
           /\ work'[c].at = "fork" /\ work'[c].job = j /\ work'[c].token = t
           /\ work'[c].seq = seq /\ work[c].token = None
<1>1. /\ work' \in [Calls -> WorkRec] /\ WorkKept(c)
      /\ work'[c] = [at |-> "fork", job |-> j, token |-> t, seq |-> seq,
                     exit |-> "success"]
  BY RegistersEffect DEF JobInv
<1>2. work[c].token = None
  BY DEF Unused, NoWork
<1> QED BY <1>1, <1>2 DEF WorkKept

(* What has ended does not refer to unused work.                           *)
LEMMA EndedKept ==
    ASSUME JobInv, NEW c \in Calls, NEW t \in Calls, work[c].token = None,
           \A d \in Calls : d # c => work'[d] = work[d],
           work'[c].token # t
    PROVE  /\ final[t].output # None => work'[final[t].output].token = t
           /\ final[t].status = "completed" =>
                /\ \A d \in Calls : work'[d].token = t =>
                      work'[d].at = "over" /\ work'[d].exit = "success"
                /\ final[t].output # None
                /\ \A d \in Calls : work'[d].token = t =>
                      work'[d].seq <= work'[final[t].output].seq
<1>1. final[t].output # None =>
        /\ final[t].output \in Calls \ {c} /\ work[final[t].output].token = t
  BY JobNoneAssumption, Typed DEF JobInv, OwnResult, FinalRec
<1> QED BY <1>1 DEF JobInv, CompletedIsComplete

LEMMA StartKeeps ==
    ASSUME JobInv, NEW c \in Calls, Unused(c), NEW j \in Jobs, NEW mode \in Modes,
           StartRegisters(c, j, mode)
    PROVE  JobInv'
<1>1. /\ ~IsRunning(j) /\ Registers(c, j, c, 0) /\ JobType
      /\ UNCHANGED <<final, published, promoted>>
  BY DEF StartRegisters, JobInv
<1>2. /\ work' \in [Calls -> WorkRec]
      /\ \A d \in Calls : d # c => work'[d] = work[d]
      /\ work'[c].at = "fork" /\ work'[c].job = j /\ work'[c].token = c
      /\ work'[c].seq = 0 /\ work[c].token = None
  BY <1>1, NewWork
<1>3. job' \in [Jobs -> JobRec] /\ JobKept(j)
      /\ job'[j] = [status |-> "running", token |-> c, pending |-> 1,
                    next |-> 1, output |-> None, mode |-> mode]
  BY <1>1, StartEffect
<1>4. /\ job'[j].status = "running" /\ job'[j].token = c /\ job'[j].pending = 1
      /\ job'[j].next = 1 /\ job'[j].output = None
      /\ \A i \in Jobs : i # j => job'[i] = job[i]
  BY <1>3 DEF JobKept
<1>5. /\ final[c] = NotEnded /\ c \notin published
      /\ \A d \in Calls : work[d].token # c
      /\ \A i \in Jobs : job[i].token # c
  BY DEF Unused
<1>6. JobType'
  BY <1>1, <1>2, <1>3 DEF JobType, JobRec, WorkRec
<1>7. Belongs'
  <2>1. \A d \in Calls : work'[d].token \in Calls =>
          /\ work'[d].job \in Jobs /\ work'[d].at # "none"
          /\ work'[work'[d].token].token = work'[d].token
          /\ work'[work'[d].token].job = work'[d].job
    BY <1>2, <1>5, HasToken DEF JobInv, Belongs
  <2>2. \A d \in Calls : work'[d].token = None => work'[d] = NoWork
    BY <1>2, JobNoneAssumption DEF JobInv, Belongs
  <2>3. \A i \in Jobs : job'[i].token \in Calls =>
          /\ work'[job'[i].token].token = job'[i].token
          /\ work'[job'[i].token].job = i
    BY <1>2, <1>4, <1>5 DEF JobInv, Belongs
  <2> QED BY <2>1, <2>2, <2>3 DEF Belongs
<1>8. Registry'
  <2>1. \A i \in Jobs : IsRunning(i)' =>
           job'[i].token \in Calls /\ final[job'[i].token] = NotEnded
    BY <1>4, <1>5 DEF JobInv, Registry, IsRunning
  <2>2. \A i \in Jobs : job'[i].token = None => job'[i] = NoJob
    BY <1>4, JobNoneAssumption DEF JobInv, Registry
  <2>3. ASSUME NEW t \in Calls, work'[t].token = t, final[t].status = "none"
        PROVE  job'[work'[t].job].status = "running" /\ job'[work'[t].job].token = t
    <3>1. CASE t = c
      BY <1>2, <1>4, <3>1
    <3>2. CASE t # c
      <4>1. /\ work'[t] = work[t] /\ work[t].job \in Jobs
            /\ IsRunning(work[t].job) /\ job[work[t].job].token = t
        BY <1>2, <2>3, <3>2 DEF JobInv, Registry, Belongs
      <4>2. work[t].job # j
        BY <1>1, <4>1
      <4> QED BY <1>4, <4>1, <4>2 DEF IsRunning
    <3> QED BY <3>1, <3>2
  <2>4. \A t \in published : final[t].status # "none"
    BY DEF JobInv, Registry
  <2>5. \A t \in Calls : work'[t].token # t => final[t] = NotEnded
    BY <1>2 DEF JobInv, Registry
  <2> QED BY <1>1, <2>1, <2>2, <2>3, <2>4, <2>5 DEF Registry, IsRunning
<1>9. Numbered'
  <2>1. \A d, e \in Calls : work'[d].token \in Calls /\ work'[d].token = work'[e].token
                              /\ work'[d].seq = work'[e].seq => d = e
    BY <1>2, <1>5 DEF JobInv, Numbered
  <2>2. \A i \in Jobs, d \in Calls : IsRunning(i)' /\ work'[d].token = job'[i].token =>
           work'[d].seq < job'[i].next
    BY <1>2, <1>4, <1>5 DEF JobInv, Numbered, IsRunning
  <2> QED BY <2>1, <2>2 DEF Numbered
<1>10. Prefix'
  BY <1>1, <1>2, <1>5 DEF JobInv, Prefix
<1>11. ASSUME NEW i \in Jobs, i # j, IsRunning(i)
       PROVE  /\ job'[i] = job[i] /\ job[i].token # c /\ job[i].token # None
              /\ \A d \in Calls : work[d].token = job[i].token \/ work'[d].token = job[i].token
                    => work'[d] = work[d]
  BY <1>2, <1>4, <1>5, <1>11, RunningToken, JobNoneAssumption
<1>12. Counted'
  <2> SUFFICES ASSUME NEW i \in Jobs, IsRunning(i)'
               PROVE  /\ IsFiniteSet(Unsettled(job[i].token)')
                      /\ job'[i].pending = Cardinality(Unsettled(job[i].token)')
    BY DEF Counted
  <2>1. CASE i = j
    <3>1. Unsettled(job[i].token)' = {c}
      BY <1>2, <1>4, <1>5, <2>1 DEF Unsettled
    <3> QED BY <1>4, <2>1, <3>1, FS_Singleton
  <2>2. CASE i # j
    <3>1. IsRunning(i) /\ job'[i] = job[i]
      BY <1>4, <2>2 DEF IsRunning
    <3>2. Unsettled(job[i].token)' = Unsettled(job[i].token)
      BY <1>11, <2>2, <3>1 DEF Unsettled
    <3> QED BY <3>1, <3>2 DEF JobInv, Counted
  <2> QED BY <2>1, <2>2
<1>13. OverSucceeded'
  BY <1>2, <1>4, <1>5 DEF JobInv, OverSucceeded, IsRunning
<1>14. LatestOutput'
  <2> SUFFICES ASSUME NEW i \in Jobs, IsRunning(i)'
               PROVE  /\ job'[i].output # None =>
                            /\ work'[job'[i].output].token = job'[i].token
                            /\ work'[job'[i].output].at = "over"
                      /\ \A d \in Calls :
                            work'[d].token = job'[i].token /\ work'[d].at = "over" =>
                            job'[i].output # None /\ work'[d].seq <= work'[job'[i].output].seq
    BY DEF LatestOutput
  <2>1. CASE i = j
    BY <1>2, <1>4, <1>5, <2>1
  <2>2. CASE i # j
    <3>1. IsRunning(i) /\ job'[i] = job[i]
      BY <1>4, <2>2 DEF IsRunning
    <3>2. job[i].output # None => job[i].output \in Calls
      BY <1>1, Typed DEF JobRec
    <3> QED BY <1>11, <2>2, <3>1, <3>2 DEF JobInv, LatestOutput
  <2> QED BY <2>1, <2>2
<1>15. ASSUME NEW t \in Calls, t # c
       PROVE  /\ final[t].output # None => work'[final[t].output].token = t
              /\ final[t].status = "completed" =>
                   /\ \A d \in Calls : work'[d].token = t =>
                         work'[d].at = "over" /\ work'[d].exit = "success"
                   /\ final[t].output # None
                   /\ \A d \in Calls : work'[d].token = t =>
                         work'[d].seq <= work'[final[t].output].seq
  BY <1>1, <1>2, <1>15, EndedKept
<1>16. final[c].output = None /\ final[c].status = "none"
  BY <1>5 DEF NotEnded
<1>17. OwnResult'
  <2>1. ASSUME NEW i \in Jobs, i # j, job[i].output # None
        PROVE  job'[i] = job[i] /\ work'[job[i].output].token = job[i].token
    <3>1. job[i].output \in Calls /\ work[job[i].output].token = job[i].token
      BY <1>1, <2>1, Typed DEF JobRec, JobInv, OwnResult
    <3>2. job[i].token # None
      BY <2>1 DEF JobInv, Registry, NoJob
    <3> QED BY <1>2, <1>4, <2>1, <3>1, <3>2
  <2> QED BY <1>1, <1>4, <1>15, <1>16, <2>1 DEF OwnResult
<1>18. CompletedIsComplete'
  BY <1>1, <1>15, <1>16 DEF CompletedIsComplete
<1> QED BY <1>6, <1>7, <1>8, <1>9, <1>10, <1>12, <1>13, <1>14, <1>17, <1>18 DEF JobInv
LEMMA ExtendKeeps ==
    ASSUME JobInv, NEW c \in Calls, Unused(c), NEW j \in Jobs, ExtendRegisters(c, j)
    PROVE  JobInv'
<1> DEFINE t == job[j].token
<1>1. /\ IsRunning(j) /\ Registers(c, j, t, job[j].next) /\ JobType
      /\ UNCHANGED <<final, published, promoted>>
  BY DEF ExtendRegisters, JobInv
<1>2. /\ t \in Calls /\ final[t] = NotEnded /\ job[j].next \in Nat
      /\ job[j].pending \in Nat
  BY <1>1, RunningToken, Typed DEF JobRec
<1>3. /\ work' \in [Calls -> WorkRec]
      /\ \A d \in Calls : d # c => work'[d] = work[d]
      /\ work'[c].at = "fork" /\ work'[c].job = j /\ work'[c].token = t
      /\ work'[c].seq = job[j].next /\ work[c].token = None
  BY <1>1, <1>2, NewWork
<1>4. job' \in [Jobs -> JobRec] /\ JobKept(j)
      /\ job'[j] = [job[j] EXCEPT !.pending = @ + 1, !.next = @ + 1]
  BY <1>1, ExtendEffect
<1>5. /\ job'[j].status = "running" /\ job'[j].token = t
      /\ job'[j].pending = job[j].pending + 1 /\ job'[j].next = job[j].next + 1
      /\ job'[j].output = job[j].output
      /\ \A i \in Jobs : i # j => job'[i] = job[i]
  BY <1>1, <1>4, Typed DEF JobKept, JobRec, IsRunning
<1>6. /\ final[c] = NotEnded /\ c \notin published
      /\ \A d \in Calls : work[d].token # c
      /\ \A i \in Jobs : job[i].token # c
  BY DEF Unused
<1>7. /\ \A i \in Jobs : job'[i].token = job[i].token /\ job'[i].output = job[i].output
      /\ \A i \in Jobs : IsRunning(i)' <=> IsRunning(i)
  BY <1>1, <1>5 DEF IsRunning
<1>8. JobType'
  BY <1>1, <1>3, <1>4 DEF JobType, JobRec, WorkRec
<1>9. work[t].token = t /\ work[t].job = j /\ t # c
  BY <1>2, <1>6 DEF JobInv, Belongs
<1> HIDE DEF t
<1>10. Belongs'
  <2>1. \A d \in Calls : work'[d].token \in Calls =>
          /\ work'[d].job \in Jobs /\ work'[d].at # "none"
          /\ work'[work'[d].token].token = work'[d].token
          /\ work'[work'[d].token].job = work'[d].job
    BY <1>3, <1>6, <1>9, HasToken DEF JobInv, Belongs
  <2>2. \A d \in Calls : work'[d].token = None => work'[d] = NoWork
    BY <1>2, <1>3, JobNoneAssumption DEF JobInv, Belongs
  <2>3. \A i \in Jobs : job'[i].token \in Calls =>
          /\ work'[job'[i].token].token = job'[i].token
          /\ work'[job'[i].token].job = i
    BY <1>3, <1>6, <1>7 DEF JobInv, Belongs
  <2> QED BY <2>1, <2>2, <2>3 DEF Belongs
<1>11. Registry'
  <2>1. \A i \in Jobs : IsRunning(i)' =>
           job'[i].token \in Calls /\ final[job'[i].token] = NotEnded
    BY <1>7 DEF JobInv, Registry
  <2>2. \A i \in Jobs : job'[i].token = None => job'[i] = NoJob
    BY <1>2, <1>5, JobNoneAssumption DEF JobInv, Registry
  <2>3. ASSUME NEW u \in Calls, work'[u].token = u, final[u].status = "none"
        PROVE  job'[work'[u].job].status = "running" /\ job'[work'[u].job].token = u
    <3>1. u # c
      BY <1>3, <1>9, <2>3
    <3>2. /\ work'[u] = work[u] /\ work[u].job \in Jobs
          /\ IsRunning(work[u].job) /\ job[work[u].job].token = u
      BY <1>3, <2>3, <3>1 DEF JobInv, Registry, Belongs
    <3> QED BY <1>7, <3>2 DEF IsRunning
  <2>4. \A u \in published : final[u].status # "none"
    BY DEF JobInv, Registry
  <2>5. \A u \in Calls : work'[u].token # u => final[u] = NotEnded
    BY <1>3, <1>6 DEF JobInv, Registry
  <2> QED BY <1>1, <2>1, <2>2, <2>3, <2>4, <2>5 DEF Registry, IsRunning
<1>12. \A d \in Calls : work[d].token = t => work[d].seq < job[j].next
  BY <1>1 DEF JobInv, Numbered, t
<1>13. \A d \in Calls : work[d].seq \in Nat
  BY <1>1, Typed DEF WorkRec
<1>14. Numbered'
  <2>1. \A d, e \in Calls : work'[d].token \in Calls /\ work'[d].token = work'[e].token
                              /\ work'[d].seq = work'[e].seq => d = e
    BY <1>2, <1>3, <1>12, <1>13 DEF JobInv, Numbered
  <2>2. ASSUME NEW i \in Jobs, NEW d \in Calls, IsRunning(i), work'[d].token = job[i].token
        PROVE  work'[d].seq < job'[i].next
    <3>1. CASE d = c
      <4>1. i = j
        BY <1>2, <1>3, <2>2, <3>1, OneJob DEF t
      <4> QED BY <1>2, <1>3, <1>5, <3>1, <4>1
    <3>2. CASE d # c
      <4>1. work'[d] = work[d] /\ work[d].seq < job[i].next
        BY <1>3, <2>2, <3>2 DEF JobInv, Numbered
      <4>2. CASE i = j
        BY <1>2, <1>5, <1>13, <4>1, <4>2
      <4>3. CASE i # j
        BY <1>5, <4>1, <4>3
      <4> QED BY <4>2, <4>3
    <3> QED BY <3>1, <3>2
  <2> QED BY <1>7, <2>1, <2>2 DEF Numbered
<1>15. Prefix'
  BY <1>1, <1>2, <1>3, <1>12, <1>13 DEF JobInv, Prefix
<1>16. ASSUME NEW i \in Jobs, i # j, IsRunning(i)
       PROVE  /\ job'[i] = job[i]
              /\ \A d \in Calls : work[d].token = job[i].token \/ work'[d].token = job[i].token
                    => work'[d] = work[d]
  <2>1. job[i].token \in Calls /\ job[i].token # t
    BY <1>2, <1>16, RunningToken, OneJob DEF t
  <2> QED BY <1>3, <1>5, <1>16, <2>1, JobNoneAssumption
<1>17. Counted'
  <2> SUFFICES ASSUME NEW i \in Jobs, IsRunning(i)
               PROVE  /\ IsFiniteSet(Unsettled(job[i].token)')
                      /\ job'[i].pending = Cardinality(Unsettled(job[i].token)')
    BY <1>7 DEF Counted
  <2>1. /\ IsFiniteSet(Unsettled(job[i].token))
        /\ job[i].pending = Cardinality(Unsettled(job[i].token))
    BY DEF JobInv, Counted
  <2>2. CASE i = j
    <3>1. Unsettled(job[i].token)' = Unsettled(t) \cup {c} /\ c \notin Unsettled(t)
      BY <1>2, <1>3, <1>5, <2>2, JobNoneAssumption DEF Unsettled
    <3>2. /\ IsFiniteSet(Unsettled(t) \cup {c})
          /\ Cardinality(Unsettled(t) \cup {c}) = Cardinality(Unsettled(t)) + 1
      BY <2>1, <2>2, <3>1, FS_AddElement DEF t
    <3> QED BY <1>5, <2>1, <2>2, <3>1, <3>2 DEF t
  <2>3. CASE i # j
    <3>1. Unsettled(job[i].token)' = Unsettled(job[i].token)
      BY <1>16, <2>3 DEF Unsettled
    <3> QED BY <1>16, <2>1, <2>3, <3>1
  <2> QED BY <2>2, <2>3
<1>18. ASSUME NEW i \in Jobs, IsRunning(i)
       PROVE  \A d \in Calls : work'[d].token = job[i].token /\ work'[d].at = "over" =>
                 work'[d] = work[d]
  BY <1>3
<1>19. OverSucceeded'
  BY <1>7, <1>18 DEF JobInv, OverSucceeded
<1>20. LatestOutput'
  <2> SUFFICES ASSUME NEW i \in Jobs, IsRunning(i)
               PROVE  /\ job[i].output # None =>
                            /\ work'[job[i].output].token = job[i].token
                            /\ work'[job[i].output].at = "over"
                      /\ \A d \in Calls :
                            work'[d].token = job[i].token /\ work'[d].at = "over" =>
                            job[i].output # None /\ work'[d].seq <= work'[job[i].output].seq
    BY <1>7 DEF LatestOutput
  <2>1. job[i].output # None => job[i].output \in Calls
    BY <1>1, Typed DEF JobRec
  <2>2. job[i].token # None
    BY RunningToken, JobNoneAssumption
  <2>3. job[i].output # None =>
          /\ job[i].output # c /\ work[job[i].output].token = job[i].token
          /\ work[job[i].output].at = "over"
    BY <1>3, <2>1, <2>2 DEF JobInv, LatestOutput
  <2> QED BY <1>3, <1>18, <2>1, <2>3 DEF JobInv, LatestOutput
<1>21. ASSUME NEW u \in Calls, u # t
       PROVE  /\ final[u].output # None => work'[final[u].output].token = u
              /\ final[u].status = "completed" =>
                   /\ \A d \in Calls : work'[d].token = u =>
                         work'[d].at = "over" /\ work'[d].exit = "success"
                   /\ final[u].output # None
                   /\ \A d \in Calls : work'[d].token = u =>
                         work'[d].seq <= work'[final[u].output].seq
  BY <1>3, <1>21, EndedKept
<1>22. final[t].output = None /\ final[t].status = "none"
  BY <1>2 DEF NotEnded
<1>23. OwnResult'
  <2>1. ASSUME NEW i \in Jobs, job[i].output # None
        PROVE  work'[job[i].output].token = job[i].token
    <3>1. job[i].output \in Calls /\ work[job[i].output].token = job[i].token
      BY <1>1, <2>1, Typed DEF JobRec, JobInv, OwnResult
    <3>2. job[i].token # None
      BY <2>1 DEF JobInv, Registry, NoJob
    <3> QED BY <1>3, <3>1, <3>2
  <2> QED BY <1>1, <1>7, <1>21, <1>22, <2>1 DEF OwnResult
<1>24. CompletedIsComplete'
  BY <1>1, <1>21, <1>22 DEF CompletedIsComplete
<1> QED BY <1>8, <1>10, <1>11, <1>14, <1>15, <1>17, <1>19, <1>20, <1>23, <1>24 DEF JobInv
LEMMA PublishKeeps ==
    ASSUME JobInv, NEW t \in Calls, PublishEnd(t)
    PROVE  JobInv'
<1>1. /\ final[t].status # "none" /\ published' = published \cup {t}
      /\ UNCHANGED <<job, work, final, promoted>>
  BY DEF PublishEnd
<1>2. JobType' /\ Belongs' /\ Numbered'
  BY <1>1 DEF JobInv, JobType, Belongs, Numbered, IsRunning
<1>3. Registry'
  BY <1>1 DEF JobInv, Registry, IsRunning
<1>4. Prefix'
  BY <1>1 DEF JobInv, Prefix
<1>5. Counted' /\ OverSucceeded' /\ LatestOutput'
  BY <1>1 DEF JobInv, Counted, Unsettled, OverSucceeded, LatestOutput, IsRunning
<1>6. OwnResult' /\ CompletedIsComplete'
  BY <1>1 DEF JobInv, OwnResult, CompletedIsComplete
<1> QED BY <1>2, <1>3, <1>4, <1>5, <1>6 DEF JobInv

LEMMA PromoteCompletesKeeps ==
    ASSUME JobInv, NEW t \in Calls, PromoteCompletes(t)
    PROVE  JobInv'
<1>1. promoted' = promoted \cup {t} /\ UNCHANGED <<job, work, final, published>>
  BY DEF PromoteCompletes
<1>2. JobType' /\ Belongs' /\ Numbered'
  BY <1>1 DEF JobInv, JobType, Belongs, Numbered, IsRunning
<1>3. Registry' /\ Prefix'
  BY <1>1 DEF JobInv, Registry, Prefix, IsRunning
<1>4. Counted' /\ OverSucceeded' /\ LatestOutput'
  BY <1>1 DEF JobInv, Counted, Unsettled, OverSucceeded, LatestOutput, IsRunning
<1>5. OwnResult' /\ CompletedIsComplete'
  BY <1>1 DEF JobInv, OwnResult, CompletedIsComplete
<1> QED BY <1>2, <1>3, <1>4, <1>5 DEF JobInv

LEMMA PromoteMarksKeeps ==
    ASSUME JobInv, NEW j \in Jobs, PromoteMarks(j)
    PROVE  JobInv'
<1>1. /\ IsRunning(j) /\ UNCHANGED <<work, final, published, promoted>>
      /\ job' = [job EXCEPT ![j].mode = "background"] /\ JobType
  BY DEF PromoteMarks, JobInv
<1>2. job[j].token \in Calls
  BY <1>1, RunningToken
<1>3. "background" \in Modes
  BY DEF Modes
<1>4. /\ job' \in [Jobs -> JobRec]
      /\ \A i \in Jobs :
            /\ job'[i].status = job[i].status /\ job'[i].token = job[i].token
            /\ job'[i].pending = job[i].pending /\ job'[i].next = job[i].next
            /\ job'[i].output = job[i].output
            /\ i # j => job'[i] = job[i]
  BY <1>1, <1>3, Typed DEF JobRec
<1>5. JobType' /\ SameWork /\ SameJobs
  BY <1>1, <1>4, Typed DEF JobType, JobRec, SameWork, SameJobs
<1>6. Belongs' /\ Numbered'
  BY <1>5, BelongsKept
<1>7. Registry'
  BY <1>1, <1>2, <1>4, JobNoneAssumption DEF JobInv, Registry, IsRunning, Belongs
<1>8. Prefix'
  BY <1>1 DEF JobInv, Prefix
<1>9. Counted'
  BY <1>1, <1>4 DEF JobInv, Counted, Unsettled, IsRunning
<1>10. OverSucceeded' /\ LatestOutput'
  BY <1>1, <1>4 DEF JobInv, OverSucceeded, LatestOutput, IsRunning
<1>11. OwnResult' /\ CompletedIsComplete'
  BY <1>1, <1>4 DEF JobInv, OwnResult, CompletedIsComplete
<1> QED BY <1>5, <1>6, <1>7, <1>8, <1>9, <1>10, <1>11 DEF JobInv

(***************************************************************************)
(* Steps of the registry as the task tool takes them.                      *)
(***************************************************************************)
Registering(c) ==
    \E j \in Jobs : \/ ExtendRegisters(c, j)
                    \/ \E mode \in Modes : StartRegisters(c, j, mode)

WorkStep(c) ==
    \/ Fork(c) \/ WorkBegins(c) \/ WorkInterrupted(c) \/ Settle(c)
    \/ \E exit \in Exits : WorkEnds(c, exit)

OtherStep ==
    \/ \E c \in Calls : WorkStep(c) \/ PublishEnd(c) \/ PromoteCompletes(c)
    \/ \E j \in Jobs : CancelJob(j) \/ PromoteMarks(j)
    \/ UNCHANGED jobVars

LEMMA RegisteringKeeps ==
    ASSUME JobInv, NEW c \in Calls, Unused(c), Registering(c)
    PROVE  JobInv'
BY StartKeeps, ExtendKeeps DEF Registering

LEMMA OtherKeeps ==
    ASSUME JobInv, OtherStep
    PROVE  JobInv'
<1>1. ASSUME NEW c \in Calls, WorkStep(c)
      PROVE  JobInv'
  BY <1>1, ForkKeeps, WorkBeginsKeeps, WorkInterruptedKeeps, SettleKeeps, WorkEndsKeeps
     DEF WorkStep
<1>2. ASSUME UNCHANGED jobVars
      PROVE  JobInv'
  <2>1. UNCHANGED <<job, work, final, published, promoted>>
    BY <1>2 DEF jobVars
  <2>2. JobType' /\ Belongs' /\ Numbered'
    BY <2>1 DEF JobInv, JobType, Belongs, Numbered, IsRunning
  <2>3. Registry' /\ Prefix'
    BY <2>1 DEF JobInv, Registry, Prefix, IsRunning
  <2>4. Counted' /\ OverSucceeded' /\ LatestOutput'
    BY <2>1 DEF JobInv, Counted, Unsettled, OverSucceeded, LatestOutput, IsRunning
  <2>5. OwnResult' /\ CompletedIsComplete'
    BY <2>1 DEF JobInv, OwnResult, CompletedIsComplete
  <2> QED BY <2>2, <2>3, <2>4, <2>5 DEF JobInv
<1> QED BY <1>1, <1>2, PublishKeeps, PromoteCompletesKeeps, CancelKeeps, PromoteMarksKeeps
        DEF OtherStep
(* Only registering gives a call's name to work or to a job.               *)
SameNames ==
    /\ \A i \in Jobs : job'[i].token = job[i].token
    /\ \A d \in Calls :
          /\ work'[d].token = work[d].token
          /\ work[d].at = "none" => work'[d] = work[d]
          /\ final'[d] = final[d] \/ \E i \in Jobs : job[i].token = d
          /\ d \in published' => d \in published \/ final[d].status # "none"

LEMMA WorkNames ==
    ASSUME JobInv, NEW c \in Calls, WorkStep(c)
    PROVE  /\ \A d \in Calls : /\ work'[d].token = work[d].token
                               /\ work[d].at = "none" => work'[d] = work[d]
           /\ work[c].at # "none" /\ published' = published
<1>1. JobType /\ {"working", "waiting", "over"} \subseteq WorkStates
  BY DEF JobInv, WorkStates
<1>2. work[c].at # "none" /\ published' = published
  BY DEF WorkStep, Fork, WorkBegins, WorkInterrupted, Settle, WorkEnds
<1>3. (\E at \in WorkStates : WorkGoes(c, at)) \/ \E exit \in Exits : WorkEnds(c, exit)
  BY <1>1 DEF WorkStep, Fork, WorkBegins, WorkInterrupted, Settle
<1>4. \E at : WorkMoves(c, at)
  BY <1>1, <1>3, WorkGoesEffect, WorkEndsEffect
<1> QED BY <1>2, <1>4 DEF WorkMoves, WorkKept

LEMMA EndsNames ==
    ASSUME JobInv, NEW j \in Jobs, IsRunning(j), NEW status, NEW output,
           EndsWith(j, status, output)
    PROVE  /\ \A i \in Jobs : job'[i].token = job[i].token
           /\ \A d \in Calls : final'[d] = final[d] \/ job[j].token = d
<1>1. JobType
  BY DEF JobInv
<1>2. \A i \in Jobs : job'[i].token = job[i].token
  BY <1>1, Typed DEF EndsWith, JobRec
<1>3. \A d \in Calls : final'[d] = final[d] \/ job[j].token = d
  <2> DEFINE f == [status |-> status, output |-> output, mode |-> job[j].mode]
  <2>1. final' = [final EXCEPT ![job[j].token] = f]
    BY DEF EndsWith
  <2> HIDE DEF f
  <2> QED BY <1>1, <2>1, Typed
<1> QED BY <1>2, <1>3

LEMMA SettleNames ==
    ASSUME JobInv, NEW c \in Calls, Settle(c)
    PROVE  /\ \A i \in Jobs : job'[i].token = job[i].token
           /\ \A d \in Calls : final'[d] = final[d] \/ \E i \in Jobs : job[i].token = d
<1> DEFINE j == work[c].job
<1>1. j \in Jobs /\ JobType
  BY HasToken DEF Settle, JobInv
<1>2. CASE UNCHANGED <<job, final>>
  BY <1>2
<1>3. CASE UNCHANGED final /\ job' = [job EXCEPT ![j].pending = @ - 1,
                                                 ![j].output = OutputAfter(c)]
  BY <1>1, <1>3, Typed DEF JobRec
<1>4. CASE Current(c) /\ EndsWith(j, StatusOf(work[c].exit), OutputAfter(c))
  BY <1>1, <1>4, EndsNames DEF Current, IsRunning
<1> QED BY <1>2, <1>3, <1>4 DEF Settle

LEMMA OtherNames ==
    ASSUME JobInv, OtherStep
    PROVE  SameNames
<1>1. JobType
  BY DEF JobInv
<1>2. ASSUME NEW c \in Calls, WorkStep(c)
      PROVE  SameNames
  <2>1. CASE Settle(c)
    BY <1>2, <2>1, WorkNames, SettleNames DEF SameNames
  <2>2. CASE UNCHANGED <<job, final>>
    BY <1>2, <2>2, WorkNames DEF SameNames
  <2> QED BY <1>2, <2>1, <2>2
          DEF WorkStep, Fork, WorkBegins, WorkInterrupted, WorkEnds
<1>3. ASSUME NEW c \in Calls, PublishEnd(c)
      PROVE  SameNames
  BY <1>3 DEF PublishEnd, SameNames
<1>4. ASSUME NEW c \in Calls, PromoteCompletes(c)
      PROVE  SameNames
  BY <1>4 DEF PromoteCompletes, SameNames
<1>5. ASSUME NEW j \in Jobs, CancelJob(j)
      PROVE  SameNames
  <2>1. /\ IsRunning(j) /\ EndsWith(j, "cancelled", job[j].output)
        /\ UNCHANGED <<work, published>>
    BY <1>5 DEF CancelJob
  <2> QED BY <2>1, EndsNames DEF SameNames
<1>6. ASSUME NEW j \in Jobs, PromoteMarks(j)
      PROVE  SameNames
  BY <1>1, <1>6, Typed DEF PromoteMarks, JobRec, SameNames
<1>7. ASSUME UNCHANGED jobVars
      PROVE  SameNames
  BY <1>7 DEF jobVars, SameNames
<1> QED BY <1>2, <1>3, <1>4, <1>5, <1>6, <1>7 DEF OtherStep

(* Unused stays unused, and a job that has an incarnation keeps having one. *)
TokensStay == \A j \in Jobs : job[j].token \in Calls => job'[j].token \in Calls

LEMMA OtherUnused ==
    ASSUME JobInv, OtherStep
    PROVE  TokensStay /\ \A d \in Calls : Unused(d) => Unused(d)'
BY OtherNames DEF SameNames, TokensStay, Unused, NoWork, NotEnded

LEMMA RegisteringUnused ==
    ASSUME JobInv, NEW c \in Calls, Unused(c), Registering(c)
    PROVE  TokensStay /\ \A d \in Calls : d # c /\ Unused(d) => Unused(d)'
<1>1. PICK j \in Jobs : \/ ExtendRegisters(c, j)
                        \/ \E mode \in Modes : StartRegisters(c, j, mode)
  BY DEF Registering
<1>2. JobType /\ UNCHANGED <<final, published>>
  BY <1>1 DEF JobInv, ExtendRegisters, StartRegisters
<1>3. CASE ExtendRegisters(c, j)
  <2>1. /\ job[j].token \in Calls /\ job[j].next \in Nat
        /\ Registers(c, j, job[j].token, job[j].next)
    BY <1>2, <1>3, RunningToken, Typed DEF ExtendRegisters, JobRec
  <2>2. \A i \in Jobs : job'[i].token = job[i].token
    <3> DEFINE r == [job[j] EXCEPT !.pending = @ + 1, !.next = @ + 1]
    <3>1. JobKept(j) /\ job'[j] = r
      BY <1>2, <1>3, ExtendEffect
    <3>2. job[j] \in JobRec
      BY <1>2, Typed
    <3>3. r.token = job[j].token
      BY <3>2 DEF JobRec
    <3> HIDE DEF r
    <3> QED BY <3>1, <3>3 DEF JobKept
  <2>3. /\ \A d \in Calls : d # c => work'[d] = work[d]
        /\ work'[c].token = job[j].token
    BY <2>1, NewWork
  <2> QED BY <1>2, <2>1, <2>2, <2>3 DEF TokensStay, Unused
<1>4. CASE \E mode \in Modes : StartRegisters(c, j, mode)
  <2>1. PICK mode \in Modes : StartRegisters(c, j, mode)
    BY <1>4
  <2>2. Registers(c, j, c, 0)
    BY <2>1 DEF StartRegisters
  <2>3. job'[j].token = c /\ \A i \in Jobs : i # j => job'[i] = job[i]
    <3>1. JobKept(j) /\ job'[j] = [status |-> "running", token |-> c, pending |-> 1,
                                   next |-> 1, output |-> None, mode |-> mode]
      BY <1>2, <2>1, StartEffect
    <3> QED BY <3>1 DEF JobKept
  <2>4. /\ \A d \in Calls : d # c => work'[d] = work[d]
        /\ work'[c].token = c
    BY <2>2, NewWork
  <2> QED BY <1>2, <2>3, <2>4 DEF TokensStay, Unused
<1> QED BY <1>1, <1>3, <1>4
(***************************************************************************)
(* Steps of the task tool.                                                 *)
(***************************************************************************)
CallRec == [at : CallStates, job : Jobs \cup {None}, mode : Modes,
            on : Calls \cup {None}, outcome : Outcomes]

PromoterRec == [at : {"idle", "deferred", "hook"}, job : Jobs \cup {None},
                token : Calls \cup {None}]

ToolType ==
    /\ call \in [Calls -> CallRec] /\ promoter \in [Promoters -> PromoterRec]
    /\ injected \subseteq notifier /\ notifier \subseteq Calls \X Calls
    /\ shared \subseteq Calls /\ unheard \subseteq Calls

LEMMA ToolTyped == TaskTypeOK <=> JobType /\ ToolType
BY DEF TaskTypeOK, ToolType, CallRec, PromoterRec

(* What a step of call c has to show.                                      *)
CallStep(c) ==
    /\ JobInv' /\ TokensStay /\ ToolType'
    /\ \A d \in Calls : d # c => call'[d] = call[d] /\ (Unused(d) => Unused(d)')
    /\ Fresh(c)' => Fresh(c) /\ (Unused(c) => Unused(c)')
    /\ Placed(c)'
    /\ promoter' = promoter

LEMMA CallStepKeeps ==
    ASSUME IInv, NEW c \in Calls, CallStep(c)
    PROVE  IInv'
<1>1. TaskTypeOK'
  BY DEF CallStep, JobInv, TaskTypeOK, ToolType, CallRec, PromoterRec
<1>2. FreshUnused'
  BY DEF IInv, CallStep, FreshUnused, Fresh
<1>3. \A d \in Calls : Placed(d)'
  BY DEF IInv, CallStep, TokensStay, Referring, Placed
<1>4. \A p \in Promoters : Promoting(p)'
  BY DEF IInv, CallStep, TokensStay, Referring, Promoting
<1> QED BY <1>1, <1>2, <1>3, <1>4 DEF IInv, CallStep, Referring

LEMMA OtherCallStep ==
    ASSUME IInv, OtherStep
    PROVE  JobInv' /\ TokensStay /\ \A d \in Calls : Unused(d) => Unused(d)'
BY OtherKeeps, OtherUnused DEF IInv

LEMMA NewCallStep ==
    ASSUME IInv, NEW c \in Calls, Fresh(c), Registering(c)
    PROVE  JobInv' /\ TokensStay /\ \A d \in Calls : d # c /\ Unused(d) => Unused(d)'
BY RegisteringKeeps, RegisteringUnused DEF IInv, FreshUnused

(* Effects on call.                                                        *)
CallKept(c) == call' \in [Calls -> CallRec] /\ \A d \in Calls : d # c => call'[d] = call[d]

LEMMA CallGoesEffect ==
    ASSUME IInv, NEW c \in Calls, NEW at \in CallStates, CallGoes(c, at)
    PROVE  /\ CallKept(c) /\ call'[c].at = at /\ call'[c].job = call[c].job
           /\ call'[c].on = call[c].on
BY ToolTyped DEF IInv, ToolType, CallGoes, CallKept, CallRec

LEMMA ReturnsEffect ==
    ASSUME IInv, NEW c \in Calls, NEW outcome \in Outcomes, Returns(c, outcome)
    PROVE  CallKept(c) /\ call'[c].at = "returned" /\ call'[c].job = call[c].job
<1>1. call \in [Calls -> CallRec] /\ "returned" \in CallStates
  BY ToolTyped DEF IInv, ToolType, CallStates
<1> DEFINE r == [call[c] EXCEPT !.at = "returned", !.outcome = outcome]
<1>2. r \in CallRec
  BY <1>1 DEF CallRec
<1>3. call' = [call EXCEPT ![c] = r]
  BY <1>1 DEF Returns, CallRec
<1>4. r.at = "returned" /\ r.job = call[c].job
  BY <1>1 DEF CallRec
<1> HIDE DEF r
<1> QED BY <1>1, <1>2, <1>3, <1>4 DEF CallKept

(* A call that only reads the registry.                                    *)
LEMMA ReadingStep ==
    ASSUME IInv, NEW c \in Calls, OtherStep, CallKept(c), Placed(c)',
           Fresh(c)' => Fresh(c),
           UNCHANGED <<promoter, injected, unheard>>, notifier \subseteq notifier',
           notifier' \subseteq Calls \X Calls, shared' \subseteq Calls
    PROVE  IInv'
<1>1. ToolType'
  BY ToolTyped DEF IInv, ToolType, CallKept
<1>2. CallStep(c)
  BY <1>1, OtherCallStep DEF CallStep, CallKept
<1> QED BY <1>2, CallStepKeeps
LEMMA CalledKeeps ==
    ASSUME IInv, NEW c \in Calls, NEW j \in Jobs, NEW mode \in CallModes, Called(c, j, mode)
    PROVE  IInv'
<1> DEFINE r == [call[c] EXCEPT !.at = "extend", !.job = j, !.mode = mode]
<1>1. /\ call \in [Calls -> CallRec] /\ "extend" \in CallStates /\ mode \in Modes
      /\ notifier \subseteq Calls \X Calls
      /\ shared \subseteq Calls /\ unheard \subseteq Calls
  BY ToolTyped, TaskAssumption DEF IInv, ToolType, CallStates
<1>2. r \in CallRec
  BY <1>1 DEF CallRec
<1>3. call' = [call EXCEPT ![c] = r]
  BY <1>1 DEF Called, CallRec
<1>4. r.at = "extend" /\ r.job = j
  BY <1>1 DEF CallRec
<1> HIDE DEF r
<1>5. CallKept(c) /\ call'[c].at = "extend" /\ call'[c].job = j
  BY <1>1, <1>2, <1>3, <1>4 DEF CallKept
<1>6. OtherStep /\ Fresh(c) /\ UNCHANGED <<promoter, notifier, injected, shared, unheard>>
  BY DEF Called, OtherStep, Fresh
<1>7. Placed(c)'
  BY <1>5 DEF Placed
<1> QED BY <1>1, <1>5, <1>6, <1>7, ReadingStep

LEMMA ExtendStep ==
    ASSUME IInv, NEW c \in Calls, Extend(c)
    PROVE  IInv'
<1> DEFINE j == call[c].job
<1>1. /\ call[c].at = "extend" /\ j \in Jobs /\ Fresh(c)
      /\ UNCHANGED <<promoter, notifier, injected, shared, unheard>>
      /\ call \in [Calls -> CallRec]
      /\ notifier \subseteq Calls \X Calls
      /\ shared \subseteq Calls /\ unheard \subseteq Calls
  BY ToolTyped DEF Extend, IInv, ToolType, Referring, Placed, Fresh
<1>2. {"start", "fork"} \subseteq CallStates
  BY DEF CallStates
<1>3. ASSUME CallGoes(c, "start"), UNCHANGED jobVars
      PROVE  IInv'
  <2>1. OtherStep
    BY <1>3 DEF OtherStep
  <2>2. /\ CallKept(c) /\ call'[c].at = "start" /\ call'[c].job = j
    BY <1>2, <1>3, CallGoesEffect
  <2>3. Placed(c)'
    BY <1>1, <2>2 DEF Placed
  <2> QED BY <1>1, <2>1, <2>2, <2>3, ReadingStep
<1>4. ASSUME ExtendRegisters(c, j),
             call' = [call EXCEPT ![c].at = "fork", ![c].on = job[j].token]
      PROVE  IInv'
  <2>1. job[j].token \in Calls
    BY <1>1, <1>4, RunningToken DEF ExtendRegisters, IInv
  <2> DEFINE r == [call[c] EXCEPT !.at = "fork", !.on = job[j].token]
  <2>2. r \in CallRec
    BY <1>1, <1>2, <2>1 DEF CallRec
  <2>3. call' = [call EXCEPT ![c] = r]
    BY <1>1, <1>4 DEF CallRec
  <2>4. r.at = "fork" /\ r.job = j
    BY <1>1 DEF CallRec
  <2> HIDE DEF r
  <2>5. CallKept(c) /\ call'[c].at = "fork" /\ call'[c].job = j
    BY <1>1, <2>2, <2>3, <2>4 DEF CallKept
  <2>6. Registering(c)
    BY <1>1, <1>4 DEF Registering
  <2>7. JobInv' /\ TokensStay /\ \A d \in Calls : d # c /\ Unused(d) => Unused(d)'
    BY <1>1, <2>6, NewCallStep
  <2>8. Placed(c)'
    BY <1>1, <2>1, <2>5, <2>7 DEF Placed, TokensStay
  <2>9. ToolType' /\ ~Fresh(c)'
    BY <1>1, <2>5, ToolTyped DEF IInv, ToolType, CallKept, Fresh
  <2>10. CallStep(c)
    BY <1>1, <2>5, <2>7, <2>8, <2>9 DEF CallStep, CallKept
  <2> QED BY <2>10, CallStepKeeps
<1> QED BY <1>3, <1>4 DEF Extend

LEMMA StartStep ==
    ASSUME IInv, NEW c \in Calls, Start(c)
    PROVE  IInv'
<1> DEFINE j == call[c].job
<1>1. /\ call[c].at = "start" /\ j \in Jobs /\ Fresh(c) /\ call[c].mode \in Modes
      /\ UNCHANGED <<promoter, notifier, injected, shared, unheard>>
      /\ call \in [Calls -> CallRec] /\ JobType
      /\ notifier \subseteq Calls \X Calls
      /\ shared \subseteq Calls /\ unheard \subseteq Calls
  BY ToolTyped DEF Start, IInv, ToolType, Referring, Placed, Fresh, CallRec
<1>2. {"deliver", "fork"} \subseteq CallStates
  BY DEF CallStates
<1>3. ASSUME IsRunning(j), CallGoes(c, "deliver"), UNCHANGED jobVars
      PROVE  IInv'
  <2>1. OtherStep /\ job' = job /\ job[j].token \in Calls
    BY <1>1, <1>3, RunningToken DEF OtherStep, jobVars, IInv
  <2>2. CallKept(c) /\ call'[c].at = "deliver" /\ call'[c].job = j
    BY <1>2, <1>3, CallGoesEffect
  <2>3. Placed(c)' /\ ~Fresh(c)'
    BY <1>1, <2>1, <2>2 DEF Placed, Fresh
  <2> QED BY <1>1, <2>1, <2>2, <2>3, ReadingStep
<1>4. ASSUME StartRegisters(c, j, call[c].mode), CallGoes(c, "fork")
      PROVE  IInv'
  <2>1. job'[j] = [status |-> "running", token |-> c, pending |-> 1, next |-> 1,
                   output |-> None, mode |-> call[c].mode]
    BY <1>1, <1>4, StartEffect
  <2>2. job'[j].token = c
    BY <2>1
  <2>3. CallKept(c) /\ call'[c].at = "fork" /\ call'[c].job = j
    BY <1>2, <1>4, CallGoesEffect
  <2>4. Registering(c)
    BY <1>1, <1>4 DEF Registering
  <2>5. JobInv' /\ TokensStay /\ \A d \in Calls : d # c /\ Unused(d) => Unused(d)'
    BY <1>1, <2>4, NewCallStep
  <2>6. Placed(c)'
    BY <1>1, <2>2, <2>3 DEF Placed
  <2>7. ToolType' /\ ~Fresh(c)'
    BY <1>1, <2>3, ToolTyped DEF IInv, ToolType, CallKept, Fresh
  <2>8. CallStep(c)
    BY <1>1, <2>3, <2>5, <2>6, <2>7 DEF CallStep, CallKept
  <2> QED BY <2>8, CallStepKeeps
<1> QED BY <1>3, <1>4 DEF Start

LEMMA ForkWorkStep ==
    ASSUME IInv, NEW c \in Calls, ForkWork(c)
    PROVE  IInv'
<1>1. /\ call[c].at = "fork" /\ call[c].job \in Jobs /\ job[call[c].job].token \in Calls
      /\ UNCHANGED <<promoter, notifier, injected, shared, unheard>>
      /\ notifier \subseteq Calls \X Calls
      /\ shared \subseteq Calls /\ unheard \subseteq Calls
      /\ OtherStep
  BY ToolTyped DEF ForkWork, IInv, ToolType, Referring, Placed, OtherStep, WorkStep
<1>2. TokensStay
  BY <1>1, OtherCallStep
<1>3. "deliver" \in CallStates /\ "updated" \in Outcomes
  BY DEF CallStates, Outcomes
<1>4. /\ CallKept(c) /\ call'[c].at \in {"deliver", "returned"}
      /\ call'[c].job = call[c].job
  BY <1>3, CallGoesEffect, ReturnsEffect DEF ForkWork
<1>5. Placed(c)' /\ ~Fresh(c)'
  BY <1>1, <1>2, <1>4 DEF Placed, Fresh, TokensStay
<1> QED BY <1>1, <1>4, <1>5, ReadingStep
LEMMA DeliverStep ==
    ASSUME IInv, NEW c \in Calls, Deliver(c)
    PROVE  IInv'
<1> DEFINE j == call[c].job
           t == job[j].token
<1>1. /\ call[c].at = "deliver" /\ j \in Jobs /\ t \in Calls /\ JobType
      /\ UNCHANGED <<promoter, injected, unheard>> /\ OtherStep
      /\ notifier \subseteq Calls \X Calls
      /\ shared \subseteq Calls /\ unheard \subseteq Calls
      /\ call \in [Calls -> CallRec]
  BY ToolTyped DEF Deliver, IInv, ToolType, Referring, Placed, OtherStep
<1>2. /\ {"returned", "race"} \subseteq CallStates
      /\ "background" \in Outcomes
      /\ Answer(j) # "running" => Answer(j) \in Outcomes
  BY <1>1, Typed DEF CallStates, Outcomes, Answer, JobRec, Statuses
<1>3. notifier \subseteq notifier' /\ notifier' \subseteq Calls \X Calls
  BY <1>1 DEF Deliver, Notify
<1>4. shared' \subseteq Calls
  BY <1>1 DEF Deliver, LooksUp
<1>5. \E at \in {"returned", "race"}, outcome \in Outcomes :
         call' = [call EXCEPT ![c] = [call[c] EXCEPT !.at = at, !.on = t, !.outcome = outcome]]
  <2>1. ASSUME NEW outcome \in Outcomes,
               call' = [call EXCEPT ![c].at = "returned", ![c].on = t, ![c].outcome = outcome]
        PROVE  call' = [call EXCEPT ![c] =
                   [call[c] EXCEPT !.at = "returned", !.on = t, !.outcome = outcome]]
    BY <1>1, <2>1 DEF CallRec
  <2>2. ASSUME call' = [call EXCEPT ![c].at = "race", ![c].on = t]
        PROVE  /\ call[c].outcome \in Outcomes
               /\ call' = [call EXCEPT ![c] =
                   [call[c] EXCEPT !.at = "race", !.on = t, !.outcome = call[c].outcome]]
    BY <1>1, <2>2 DEF CallRec
  <2>3. \/ \E outcome \in Outcomes :
              call' = [call EXCEPT ![c].at = "returned", ![c].on = t, ![c].outcome = outcome]
        \/ call' = [call EXCEPT ![c].at = "race", ![c].on = t]
    BY <1>2 DEF Deliver
  <2> QED BY <2>1, <2>2, <2>3
<1>6. PICK at \in {"returned", "race"}, outcome \in Outcomes :
         call' = [call EXCEPT ![c] = [call[c] EXCEPT !.at = at, !.on = t, !.outcome = outcome]]
  BY <1>5
<1> DEFINE r == [call[c] EXCEPT !.at = at, !.on = t, !.outcome = outcome]
<1>7. r \in CallRec
  BY <1>1, <1>2 DEF CallRec
<1>8. r.at = at /\ r.job = j /\ r.on = t
  BY <1>1 DEF CallRec
<1>9. call' = [call EXCEPT ![c] = r]
  BY <1>6
<1> HIDE DEF r
<1>10. CallKept(c) /\ call'[c] = r
  BY <1>1, <1>7, <1>9 DEF CallKept
<1>11. Placed(c)' /\ ~Fresh(c)'
  BY <1>1, <1>8, <1>10 DEF Placed, Fresh
<1> QED BY <1>1, <1>3, <1>4, <1>10, <1>11, ReadingStep

LEMMA WinsStep ==
    ASSUME IInv, NEW c \in Calls, Wins(c)
    PROVE  IInv'
<1>1. /\ call[c].at = "race" /\ call[c].job \in Jobs /\ call[c].on \in Calls
      /\ UNCHANGED <<promoter, notifier, injected, shared, unheard>> /\ OtherStep /\ JobType
      /\ notifier \subseteq Calls \X Calls
      /\ shared \subseteq Calls /\ unheard \subseteq Calls
  BY ToolTyped DEF Wins, IInv, ToolType, Referring, Placed, OtherStep
<1>2. PICK outcome \in Outcomes : Returns(c, outcome)
  BY <1>1, Typed DEF Wins, Outcomes, FinalRec, Ended
<1>3. CallKept(c) /\ call'[c].at = "returned" /\ call'[c].job = call[c].job
  BY <1>2, ReturnsEffect
<1>4. Placed(c)' /\ ~Fresh(c)'
  BY <1>1, <1>3 DEF Placed, Fresh
<1> QED BY <1>1, <1>3, <1>4, ReadingStep

LEMMA InterruptedStep ==
    ASSUME IInv, NEW c \in Calls, Interrupted(c)
    PROVE  IInv'
<1>1. /\ call[c].job \in Jobs
      /\ UNCHANGED <<promoter, notifier, injected, shared, unheard>> /\ OtherStep
      /\ notifier \subseteq Calls \X Calls
      /\ shared \subseteq Calls /\ unheard \subseteq Calls
  BY ToolTyped DEF Interrupted, IInv, ToolType, Referring, Placed, OtherStep
<1>2. Returns(c, "interrupted") /\ "interrupted" \in Outcomes
  BY DEF Interrupted, Outcomes
<1>3. CallKept(c) /\ call'[c].at = "returned" /\ call'[c].job = call[c].job
  BY <1>2, ReturnsEffect
<1>4. Placed(c)' /\ ~Fresh(c)'
  BY <1>1, <1>3 DEF Placed, Fresh
<1> QED BY <1>1, <1>3, <1>4, ReadingStep

(* A step that is not a call's.                                            *)
LEMMA OutsideStep ==
    ASSUME IInv, OtherStep, call' = call,
           promoter' \in [Promoters -> PromoterRec],
           \A p \in Promoters : promoter'[p] = promoter[p] \/ Promoting(p)',
           injected' \subseteq notifier', notifier' \subseteq Calls \X Calls,
           shared' \subseteq Calls, unheard' \subseteq Calls
    PROVE  IInv'
<1>1. JobInv' /\ TokensStay /\ \A d \in Calls : Unused(d) => Unused(d)'
  BY OtherCallStep
<1>2. TaskTypeOK'
  BY <1>1, ToolTyped DEF JobInv, TaskTypeOK, ToolType, CallRec, PromoterRec, IInv
<1>3. FreshUnused'
  BY <1>1 DEF IInv, FreshUnused, Fresh
<1>4. \A d \in Calls : Placed(d)'
  BY <1>1 DEF IInv, TokensStay, Referring, Placed
<1>5. \A p \in Promoters : Promoting(p)'
  BY <1>1 DEF IInv, TokensStay, Referring, Promoting
<1> QED BY <1>1, <1>2, <1>3, <1>4, <1>5 DEF IInv, Referring

LEMMA InjectStep ==
    ASSUME IInv, NEW c \in Calls, NEW t \in Calls, Inject(c, t)
    PROVE  IInv'
<1>1. OtherStep /\ UNCHANGED <<call, promoter, notifier, shared, unheard>>
  BY DEF Inject, OtherStep
<1>2. /\ promoter \in [Promoters -> PromoterRec] /\ injected' \subseteq notifier
      /\ notifier \subseteq Calls \X Calls
      /\ shared \subseteq Calls /\ unheard \subseteq Calls
  BY ToolTyped DEF IInv, ToolType, Inject
<1> QED BY <1>1, <1>2, OutsideStep

LEMMA PromoterStep ==
    ASSUME IInv, NEW p \in Promoters,
           PromoterNext(p) \/ PromoteStops(p) \/ \E j \in Jobs : Promote(p, j)
    PROVE  IInv'
<1>1. /\ promoter \in [Promoters -> PromoterRec] /\ JobInv /\ Promoting(p)
      /\ injected \subseteq notifier /\ notifier \subseteq Calls \X Calls
      /\ shared \subseteq Calls /\ unheard \subseteq Calls
  BY ToolTyped DEF IInv, ToolType, Referring
<1>2. NotPromoting \in PromoterRec /\ NotPromoting.at = "idle"
  BY DEF NotPromoting, PromoterRec
<1>3. CASE PromoteResolves(p)
  <2>1. /\ promoter[p].at = "deferred" /\ OtherStep
        /\ UNCHANGED <<call, notifier, injected, shared, unheard>>
        /\ promoter' = [promoter EXCEPT ![p].at = "hook"] /\ job' = job
    BY <1>1, <1>3 DEF PromoteResolves, OtherStep, Promoting, PromoteCompletes
  <2>2. /\ promoter' \in [Promoters -> PromoterRec]
        /\ \A q \in Promoters : q # p => promoter'[q] = promoter[q]
        /\ promoter'[p].job = promoter[p].job /\ promoter'[p].token = promoter[p].token
    BY <1>1, <2>1 DEF PromoterRec
  <2>3. Promoting(p)'
    BY <1>1, <2>1, <2>2 DEF Promoting
  <2> QED BY <1>1, <2>1, <2>2, <2>3, OutsideStep
<1>4. CASE PromoteHook(p)
  <2>1. /\ promoter[p].at = "hook" /\ OtherStep /\ UNCHANGED <<call, injected, unheard>>
        /\ promoter' = [promoter EXCEPT ![p] = NotPromoting]
    BY <1>4 DEF PromoteHook, OtherStep
  <2>2. /\ promoter[p].token \in Calls /\ job[promoter[p].job].token \in Calls
    BY <1>1, <2>1 DEF Promoting
  <2>3. /\ injected' \subseteq notifier' /\ notifier' \subseteq Calls \X Calls
        /\ shared' \subseteq Calls
    BY <1>1, <1>4, <2>1, <2>2 DEF PromoteHook, Notify, LooksUp
  <2>4. /\ promoter' \in [Promoters -> PromoterRec] /\ Promoting(p)'
        /\ \A q \in Promoters : q # p => promoter'[q] = promoter[q]
    BY <1>1, <1>2, <2>1 DEF Promoting
  <2> QED BY <1>1, <2>1, <2>3, <2>4, OutsideStep
<1>5. CASE PromoteStops(p)
  <2>1. /\ OtherStep /\ UNCHANGED <<call, notifier, injected, shared>>
        /\ promoter' = [promoter EXCEPT ![p] = NotPromoting]
        /\ unheard' \subseteq Calls
    BY <1>1, <1>5 DEF PromoteStops, OtherStep, Promoting
  <2>2. /\ promoter' \in [Promoters -> PromoterRec] /\ Promoting(p)'
        /\ \A q \in Promoters : q # p => promoter'[q] = promoter[q]
    BY <1>1, <1>2, <2>1 DEF Promoting
  <2> QED BY <1>1, <2>1, <2>2, OutsideStep
<1>6. ASSUME NEW j \in Jobs, Promote(p, j)
      PROVE  IInv'
  <2> DEFINE r == [at |-> "deferred", job |-> j, token |-> job[j].token]
  <2>1. /\ OtherStep /\ UNCHANGED <<call, notifier, injected, shared, unheard>>
        /\ promoter' = [promoter EXCEPT ![p] = r] /\ IsRunning(j)
    BY <1>6 DEF Promote, PromoteMarks, OtherStep
  <2>2. job[j].token \in Calls /\ job'[j].token \in Calls
    BY <1>1, <2>1, RunningToken, OtherUnused DEF TokensStay
  <2>3. r \in PromoterRec /\ r.job = j /\ r.token = job[j].token
    BY <2>2 DEF PromoterRec
  <2> HIDE DEF r
  <2>4. /\ promoter' \in [Promoters -> PromoterRec] /\ promoter'[p] = r
        /\ \A q \in Promoters : q # p => promoter'[q] = promoter[q]
    BY <1>1, <2>1, <2>3
  <2>5. Promoting(p)'
    BY <2>2, <2>3, <2>4 DEF Promoting
  <2> QED BY <1>1, <2>1, <2>4, <2>5, OutsideStep
<1> QED BY <1>3, <1>4, <1>5, <1>6 DEF PromoterNext

(* Work, cancels and stuttering leave the tool alone.                      *)
LEMMA RegistryStep ==
    ASSUME IInv, OtherStep, UNCHANGED toolVars
    PROVE  IInv'
<1>1. UNCHANGED <<call, promoter, notifier, injected, shared, unheard>>
  BY DEF toolVars
<1>2. ToolType
  BY ToolTyped DEF IInv
<1> QED BY <1>1, <1>2, OutsideStep DEF ToolType
(***************************************************************************)
(* The theorems.                                                           *)
(***************************************************************************)
LEMMA InitIInv == TaskInit => IInv
<1> SUFFICES ASSUME TaskInit PROVE IInv
  OBVIOUS
<1>1. /\ \A j \in Jobs : /\ job[j] = NoJob /\ job[j].token = None
                         /\ job[j].output = None /\ ~IsRunning(j)
      /\ \A c \in Calls : /\ work[c] = NoWork /\ work[c].token = None /\ work[c].seq = 0
                          /\ final[c] = NotEnded /\ final[c].status = "none"
                          /\ final[c].output = None
      /\ published = {} /\ promoted = {}
  BY DEF TaskInit, JobInit, NoJob, NoWork, NotEnded, IsRunning
<1>2. NoJob \in JobRec /\ NoWork \in WorkRec /\ NotEnded \in FinalRec
  BY DEF NoJob, NoWork, NotEnded, JobRec, WorkRec, FinalRec, Statuses, WorkStates,
         Ended, Exits, Modes
<1>3. JobType
  BY <1>2, Typed DEF TaskInit, JobInit
<1>4. /\ \A c \in Calls : call[c].at = "idle"
      /\ \A p \in Promoters : promoter[p].at = "idle"
      /\ NotCalled \in CallRec /\ NotPromoting \in PromoterRec
  BY DEF TaskInit, NotCalled, NotPromoting, CallRec, PromoterRec, CallStates, Outcomes, Modes
<1>5. TaskTypeOK
  BY <1>3, <1>4, ToolTyped DEF TaskInit, ToolType
<1>6. FreshUnused
  BY <1>1, JobNoneAssumption DEF FreshUnused, Unused
<1>7. Referring
  BY <1>4 DEF Referring, Placed, Promoting
<1>8. Belongs /\ Registry /\ Numbered
  BY <1>1, JobNoneAssumption DEF Belongs, Registry, Numbered
<1>9. Prefix /\ Counted /\ OverSucceeded /\ LatestOutput
  BY <1>1 DEF Prefix, Counted, OverSucceeded, LatestOutput
<1>10. OwnResult /\ CompletedIsComplete
  BY <1>1 DEF OwnResult, CompletedIsComplete
<1> QED BY <1>3, <1>5, <1>6, <1>7, <1>8, <1>9, <1>10 DEF IInv, JobInv

LEMMA NextIInv == IInv /\ [TaskNext]_taskVars => IInv'
<1> SUFFICES ASSUME IInv, [TaskNext]_taskVars PROVE IInv'
  OBVIOUS
<1>1. ASSUME NEW c \in Calls, CallNext(c)
      PROVE  IInv'
  BY <1>1, ExtendStep, StartStep, ForkWorkStep, DeliverStep, WinsStep, InjectStep
     DEF CallNext
<1>2. ASSUME NEW c \in Calls, WorkNext(c)
      PROVE  IInv'
  <2>1. OtherStep /\ UNCHANGED toolVars
    BY <1>2 DEF WorkNext, OtherStep, WorkStep
  <2> QED BY <2>1, RegistryStep
<1>3. ASSUME NEW j \in Jobs, Cancel(j)
      PROVE  IInv'
  <2>1. OtherStep /\ UNCHANGED toolVars
    BY <1>3 DEF Cancel, OtherStep
  <2> QED BY <2>1, RegistryStep
<1>4. CASE UNCHANGED taskVars
  <2>1. OtherStep /\ UNCHANGED toolVars
    BY <1>4 DEF taskVars, OtherStep
  <2> QED BY <2>1, RegistryStep
<1> QED BY <1>1, <1>2, <1>3, <1>4, InterruptedStep, CalledKeeps, PromoterStep DEF TaskNext

(* Every reachable state satisfies the inductive invariant, from which the *)
(* properties follow.                                                      *)
THEOREM Inductive == TaskSpec => []IInv
BY InitIInv, NextIInv, PTL DEF TaskSpec

(* Type correctness of the registry and of the tool.                       *)
THEOREM TypeCorrect == TaskSpec => []TaskTypeOK
<1>1. IInv => TaskTypeOK
  BY DEF IInv
<1> QED BY <1>1, Inductive, PTL

(* For any number of jobs, callers and promoters: whatever ends and        *)
(* restarts jobs meanwhile, only work of an incarnation gives it its       *)
(* output.                                                                 *)
THEOREM OwnResultHolds == TaskSpec => []OwnResult
<1>1. IInv => OwnResult
  BY DEF IInv, JobInv
<1> QED BY <1>1, Inductive, PTL

(* However many calls extend a running job, their work is done in the      *)
(* order it was registered, one piece at a time, until the scope is        *)
(* closed.                                                                 *)
THEOREM WorkInOrderHolds == TaskSpec => []WorkInOrder
<1>1. IInv => WorkInOrder
  BY DEF IInv, JobInv, Prefix, WorkInOrder
<1> QED BY <1>1, Inductive, PTL

(* However settles, extensions and cancels interleave, a job completes     *)
(* only once all its work succeeded, with the output of the last piece:    *)
(* pending is the number of pieces that have not settled.                  *)
THEOREM CompletedIsCompleteHolds == TaskSpec => []CompletedIsComplete
<1>1. IInv => CompletedIsComplete
  BY DEF IInv, JobInv
<1> QED BY <1>1, Inductive, PTL

(***************************************************************************)
(* Delivery.  What an incarnation is, in the background or not, is in the  *)
(* registry while it runs and in its end after: it can only go to the      *)
(* background.  A call that reports a result found it in the foreground;   *)
(* who is to inject it found it in the background, or told so itself.      *)
(***************************************************************************)
EndedAgrees ==
    \A j \in Jobs : job[j].status \in Ended =>
        /\ job[j].token \in Calls
        /\ final[job[j].token].status # "none"
        /\ final[job[j].token].mode = job[j].mode

Backgrounded(t) ==
    /\ work[t].token = t
    /\ \A j \in Jobs : job[j].token = t => job[j].mode = "background"
    /\ final[t].status # "none" => final[t].mode = "background"

Told(t) == call[t].at = "returned" /\ call[t].outcome = "background"

Reported(c) == call[c].outcome \in {"completed", "error"}

CallDelivers(c) ==
    /\ call[c].outcome # "none" => call[c].at = "returned"
    /\ (call[c].at = "race" \/ Reported(c)) /\ call[c].on \notin shared
          => call[c].on = c
    /\ Reported(c) =>
          /\ call[c].on \in Calls
          /\ final[call[c].on].status # "none"
          /\ final[call[c].on].mode = "foreground"

OwnNotifiers ==
    \A c, t \in Calls : <<c, t>> \in notifier /\ t \notin shared =>
        c = t /\ (Backgrounded(t) \/ Told(t))

Marked(p) == promoter[p].at # "idle" => Backgrounded(promoter[p].token)

DeliveryInv ==
    /\ EndedAgrees /\ OwnNotifiers
    /\ \A p \in Promoters : Marked(p)
    /\ \A c \in Calls : CallDelivers(c)

(* What steps do to incarnations: an end is for good, and has the mode the *)
(* registry had.                                                           *)
EndsAgree ==
    \A t \in Calls :
        /\ final[t].status # "none" => final'[t] = final[t]
        /\ final[t].status = "none" /\ final'[t].status # "none" =>
              \E i \in Jobs : job[i].token = t /\ final'[t].mode = job[i].mode

ModesStay ==
    \A i \in Jobs, t \in Calls :
        work[t].token = t /\ job'[i].token = t =>
            /\ job[i].token = t
            /\ job'[i].mode = job[i].mode \/ job'[i].mode = "background"

EndsStay ==
    \A i \in Jobs : job'[i].status \in Ended =>
        \/ /\ job[i].status \in Ended
           /\ job'[i].token = job[i].token /\ job'[i].mode = job[i].mode
        \/ /\ job'[i].token \in Calls
           /\ final'[job'[i].token].status # "none"
           /\ final'[job'[i].token].mode = job'[i].mode

StartsStay == \A t \in Calls : work[t].token = t => work'[t].token = t

KeepsModes == EndsAgree /\ ModesStay /\ EndsStay /\ StartsStay

LEMMA EndsWithModes ==
    ASSUME JobInv, NEW j \in Jobs, IsRunning(j), NEW status \in Ended, NEW output,
           EndsWith(j, status, output)
    PROVE  EndsAgree /\ ModesStay /\ EndsStay
<1>1. /\ JobType /\ job \in [Jobs -> JobRec] /\ final \in [Calls -> FinalRec]
      /\ job[j].token \in Calls /\ final[job[j].token] = NotEnded
  BY Typed, RunningToken DEF JobInv
<1>2. PICK t : t = job[j].token
  OBVIOUS
<1>3. PICK r : r = [job[j] EXCEPT !.status = status, !.pending = 0, !.output = output]
  OBVIOUS
<1>4. r.status = status /\ r.token = t /\ r.mode = job[j].mode
  BY <1>1, <1>2, <1>3 DEF JobRec
<1>5. job' = [job EXCEPT ![j] = r]
  BY <1>1, <1>3 DEF EndsWith, JobRec
<1>6. PICK f : f = [status |-> status, output |-> output, mode |-> job[j].mode]
  OBVIOUS
<1>7. f.status = status /\ f.mode = job[j].mode
  BY <1>6
<1>8. final' = [final EXCEPT ![t] = f]
  BY <1>2, <1>6 DEF EndsWith
<1>9. /\ job'[j] = r /\ \A i \in Jobs \ {j} : job'[i] = job[i]
      /\ final'[t] = f /\ \A u \in Calls \ {t} : final'[u] = final[u]
  BY <1>1, <1>2, <1>5, <1>8
<1>10. final[t].status = "none" /\ status # "none"
  BY <1>1, <1>2 DEF NotEnded, Ended
<1>11. EndsAgree
  BY <1>2, <1>7, <1>9, <1>10 DEF EndsAgree
<1>12. ModesStay
  BY <1>2, <1>4, <1>9 DEF ModesStay
<1>13. EndsStay
  <2>1. ASSUME NEW i \in Jobs, i # j, job'[i].status \in Ended
        PROVE  /\ job[i].status \in Ended
               /\ job'[i].token = job[i].token /\ job'[i].mode = job[i].mode
    BY <1>9, <2>1
  <2>2. /\ job'[j].token = t /\ t \in Calls /\ final'[t].status # "none"
        /\ final'[t].mode = job'[j].mode
    BY <1>1, <1>2, <1>4, <1>7, <1>9, <1>10
  <2> QED BY <2>1, <2>2 DEF EndsStay
<1> QED BY <1>11, <1>12, <1>13

LEMMA SameModes ==
    ASSUME UNCHANGED final,
           \A i \in Jobs :
              /\ job'[i].token = job[i].token /\ job'[i].status = job[i].status
              /\ \/ job'[i].mode = job[i].mode
                 \/ job'[i].mode = "background" /\ job[i].status \notin Ended
    PROVE  EndsAgree /\ ModesStay /\ EndsStay
BY DEF EndsAgree, ModesStay, EndsStay

LEMMA SettleModes ==
    ASSUME JobInv, NEW c \in Calls, Settle(c)
    PROVE  EndsAgree /\ ModesStay /\ EndsStay
<1>1. work[c].job \in Jobs /\ job \in [Jobs -> JobRec] /\ work[c].exit \in Exits
  BY HasToken, Typed DEF Settle, JobInv, WorkRec
<1>2. CASE UNCHANGED <<job, final>>
  BY <1>2, SameModes
<1>3. CASE UNCHANGED final /\ job' = [job EXCEPT ![work[c].job].pending = @ - 1,
                                                 ![work[c].job].output = OutputAfter(c)]
  <2>1. \A i \in Jobs : /\ job'[i].token = job[i].token /\ job'[i].status = job[i].status
                        /\ job'[i].mode = job[i].mode
    BY <1>1, <1>3 DEF JobRec
  <2> QED BY <1>3, <2>1, SameModes
<1>4. CASE /\ Current(c)
           /\ EndsWith(work[c].job, StatusOf(work[c].exit), OutputAfter(c))
  <2>1. StatusOf(work[c].exit) \in Ended
    BY <1>1 DEF StatusOf, Exits, Ended
  <2> QED BY <1>1, <1>4, <2>1, EndsWithModes DEF Current, IsRunning
<1> QED BY <1>2, <1>3, <1>4 DEF Settle

LEMMA OtherModes ==
    ASSUME JobInv, OtherStep
    PROVE  KeepsModes
<1>1. StartsStay
  BY OtherNames DEF SameNames, StartsStay
<1>2. job \in [Jobs -> JobRec]
  BY Typed DEF JobInv
<1>3. ASSUME UNCHANGED <<job, final>>
      PROVE  KeepsModes
  BY <1>1, <1>3, SameModes DEF KeepsModes
<1>4. ASSUME NEW c \in Calls, WorkStep(c)
      PROVE  KeepsModes
  <2>1. CASE Settle(c)
    BY <1>1, <2>1, SettleModes DEF KeepsModes
  <2> QED BY <1>3, <1>4, <2>1
          DEF WorkStep, Fork, WorkBegins, WorkInterrupted, WorkEnds
<1>5. ASSUME NEW c \in Calls, PublishEnd(c) \/ PromoteCompletes(c)
      PROVE  KeepsModes
  BY <1>3, <1>5 DEF PublishEnd, PromoteCompletes
<1>6. ASSUME NEW j \in Jobs, CancelJob(j)
      PROVE  KeepsModes
  <2>1. IsRunning(j) /\ EndsWith(j, "cancelled", job[j].output) /\ "cancelled" \in Ended
    BY <1>6 DEF CancelJob, Ended
  <2> QED BY <1>1, <2>1, EndsWithModes DEF KeepsModes
<1>7. ASSUME NEW j \in Jobs, PromoteMarks(j)
      PROVE  KeepsModes
  <2>1. \A i \in Jobs : /\ job'[i].token = job[i].token /\ job'[i].status = job[i].status
                        /\ \/ job'[i].mode = job[i].mode
                           \/ job'[i].mode = "background" /\ job[i].status \notin Ended
    BY <1>2, <1>7 DEF PromoteMarks, JobRec, IsRunning, Ended
  <2>2. UNCHANGED final
    BY <1>7 DEF PromoteMarks
  <2> QED BY <1>1, <2>1, <2>2, SameModes DEF KeepsModes
<1>8. ASSUME UNCHANGED jobVars
      PROVE  KeepsModes
  BY <1>3, <1>8 DEF jobVars
<1> QED BY <1>4, <1>5, <1>6, <1>7, <1>8 DEF OtherStep

LEMMA RegisteringModes ==
    ASSUME JobInv, NEW c \in Calls, Unused(c), Registering(c)
    PROVE  KeepsModes
<1>1. PICK j \in Jobs : \/ ExtendRegisters(c, j)
                        \/ \E mode \in Modes : StartRegisters(c, j, mode)
  BY DEF Registering
<1>2. JobType /\ UNCHANGED final /\ job \in [Jobs -> JobRec] /\ work[c].token = None
  BY <1>1, Typed DEF JobInv, ExtendRegisters, StartRegisters, Unused, NoWork
<1>3. \A t \in Calls : work[t].token = t => t # c
  BY <1>2, JobNoneAssumption
<1>4. ASSUME NEW t \in Calls, NEW seq \in Nat, Registers(c, j, t, seq)
      PROVE  StartsStay
  BY <1>3, <1>4, NewWork DEF StartsStay
<1>5. CASE ExtendRegisters(c, j)
  <2>1. /\ job[j].token \in Calls /\ job[j].next \in Nat
        /\ Registers(c, j, job[j].token, job[j].next)
    BY <1>2, <1>5, RunningToken, Typed DEF ExtendRegisters, JobRec
  <2>2. StartsStay
    BY <1>4, <2>1
  <2>3. \A i \in Jobs : /\ job'[i].token = job[i].token /\ job'[i].status = job[i].status
                        /\ job'[i].mode = job[i].mode
    <3>1. PICK r : r = [job[j] EXCEPT !.pending = @ + 1, !.next = @ + 1]
      OBVIOUS
    <3>2. JobKept(j) /\ job'[j] = r
      BY <1>2, <1>5, <3>1, ExtendEffect
    <3>3. r.token = job[j].token /\ r.status = job[j].status /\ r.mode = job[j].mode
      BY <1>2, <3>1 DEF JobRec
    <3> QED BY <3>2, <3>3 DEF JobKept
  <2> QED BY <1>2, <2>2, <2>3, SameModes DEF KeepsModes
<1>6. CASE \E mode \in Modes : StartRegisters(c, j, mode)
  <2>1. PICK mode \in Modes : StartRegisters(c, j, mode)
    BY <1>6
  <2>2. Registers(c, j, c, 0)
    BY <2>1 DEF StartRegisters
  <2>3. StartsStay
    BY <1>4, <2>2
  <2>4. /\ job'[j].token = c /\ job'[j].status = "running"
        /\ \A i \in Jobs : i # j => job'[i] = job[i]
    <3>1. JobKept(j) /\ job'[j] = [status |-> "running", token |-> c, pending |-> 1,
                                   next |-> 1, output |-> None, mode |-> mode]
      BY <1>2, <2>1, StartEffect
    <3> QED BY <3>1 DEF JobKept
  <2>5. EndsAgree
    BY <1>2 DEF EndsAgree
  <2>6. ModesStay
    BY <1>3, <2>4 DEF ModesStay
  <2>7. EndsStay
    BY <1>2, <2>4 DEF EndsStay, Ended
  <2> QED BY <2>3, <2>5, <2>6, <2>7 DEF KeepsModes
<1> QED BY <1>1, <1>5, <1>6

LEMMA BackgroundedKept ==
    ASSUME KeepsModes, NEW t \in Calls, Backgrounded(t)
    PROVE  Backgrounded(t)'
<1>1. work'[t].token = t
  BY DEF KeepsModes, StartsStay, Backgrounded
<1>2. \A i \in Jobs : job'[i].token = t => job'[i].mode = "background"
  BY DEF KeepsModes, ModesStay, Backgrounded
<1>3. final'[t].status # "none" => final'[t].mode = "background"
  BY DEF KeepsModes, EndsAgree, Backgrounded
<1> QED BY <1>1, <1>2, <1>3 DEF Backgrounded

LEMMA EndedAgreesKept ==
    ASSUME EndedAgrees, KeepsModes
    PROVE  EndedAgrees'
BY DEF EndedAgrees, KeepsModes, EndsStay, EndsAgree

LEMMA CallDeliversKept ==
    ASSUME KeepsModes, NEW c \in Calls, CallDelivers(c), call'[c] = call[c],
           shared \subseteq shared'
    PROVE  CallDelivers(c)'
BY DEF KeepsModes, EndsAgree, CallDelivers, Reported

(* What a step has to show of the calls, the promotions and the notifiers  *)
(* it changes.                                                             *)
LEMMA DeliveryStep ==
    ASSUME IInv, DeliveryInv, KeepsModes,
           \A c \in Calls : \/ call'[c] = call[c]
                            \/ call[c].at # "returned" /\ CallDelivers(c)',
           \A p \in Promoters : promoter'[p] = promoter[p] \/ Marked(p)',
           shared \subseteq shared',
           \A c, t \in Calls : <<c, t>> \in notifier' /\ t \notin shared' =>
              \/ <<c, t>> \in notifier
              \/ c = t /\ (Backgrounded(t)' \/ Told(t)')
    PROVE  DeliveryInv'
<1>1. EndedAgrees'
  BY EndedAgreesKept DEF DeliveryInv
<1>2. \A c \in Calls : CallDelivers(c)'
  BY CallDeliversKept DEF DeliveryInv
<1>3. ASSUME NEW p \in Promoters
      PROVE  Marked(p)'
  <2>1. CASE promoter'[p] = promoter[p] /\ promoter[p].at # "idle"
    <3>1. promoter[p].token \in Calls /\ Backgrounded(promoter[p].token)
      BY <2>1 DEF DeliveryInv, Marked, IInv, Referring, Promoting
    <3>2. PICK t \in Calls : t = promoter[p].token
      BY <3>1
    <3>3. Backgrounded(t)'
      BY <3>1, <3>2, BackgroundedKept
    <3>4. promoter'[p].token = t
      BY <2>1, <3>2
    <3> QED BY <3>3, <3>4 DEF Backgrounded, Marked
  <2>2. CASE promoter'[p] = promoter[p] /\ promoter[p].at = "idle"
    BY <2>2 DEF Marked
  <2> QED BY <2>1, <2>2
<1>4. ASSUME NEW t \in Calls, Told(t)
      PROVE  Told(t)'
  <2>1. call'[t] = call[t]
    BY <1>4 DEF Told
  <2> QED BY <1>4, <2>1 DEF Told
<1>5. OwnNotifiers'
  BY <1>4, BackgroundedKept DEF OwnNotifiers, DeliveryInv
<1> QED BY <1>1, <1>2, <1>3, <1>5 DEF DeliveryInv

(* A call that neither waits nor has reported a result.                    *)
LEMMA SilentCall ==
    ASSUME NEW c \in Calls, call'[c].at # "race",
           call'[c].outcome \notin {"completed", "error"},
           call'[c].outcome # "none" => call'[c].at = "returned"
    PROVE  CallDelivers(c)'
BY DEF CallDelivers, Reported

LEMMA NoOutcomeYet ==
    ASSUME IInv, DeliveryInv, NEW c \in Calls, call[c].at # "returned"
    PROVE  call[c].outcome = "none"
BY DEF DeliveryInv, CallDelivers

LEMMA CallGoesLeaves ==
    ASSUME IInv, NEW c \in Calls, NEW at, CallGoes(c, at)
    PROVE  /\ call'[c].at = at /\ call'[c].outcome = call[c].outcome
           /\ \A d \in Calls : d # c => call'[d] = call[d]
BY ToolTyped DEF IInv, ToolType, CallGoes, CallRec

LEMMA ReturnsOutcome ==
    ASSUME IInv, NEW c \in Calls, NEW outcome, Returns(c, outcome)
    PROVE  /\ call'[c].at = "returned" /\ call'[c].outcome = outcome
           /\ call'[c].on = call[c].on
           /\ \A d \in Calls : d # c => call'[d] = call[d]
<1>1. call \in [Calls -> CallRec]
  BY ToolTyped DEF IInv, ToolType
<1>2. PICK r : r = [call[c] EXCEPT !.at = "returned", !.outcome = outcome]
  OBVIOUS
<1>3. call' = [call EXCEPT ![c] = r]
  BY <1>1, <1>2 DEF Returns, CallRec
<1>4. r.at = "returned" /\ r.outcome = outcome /\ r.on = call[c].on
  BY <1>1, <1>2 DEF CallRec
<1> QED BY <1>1, <1>3, <1>4

(* Calls that come, register or are told of what they extended.            *)
LEMMA ComingDelivers ==
    ASSUME IInv, DeliveryInv, NEW c \in Calls,
           \/ \E j \in Jobs, mode \in CallModes : Called(c, j, mode)
           \/ Extend(c) \/ Start(c) \/ ForkWork(c)
    PROVE  DeliveryInv'
<1>1. /\ call[c].at # "returned"
      /\ UNCHANGED <<promoter, notifier, injected, shared>>
      /\ call \in [Calls -> CallRec]
  BY ToolTyped DEF Called, Extend, Start, ForkWork, IInv, ToolType
<1>2. call[c].outcome = "none"
  BY <1>1, NoOutcomeYet
<1>3. KeepsModes
  <2>1. CASE Fresh(c) /\ Registering(c)
    BY <2>1, RegisteringModes DEF IInv, FreshUnused
  <2>2. CASE OtherStep
    BY <2>2, OtherModes DEF IInv
  <2>3. CASE \E j \in Jobs, mode \in CallModes : Called(c, j, mode)
    BY <2>2, <2>3 DEF Called, OtherStep
  <2>4. CASE Extend(c)
    <3>1. call[c].job \in Jobs /\ Fresh(c)
      BY <2>4 DEF Extend, IInv, Referring, Placed, Fresh
    <3> QED BY <2>1, <2>2, <2>4, <3>1 DEF Extend, Registering, OtherStep
  <2>5. CASE Start(c)
    <3>1. call[c].job \in Jobs /\ Fresh(c) /\ call[c].mode \in Modes
      BY <1>1, <2>5 DEF Start, IInv, Referring, Placed, Fresh, CallRec
    <3> QED BY <2>1, <2>2, <2>5, <3>1 DEF Start, Registering, OtherStep
  <2>6. CASE ForkWork(c)
    BY <2>2, <2>6 DEF ForkWork, OtherStep, WorkStep
  <2> QED BY <2>3, <2>4, <2>5, <2>6
<1>4. /\ call'[c].at # "race" /\ call'[c].outcome \in {"none", "updated"}
      /\ call'[c].outcome # "none" => call'[c].at = "returned"
      /\ \A d \in Calls : d # c => call'[d] = call[d]
  <2>1. ASSUME NEW j \in Jobs, NEW mode \in CallModes, Called(c, j, mode)
        PROVE  /\ call'[c].at = "extend" /\ call'[c].outcome = "none"
               /\ \A d \in Calls : d # c => call'[d] = call[d]
    <3>1. PICK r : r = [call[c] EXCEPT !.at = "extend", !.job = j, !.mode = mode]
      OBVIOUS
    <3>2. call' = [call EXCEPT ![c] = r]
      BY <1>1, <2>1, <3>1 DEF Called, CallRec
    <3>3. r.at = "extend" /\ r.outcome = "none"
      BY <1>1, <1>2, <3>1 DEF CallRec
    <3> QED BY <1>1, <3>2, <3>3
  <2>2. ASSUME call' = [call EXCEPT ![c].at = "fork", ![c].on = job[call[c].job].token]
        PROVE  /\ call'[c].at = "fork" /\ call'[c].outcome = "none"
               /\ \A d \in Calls : d # c => call'[d] = call[d]
    <3>1. PICK r : r = [call[c] EXCEPT !.at = "fork", !.on = job[call[c].job].token]
      OBVIOUS
    <3>2. call' = [call EXCEPT ![c] = r]
      BY <1>1, <2>2, <3>1 DEF CallRec
    <3>3. r.at = "fork" /\ r.outcome = "none"
      BY <1>1, <1>2, <3>1 DEF CallRec
    <3> QED BY <1>1, <3>2, <3>3
  <2>3. ASSUME NEW at \in {"start", "fork", "deliver"}, CallGoes(c, at)
        PROVE  /\ call'[c].at # "race" /\ call'[c].outcome = "none"
               /\ \A d \in Calls : d # c => call'[d] = call[d]
    BY <1>2, <2>3, CallGoesLeaves
  <2>4. ASSUME Returns(c, "updated")
        PROVE  /\ call'[c].at = "returned" /\ call'[c].outcome = "updated"
               /\ \A d \in Calls : d # c => call'[d] = call[d]
    BY <2>4, ReturnsOutcome
  <2>5. CASE \E j \in Jobs, mode \in CallModes : Called(c, j, mode)
    BY <2>1, <2>5
  <2>6. CASE Extend(c)
    BY <2>2, <2>3, <2>6 DEF Extend
  <2>7. CASE Start(c) \/ ForkWork(c)
    BY <2>3, <2>4, <2>7 DEF Start, ForkWork
  <2> QED BY <2>5, <2>6, <2>7
<1>5. CallDelivers(c)'
  BY <1>4, SilentCall
<1> QED BY <1>1, <1>3, <1>4, <1>5, DeliveryStep

(* A call looks its job up: it has its own incarnation, or shares one.     *)
LEMMA DeliverDelivers ==
    ASSUME IInv, DeliveryInv, NEW c \in Calls, Deliver(c)
    PROVE  DeliveryInv'
<1>1. PICK j, t : j = call[c].job /\ t = job[j].token
  OBVIOUS
<1>2. /\ call[c].at = "deliver" /\ j \in Jobs /\ t \in Calls
      /\ call \in [Calls -> CallRec] /\ job \in [Jobs -> JobRec]
      /\ shared \subseteq Calls
      /\ UNCHANGED <<jobVars, promoter, injected>>
  BY <1>1, ToolTyped, Typed DEF Deliver, IInv, ToolType, Referring, Placed
<1>3. KeepsModes
  BY <1>2, OtherModes DEF OtherStep, IInv
<1>4. call[c].outcome = "none"
  BY <1>2, NoOutcomeYet
<1>5. shared' = shared \cup ({t} \ {c})
  BY <1>1 DEF Deliver, LooksUp
<1>6. t \notin shared' => t = c
  BY <1>5
<1>7. ASSUME NEW outcome,
             call' = [call EXCEPT ![c].at = "returned", ![c].on = t, ![c].outcome = outcome]
      PROVE  /\ call'[c].at = "returned" /\ call'[c].on = t /\ call'[c].outcome = outcome
             /\ \A d \in Calls : d # c => call'[d] = call[d]
  <2>1. PICK r : r = [call[c] EXCEPT !.at = "returned", !.on = t, !.outcome = outcome]
    OBVIOUS
  <2>2. call' = [call EXCEPT ![c] = r]
    BY <1>2, <1>7, <2>1 DEF CallRec
  <2>3. r.at = "returned" /\ r.on = t /\ r.outcome = outcome
    BY <1>2, <2>1 DEF CallRec
  <2> QED BY <1>2, <2>2, <2>3
<1>8. ASSUME call' = [call EXCEPT ![c].at = "race", ![c].on = t]
      PROVE  /\ call'[c].at = "race" /\ call'[c].on = t /\ call'[c].outcome = "none"
             /\ \A d \in Calls : d # c => call'[d] = call[d]
  <2>1. PICK r : r = [call[c] EXCEPT !.at = "race", !.on = t]
    OBVIOUS
  <2>2. call' = [call EXCEPT ![c] = r]
    BY <1>2, <1>8, <2>1 DEF CallRec
  <2>3. r.at = "race" /\ r.on = t /\ r.outcome = "none"
    BY <1>2, <1>4, <2>1 DEF CallRec
  <2> QED BY <1>2, <2>2, <2>3
<1>9. CASE /\ notifier' = notifier \cup {<<c, t>>}
           /\ call' = [call EXCEPT ![c].at = "returned", ![c].on = t,
                                   ![c].outcome = "background"]
  <2>1. /\ call'[c].at = "returned" /\ call'[c].outcome = "background"
        /\ \A d \in Calls : d # c => call'[d] = call[d]
    BY <1>7, <1>9
  <2>2. CallDelivers(c)' /\ Told(c)'
    BY <2>1, SilentCall DEF Told
  <2>3. \A d, u \in Calls : <<d, u>> \in notifier' /\ u \notin shared' =>
           \/ <<d, u>> \in notifier
           \/ d = u /\ Told(u)'
    BY <1>6, <1>9, <2>2
  <2> QED BY <1>2, <1>3, <1>5, <2>1, <2>2, <2>3, DeliveryStep
<1>10. CASE /\ Answer(j) # "running" /\ notifier' = notifier
            /\ call' = [call EXCEPT ![c].at = "returned", ![c].on = t,
                                    ![c].outcome = Answer(j)]
  <2>1. /\ call'[c].at = "returned" /\ call'[c].on = t /\ call'[c].outcome = Answer(j)
        /\ \A d \in Calls : d # c => call'[d] = call[d]
    BY <1>7, <1>10
  <2>2. Answer(j) \in {"completed", "error"} =>
          final[t].status # "none" /\ final[t].mode = "foreground"
    <3>1. Answer(j) \in {"completed", "error"} =>
            job[j].status \in Ended /\ job[j].mode = "foreground"
      BY <1>2 DEF Answer, JobRec, Modes, Ended
    <3> QED BY <1>1, <1>2, <3>1 DEF DeliveryInv, EndedAgrees
  <2>3. UNCHANGED final
    BY <1>2 DEF jobVars
  <2>4. CallDelivers(c)'
    BY <1>2, <1>6, <2>1, <2>2, <2>3 DEF CallDelivers, Reported
  <2> QED BY <1>2, <1>3, <1>5, <1>10, <2>1, <2>4, DeliveryStep
<1>11. CASE /\ notifier' = notifier
            /\ call' = [call EXCEPT ![c].at = "race", ![c].on = t]
  <2>1. /\ call'[c].at = "race" /\ call'[c].on = t /\ call'[c].outcome = "none"
        /\ \A d \in Calls : d # c => call'[d] = call[d]
    BY <1>8, <1>11
  <2>2. CallDelivers(c)'
    BY <1>6, <2>1 DEF CallDelivers, Reported
  <2> QED BY <1>2, <1>3, <1>5, <1>11, <2>1, <2>2, DeliveryStep
<1> QED BY <1>1, <1>9, <1>10, <1>11 DEF Deliver, Notify

(* A call that waited for an incarnation is told of its end, or that it    *)
(* went to the background.                                                 *)
LEMMA WinsDelivers ==
    ASSUME IInv, DeliveryInv, NEW c \in Calls, Wins(c)
    PROVE  DeliveryInv'
<1>1. PICK t : t = call[c].on
  OBVIOUS
<1>2. /\ call[c].at = "race" /\ t \in Calls
      /\ UNCHANGED <<jobVars, promoter, notifier, injected, shared>>
      /\ UNCHANGED <<final, shared>> /\ KeepsModes
  BY <1>1, OtherModes DEF Wins, IInv, Referring, Placed, OtherStep, jobVars
<1>3. PICK outcome :
         /\ Returns(c, outcome)
         /\ \/ t \in published
               /\ outcome = (IF final[t].mode = "background" THEN "background"
                             ELSE final[t].status)
            \/ outcome = "background"
  BY <1>1 DEF Wins
<1>4. /\ call'[c].at = "returned" /\ call'[c].outcome = outcome
      /\ call'[c].on = t
      /\ \A d \in Calls : d # c => call'[d] = call[d]
  BY <1>1, <1>3, ReturnsOutcome
<1>5. outcome \in {"completed", "error"} =>
          final[t].status # "none" /\ final[t].mode = "foreground"
  <2>1. final[t].mode \in Modes /\ (t \in published => final[t].status # "none")
    BY <1>2, Typed DEF IInv, JobInv, FinalRec, Registry
  <2> QED BY <1>3, <2>1 DEF Modes
<1>6. t \notin shared => t = c
  BY <1>1, <1>2 DEF DeliveryInv, CallDelivers
<1>7. CallDelivers(c)'
  BY <1>2, <1>4, <1>5, <1>6 DEF CallDelivers, Reported
<1> QED BY <1>2, <1>4, <1>7, DeliveryStep

LEMMA InterruptedDelivers ==
    ASSUME IInv, DeliveryInv, NEW c \in Calls, Interrupted(c)
    PROVE  DeliveryInv'
<1>1. /\ call[c].at = "race" /\ call[c].job \in Jobs
      /\ UNCHANGED <<promoter, notifier, injected, shared>>
      /\ Returns(c, "interrupted")
  BY DEF Interrupted, IInv, Referring, Placed
<1>2. KeepsModes
  BY <1>1, OtherModes DEF Interrupted, OtherStep, IInv
<1>3. /\ call'[c].at = "returned" /\ call'[c].outcome = "interrupted"
      /\ \A d \in Calls : d # c => call'[d] = call[d]
  BY <1>1, ReturnsOutcome
<1>4. CallDelivers(c)'
  BY <1>3, SilentCall
<1> QED BY <1>1, <1>2, <1>3, <1>4, DeliveryStep

(* Injections, work, cancels and stuttering deliver nothing to a call.     *)
LEMMA ElsewhereDelivers ==
    ASSUME IInv, DeliveryInv, OtherStep, UNCHANGED <<call, promoter, notifier, shared>>
    PROVE  DeliveryInv'
<1>1. KeepsModes
  BY OtherModes DEF IInv
<1> QED BY <1>1, DeliveryStep

(* A promotion marks its incarnation first, and its hook notifies of that  *)
(* one, or of another that it shares from then on.                         *)
LEMMA PromoterDelivers ==
    ASSUME IInv, DeliveryInv, NEW p \in Promoters,
           PromoterNext(p) \/ PromoteStops(p) \/ \E j \in Jobs : Promote(p, j)
    PROVE  DeliveryInv'
<1>1. /\ promoter \in [Promoters -> PromoterRec] /\ JobInv /\ Promoting(p) /\ Marked(p)
      /\ \A q \in Promoters : q # p => promoter'[q] = promoter[q]
      /\ UNCHANGED call /\ shared \subseteq shared'
  BY ToolTyped DEF IInv, ToolType, Referring, DeliveryInv, PromoterNext, PromoteResolves,
                   PromoteHook, PromoteStops, Promote, LooksUp
<1>2. ASSUME promoter' = [promoter EXCEPT ![p] = NotPromoting]
      PROVE  Marked(p)'
  BY <1>1, <1>2 DEF Marked, NotPromoting
<1>3. CASE PromoteResolves(p)
  <2>1. PICK t \in Calls : t = promoter[p].token
    BY <1>1, <1>3 DEF PromoteResolves, Promoting
  <2>2. KeepsModes
    BY <1>1, <1>3, <2>1, OtherModes DEF PromoteResolves, OtherStep
  <2>3. Backgrounded(t)'
    BY <1>1, <1>3, <2>1, <2>2, BackgroundedKept DEF Marked, PromoteResolves
  <2>4. promoter'[p].token = t
    BY <1>1, <1>3, <2>1 DEF PromoteResolves, PromoterRec
  <2>5. Marked(p)'
    BY <2>3, <2>4 DEF Marked, Backgrounded
  <2>6. UNCHANGED notifier
    BY <1>3 DEF PromoteResolves
  <2> QED BY <1>1, <2>2, <2>5, <2>6, DeliveryStep
<1>4. CASE PromoteHook(p)
  <2>1. PICK t \in Calls, u \in Calls :
           t = promoter[p].token /\ u = job[promoter[p].job].token
    BY <1>1, <1>4 DEF PromoteHook, Promoting
  <2>2. /\ notifier' = notifier \cup {<<t, u>>} /\ shared' = shared \cup ({u} \ {t})
        /\ promoter' = [promoter EXCEPT ![p] = NotPromoting] /\ UNCHANGED jobVars
    BY <1>4, <2>1 DEF PromoteHook, Notify, LooksUp
  <2>3. KeepsModes
    BY <1>1, <2>2, OtherModes DEF OtherStep
  <2>4. Backgrounded(t)
    BY <1>1, <1>4, <2>1 DEF Marked, PromoteHook
  <2>5. Backgrounded(t)'
    BY <2>3, <2>4, BackgroundedKept
  <2>6. \A c, v \in Calls : <<c, v>> \in notifier' /\ v \notin shared' =>
           \/ <<c, v>> \in notifier
           \/ c = v /\ v = t
    BY <2>2
  <2>7. \A c, v \in Calls : <<c, v>> \in notifier' /\ v \notin shared' =>
           \/ <<c, v>> \in notifier
           \/ c = v /\ Backgrounded(v)'
    BY <2>5, <2>6
  <2>8. Marked(p)'
    BY <1>2, <2>2
  <2> QED BY <1>1, <2>3, <2>7, <2>8, DeliveryStep
<1>5. CASE PromoteStops(p)
  <2>1. /\ OtherStep /\ UNCHANGED notifier /\ Marked(p)'
    BY <1>2, <1>5 DEF PromoteStops, OtherStep
  <2>2. KeepsModes
    BY <1>1, <2>1, OtherModes
  <2> QED BY <1>1, <2>1, <2>2, DeliveryStep
<1>6. ASSUME NEW j \in Jobs, Promote(p, j)
      PROVE  DeliveryInv'
  <2>1. PICK t \in Calls : t = job[j].token
    BY <1>1, <1>6, RunningToken DEF Promote, PromoteMarks
  <2>2. /\ IsRunning(j) /\ UNCHANGED <<notifier, work, final>> /\ OtherStep
        /\ job' = [job EXCEPT ![j].mode = "background"]
    BY <1>6 DEF Promote, PromoteMarks, OtherStep
  <2>3. KeepsModes
    BY <1>1, <2>2, OtherModes
  <2>4. promoter'[p].token = t
    <3>1. PICK r : r = [at |-> "deferred", job |-> j, token |-> job[j].token]
      OBVIOUS
    <3>2. r.token = t
      BY <2>1, <3>1
    <3>3. promoter' = [promoter EXCEPT ![p] = r]
      BY <1>6, <3>1 DEF Promote
    <3> QED BY <1>1, <3>2, <3>3
  <2>5. /\ job'[j].mode = "background"
        /\ \A i \in Jobs : job'[i].token = t => i = j
    <3>1. job \in [Jobs -> JobRec]
      BY <1>1, Typed DEF JobInv
    <3>2. /\ job'[j].mode = "background" /\ \A i \in Jobs : job'[i].token = job[i].token
      BY <2>2, <3>1 DEF JobRec
    <3>3. \A i \in Jobs : job[i].token = t => i = j
      BY <1>1, <2>1, OneJob DEF JobInv
    <3> QED BY <3>2, <3>3
  <2>6. work'[t].token = t /\ final'[t].status = "none"
    BY <1>1, <2>1, <2>2 DEF JobInv, Belongs, Registry, NotEnded
  <2>7. Marked(p)'
    BY <2>4, <2>5, <2>6 DEF Marked, Backgrounded
  <2> QED BY <1>1, <2>2, <2>3, <2>7, DeliveryStep
<1> QED BY <1>3, <1>4, <1>5, <1>6 DEF PromoterNext

LEMMA InitDelivers == TaskInit => DeliveryInv
<1> SUFFICES ASSUME TaskInit PROVE DeliveryInv
  OBVIOUS
<1>1. /\ \A j \in Jobs : job[j].status = "none"
      /\ \A c \in Calls : call[c].at = "idle" /\ call[c].outcome = "none"
      /\ \A p \in Promoters : promoter[p].at = "idle"
      /\ notifier = {}
  BY DEF TaskInit, JobInit, NoJob, NotCalled, NotPromoting
<1>2. EndedAgrees /\ OwnNotifiers
  BY <1>1 DEF EndedAgrees, OwnNotifiers, Ended
<1> QED BY <1>1, <1>2 DEF DeliveryInv, Marked, CallDelivers, Reported

LEMMA NextDelivers == IInv /\ DeliveryInv /\ [TaskNext]_taskVars => DeliveryInv'
<1> SUFFICES ASSUME IInv, DeliveryInv, [TaskNext]_taskVars PROVE DeliveryInv'
  OBVIOUS
<1>1. ASSUME NEW c \in Calls, NEW t \in Calls, Inject(c, t)
      PROVE  DeliveryInv'
  BY <1>1, ElsewhereDelivers DEF Inject, OtherStep
<1>2. ASSUME NEW c \in Calls, CallNext(c)
      PROVE  DeliveryInv'
  BY <1>1, <1>2, ComingDelivers, DeliverDelivers, WinsDelivers DEF CallNext
<1>3. ASSUME NEW c \in Calls, WorkNext(c)
      PROVE  DeliveryInv'
  BY <1>3, ElsewhereDelivers DEF WorkNext, OtherStep, WorkStep, toolVars
<1>4. ASSUME NEW j \in Jobs, Cancel(j)
      PROVE  DeliveryInv'
  BY <1>4, ElsewhereDelivers DEF Cancel, OtherStep, toolVars
<1>5. CASE UNCHANGED taskVars
  BY <1>5, ElsewhereDelivers DEF taskVars, OtherStep, toolVars
<1> QED BY <1>2, <1>3, <1>4, <1>5, InterruptedDelivers, ComingDelivers, PromoterDelivers
        DEF TaskNext

(* Who waits and who is to inject never meet on an incarnation nobody else *)
(* joined: the one who reported its result found it in the foreground.     *)
LEMMA DeliveryMeansOnce ==
    ASSUME IInv, DeliveryInv
    PROVE  DeliveredOnce
<1> SUFFICES ASSUME NEW t \in Calls \ shared
             PROVE  /\ \A c, d \in Calls :
                          <<c, t>> \in notifier /\ <<d, t>> \in notifier => c = d
                    /\ \A c, d \in Calls :
                          call[c].on = t /\ Reported(c) => <<d, t>> \notin injected
  BY DEF DeliveredOnce, Reported
<1>1. \A c \in Calls : <<c, t>> \in notifier => c = t /\ (Backgrounded(t) \/ Told(t))
  BY DEF DeliveryInv, OwnNotifiers
<1>2. ASSUME NEW c \in Calls, NEW d \in Calls, call[c].on = t, Reported(c),
             <<d, t>> \in injected
      PROVE  FALSE
  <2>1. Backgrounded(t) \/ Told(t)
    BY <1>1, <1>2 DEF IInv, TaskTypeOK
  <2>2. c = t /\ final[t].status # "none" /\ final[t].mode = "foreground"
    BY <1>2 DEF DeliveryInv, CallDelivers
  <2> QED BY <1>2, <2>1, <2>2 DEF Backgrounded, Told, Reported
<1> QED BY <1>1, <1>2

(* A task's result reaches the parent session once, however calls, ends,   *)
(* promotions, their interruptions and cancels interleave: unless another  *)
(* call joined the incarnation, at most one notify fiber has it, and none  *)
(* injects what a call has returned.                                       *)
THEOREM ResultsDeliveredOnce == TaskSpec => []DeliveredOnce
<1>1. TaskInit => IInv /\ DeliveryInv
  BY InitIInv, InitDelivers
<1>2. (IInv /\ DeliveryInv) /\ [TaskNext]_taskVars => (IInv /\ DeliveryInv)'
  BY NextIInv, NextDelivers
<1>3. IInv /\ DeliveryInv => DeliveredOnce
  BY DeliveryMeansOnce
<1> QED BY <1>1, <1>2, <1>3, PTL DEF TaskSpec
=============================================================================
