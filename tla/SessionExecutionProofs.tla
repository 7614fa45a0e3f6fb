----------------------- MODULE SessionExecutionProofs -----------------------
(***************************************************************************)
(* Theorems about SessionExecution, for any sets of sessions, entries,     *)
(* clients and wakers.  What RunCoordinatorProofs shows of the coordinator *)
(* holds of it inside the service, because every step of the service is a  *)
(* step of the coordinator or leaves it alone.                             *)
(***************************************************************************)
EXTENDS SessionExecution, RunCoordinatorProofs

(* Who is in a call has named a session, who is not has none.              *)
Named ==
    /\ \A w \in Wakers : IF waker[w].at = "off" THEN waker[w].key = None
                         ELSE waker[w].key \in Keys
    /\ \A c \in Clients : IF hush[c].at = "off" THEN hush[c].key = None
                          ELSE hush[c].key \in Keys

(* A stopped entry has somebody who waits for its end to report idle: the  *)
(* drain that is interrupted before its finalizer is installed relies on   *)
(* it.                                                                     *)
StoppedByHush ==
    \A e \in stopping : \E c \in Clients :
        /\ client[c].at = "stopping" /\ client[c].on = e
        /\ hush[c] = [at |-> "wait", key |-> entry[e].key]

(* Somebody has a report of idle for session k ahead: a fiber about to     *)
(* wake it that reported busy, one that interrupts it, an entry about to   *)
(* drain or draining.  The stages before a drain's and an interrupt's      *)
(* report are parameters.                                                  *)
Published == {}

Recorded == {"idleRecord"}

Wakes(s) == IF s = Published THEN {"busyRecord", "wake"} ELSE {"wake"}

Stages(s) == {"busy", "busyRecord", "body", "idle"} \cup s

Ends(s) == {"wait", "idle"} \cup s

Reporting(k, s) ==
    \E e \in Entries : /\ entry[e].key = k /\ entry[e].phase = "running"
                       /\ report[e] \in Stages(s)

Awaited(k, s) ==
    \/ \E w \in Wakers : waker[w].key = k /\ waker[w].at \in Wakes(s)
    \/ \E c \in Clients : hush[c].key = k /\ hush[c].at \in Ends(s)
    \/ k \in Owed
    \/ Reporting(k, s)

Lapsed(k, s) == <<k, IF s = Published THEN "wire" ELSE "data">> \in lapsed

ReportsEnd ==
    \A k \in Keys :
        /\ wire[k] = "busy" => Awaited(k, Published) \/ Lapsed(k, Published)
        /\ data[k] = "busy" => Awaited(k, Recorded) \/ Lapsed(k, Recorded)

(* The reports of a drain that reached its runner are in place, or an      *)
(* interrupt's came after.                                                 *)
BodyShows ==
    \A e \in Entries : entry[e].phase = "running" =>
        \/ entry[e].key \in hushed
        \/ /\ report[e] \in {"busyRecord", "body"} => wire[entry[e].key] = "busy"
           /\ report[e] = "body" => data[entry[e].key] = "busy"

ExecInv ==
    /\ ExecTypeOK /\ IInv /\ Named /\ StoppedByHush /\ ReportsEnd /\ BodyShows

-----------------------------------------------------------------------------
LEMMA ExecInitInv == ExecInit => ExecInv
<1> SUFFICES ASSUME ExecInit PROVE ExecInv
  OBVIOUS
<1>1. IInv
  BY InitIInv DEF ExecInit
<1>2. ExecTypeOK
  BY <1>1 DEF ExecInit, ExecTypeOK, IInv, Statuses, ReportStates, Silent
<1>3. Named
  BY DEF ExecInit, Named, Silent
<1>4. StoppedByHush /\ ReportsEnd /\ BodyShows
  BY DEF ExecInit, Init, StoppedByHush, ReportsEnd, BodyShows, Blank
<1> QED BY <1>1, <1>2, <1>3, <1>4 DEF ExecInv

(* The service's steps, seen from the coordinator.                         *)
LEMMA ExecIsCoordinator ==
    ASSUME ExecTypeOK, Named, [ExecNext]_execVars PROVE [Next]_vars
<1>1. ASSUME NEW w \in Wakers, WakeWakes(w) PROVE [Next]_vars
  <2>1. waker[w].key \in Keys /\ Wake(waker[w].key)
    BY <1>1 DEF WakeWakes, Named
  <2> QED BY <2>1 DEF Next
<1>2. ASSUME NEW e \in Entries, DrainNext(e) PROVE [Next]_vars
  <2>1. CASE Drain(e)
    BY <2>1 DEF Drain, Next, OwnerNext
  <2>2. CASE Settles(e)
    BY <2>2 DEF Settles, Next, OwnerNext
  <2>3. CASE DrainExits(e) \/ DrainDies(e)
    <3>1. \E exit \in Exits : DrainEnd(e, exit)
      BY <2>3 DEF DrainExits, DrainDies, Exits
    <3> QED BY <3>1 DEF Next, OwnerNext
  <2>4. CASE ~(Drain(e) \/ Settles(e) \/ DrainExits(e) \/ DrainDies(e))
    <3>1. UNCHANGED coordVars
      BY <1>2, <2>4 DEF DrainNext, DrainPublishesBusy, DrainRecordsBusy,
         RunnerEnds, DrainPublishesIdle, DrainRecordsIdle
    <3> QED BY <3>1 DEF coordVars, vars
  <2> QED BY <2>1, <2>2, <2>3, <2>4
<1>3. ASSUME NEW c \in Clients, ResumeCalls(c) PROVE [Next]_vars
  BY <1>3 DEF ResumeCalls, Next, ClientNext
<1>4. ASSUME NEW c \in Clients, NEW k \in Keys, InterruptCalled(c, k)
      PROVE [Next]_vars
  BY <1>4 DEF InterruptCalled, Next, ClientNext, coordVars, vars
<1>5. ASSUME NEW w \in Wakers, NEW k \in Keys,
             WakeCalled(w, k) \/ WakePublishes(w) \/ WakeRecords(w)
                \/ WakeDies(w)
      PROVE [Next]_vars
  BY <1>5 DEF WakeCalled, WakePublishes, WakeRecords, WakeDies, coordVars, vars
<1>6. ASSUME NEW c \in Clients, HushNext(c) PROVE [Next]_vars
  BY <1>6 DEF HushNext, InterruptWaited, HushPublishes, HushRecords, HushDies,
     coordVars, vars
<1>7. CASE UNCHANGED execVars
  BY <1>7 DEF execVars, coordVars, vars
<1>8. ASSUME NEW w \in Wakers, WakerNext(w) PROVE [Next]_vars
  BY <1>1, <1>8 DEF WakerNext, WakePublishes, WakeRecords, WakeDies, coordVars, vars
<1>9. ASSUME NEW w \in Wakers, NEW k \in Keys, WakeCalled(w, k)
      PROVE [Next]_vars
  BY <1>5, <1>9
<1> QED BY <1>2, <1>3, <1>4, <1>6, <1>7, <1>8, <1>9 DEF ExecNext

(* Types, and that who calls has named a session.                          *)
LEMMA ExecTypeStep ==
    ASSUME ExecTypeOK, OneOwner, Named, [ExecNext]_execVars PROVE ExecTypeOK'
<1>1. TypeOK'
  BY ExecIsCoordinator, TypeStep DEF ExecTypeOK
<1>2. SUFFICES
        /\ wire' \in [Keys -> Statuses] /\ data' \in [Keys -> Statuses]
        /\ report' \in [Entries -> ReportStates]
        /\ waker' \in [Wakers -> [at : {"off", "busy", "busyRecord", "wake"},
                                  key : Keys \cup {None}]]
        /\ hush' \in [Clients -> [at : {"off", "wait", "idle", "idleRecord"},
                                  key : Keys \cup {None}]]
        /\ hushed' \in SUBSET Keys
        /\ lapsed' \in SUBSET (Keys \X {"wire", "data"})
  BY <1>1 DEF ExecTypeOK
<1> USE DEF ExecTypeOK, Statuses, ReportStates, Silent, Sets, ReportGoes,
        Unhushed, Hushes
<1>3. ASSUME NEW w \in Wakers, WakerNext(w) PROVE ExecTypeOK'
  <2> waker[w].at # "off" => waker[w].key \in Keys
    BY DEF Named
  <2>1. WakePublishes(w) => ExecTypeOK'
    BY <1>1 DEF WakePublishes, Publish, WakerGoes
  <2>2. WakeRecords(w) => ExecTypeOK'
    BY <1>1 DEF WakeRecords, Record, WakerGoes
  <2>3. WakeWakes(w) => ExecTypeOK'
    BY <1>1 DEF WakeWakes
  <2>4. WakeDies(w) => ExecTypeOK'
    BY <1>1 DEF WakeDies
  <2> QED BY <1>3, <2>1, <2>2, <2>3, <2>4 DEF WakerNext
<1>4. ASSUME NEW w \in Wakers, NEW k \in Keys, WakeCalled(w, k)
      PROVE ExecTypeOK'
  BY <1>1, <1>4 DEF WakeCalled
<1>5. ASSUME NEW e \in Entries, DrainNext(e) PROVE ExecTypeOK'
  <2> entry[e].phase = "running" => entry[e].key \in Keys
    BY DEF OneOwner, Live
  <2> USE DEF Draining
  <2>1. Drain(e) => ExecTypeOK'
    BY <1>1 DEF Drain
  <2>2. DrainPublishesBusy(e) => ExecTypeOK'
    BY <1>1 DEF DrainPublishesBusy, Publish, ReportGoes
  <2>3. DrainRecordsBusy(e) => ExecTypeOK'
    BY <1>1 DEF DrainRecordsBusy, Record, ReportGoes
  <2>4. RunnerEnds(e) => ExecTypeOK'
    BY <1>1 DEF RunnerEnds, ReportGoes, Unhushed
  <2>5. DrainPublishesIdle(e) => ExecTypeOK'
    BY <1>1 DEF DrainPublishesIdle, Publish, ReportGoes
  <2>6. DrainRecordsIdle(e) => ExecTypeOK'
    BY <1>1 DEF DrainRecordsIdle, Record, ReportGoes
  <2>7. DrainExits(e) => ExecTypeOK'
    BY <1>1 DEF DrainExits, Exits
  <2>8. Settles(e) => ExecTypeOK'
    BY <1>1 DEF Settles, statusVars
  <2>9. DrainDies(e) => ExecTypeOK'
    BY <1>1 DEF DrainDies, DrainEnd, Lapses
  <2> QED BY <1>5, <2>1, <2>2, <2>3, <2>4, <2>5, <2>6, <2>7, <2>8, <2>9
             DEF DrainNext
<1>6. ASSUME NEW c \in Clients, HushNext(c) PROVE ExecTypeOK'
  <2>1. hush[c].at # "off" => hush[c].key \in Keys
    BY DEF Named
  <2>2. InterruptWaited(c) => ExecTypeOK'
    BY <1>1 DEF InterruptWaited, HushGoes
  <2>3. HushPublishes(c) => ExecTypeOK'
    BY <1>1, <2>1 DEF HushPublishes, Publish, HushGoes
  <2>4. HushRecords(c) => ExecTypeOK'
    BY <1>1, <2>1 DEF HushRecords, Record
  <2>5. HushDies(c) => ExecTypeOK'
    BY <1>1, <2>1 DEF HushDies, Lapses
  <2> QED BY <1>6, <2>2, <2>3, <2>4, <2>5 DEF HushNext
<1>7. ASSUME NEW c \in Clients, ResumeCalls(c) PROVE ExecTypeOK'
  BY <1>1, <1>7 DEF ResumeCalls, statusVars
<1>8. ASSUME NEW c \in Clients, NEW k \in Keys, InterruptCalled(c, k)
      PROVE ExecTypeOK'
  BY <1>1, <1>8 DEF InterruptCalled
<1>9. CASE UNCHANGED execVars
  BY <1>1, <1>9 DEF execVars, statusVars
<1> QED BY <1>3, <1>4, <1>5, <1>6, <1>7, <1>8, <1>9 DEF ExecNext

LEMMA NamedStep ==
    ASSUME ExecTypeOK, Named, [ExecNext]_execVars PROVE Named'
<1> USE DEF Named, ExecTypeOK, Silent
<1>1. ASSUME NEW w \in Wakers, WakerNext(w) PROVE Named'
  BY <1>1 DEF WakerNext, WakePublishes, WakeRecords, WakeDies, WakeWakes, WakerGoes
<1>2. ASSUME NEW w \in Wakers, NEW k \in Keys, WakeCalled(w, k) PROVE Named'
  BY <1>2 DEF WakeCalled
<1>3. ASSUME NEW e \in Entries, DrainNext(e) PROVE Named'
  BY <1>3 DEF DrainNext, Drain, DrainPublishesBusy, DrainRecordsBusy,
     RunnerEnds, DrainPublishesIdle, DrainRecordsIdle, DrainExits, DrainDies, Settles,
     statusVars
<1>4. ASSUME NEW c \in Clients, HushNext(c) PROVE Named'
  BY <1>4 DEF HushNext, InterruptWaited, HushPublishes, HushRecords, HushDies, HushGoes
<1>5. ASSUME NEW c \in Clients, ResumeCalls(c) PROVE Named'
  BY <1>5 DEF ResumeCalls, statusVars
<1>6. ASSUME NEW c \in Clients, NEW k \in Keys, InterruptCalled(c, k)
      PROVE Named'
  BY <1>6 DEF InterruptCalled
<1>7. CASE UNCHANGED execVars
  BY <1>7 DEF execVars, statusVars
<1> QED BY <1>1, <1>2, <1>3, <1>4, <1>5, <1>6, <1>7 DEF ExecNext

-----------------------------------------------------------------------------
(* An interrupt stays with the entry it stopped until that settles.        *)
LEMMA StoppedStep ==
    ASSUME ExecInv, [ExecNext]_execVars PROVE StoppedByHush'
<1> USE DEF ExecInv
<1>1. ASSUME UNCHANGED <<stopping, client, hush>>,
             \A e \in stopping : entry'[e].key = entry[e].key
      PROVE  StoppedByHush'
  BY <1>1 DEF StoppedByHush
<1>2. stopping \in SUBSET Entries
  BY DEF IInv, TypeOK
<1>3. ASSUME NEW w \in Wakers, WakerNext(w) PROVE StoppedByHush'
  <2>1. CASE WakeWakes(w)
    <3>1. waker[w].key \in Keys /\ Wake(waker[w].key) /\ UNCHANGED hush
      BY <2>1 DEF WakeWakes, Named
    <3>2. UNCHANGED stopping /\ \A e \in Entries : Live(e) => entry'[e] = entry[e]
      BY <3>1, CallsKeepWork
    <3>3. \A e \in stopping : Live(e)
      BY <1>2 DEF IInv, Shape, FreeIsBlank
    <3>4. UNCHANGED client
      BY <3>1 DEF Wake
    <3> QED BY <1>1, <1>2, <3>1, <3>2, <3>3, <3>4
  <2>2. CASE WakePublishes(w) \/ WakeRecords(w) \/ WakeDies(w)
    BY <1>1, <2>2 DEF WakePublishes, WakeRecords, WakeDies, coordVars
  <2> QED BY <1>3, <2>1, <2>2 DEF WakerNext
<1>4. ASSUME NEW w \in Wakers, NEW k \in Keys, WakeCalled(w, k)
      PROVE StoppedByHush'
  BY <1>1, <1>4 DEF WakeCalled, coordVars
<1>5. ASSUME NEW e \in Entries, DrainNext(e) PROVE StoppedByHush'
  <2>1. CASE Drain(e)
    <3>1. DrainBegin(e) /\ UNCHANGED hush
      BY <2>1 DEF Drain
    <3>2. UNCHANGED client
      BY <3>1 DEF DrainBegin
    <3>3. UNCHANGED stopping
      BY <3>1 DEF DrainBegin, flags
    <3>4. \A d \in Entries : entry'[d].key = entry[d].key
      BY <3>1 DEF DrainBegin, IInv, TypeOK
    <3> QED BY <1>1, <1>2, <3>1, <3>2, <3>3, <3>4
  <2>2. CASE DrainExits(e) \/ DrainDies(e)
    <3>1. PICK exit : DrainEnd(e, exit)
      BY <2>2 DEF DrainExits, DrainDies
    <3>2. UNCHANGED <<client, stopping, hush>>
      BY <2>2, <3>1 DEF DrainEnd, flags, DrainExits, DrainDies
    <3>3. \A d \in Entries : entry'[d].key = entry[d].key
      BY <3>1 DEF DrainEnd, Exited, IInv, TypeOK
    <3> QED BY <1>1, <1>2, <3>2, <3>3
  <2>3. CASE Settles(e)
    <3>1. settle(e) /\ UNCHANGED hush
      BY <2>3 DEF Settles, statusVars
    <3>2. \A d \in stopping' : d \in stopping /\ entry'[d].key = entry[d].key
                               /\ d # e
      <4>1. PICK k : k = entry[e].key
        OBVIOUS
      <4>2. k \in Keys
        BY <4>1, <3>1 DEF settle, IInv, Shape, OneOwner, Live
      <4> QED BY <3>1, <4>2, SettleKeepsWork
    <3>3. ASSUME NEW c \in Clients, client[c].on # e PROVE client'[c] = client[c]
      <4>1. UNCHANGED client \/ Complete(e)
        BY <3>1 DEF settle, SettleFollowUp, SettleSuccessor, SettleIdle
      <4>2. Complete(e) => client'[c] = client[c]
        BY <3>3 DEF Complete, Resolved
      <4> QED BY <4>1, <4>2
    <3>4. ASSUME NEW d \in stopping'
          PROVE \E c \in Clients :
                   /\ client'[c].at = "stopping" /\ client'[c].on = d
                   /\ hush'[c] = [at |-> "wait", key |-> entry'[d].key]
      <4>1. d \in stopping /\ entry'[d].key = entry[d].key /\ d # e
        BY <3>2
      <4>2. PICK c \in Clients :
                   /\ client[c].at = "stopping" /\ client[c].on = d
                   /\ hush[c] = [at |-> "wait", key |-> entry[d].key]
        BY <4>1 DEF StoppedByHush
      <4> QED BY <3>1, <3>3, <4>1, <4>2
    <3> QED BY <3>4 DEF StoppedByHush
  <2>4. CASE ~(Drain(e) \/ DrainExits(e) \/ DrainDies(e) \/ Settles(e))
    <3>1. UNCHANGED <<coordVars, hush>>
      BY <1>5, <2>4 DEF DrainNext, DrainPublishesBusy, DrainRecordsBusy,
         RunnerEnds, DrainPublishesIdle, DrainRecordsIdle
    <3> QED BY <1>1, <3>1 DEF coordVars
  <2> QED BY <2>1, <2>2, <2>3, <2>4
<1>6. ASSUME NEW c \in Clients, UNCHANGED stopping,
             ~(hush[c].at = "wait" /\ client[c].at = "stopping"),
             \A d \in Clients : d # c =>
                client'[d] = client[d] /\ hush'[d] = hush[d],
             \A e \in stopping : entry'[e].key = entry[e].key
      PROVE  StoppedByHush'
  <2>1. ASSUME NEW e \in stopping
        PROVE \E d \in Clients :
                   /\ client'[d].at = "stopping" /\ client'[d].on = e
                   /\ hush'[d] = [at |-> "wait", key |-> entry'[e].key]
    <3>1. PICK d \in Clients :
                   /\ client[d].at = "stopping" /\ client[d].on = e
                   /\ hush[d] = [at |-> "wait", key |-> entry[e].key]
      BY DEF StoppedByHush
    <3>2. d # c
      BY <3>1, <1>6
    <3> QED BY <3>1, <3>2, <1>6
  <2> QED BY <2>1, <1>6 DEF StoppedByHush
<1>7. ASSUME NEW c \in Clients, HushNext(c) PROVE StoppedByHush'
  <2>1. /\ ~(hush[c].at = "wait" /\ client[c].at = "stopping")
        /\ UNCHANGED coordVars
        /\ \A d \in Clients : d # c => hush'[d] = hush[d]
    BY <1>7 DEF HushNext, InterruptWaited, HushPublishes, HushRecords, HushDies, HushGoes,
       ExecTypeOK
  <2> QED BY <1>6, <2>1 DEF coordVars
<1>8. ASSUME NEW c \in Clients, ResumeCalls(c) PROVE StoppedByHush'
  <2>1. hush[c].at # "wait" /\ UNCHANGED hush
    BY <1>8 DEF ResumeCalls, Quiet, statusVars
  <2>2. \A d \in Clients : d # c => client'[d] = client[d]
    BY <1>8 DEF ResumeCalls, Run, RunAgain, run, RunJoins, RunStarts, Abandon,
       Return, IInv, TypeOK
  <2>3. UNCHANGED stopping /\ \A e \in Entries : Live(e) => entry'[e] = entry[e]
    <3>1. ASSUME NEW k \in Keys, run(c, k)
          PROVE UNCHANGED stopping
                /\ \A e \in Entries : Live(e) => entry'[e] = entry[e]
      BY <3>1, CallsKeepWork
    <3>2. client[c].at = "again" => client[c].key \in Keys
      BY DEF IInv, TypeOK
    <3>3. Abandon(c) \/ Return(c) => UNCHANGED <<entry, stopping>>
      BY DEF Abandon, Return, flags
    <3> QED BY <1>8, <3>1, <3>2, <3>3 DEF ResumeCalls, Run, RunAgain
  <2>4. \A e \in stopping : Live(e)
    BY <1>2 DEF IInv, Shape, FreeIsBlank
  <2> QED BY <1>2, <1>6, <2>1, <2>2, <2>3, <2>4
<1>9. ASSUME NEW c \in Clients, NEW k \in Keys, InterruptCalled(c, k)
      PROVE StoppedByHush'
  <2>1. hush[c].at = "off" /\ client[c].at = "idle"
    BY <1>9 DEF InterruptCalled, Quiet
  <2>2. CASE UNCHANGED coordVars
    <3>1. \A d \in Clients : d # c => hush'[d] = hush[d]
      BY <1>9 DEF InterruptCalled, ExecTypeOK
    <3> QED BY <1>6, <2>1, <2>2, <3>1 DEF coordVars
  <2>3. CASE Interrupt(c, k) /\ hush' = [hush EXCEPT ![c] = [at |-> "wait", key |-> k]]
    <3>1. /\ active[k] \in Entries /\ entry[active[k]].key = k
          /\ stopping' = stopping \cup {active[k]}
          /\ client' = [client EXCEPT ![c] = Awaits(k, active[k], "stopping")]
      BY <2>3 DEF Interrupt, Idle, IInv, TypeOK, Shape, OneOwner
    <3>2. \A e \in Entries : entry'[e].key = entry[e].key
      BY <2>3, InterruptKeepsWork
    <3>3. /\ hush'[c] = [at |-> "wait", key |-> k]
          /\ client'[c].at = "stopping" /\ client'[c].on = active[k]
      BY <2>3, <3>1 DEF ExecTypeOK, IInv, TypeOK, Awaits
    <3>4. \A d \in Clients : d # c => hush'[d] = hush[d] /\ client'[d] = client[d]
      BY <2>3, <3>1 DEF ExecTypeOK, IInv, TypeOK
    <3>5. ASSUME NEW e \in stopping'
          PROVE \E d \in Clients :
                   /\ client'[d].at = "stopping" /\ client'[d].on = e
                   /\ hush'[d] = [at |-> "wait", key |-> entry'[e].key]
      <4>1. CASE e = active[k]
        BY <4>1, <3>1, <3>2, <3>3
      <4>2. CASE e # active[k]
        <5>1. e \in stopping /\ e \in Entries
          BY <4>2, <3>1, <1>2
        <5>2. PICK d \in Clients :
                   /\ client[d].at = "stopping" /\ client[d].on = e
                   /\ hush[d] = [at |-> "wait", key |-> entry[e].key]
          BY <5>1 DEF StoppedByHush
        <5>3. d # c
          BY <5>2, <2>1
        <5> QED BY <5>1, <5>2, <5>3, <3>2, <3>4
      <4> QED BY <4>1, <4>2
    <3> QED BY <3>5 DEF StoppedByHush
  <2> QED BY <1>9, <2>2, <2>3 DEF InterruptCalled
<1>10. CASE UNCHANGED execVars
  BY <1>1, <1>10 DEF execVars, coordVars, statusVars
<1> QED BY <1>3, <1>4, <1>5, <1>7, <1>8, <1>9, <1>10 DEF ExecNext

-----------------------------------------------------------------------------
(* A session somebody has work under way for keeps it under way, until the *)
(* report of idle is made: the parts of Awaited, one after the other.      *)
LEMMA ReportingRuns ==
    ASSUME NEW k \in Keys, NEW s
    PROVE  Reporting(k, s) <=>
             \E e \in Entries : RunsAt(e, k) /\ report[e] \in Stages(s)
BY DEF Reporting, RunsAt

Landed(k, s) == IF s = Published THEN wire'[k] = "idle" ELSE data'[k] = "idle"

LEMMA WakersAwaited ==
    ASSUME ExecInv, [ExecNext]_execVars, NEW k \in Keys, NEW s,
           \E w \in Wakers : waker[w].key = k /\ waker[w].at \in Wakes(s)
    PROVE  Awaited(k, s)' \/ Lapsed(k, s)'
<1> USE DEF ExecInv
<1>1. PICK v \in Wakers : waker[v].key = k /\ waker[v].at \in Wakes(s)
  OBVIOUS
<1>2. waker[v].at # "off"
  BY <1>1 DEF Wakes
<1>3. SUFFICES ASSUME ~(waker'[v].key = k /\ waker'[v].at \in Wakes(s))
               PROVE  k \in Owed' \/ Lapsed(k, s)'
  BY DEF Awaited
<1>4. ASSUME NEW w \in Wakers, WakerNext(w) PROVE k \in Owed' \/ Lapsed(k, s)'
  <2>1. v = w
    BY <1>1, <1>3, <1>4 DEF WakerNext, WakePublishes, WakeRecords, WakeDies,
       WakeWakes, WakerGoes, ExecTypeOK
  <2>2. CASE WakeWakes(w)
    <3>1. Wake(k)
      BY <1>1, <2>1, <2>2 DEF WakeWakes
    <3> QED BY <3>1, CallsKeepWork
  <2>3. CASE WakeDies(w)
    <3>1. s = Published
      BY <1>1, <2>1, <2>3 DEF WakeDies, Wakes
    <3>2. waker[w].at = "busyRecord"
      BY <1>1, <2>1, <2>3 DEF WakeDies, Wakes
    <3> QED BY <1>1, <2>1, <2>3, <3>1, <3>2 DEF WakeDies, Lapsed
  <2>4. ~WakePublishes(w)
    BY <1>1, <2>1 DEF WakePublishes, Wakes
  <2>5. ~WakeRecords(w)
    BY <1>1, <1>3, <2>1 DEF WakeRecords, WakerGoes, Wakes, ExecTypeOK
  <2> QED BY <1>4, <2>2, <2>3, <2>4, <2>5 DEF WakerNext
<1>5. ASSUME NEW w \in Wakers, NEW j \in Keys, WakeCalled(w, j) PROVE FALSE
  BY <1>1, <1>2, <1>3, <1>5 DEF WakeCalled, ExecTypeOK
<1>6. ASSUME NEW e \in Entries, DrainNext(e) PROVE FALSE
  BY <1>1, <1>3, <1>6 DEF DrainNext, Drain, DrainPublishesBusy,
     DrainRecordsBusy, RunnerEnds, DrainPublishesIdle, DrainRecordsIdle,
     DrainExits, DrainDies, Settles, statusVars
<1>7. ASSUME NEW c \in Clients, HushNext(c) PROVE FALSE
  BY <1>1, <1>3, <1>7 DEF HushNext, InterruptWaited, HushPublishes, HushRecords, HushDies
<1>8. ASSUME NEW c \in Clients, ResumeCalls(c) PROVE FALSE
  BY <1>1, <1>3, <1>8 DEF ResumeCalls, statusVars
<1>9. ASSUME NEW c \in Clients, NEW j \in Keys, InterruptCalled(c, j) PROVE FALSE
  BY <1>1, <1>3, <1>9 DEF InterruptCalled
<1>10. CASE UNCHANGED execVars
  BY <1>1, <1>3, <1>10 DEF execVars, statusVars
<1> QED BY <1>4, <1>5, <1>6, <1>7, <1>8, <1>9, <1>10 DEF ExecNext

LEMMA HushAwaited ==
    ASSUME ExecInv, [ExecNext]_execVars, NEW k \in Keys,
           NEW s \in {Published, Recorded},
           \E c \in Clients : hush[c].key = k /\ hush[c].at \in Ends(s)
    PROVE  Awaited(k, s)' \/ Landed(k, s) \/ Lapsed(k, s)'
<1> USE DEF ExecInv
<1>1. PICK d \in Clients : hush[d].key = k /\ hush[d].at \in Ends(s)
  OBVIOUS
<1>2. hush[d].at # "off"
  BY <1>1 DEF Ends, Published, Recorded
<1>3. SUFFICES ASSUME ~(hush'[d].key = k /\ hush'[d].at \in Ends(s))
               PROVE  Landed(k, s) \/ Lapsed(k, s)'
  BY DEF Awaited
<1>4. Published # Recorded
  BY DEF Published, Recorded
<1>5. ASSUME NEW c \in Clients, HushNext(c)
      PROVE  Landed(k, s) \/ Lapsed(k, s)'
  <2>1. d = c
    BY <1>1, <1>3, <1>5 DEF HushNext, InterruptWaited, HushPublishes,
       HushRecords, HushDies, HushGoes, ExecTypeOK
  <2>2. CASE InterruptWaited(c)
    BY <1>1, <1>3, <2>1, <2>2 DEF InterruptWaited, HushGoes, ExecTypeOK, Ends
  <2>3. CASE HushPublishes(c)
    <3>1. "idleRecord" \notin s
      BY <1>1, <1>3, <2>1, <2>3 DEF HushPublishes, HushGoes, ExecTypeOK, Ends
    <3>2. s = Published
      BY <3>1 DEF Published, Recorded
    <3>3. wire'[k] = "idle"
      BY <1>1, <2>1, <2>3 DEF HushPublishes, Publish, ExecTypeOK
    <3> QED BY <3>2, <3>3 DEF Landed
  <2>4. CASE HushRecords(c)
    <3>1. s = Recorded
      BY <1>1, <2>1, <2>4 DEF HushRecords, Ends, Published
    <3>2. data'[k] = "idle"
      BY <1>1, <2>1, <2>4 DEF HushRecords, Record, ExecTypeOK
    <3> QED BY <1>4, <3>1, <3>2 DEF Landed
  <2>5. CASE HushDies(c)
    <3>1. hush[c].at = "idleRecord" => s = Recorded
      BY <1>1, <2>1 DEF Ends, Published
    <3> QED BY <1>1, <1>4, <2>1, <2>5, <3>1 DEF HushDies, Lapses, Lapsed
  <2> QED BY <1>5, <2>2, <2>3, <2>4, <2>5 DEF HushNext
<1>6. ASSUME NEW w \in Wakers, WakerNext(w) PROVE FALSE
  BY <1>1, <1>3, <1>6 DEF WakerNext, WakePublishes, WakeRecords, WakeDies, WakeWakes
<1>7. ASSUME NEW w \in Wakers, NEW j \in Keys, WakeCalled(w, j) PROVE FALSE
  BY <1>1, <1>3, <1>7 DEF WakeCalled
<1>8. ASSUME NEW e \in Entries, DrainNext(e) PROVE FALSE
  BY <1>1, <1>3, <1>8 DEF DrainNext, Drain, DrainPublishesBusy,
     DrainRecordsBusy, RunnerEnds, DrainPublishesIdle, DrainRecordsIdle,
     DrainExits, DrainDies, Settles, statusVars
<1>9. ASSUME NEW c \in Clients, ResumeCalls(c) PROVE FALSE
  BY <1>1, <1>3, <1>9 DEF ResumeCalls, statusVars
<1>10. ASSUME NEW c \in Clients, NEW j \in Keys, InterruptCalled(c, j) PROVE FALSE
  <2>1. d # c
    BY <1>2, <1>10 DEF InterruptCalled, Quiet
  <2>2. hush'[d] = hush[d]
    BY <2>1, <1>10 DEF InterruptCalled, ExecTypeOK
  <2> QED BY <1>1, <1>3, <2>2
<1>11. CASE UNCHANGED execVars
  BY <1>1, <1>3, <1>11 DEF execVars, statusVars
<1> QED BY <1>5, <1>6, <1>7, <1>8, <1>9, <1>10, <1>11 DEF ExecNext

(* Only its own interrupt, whose finalizer reports, or the beginning of a  *)
(* drain takes away what is due.                                           *)
LEMMA DueAwaited ==
    ASSUME ExecInv, [ExecNext]_execVars, NEW k \in Keys, NEW s, k \in Owed
    PROVE  Awaited(k, s)'
<1> USE DEF ExecInv
<1>1. PICK b \in Entries : DueAt(b, k)
  BY OwedIsDue
<1>2. (\E e \in Entries : DueAt(e, k)') => Awaited(k, s)'
  BY DEF Awaited, Owed, DueAt
<1>3. UNCHANGED coordVars => Awaited(k, s)'
  BY <1>1, <1>2 DEF coordVars, DueAt
<1>4. ASSUME NEW w \in Wakers, WakerNext(w) PROVE Awaited(k, s)'
  <2>1. CASE WakeWakes(w)
    <3>1. waker[w].key \in Keys /\ Wake(waker[w].key)
      BY <2>1 DEF WakeWakes, Named
    <3> QED BY <1>1, <1>2, <3>1, CallsKeepWork
  <2>2. CASE WakePublishes(w) \/ WakeRecords(w) \/ WakeDies(w)
    BY <1>3, <2>2 DEF WakePublishes, WakeRecords, WakeDies
  <2> QED BY <1>4, <2>1, <2>2 DEF WakerNext
<1>5. ASSUME NEW w \in Wakers, NEW j \in Keys, WakeCalled(w, j)
      PROVE Awaited(k, s)'
  BY <1>3, <1>5 DEF WakeCalled
<1>6. ASSUME NEW e \in Entries, DrainNext(e) PROVE Awaited(k, s)'
  <2>1. CASE Drain(e)
    <3>1. DrainBegin(e) /\ report' = [report EXCEPT ![e] = "busy"]
      BY <2>1 DEF Drain, ReportGoes
    <3>2. CASE b = e
      <4>1. entry'[e].key = k /\ entry'[e].phase = "running"
        BY <1>1, <3>1, <3>2, BeginKeepsWork DEF DueAt, RunsAt
      <4>2. report'[e] = "busy"
        BY <3>1 DEF ExecTypeOK
      <4> QED BY <4>1, <4>2 DEF Awaited, Reporting, Stages
    <3>3. CASE b # e
      BY <1>1, <1>2, <3>1, <3>3, BeginKeepsWork
    <3> QED BY <3>2, <3>3
  <2>2. CASE DrainExits(e) \/ DrainDies(e)
    <3>1. PICK exit \in Exits : DrainEnd(e, exit)
      BY <2>2 DEF DrainExits, DrainDies, Exits
    <3> QED BY <1>1, <1>2, <3>1, EndKeepsWork
  <2>3. CASE Settles(e)
    BY <1>1, <1>2, <2>3, SettleKeepsWork DEF Settles
  <2>4. CASE ~(Drain(e) \/ DrainExits(e) \/ DrainDies(e) \/ Settles(e))
    BY <1>3, <1>6, <2>4 DEF DrainNext, DrainPublishesBusy, DrainRecordsBusy,
       RunnerEnds, DrainPublishesIdle, DrainRecordsIdle
  <2> QED BY <2>1, <2>2, <2>3, <2>4
<1>7. ASSUME NEW c \in Clients, HushNext(c) PROVE Awaited(k, s)'
  BY <1>3, <1>7 DEF HushNext, InterruptWaited, HushPublishes, HushRecords, HushDies
<1>8. ASSUME NEW c \in Clients, ResumeCalls(c) PROVE Awaited(k, s)'
  <2>1. ASSUME NEW j \in Keys, run(c, j) PROVE Awaited(k, s)'
    BY <1>1, <1>2, <2>1, CallsKeepWork
  <2>2. client[c].at = "again" => client[c].key \in Keys
    BY DEF IInv, TypeOK
  <2>3. Abandon(c) \/ Return(c) => DueAt(b, k)'
    BY <1>1 DEF Abandon, Return, flags, DueAt
  <2> QED BY <1>2, <1>8, <2>1, <2>2, <2>3 DEF ResumeCalls, Run, RunAgain
<1>9. ASSUME NEW c \in Clients, NEW j \in Keys, InterruptCalled(c, j)
      PROVE Awaited(k, s)'
  <2>1. CASE Interrupt(c, j) /\ hush' = [hush EXCEPT ![c] = [at |-> "wait", key |-> j]]
    <3>1. CASE j = k
      BY <2>1, <3>1 DEF Awaited, Ends, ExecTypeOK
    <3>2. CASE j # k
      BY <1>1, <1>2, <2>1, <3>2, InterruptKeepsWork
    <3> QED BY <3>1, <3>2
  <2> QED BY <1>3, <1>9, <2>1 DEF InterruptCalled
<1>10. CASE UNCHANGED execVars
  BY <1>3, <1>10 DEF execVars
<1> QED BY <1>4, <1>5, <1>6, <1>7, <1>8, <1>9, <1>10 DEF ExecNext

LEMMA ReportingAwaited ==
    ASSUME ExecInv, [ExecNext]_execVars, NEW k \in Keys,
           NEW s \in {Published, Recorded}, Reporting(k, s)
    PROVE  Awaited(k, s)' \/ Landed(k, s) \/ Lapsed(k, s)'
<1> USE DEF ExecInv
<1>1. PICK b \in Entries : RunsAt(b, k) /\ report[b] \in Stages(s)
  BY ReportingRuns
<1>2. RunsAt(b, k)' /\ report'[b] \in Stages(s) => Awaited(k, s)'
  BY DEF Awaited, Reporting, RunsAt
<1>3. Published # Recorded
  BY DEF Published, Recorded
<1>4. RunsAt(b, k)' /\ UNCHANGED report => Awaited(k, s)'
  BY <1>1, <1>2
<1>5. UNCHANGED coordVars => RunsAt(b, k)'
  BY <1>1 DEF coordVars, RunsAt
<1>6. ASSUME NEW w \in Wakers, WakerNext(w) PROVE Awaited(k, s)'
  <2>1. CASE WakeWakes(w)
    <3>1. waker[w].key \in Keys /\ Wake(waker[w].key) /\ UNCHANGED report
      BY <2>1 DEF WakeWakes, Named
    <3> QED BY <1>1, <1>4, <3>1, CallsKeepWork
  <2>2. CASE WakePublishes(w) \/ WakeRecords(w) \/ WakeDies(w)
    BY <1>4, <1>5, <2>2 DEF WakePublishes, WakeRecords, WakeDies
  <2> QED BY <1>6, <2>1, <2>2 DEF WakerNext
<1>7. ASSUME NEW w \in Wakers, NEW j \in Keys, WakeCalled(w, j)
      PROVE Awaited(k, s)'
  BY <1>4, <1>5, <1>7 DEF WakeCalled
<1>8. ASSUME NEW e \in Entries, DrainNext(e)
      PROVE  Awaited(k, s)' \/ Landed(k, s) \/ Lapsed(k, s)'
  <2>1. CASE Drain(e)
    <3>1. DrainBegin(e) /\ report' = [report EXCEPT ![e] = "busy"]
      BY <2>1 DEF Drain, ReportGoes
    <3>2. RunsAt(b, k)' /\ e # b
      BY <1>1, <3>1, BeginKeepsWork
    <3>3. report'[b] = report[b]
      BY <3>1, <3>2 DEF ExecTypeOK
    <3> QED BY <1>1, <1>2, <3>2, <3>3
  <2>2. CASE DrainExits(e) \/ DrainDies(e)
    <3>1. PICK exit \in Exits : DrainEnd(e, exit)
      BY <2>2 DEF DrainExits, DrainDies, Exits
    <3>2. CASE e # b
      <4>1. report'[b] = report[b]
        BY <2>2, <3>2 DEF DrainExits, DrainDies, ReportGoes, ExecTypeOK
      <4> QED BY <1>1, <1>2, <3>1, <3>2, <4>1, EndKeepsWork
    <3>3. CASE e = b /\ DrainDies(e)
      <4>1. report[b] = "idleRecord" => s = Recorded
        BY <1>1 DEF Stages, Published
      <4>2. entry[b].key = k
        BY <1>1 DEF RunsAt
      <4> QED BY <1>3, <3>3, <4>1, <4>2 DEF DrainDies, Lapses, Lapsed
    <3>4. CASE e = b /\ DrainExits(e)
      <4>1. report[b] # "over"
        BY <1>1 DEF Stages, Published, Recorded
      <4>2. b \in stopping
        BY <3>4, <4>1 DEF DrainExits, Draining
      <4>3. PICK c \in Clients : hush[c] = [at |-> "wait", key |-> entry[b].key]
        BY <4>2 DEF StoppedByHush
      <4>4. hush' = hush
        BY <3>4 DEF DrainExits
      <4> QED BY <1>1, <4>3, <4>4 DEF RunsAt, Awaited, Ends
    <3> QED BY <2>2, <3>2, <3>3, <3>4
  <2>3. CASE Settles(e)
    <3>1. settle(e) /\ UNCHANGED report
      BY <2>3 DEF Settles, statusVars
    <3> QED BY <1>1, <1>4, <3>1, SettleKeepsWork
  <2>4. CASE DrainPublishesBusy(e) \/ DrainRecordsBusy(e)
              \/ RunnerEnds(e)
    <3>1. UNCHANGED coordVars
      BY <2>4 DEF DrainPublishesBusy, DrainRecordsBusy, RunnerEnds
    <3>2. e # b => report'[b] = report[b]
      BY <2>4 DEF DrainPublishesBusy, DrainRecordsBusy, RunnerEnds, ReportGoes,
         ExecTypeOK
    <3>3. report'[e] \in Stages(s)
      BY <2>4 DEF DrainPublishesBusy, DrainRecordsBusy, RunnerEnds, ReportGoes,
         ExecTypeOK, Stages
    <3> QED BY <1>1, <1>2, <1>5, <3>1, <3>2, <3>3
  <2>5. CASE DrainPublishesIdle(e) \/ DrainRecordsIdle(e)
    <3>1. UNCHANGED coordVars
      BY <2>5 DEF DrainPublishesIdle, DrainRecordsIdle
    <3>2. CASE e # b
      <4>1. report'[b] = report[b]
        BY <2>5, <3>2 DEF DrainPublishesIdle, DrainRecordsIdle, ReportGoes,
           ExecTypeOK
      <4> QED BY <1>1, <1>2, <1>5, <3>1, <4>1
    <3>3. CASE e = b /\ DrainPublishesIdle(e)
      <4>1. report'[b] = "idleRecord"
        BY <3>3 DEF DrainPublishesIdle, ReportGoes, ExecTypeOK
      <4>2. wire'[k] = "idle"
        BY <1>1, <3>3 DEF DrainPublishesIdle, Publish, RunsAt, ExecTypeOK
      <4>3. CASE s = Published
        BY <4>2, <4>3 DEF Landed
      <4>4. CASE s = Recorded
        BY <1>2, <1>5, <3>1, <4>1, <4>4 DEF Stages, Recorded
      <4> QED BY <4>3, <4>4
    <3>4. CASE e = b /\ DrainRecordsIdle(e)
      <4>1. s = Recorded
        BY <1>1, <3>4 DEF DrainRecordsIdle, Draining, Stages, Published
      <4>2. data'[k] = "idle"
        BY <1>1, <3>4 DEF DrainRecordsIdle, Record, RunsAt, ExecTypeOK
      <4> QED BY <1>3, <4>1, <4>2 DEF Landed
    <3> QED BY <2>5, <3>2, <3>3, <3>4
  <2> QED BY <1>8, <2>1, <2>2, <2>3, <2>4, <2>5 DEF DrainNext
<1>9. ASSUME NEW c \in Clients, HushNext(c) PROVE Awaited(k, s)'
  BY <1>4, <1>5, <1>9 DEF HushNext, InterruptWaited, HushPublishes, HushRecords, HushDies
<1>10. ASSUME NEW c \in Clients, ResumeCalls(c) PROVE Awaited(k, s)'
  <2>1. UNCHANGED report
    BY <1>10 DEF ResumeCalls, statusVars
  <2>2. ASSUME NEW j \in Keys, run(c, j) PROVE RunsAt(b, k)'
    BY <1>1, <2>2, CallsKeepWork
  <2>3. client[c].at = "again" => client[c].key \in Keys
    BY DEF IInv, TypeOK
  <2>4. Abandon(c) \/ Return(c) => RunsAt(b, k)'
    BY <1>1 DEF Abandon, Return, RunsAt
  <2> QED BY <1>4, <1>10, <2>1, <2>2, <2>3, <2>4 DEF ResumeCalls, Run, RunAgain
<1>11. ASSUME NEW c \in Clients, NEW j \in Keys, InterruptCalled(c, j)
       PROVE Awaited(k, s)'
  <2>1. Interrupt(c, j) => RunsAt(b, k)'
    BY <1>1, InterruptKeepsWork
  <2> QED BY <1>4, <1>5, <1>11, <2>1 DEF InterruptCalled
<1>12. CASE UNCHANGED execVars
  BY <1>4, <1>5, <1>12 DEF execVars, statusVars
<1> QED BY <1>6, <1>7, <1>8, <1>9, <1>10, <1>11, <1>12 DEF ExecNext

(* A report of busy is made by whoever will see to the report of idle.     *)
LEMMA BusyIsAwaited ==
    ASSUME ExecInv, [ExecNext]_execVars, NEW k \in Keys
    PROVE  /\ wire'[k] = "busy" => wire[k] = "busy" \/ Awaited(k, Published)'
           /\ data'[k] = "busy" => data[k] = "busy" \/ Awaited(k, Recorded)'
<1> USE DEF ExecInv
<1>1. ASSUME NEW w \in Wakers, waker[w].key = k
      PROVE  /\ WakePublishes(w) => Awaited(k, Published)'
             /\ WakeRecords(w) => Awaited(k, Recorded)'
  <2>1. /\ WakePublishes(w) => waker'[w] = [waker[w] EXCEPT !.at = "busyRecord"]
        /\ WakeRecords(w) => waker'[w] = [waker[w] EXCEPT !.at = "wake"]
    BY DEF WakePublishes, WakeRecords, WakerGoes, ExecTypeOK
  <2>2. waker[w] \in [at : {"off", "busy", "busyRecord", "wake"},
                      key : Keys \cup {None}]
    BY DEF ExecTypeOK
  <2> QED BY <1>1, <2>1, <2>2 DEF Awaited, Wakes
<1>2. ASSUME NEW e \in Entries, DrainPublishesBusy(e) \/ DrainRecordsBusy(e),
             entry[e].key = k
      PROVE  Awaited(k, Published)' /\ Awaited(k, Recorded)'
  <2>1. /\ entry' = entry /\ entry[e].phase = "running"
        /\ report'[e] \in {"busyRecord", "body"}
    BY <1>2 DEF DrainPublishesBusy, DrainRecordsBusy, ReportGoes, Draining,
       coordVars, ExecTypeOK
  <2> QED BY <1>2, <2>1 DEF Awaited, Reporting, Stages
<1>3. ASSUME NEW w \in Wakers, WakerNext(w)
      PROVE  /\ wire'[k] = wire[k] \/ (WakePublishes(w) /\ waker[w].key = k)
             /\ data'[k] = data[k] \/ (WakeRecords(w) /\ waker[w].key = k)
  BY <1>3 DEF WakerNext, WakePublishes, WakeRecords, WakeDies, WakeWakes, Publish, Record,
     ExecTypeOK
<1>4. ASSUME NEW e \in Entries, DrainNext(e)
      PROVE  /\ \/ wire'[k] \in {wire[k], "idle"}
                \/ DrainPublishesBusy(e) /\ entry[e].key = k
             /\ \/ data'[k] \in {data[k], "idle"}
                \/ DrainRecordsBusy(e) /\ entry[e].key = k
  BY <1>4 DEF DrainNext, Drain, DrainPublishesBusy, DrainRecordsBusy, RunnerEnds,
     DrainPublishesIdle, DrainRecordsIdle, DrainExits, DrainDies, Settles, statusVars,
     Publish, Record, ExecTypeOK
<1>5. ASSUME NEW c \in Clients, HushNext(c)
      PROVE  wire'[k] \in {wire[k], "idle"} /\ data'[k] \in {data[k], "idle"}
  BY <1>5 DEF HushNext, InterruptWaited, HushPublishes, HushRecords, HushDies, Publish,
     Record, ExecTypeOK
<1>6. ASSUME \/ \E w \in Wakers, j \in Keys : WakeCalled(w, j)
             \/ \E c \in Clients : ResumeCalls(c)
             \/ \E c \in Clients, j \in Keys : InterruptCalled(c, j)
             \/ UNCHANGED execVars
      PROVE  wire' = wire /\ data' = data
  BY <1>6 DEF WakeCalled, ResumeCalls, InterruptCalled, execVars, statusVars
<1> QED BY <1>1, <1>2, <1>3, <1>4, <1>5, <1>6 DEF ExecNext

(* A report that lapsed stays so until somebody makes one.                 *)
LEMMA LapsedKept ==
    ASSUME ExecInv, [ExecNext]_execVars, NEW k \in Keys,
           NEW s \in {Published, Recorded}, Lapsed(k, s)
    PROVE  Lapsed(k, s)' \/ Landed(k, s)
<1> USE DEF ExecInv
<1>1. Published # Recorded
  BY DEF Published, Recorded
<1>2. ASSUME NEW j, NEW status, Publish(j, status) \/ Record(j, status)
      PROVE  Lapsed(k, s)' \/ Landed(k, s)
  BY <1>1, <1>2 DEF Publish, Record, Sets, Lapsed, Landed, ExecTypeOK
<1>3. lapsed \subseteq lapsed' => Lapsed(k, s)'
  BY DEF Lapsed
<1>4. ASSUME NEW w \in Wakers, WakerNext(w) PROVE Lapsed(k, s)' \/ Landed(k, s)
  BY <1>2, <1>3, <1>4 DEF WakerNext, WakePublishes, WakeRecords, WakeWakes,
     WakeDies
<1>5. ASSUME NEW e \in Entries, DrainNext(e) PROVE Lapsed(k, s)' \/ Landed(k, s)
  BY <1>2, <1>3, <1>5 DEF DrainNext, Drain, DrainPublishesBusy,
     DrainRecordsBusy, RunnerEnds, DrainPublishesIdle, DrainRecordsIdle,
     DrainExits, DrainDies, Lapses, Settles, statusVars
<1>6. ASSUME NEW c \in Clients, HushNext(c) PROVE Lapsed(k, s)' \/ Landed(k, s)
  BY <1>2, <1>3, <1>6 DEF HushNext, InterruptWaited, HushPublishes,
     HushRecords, HushDies, Lapses
<1>7. ASSUME \/ \E w \in Wakers, j \in Keys : WakeCalled(w, j)
             \/ \E c \in Clients : ResumeCalls(c)
             \/ \E c \in Clients, j \in Keys : InterruptCalled(c, j)
             \/ UNCHANGED execVars
      PROVE  lapsed' = lapsed
  BY <1>7 DEF WakeCalled, ResumeCalls, InterruptCalled, execVars, statusVars
<1> QED BY <1>3, <1>4, <1>5, <1>6, <1>7 DEF ExecNext

LEMMA ReportsStep ==
    ASSUME ExecInv, [ExecNext]_execVars PROVE ReportsEnd'
<1>1. ASSUME NEW k \in Keys, NEW s \in {Published, Recorded},
             Awaited(k, s) \/ Lapsed(k, s)
      PROVE  Awaited(k, s)' \/ Landed(k, s) \/ Lapsed(k, s)'
  BY <1>1, WakersAwaited, HushAwaited, DueAwaited, ReportingAwaited, LapsedKept
     DEF Awaited
<1>2. ASSUME NEW k \in Keys, wire'[k] = "busy"
      PROVE  Awaited(k, Published)' \/ Lapsed(k, Published)'
  <2>1. wire[k] = "busy" => Awaited(k, Published) \/ Lapsed(k, Published)
    BY DEF ExecInv, ReportsEnd
  <2>2. Landed(k, Published) => wire'[k] = "idle"
    BY DEF Landed
  <2> QED BY <1>1, <1>2, <2>1, <2>2, BusyIsAwaited
<1>3. ASSUME NEW k \in Keys, data'[k] = "busy"
      PROVE  Awaited(k, Recorded)' \/ Lapsed(k, Recorded)'
  <2>1. data[k] = "busy" => Awaited(k, Recorded) \/ Lapsed(k, Recorded)
    BY DEF ExecInv, ReportsEnd
  <2>2. Landed(k, Recorded) => data'[k] = "idle"
    BY DEF Landed, Published, Recorded
  <2> QED BY <1>1, <1>3, <2>1, <2>2, BusyIsAwaited
<1> QED BY <1>2, <1>3 DEF ReportsEnd

-----------------------------------------------------------------------------
Shows(e) ==
    \/ entry[e].key \in hushed
    \/ /\ report[e] \in {"busyRecord", "body"} => wire[entry[e].key] = "busy"
       /\ report[e] = "body" => data[entry[e].key] = "busy"

(* An entry that ran and whose report and session nobody touched shows     *)
(* what it showed.                                                         *)
LEMMA ShowsKept ==
    ASSUME ExecInv, NEW e \in Entries, RunsAt(e, entry'[e].key),
           report'[e] = report[e],
           wire'[entry[e].key] \in {wire[entry[e].key], "busy"},
           data'[entry[e].key] \in {data[entry[e].key], "busy"},
           entry[e].key \in hushed => entry[e].key \in hushed'
    PROVE  Shows(e)'
<1>1. entry'[e].key = entry[e].key /\ entry[e].phase = "running"
  BY DEF RunsAt
<1>2. Shows(e)
  BY <1>1 DEF ExecInv, BodyShows, Shows
<1> QED BY <1>1, <1>2 DEF Shows

(* A drain's own report does not touch the session of another.             *)
LEMMA DrainShows ==
    ASSUME ExecInv, NEW b \in Entries, DrainNext(b), NEW e \in Entries,
           entry'[e].phase = "running"
    PROVE  Shows(e)'
<1> USE DEF ExecInv
<1>1. CASE Drain(b)
  <2>1. /\ entry' = [entry EXCEPT ![b].phase = "running"]
        /\ report' = [report EXCEPT ![b] = "busy"]
        /\ UNCHANGED <<wire, data, hushed>>
    BY <1>1 DEF Drain, DrainBegin, ReportGoes
  <2>2. CASE e = b
    BY <2>1, <2>2 DEF Shows, ExecTypeOK
  <2>3. CASE e # b
    <3>1. entry'[e] = entry[e] /\ report'[e] = report[e]
      BY <2>1, <2>3 DEF ExecTypeOK, IInv, TypeOK
    <3> QED BY <2>1, <3>1, ShowsKept DEF RunsAt
  <2> QED BY <2>2, <2>3
<1>2. CASE Settles(b)
  <2>1. UNCHANGED <<report, wire, data, hushed>>
    BY <1>2 DEF Settles, statusVars
  <2>2. RunsAt(e, entry'[e].key)
    BY <1>2, RunningWas DEF Settles
  <2> QED BY <2>1, <2>2, ShowsKept
<1>9. CASE DrainExits(b) \/ DrainDies(b)
  <2>1. PICK exit \in Exits : DrainEnd(b, exit)
    BY <1>9 DEF DrainExits, DrainDies, Exits
  <2>2. RunsAt(e, entry'[e].key)
    BY <2>1, RunningWas
  <2>3. e # b /\ entry[b].phase = "running"
    BY <2>1 DEF DrainEnd, Exited, IInv, TypeOK
  <2>4. report'[e] = report[e]
    BY <1>9, <2>3 DEF DrainExits, DrainDies, ReportGoes, ExecTypeOK
  <2>5. entry[e].key # entry[b].key
    BY <2>2, <2>3 DEF RunsAt, IInv, Shape, OneOwner, Live
  <2>6. UNCHANGED <<wire, data>> /\ hushed' = hushed \ {entry[b].key}
    BY <1>9 DEF DrainExits, DrainDies, Unhushed
  <2> QED BY <2>2, <2>4, <2>5, <2>6, ShowsKept
<1>3. ASSUME UNCHANGED coordVars, entry[b].phase = "running", e # b,
             report'[e] = report[e],
             \A k \in Keys : k # entry[b].key =>
                /\ wire'[k] = wire[k] /\ data'[k] = data[k]
                /\ k \in hushed => k \in hushed'
      PROVE  Shows(e)'
  <2>1. RunsAt(e, entry'[e].key)
    BY <1>3, RunningWas DEF coordVars
  <2>2. entry[e].key \in Keys /\ entry[e].key # entry[b].key
    BY <1>3, <2>1 DEF RunsAt, IInv, Shape, OneOwner, Live
  <2> QED BY <1>3, <2>1, <2>2, ShowsKept
<1>4. ASSUME UNCHANGED coordVars, entry[b].phase = "running", e = b
      PROVE  entry'[e].key = entry[b].key /\ entry[b].key \in Keys
  BY <1>4 DEF IInv, Shape, OneOwner, Live, coordVars
<1>5. CASE DrainPublishesBusy(b)
  <2>1. CASE e # b
    BY <1>3, <1>5, <2>1 DEF DrainPublishesBusy, Draining, Publish, ReportGoes,
       ExecTypeOK
  <2>2. CASE e = b
    BY <1>4, <1>5, <2>2 DEF DrainPublishesBusy, Draining, Publish, ReportGoes,
       ExecTypeOK, Shows
  <2> QED BY <2>1, <2>2
<1>6. CASE DrainRecordsBusy(b)
  <2>1. CASE e # b
    BY <1>3, <1>6, <2>1 DEF DrainRecordsBusy, Draining, Record, ReportGoes,
       ExecTypeOK
  <2>2. CASE e = b
    <3>1. Shows(b) /\ report[b] = "busyRecord" /\ UNCHANGED <<wire, hushed>>
      BY <1>6 DEF DrainRecordsBusy, Draining, BodyShows, Shows, Record
    <3>2. data'[entry[b].key] = "busy"
      BY <1>4, <1>6, <2>2 DEF DrainRecordsBusy, Draining, Record, ExecTypeOK
    <3>3. entry'[e].key = entry[b].key
      BY <1>6, <2>2 DEF DrainRecordsBusy, coordVars
    <3> QED BY <2>2, <3>1, <3>2, <3>3 DEF Shows
  <2> QED BY <2>1, <2>2
<1>7. CASE RunnerEnds(b)
  <2>1. CASE e # b
    BY <1>3, <1>7, <2>1 DEF RunnerEnds, Draining, ReportGoes, Unhushed, ExecTypeOK
  <2>2. CASE e = b
    BY <1>7, <2>2 DEF RunnerEnds, Draining, ReportGoes, ExecTypeOK, Shows
  <2> QED BY <2>1, <2>2
<1>8. CASE DrainPublishesIdle(b) \/ DrainRecordsIdle(b)
  <2>1. CASE e # b
    BY <1>3, <1>8, <2>1 DEF DrainPublishesIdle, DrainRecordsIdle, Draining,
       Publish, Record, ReportGoes, ExecTypeOK
  <2>2. CASE e = b
    BY <1>8, <2>2 DEF DrainPublishesIdle, DrainRecordsIdle, Draining, ReportGoes,
       ExecTypeOK, Shows
  <2> QED BY <2>1, <2>2
<1> QED BY <1>1, <1>2, <1>5, <1>6, <1>7, <1>8, <1>9 DEF DrainNext

LEMMA BodyStep ==
    ASSUME ExecInv, [ExecNext]_execVars PROVE BodyShows'
<1> USE DEF ExecInv
<1> SUFFICES ASSUME NEW e \in Entries, entry'[e].phase = "running"
             PROVE  Shows(e)'
  BY DEF BodyShows, Shows
<1>1. ASSUME RunsAt(e, entry'[e].key), UNCHANGED <<report, wire, data, hushed>>
      PROVE  Shows(e)'
  BY <1>1, ShowsKept
<1>2. UNCHANGED coordVars => RunsAt(e, entry'[e].key)
  BY RunningWas DEF coordVars
<1>3. ASSUME NEW w \in Wakers, WakerNext(w) PROVE Shows(e)'
  <2>1. RunsAt(e, entry'[e].key)
    <3>1. WakeWakes(w) => \E j \in Keys : Wake(j)
      BY DEF WakeWakes, Named
    <3> QED BY <1>2, <1>3, <3>1, RunningWas
            DEF WakerNext, WakePublishes, WakeRecords, WakeDies, coordVars
  <2>2. UNCHANGED <<report, hushed>>
    BY <1>3 DEF WakerNext, WakePublishes, WakeRecords, WakeDies, WakeWakes
  <2>3. entry[e].key \in Keys
    BY <2>1 DEF RunsAt, IInv, Shape, OneOwner, Live
  <2>4. /\ wire'[entry[e].key] \in {wire[entry[e].key], "busy"}
        /\ data'[entry[e].key] \in {data[entry[e].key], "busy"}
    BY <1>3, <2>3 DEF WakerNext, WakePublishes, WakeRecords, WakeDies, WakeWakes, Publish,
       Record, ExecTypeOK
  <2> QED BY <2>1, <2>2, <2>4, ShowsKept
<1>4. ASSUME NEW w \in Wakers, NEW j \in Keys, WakeCalled(w, j) PROVE Shows(e)'
  BY <1>1, <1>2, <1>4 DEF WakeCalled
<1>5. ASSUME NEW c \in Clients, HushNext(c) PROVE Shows(e)'
  <2>1. RunsAt(e, entry'[e].key) /\ UNCHANGED report
    BY <1>2, <1>5 DEF HushNext, InterruptWaited, HushPublishes, HushRecords, HushDies
  <2>2. entry[e].key \in Keys /\ entry'[e].key = entry[e].key
    BY <2>1 DEF RunsAt, IInv, Shape, OneOwner, Live
  <2>3. CASE InterruptWaited(c) \/ HushDies(c)
    BY <1>1, <2>1, <2>3 DEF InterruptWaited, HushDies
  <2>4. CASE hush[c].key = entry[e].key /\ ~InterruptWaited(c) /\ ~HushDies(c)
    <3>1. Hushes(entry[e].key)
      BY <1>5, <2>4 DEF HushNext, HushPublishes, HushRecords
    <3>2. report[e] \in {"busyRecord", "body"} => entry[e].key \in hushed'
      BY <3>1 DEF Hushes
    <3> QED BY <2>1, <2>2, <3>2 DEF Shows
  <2>5. CASE hush[c].key # entry[e].key /\ ~InterruptWaited(c) /\ ~HushDies(c)
    <3>1. /\ wire'[entry[e].key] = wire[entry[e].key]
          /\ data'[entry[e].key] = data[entry[e].key]
          /\ entry[e].key \in hushed => entry[e].key \in hushed'
      BY <1>5, <2>2, <2>5 DEF HushNext, HushPublishes, HushRecords, Hushes,
         Publish, Record, ExecTypeOK
    <3> QED BY <2>1, <3>1, ShowsKept
  <2> QED BY <2>3, <2>4, <2>5
<1>6. ASSUME NEW c \in Clients, ResumeCalls(c) PROVE Shows(e)'
  <2>1. UNCHANGED <<report, wire, data, hushed>>
    BY <1>6 DEF ResumeCalls, statusVars
  <2>2. client[c].at = "again" => client[c].key \in Keys
    BY DEF IInv, TypeOK
  <2>3. (\E j \in Keys : run(c, j)) \/ Abandon(c) \/ Return(c)
    BY <1>6, <2>2 DEF ResumeCalls, Run, RunAgain
  <2> QED BY <1>1, <2>1, <2>3, RunningWas
<1>7. ASSUME NEW c \in Clients, NEW j \in Keys, InterruptCalled(c, j)
      PROVE Shows(e)'
  <2>1. UNCHANGED <<report, wire, data, hushed>>
    BY <1>7 DEF InterruptCalled
  <2>2. Interrupt(c, j) \/ UNCHANGED coordVars
    BY <1>7 DEF InterruptCalled
  <2> QED BY <1>1, <2>1, <2>2, RunningWas DEF coordVars
<1>8. CASE UNCHANGED execVars
  BY <1>1, <1>2, <1>8 DEF execVars, statusVars
<1> QED BY <1>3, <1>4, <1>5, <1>6, <1>7, <1>8, DrainShows DEF ExecNext

-----------------------------------------------------------------------------
LEMMA ExecInvariance == ExecSpec => []ExecInv
<1>1. ExecInv /\ [ExecNext]_execVars => ExecInv'
  <2> SUFFICES ASSUME ExecInv, [ExecNext]_execVars PROVE ExecInv'
    OBVIOUS
  <2>1. ExecTypeOK /\ IInv /\ Named /\ OneOwner
    BY DEF ExecInv, IInv, Shape
  <2>2. [Next]_vars
    BY <2>1, ExecIsCoordinator
  <2>3. IInv'
    BY <2>1, <2>2, TypeStep, ShapeStep, NoLostWakeStep DEF IInv
  <2> QED BY <2>1, <2>3, ExecTypeStep, NamedStep, StoppedStep, ReportsStep,
             BodyStep DEF ExecInv
<1> QED BY <1>1, ExecInitInv, PTL DEF ExecSpec

(* The execution service and its coordinator keep their types.             *)
THEOREM ExecTypeCorrect == ExecSpec => []ExecTypeOK
BY ExecInvariance, PTL DEF ExecInv

(* The reports the service wraps around wake, drain and interrupt leave    *)
(* the coordinator as it is: the service implements it.                    *)
THEOREM ExecImplementsCoordinator == ExecSpec => Spec
<1>1. ExecInit => Init
  BY DEF ExecInit
<1>2. ExecInv /\ [ExecNext]_execVars => [Next]_vars
  BY ExecIsCoordinator DEF ExecInv
<1> QED BY <1>1, <1>2, ExecInvariance, PTL DEF ExecSpec, Spec

(* Therefore executions of a session do not overlap, no caller is left     *)
(* behind, no wake is lost, what is stopped stays so, and the service is   *)
(* the one SerialExecution describes.                                      *)
THEOREM ExecCoordinates ==
    ExecSpec => /\ []OneOwner /\ []NobodyOrphaned /\ []NoLostWake
                /\ StoppedStaysStopped /\ ServiceSafety
BY ExecImplementsCoordinator, Serialised, NoOrphans, WakesKept, StoppedForGood,
   ImplementsService

(* A session nobody works on shows idle, in whatever order the reports of  *)
(* wakers, drains and interrupts landed, unless the report of idle that    *)
(* was due failed and nobody has made one since.                           *)
THEOREM IdleIsShown == ExecSpec => []QuiescentIdle
<1>1. ExecInv => QuiescentIdle
  <2> SUFFICES ASSUME ExecInv, NEW k \in Keys, Quiescent(k)
               PROVE  /\ wire[k] = "idle" \/ <<k, "wire">> \in lapsed
                      /\ data[k] = "idle" \/ <<k, "data">> \in lapsed
    BY DEF QuiescentIdle
  <2>1. \A s : ~Awaited(k, s)
    <3>1. \A e \in Entries : ~DueAt(e, k) /\ ~RunsAt(e, k)
      <4> SUFFICES ASSUME NEW e \in Entries, DueAt(e, k) \/ RunsAt(e, k)
                   PROVE  FALSE
        OBVIOUS
      <4>1. active[k] = e
        BY DueIsLive DEF ExecInv
      <4> QED BY <4>1, NoneAssumption DEF Quiescent
    <3>2. k \notin Owed
      BY <3>1, OwedIsDue
    <3> QED BY <3>1, <3>2 DEF Awaited, Quiescent, Reporting, RunsAt
  <2>2. wire[k] \in Statuses /\ data[k] \in Statuses
    BY DEF ExecInv, ExecTypeOK
  <2>3. /\ Lapsed(k, Published) => <<k, "wire">> \in lapsed
        /\ Lapsed(k, Recorded) => <<k, "data">> \in lapsed
    BY DEF Lapsed, Published, Recorded
  <2> QED BY <2>1, <2>2, <2>3 DEF ExecInv, ReportsEnd, Statuses
<1> QED BY <1>1, ExecInvariance, PTL

(* While the runner runs the session shows busy, or an interrupt's report  *)
(* came after the drain's own.                                             *)
THEOREM BusyIsShown == ExecSpec => []BusyUnlessHushed
<1>1. ExecInv => BusyUnlessHushed
  BY DEF ExecInv, BodyShows, BusyUnlessHushed, Draining
<1> QED BY <1>1, ExecInvariance, PTL

=============================================================================
