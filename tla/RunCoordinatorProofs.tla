------------------------ MODULE RunCoordinatorProofs ------------------------
(***************************************************************************)
(* Theorems about RunCoordinator, for any sets of keys, entries and        *)
(* clients.                                                                *)
(***************************************************************************)
EXTENDS RunCoordinator, TLAPS

(* A settled entry keeps nothing of its previous life.                     *)
FreeIsBlank ==
    \A e \in Entries : ~Live(e) =>
        /\ entry[e] = Blank
        /\ e \notin pendingWake /\ e \notin stopping /\ e \notin forced

(* A stopped entry is past the point where its owner could enter drain.    *)
StopIsFinal == \A e \in stopping : entry[e].phase # "starting"

(* The inductive invariant.  OneOwner makes settle's write to active[key]  *)
(* hit the entry it belongs to, which NobodyOrphaned and NoLostWake need.  *)
Shape == FreeIsBlank /\ StopIsFinal /\ OneOwner /\ NobodyOrphaned

IInv == TypeOK /\ Shape /\ NoLostWake

LEMMA InitIInv == Init => IInv
BY NoneAssumption DEF Init, IInv, Shape, TypeOK, FreeIsBlank,
   StopIsFinal, OneOwner, NobodyOrphaned, NoLostWake, Live, Blank, Rest,
   Phases, Exits, ClientStates

(* Every action keeps the types.                                           *)
LEMMA TypeStep == TypeOK /\ [Next]_vars => TypeOK'
<1> SUFFICES ASSUME TypeOK, [Next]_vars PROVE TypeOK'
  OBVIOUS
<1> USE NoneAssumption DEF TypeOK, Phases, Exits, ClientStates, flags
<1>1. ASSUME NEW c \in Clients, NEW k \in Keys, run(c, k) PROVE TypeOK'
  <2>1. CASE RunJoins(c, k)
    BY <2>1 DEF RunJoins, Awaits
  <2>2. CASE RunStarts(c, k)
    <3>1. PICK n \in Entries :
             /\ StartFresh(k, n, TRUE)
             /\ client' = [client EXCEPT ![c] = Awaits(k, n, "joined")]
             /\ UNCHANGED owed
      BY <2>2 DEF RunStarts
    <3>2. /\ active' \in [Keys -> Entries \cup {None}]
          /\ entry' \in [Entries -> [key : Keys \cup {None}, phase : Phases,
                                    exit : Exits]]
          /\ pendingWake' \in SUBSET Entries /\ stopping' \in SUBSET Entries
          /\ forced' \in SUBSET Entries
      BY <3>1 DEF StartFresh, Starting
    <3> QED BY <3>1, <3>2 DEF Awaits
  <2> QED BY <1>1, <2>1, <2>2 DEF run
<1>2. ASSUME NEW c \in Clients, NEW k \in Keys, Interrupt(c, k) PROVE TypeOK'
  BY <1>2 DEF Interrupt, Exited, Awaits, Idle
<1>3. ASSUME NEW c \in Clients, RunAgain(c) PROVE TypeOK'
  BY <1>3, <1>1 DEF RunAgain
<1>4. ASSUME NEW c \in Clients, Abandon(c) \/ Return(c) PROVE TypeOK'
  <2>1. /\ client' = [client EXCEPT ![c] = Rest]
        /\ UNCHANGED <<active, entry, pendingWake, stopping, forced, owed>>
    BY <1>4 DEF Abandon, Return
  <2> QED BY <2>1 DEF Rest
<1>5. ASSUME NEW k \in Keys, Wake(k) PROVE TypeOK'
  BY <1>5 DEF Wake, WakeCoalesces, WakeStarts, StartFresh, Starting, Free, Idle
<1>6. ASSUME NEW e \in Entries, DrainBegin(e) PROVE TypeOK'
  BY <1>6 DEF DrainBegin
<1>7. ASSUME NEW e \in Entries, NEW exit \in Exits, DrainEnd(e, exit)
      PROVE TypeOK'
  BY <1>7 DEF DrainEnd, Exited
<1>8. ASSUME NEW e \in Entries, Complete(e)
      PROVE /\ client' \in [Clients -> [at : ClientStates,
                               key : Keys \cup {None},
                               on : Entries \cup {None}, exit : Exits]]
            /\ \A c \in Clients :
                  IF client'[c].at = "idle" THEN client'[c].on = None
                                            ELSE client'[c].key \in Keys
  <2> DEFINE r(c) == Resolved(client[c], e, entry[e].exit)
  <2>1. ASSUME NEW c \in Clients
        PROVE /\ r(c) \in [at : ClientStates, key : Keys \cup {None},
                           on : Entries \cup {None}, exit : Exits]
              /\ IF r(c).at = "idle" THEN r(c).on = None
                                     ELSE r(c).key \in Keys
    <3>1. CASE client[c].on # e
      BY <3>1 DEF Resolved
    <3>2. CASE client[c].on = e /\ client[c].at = "stopping"
      BY <3>2 DEF Resolved, Rest
    <3>3. CASE client[c].on = e /\ client[c].at # "stopping"
      BY <3>3 DEF Resolved
    <3> QED BY <3>1, <3>2, <3>3
  <2>2. client' = [c \in Clients |-> r(c)]
    BY <1>8 DEF Complete
  <2> QED BY <2>1, <2>2
<1>9. ASSUME NEW e \in Entries, settle(e) PROVE TypeOK'
  <2>1. CASE SettleFollowUp(e)
    BY <2>1 DEF SettleFollowUp
  <2>2. CASE SettleSuccessor(e)
    <3>1. PICK n \in Entries :
             /\ active' = [active EXCEPT ![entry[e].key] = n]
             /\ entry' = [entry EXCEPT ![e] = Blank,
                                       ![n] = Starting(entry[e].key)]
      BY <2>2 DEF SettleSuccessor, Free
    <3>2. /\ Blank \in [key : Keys \cup {None}, phase : Phases, exit : Exits]
          /\ Starting(entry[e].key) \in
                [key : Keys \cup {None}, phase : Phases, exit : Exits]
      BY DEF Blank, Starting
    <3>3. entry' \in [Entries -> [key : Keys \cup {None}, phase : Phases,
                                 exit : Exits]]
      BY <3>1, <3>2
    <3> QED BY <2>2, <1>8, <3>1, <3>3 DEF SettleSuccessor, ClearFlags
  <2>3. CASE SettleIdle(e)
    BY <2>3, <1>8 DEF SettleIdle, ClearFlags, Blank
  <2> QED BY <1>9, <2>1, <2>2, <2>3 DEF settle
<1>10. CASE UNCHANGED vars
  BY <1>10 DEF vars
<1> QED
  BY <1>1, <1>2, <1>3, <1>4, <1>5, <1>6, <1>7, <1>9, <1>10
     DEF Next, ClientNext, OwnerNext, Run

(***************************************************************************)
(* The map, the flags and the waiting clients.                             *)
(***************************************************************************)
LEMMA ShapeStep == TypeOK /\ Shape /\ [Next]_vars => Shape'
<1> SUFFICES ASSUME TypeOK, Shape, [Next]_vars PROVE Shape'
  OBVIOUS
<1> USE NoneAssumption DEF TypeOK, Shape, flags, FreeIsBlank, StopIsFinal,
        OneOwner, NobodyOrphaned, Live
<1>1. ASSUME NEW c \in Clients, NEW k \in Keys, run(c, k),
             client[c].at \in {"idle", "again"}
      PROVE Shape'
  <2>1. CASE RunJoins(c, k)
    BY <1>1, <2>1 DEF RunJoins, Awaits, Idle
  <2>2. CASE RunStarts(c, k)
    BY <1>1, <2>2 DEF RunStarts, StartFresh, Starting, Awaits, Idle, Free
  <2> QED BY <1>1, <2>1, <2>2 DEF run
<1>2. ASSUME NEW c \in Clients, NEW k \in Keys, Interrupt(c, k) PROVE Shape'
  BY <1>2 DEF Interrupt, Exited, Awaits, Idle
<1>3. ASSUME NEW c \in Clients, RunAgain(c) PROVE Shape'
  BY <1>3, <1>1 DEF RunAgain
<1>4. ASSUME NEW c \in Clients, Abandon(c) \/ Return(c) PROVE Shape'
  BY <1>4 DEF Abandon, Return, Rest
<1>5. ASSUME NEW k \in Keys, Wake(k) PROVE Shape'
  <2>1. CASE WakeCoalesces(k)
    BY <1>5, <2>1 DEF Wake, WakeCoalesces, Idle
  <2>2. CASE WakeStarts(k)
    BY <1>5, <2>2 DEF Wake, WakeStarts, StartFresh, Starting, Free, Idle
  <2> QED BY <1>5, <2>1, <2>2 DEF Wake
<1>6. ASSUME NEW e \in Entries, DrainBegin(e) PROVE Shape'
  BY <1>6 DEF DrainBegin
<1>7. ASSUME NEW e \in Entries, NEW exit \in Exits, DrainEnd(e, exit)
      PROVE Shape'
  BY <1>7 DEF DrainEnd, Exited
<1>8. ASSUME NEW e \in Entries, settle(e) PROVE Shape'
  <2>1. CASE SettleFollowUp(e)
    BY <1>8, <2>1 DEF settle, SettleFollowUp, FollowUp
  <2>2. CASE SettleSuccessor(e)
    <3> DEFINE k == entry[e].key
    <3>1. PICK n \in Entries :
             /\ ~Live(n)
             /\ active' = [active EXCEPT ![k] = n]
             /\ entry' = [entry EXCEPT ![e] = Blank, ![n] = Starting(k)]
      BY <2>2 DEF SettleSuccessor, Free
    <3>2. k \in Keys /\ active[k] = e /\ n # e
      BY <1>8, <3>1 DEF settle
    <3>3. /\ entry'[e] = Blank /\ entry'[n] = Starting(k)
          /\ \A d \in Entries \ {e, n} : entry'[d] = entry[d]
          /\ active'[k] = n
          /\ \A j \in Keys \ {k} : active'[j] = active[j]
      BY <3>1, <3>2
    <3>4. /\ pendingWake' = pendingWake \ {e}
          /\ stopping' = stopping \ {e}
          /\ forced' = forced \ {e}
      BY <2>2 DEF SettleSuccessor, ClearFlags
    <3>5. FreeIsBlank' /\ StopIsFinal'
      BY <3>1, <3>2, <3>3, <3>4 DEF Blank, Starting
    <3>6. OneOwner'
      BY <3>1, <3>2, <3>3 DEF Blank, Starting
    <3>7. NobodyOrphaned'
      BY <2>2, <3>2, <3>3 DEF SettleSuccessor, Complete, Resolved, Rest
    <3> QED BY <3>5, <3>6, <3>7
  <2>3. CASE SettleIdle(e)
    BY <1>8, <2>3 DEF settle, SettleIdle, ClearFlags, Blank, Complete,
       Resolved, Rest
  <2> QED BY <1>8, <2>1, <2>2, <2>3 DEF settle
<1>9. CASE UNCHANGED vars
  BY <1>9 DEF vars
<1> QED
  BY <1>1, <1>2, <1>3, <1>4, <1>5, <1>6, <1>7, <1>8, <1>9
     DEF Next, ClientNext, OwnerNext, Run

(***************************************************************************)
(* Wakes.                                                                  *)
(***************************************************************************)
LEMMA NoLostWakeStep ==
    TypeOK /\ Shape /\ NoLostWake /\ [Next]_vars => NoLostWake'
<1> SUFFICES ASSUME TypeOK, Shape, NoLostWake, [Next]_vars PROVE NoLostWake'
  OBVIOUS
<1> USE NoneAssumption DEF TypeOK, Shape, flags, FreeIsBlank, OneOwner,
        NoLostWake, Live
<1>1. ASSUME NEW c \in Clients, NEW k \in Keys, run(c, k) PROVE NoLostWake'
  BY <1>1 DEF run, RunJoins, RunStarts, StartFresh, Starting, Idle, Free
<1>2. ASSUME NEW c \in Clients, NEW k \in Keys, Interrupt(c, k)
      PROVE NoLostWake'
  BY <1>2 DEF Interrupt, Exited, Idle
<1>3. ASSUME NEW c \in Clients, RunAgain(c) PROVE NoLostWake'
  BY <1>3, <1>1 DEF RunAgain
<1>4. ASSUME NEW c \in Clients, Abandon(c) \/ Return(c) PROVE NoLostWake'
  BY <1>4 DEF Abandon, Return
<1>5. ASSUME NEW k \in Keys, Wake(k) PROVE NoLostWake'
  <2>1. CASE WakeCoalesces(k)
    BY <1>5, <2>1 DEF Wake, WakeCoalesces, Idle
  <2>2. CASE WakeStarts(k)
    BY <1>5, <2>2 DEF Wake, WakeStarts, StartFresh, Starting, Free, Idle
  <2> QED BY <1>5, <2>1, <2>2 DEF Wake
<1>6. ASSUME NEW e \in Entries, DrainBegin(e) PROVE NoLostWake'
  BY <1>6 DEF DrainBegin
<1>7. ASSUME NEW e \in Entries, NEW exit \in Exits, DrainEnd(e, exit)
      PROVE NoLostWake'
  BY <1>7 DEF DrainEnd, Exited
<1>8. ASSUME NEW e \in Entries, settle(e) PROVE NoLostWake'
  <2>1. CASE SettleFollowUp(e)
    BY <1>8, <2>1 DEF settle, SettleFollowUp, FollowUp
  <2>2. CASE SettleSuccessor(e)
    BY <1>8, <2>2 DEF settle, SettleSuccessor, ClearFlags, Starting, Blank,
       Free
  <2>3. CASE SettleIdle(e)
    BY <1>8, <2>3 DEF settle, SettleIdle, ClearFlags, Blank, Successor
  <2> QED BY <1>8, <2>1, <2>2, <2>3 DEF settle
<1>9. CASE UNCHANGED vars
  BY <1>9 DEF vars
<1> QED
  BY <1>1, <1>2, <1>3, <1>4, <1>5, <1>6, <1>7, <1>8, <1>9
     DEF Next, ClientNext, OwnerNext, Run

(***************************************************************************)
(* Every reachable state: executions of one key never overlap, nobody is   *)
(* left waiting on an entry that is gone, and no wake is lost.             *)
(***************************************************************************)
LEMMA Invariance == Spec => []IInv
<1>1. Init => IInv
  BY InitIInv
<1>2. IInv /\ [Next]_vars => IInv'
  BY TypeStep, ShapeStep, NoLostWakeStep DEF IInv
<1> QED BY <1>1, <1>2, PTL DEF Spec

(* The types of the coordinator's state hold.                              *)
THEOREM TypeCorrect == Spec => []TypeOK
BY Invariance, PTL DEF IInv

(* Executions of one key are serialised by the `active` map.               *)
THEOREM Serialised == Spec => []OneOwner
BY Invariance, PTL DEF IInv, Shape

(* settle answers everybody who waits on the entry it removes.             *)
THEOREM NoOrphans == Spec => []NobodyOrphaned
BY Invariance, PTL DEF IInv, Shape

(* A wake survives every interleaving with exits and successors.           *)
THEOREM WakesKept == Spec => []NoLostWake
BY Invariance, PTL DEF IInv

(***************************************************************************)
(* An entry that is told to stop never enters drain again.                 *)
(***************************************************************************)
StopStep ==
    \A e \in Entries :
        e \in stopping =>
            /\ entry'[e].phase = "running" => entry[e].phase = "running"
            /\ e \in stopping' \/ entry'[e] = Blank

(* Every step of the coordinator is one, its restarts aside.               *)
LEMMA StopsStay == IInv /\ [Next]_vars => StopStep \/ UNCHANGED vars
<1> SUFFICES ASSUME IInv, [Next]_vars PROVE StopStep \/ UNCHANGED vars
  OBVIOUS
<1> USE NoneAssumption DEF IInv, TypeOK, Shape, FreeIsBlank, StopIsFinal,
        StopStep, flags, Live
<1>1. ASSUME NEW c \in Clients, NEW k \in Keys, run(c, k) PROVE StopStep
  BY <1>1 DEF run, RunJoins, RunStarts, StartFresh, Starting, Free
<1>2. ASSUME NEW c \in Clients, NEW k \in Keys, Interrupt(c, k)
      PROVE StopStep
  BY <1>2 DEF Interrupt, Exited
<1>3. ASSUME NEW c \in Clients, RunAgain(c) PROVE StopStep
  BY <1>3, <1>1 DEF RunAgain
<1>4. ASSUME NEW c \in Clients, Abandon(c) \/ Return(c) PROVE StopStep
  BY <1>4 DEF Abandon, Return
<1>5. ASSUME NEW k \in Keys, Wake(k) PROVE StopStep
  BY <1>5 DEF Wake, WakeCoalesces, WakeStarts, StartFresh, Starting, Free
<1>6. ASSUME NEW e \in Entries, DrainBegin(e) PROVE StopStep
  BY <1>6 DEF DrainBegin
<1>7. ASSUME NEW e \in Entries, NEW exit \in Exits, DrainEnd(e, exit)
      PROVE StopStep
  BY <1>7 DEF DrainEnd, Exited
<1>8. ASSUME NEW e \in Entries, settle(e) PROVE StopStep
  <2>1. CASE SettleFollowUp(e)
    BY <2>1 DEF SettleFollowUp, FollowUp
  <2>2. CASE SettleSuccessor(e)
    <3>1. PICK n \in Entries :
             /\ ~Live(n)
             /\ entry' = [entry EXCEPT ![e] = Blank,
                                       ![n] = Starting(entry[e].key)]
      BY <2>2 DEF SettleSuccessor, Free
    <3>2. n # e /\ n \notin stopping
      BY <3>1, <1>8 DEF settle
    <3>3. entry'[e] = Blank
      BY <3>1, <3>2
    <3>4. \A d \in Entries \ {e, n} : entry'[d] = entry[d]
      BY <3>1
    <3>5. stopping' = stopping \ {e}
      BY <2>2 DEF SettleSuccessor, ClearFlags
    <3>6. Blank.phase # "running"
      BY DEF Blank
    <3>7. ASSUME NEW d \in Entries, d \in stopping
          PROVE  /\ entry'[d].phase = "running" => entry[d].phase = "running"
                 /\ d \in stopping' \/ entry'[d] = Blank
      <4>1. CASE d = e
        BY <4>1, <3>3, <3>6
      <4>2. CASE d # e
        BY <4>2, <3>2, <3>4, <3>5, <3>7
      <4> QED BY <4>1, <4>2
    <3> QED BY <3>7
  <2>3. CASE SettleIdle(e)
    BY <2>3 DEF SettleIdle, ClearFlags, Blank
  <2> QED BY <1>8, <2>1, <2>2, <2>3 DEF settle
<1> QED
  BY <1>1, <1>2, <1>3, <1>4, <1>5, <1>6, <1>7, <1>8
     DEF Next, ClientNext, OwnerNext, Run

THEOREM StoppedForGood == Spec => StoppedStaysStopped
<1>1. StopStep \/ UNCHANGED vars =>
        [\A e \in Entries : e \in stopping =>
            /\ entry'[e].phase = "running" => entry[e].phase = "running"
            /\ e \in stopping' \/ entry'[e] = Blank]_vars
  BY DEF StopStep
<1> QED BY <1>1, StopsStay, Invariance, PTL DEF Spec, StoppedStaysStopped

(***************************************************************************)
(* The coordinator implements the execution service.  Every step is a step *)
(* of SerialExecution on the keys that are running and owed, or changes    *)
(* neither.                                                                *)
(***************************************************************************)
LEMMA ServiceInit == Init => Service!Init
BY DEF Init, Service!Init, Running, Owed, Blank

(* With one entry per key, running and owed are read off that entry.       *)
R(k) == active[k] # None /\ entry[active[k]].phase \in {"running", "settling"}

O(k) == /\ active[k] # None
        /\ active[k] \in pendingWake \/ entry[active[k]].phase = "starting"

RunningView == {<<k, active[k]>> : k \in {j \in Keys : R(j)}}
OwedView == {k \in Keys : O(k)}

LEMMA Views == TypeOK /\ Shape => Running = RunningView /\ Owed = OwedView
<1> SUFFICES ASSUME TypeOK, Shape
             PROVE  Running = RunningView /\ Owed = OwedView
  OBVIOUS
<1> USE NoneAssumption DEF TypeOK, Shape, FreeIsBlank, OneOwner, Live, Blank,
        R, O
<1>1. \A e \in Entries : entry[e].phase \in {"running", "settling"} <=>
         entry[e].key \in Keys /\ active[entry[e].key] = e /\ R(entry[e].key)
  OBVIOUS
<1>2. \A k \in Keys : R(k) => active[k] \in Entries /\ entry[active[k]].key = k
  OBVIOUS
<1>3. Running = RunningView
  BY <1>1, <1>2 DEF Running, RunningView
<1>4. Owed = OwedView
  BY DEF Owed, OwedView
<1> QED BY <1>3, <1>4

LEMMA ServiceStep ==
    TypeOK /\ Shape /\ [Next]_vars => [Service!Next]_(Service!vars)
<1> SUFFICES ASSUME TypeOK, Shape, [Next]_vars
             PROVE  Service!Next \/ UNCHANGED <<Running, Owed>>
  BY DEF Service!vars
<1>a. Running = RunningView /\ Owed = OwedView
  BY Views
<1>b. TypeOK' /\ Shape'
  BY TypeStep, ShapeStep
<1>c. (TypeOK /\ Shape)' => (Running = RunningView /\ Owed = OwedView)'
  BY Views, PTL
<1>d. Running' = RunningView' /\ Owed' = OwedView'
  BY <1>b, <1>c
(* It is enough to say what an action does to R and O of each key, and     *)
(* that a running key keeps its entry.                                     *)
<1> DEFINE Kept == \A j \in Keys : R(j)' /\ R(j) => active'[j] = active[j]
<1>e. ASSUME Kept, \A k \in Keys : (R(k)' <=> R(k)) /\ (O(k)' <=> O(k))
      PROVE  UNCHANGED <<Running, Owed>>
  BY <1>a, <1>d, <1>e DEF RunningView, OwedView
<1>f. ASSUME NEW k \in Keys, Kept, \A j \in Keys : R(j)' <=> R(j),
             \A j \in Keys : O(j)' <=> O(j) \/ j = k
      PROVE  Service!Request(k)
  BY <1>a, <1>d, <1>f DEF Service!Request, RunningView, OwedView
<1>g. ASSUME NEW k \in Keys, Kept, \A j \in Keys : R(j)' <=> R(j),
             \A j \in Keys : O(j)' <=> O(j) /\ j # k
      PROVE  Service!Forget(k)
  BY <1>a, <1>d, <1>g DEF Service!Forget, RunningView, OwedView
<1>h. ASSUME NEW k \in Keys, R(k), Kept,
             \A j \in Keys : R(j)' <=> R(j) /\ j # k,
             \A j \in Keys : O(j)' <=> O(j)
      PROVE  Service!Finish(k, active[k])
  BY <1>a, <1>d, <1>h DEF Service!Finish, RunningView, OwedView
<1>i. ASSUME NEW k \in Keys, ~R(k), O(k), Kept, active'[k] = active[k],
             \A j \in Keys : R(j)' <=> R(j) \/ j = k,
             \A j \in Keys \ {k} : O(j)' <=> O(j)
      PROVE  Service!Begin(k, active[k])
  <2>1. Owed' \in {Owed, Owed \ {k}}
    <3>1. CASE O(k)'
      BY <3>1, <1>a, <1>d, <1>i DEF OwedView
    <3>2. CASE ~O(k)'
      BY <3>2, <1>a, <1>d, <1>i DEF OwedView
    <3> QED BY <3>1, <3>2
  <2>2. Running' = Running \cup {<<k, active[k]>>}
    BY <1>a, <1>d, <1>i DEF RunningView
  <2>3. ~Service!IsRunning(k)
    BY <1>a, <1>i DEF Service!IsRunning, RunningView
  <2>4. k \in Owed
    BY <1>a, <1>i DEF OwedView
  <2> QED BY <2>1, <2>2, <2>3, <2>4 DEF Service!Begin
<1> USE NoneAssumption DEF TypeOK, Shape, flags, FreeIsBlank, OneOwner,
        Live, R, O
<1>1. ASSUME NEW c \in Clients, NEW k \in Keys, run(c, k)
      PROVE  Service!Request(k) \/ UNCHANGED <<Running, Owed>>
  <2>1. CASE RunJoins(c, k)
    BY <2>1, <1>e DEF RunJoins
  <2>2. CASE RunStarts(c, k)
    BY <2>2, <1>f DEF RunStarts, StartFresh, Starting, Free, Idle
  <2> QED BY <1>1, <2>1, <2>2 DEF run
<1>2. ASSUME NEW c \in Clients, NEW k \in Keys, Interrupt(c, k)
      PROVE  Service!Forget(k)
  BY <1>2, <1>g DEF Interrupt, Exited, Idle
<1>3. ASSUME NEW c \in Clients, RunAgain(c)
      PROVE  Service!Next \/ UNCHANGED <<Running, Owed>>
  BY <1>3, <1>1 DEF RunAgain, Service!Next
<1>4. ASSUME NEW c \in Clients, Abandon(c) \/ Return(c)
      PROVE  UNCHANGED <<Running, Owed>>
  BY <1>4, <1>e DEF Abandon, Return
<1>5. ASSUME NEW k \in Keys, Wake(k) PROVE Service!Request(k)
  <2>1. CASE WakeCoalesces(k)
    BY <2>1, <1>f DEF WakeCoalesces, Idle
  <2>2. CASE WakeStarts(k)
    BY <2>2, <1>f DEF WakeStarts, StartFresh, Starting, Free, Idle
  <2> QED BY <1>5, <2>1, <2>2 DEF Wake
<1>6. ASSUME NEW e \in Entries, DrainBegin(e)
      PROVE  Service!Begin(entry[e].key, e)
  <2> DEFINE k == entry[e].key
  <2>1. k \in Keys /\ active[k] = e /\ active' = active
    BY <1>6 DEF DrainBegin
  <2>2. /\ ~R(k) /\ O(k)
        /\ \A j \in Keys : R(j)' <=> R(j) \/ j = k
        /\ \A j \in Keys \ {k} : O(j)' <=> O(j)
    BY <1>6, <2>1 DEF DrainBegin
  <2> QED BY <2>1, <2>2, <1>i
<1>7. ASSUME NEW e \in Entries, NEW exit \in Exits, DrainEnd(e, exit)
      PROVE  UNCHANGED <<Running, Owed>>
  BY <1>7, <1>e DEF DrainEnd, Exited
<1>8. ASSUME NEW e \in Entries, settle(e)
      PROVE  Service!Finish(entry[e].key, e) \/ UNCHANGED <<Running, Owed>>
  <2> DEFINE k == entry[e].key
  <2>1. k \in Keys /\ active[k] = e
    BY <1>8 DEF settle
  <2>2. /\ Kept
        /\ \A j \in Keys : R(j)' <=> R(j) /\ j # k
        /\ \A j \in Keys : O(j)' <=> O(j)
    <3>1. CASE SettleFollowUp(e)
      BY <1>8, <2>1, <3>1 DEF settle, SettleFollowUp, FollowUp
    <3>2. CASE SettleSuccessor(e)
      BY <1>8, <2>1, <3>2 DEF settle, SettleSuccessor, Successor, ClearFlags,
         Starting, Blank, Free
    <3>3. CASE SettleIdle(e)
      BY <1>8, <2>1, <3>3 DEF settle, SettleIdle, Successor, ClearFlags, Blank
    <3> QED BY <1>8, <3>1, <3>2, <3>3 DEF settle
  <2>3. CASE R(k)
    BY <2>1, <2>2, <2>3, <1>h
  <2>4. CASE ~R(k)
    BY <2>1, <2>2, <2>4, <1>e
  <2> QED BY <2>3, <2>4
<1>9. CASE UNCHANGED vars
  BY <1>9, <1>e DEF vars
<1> QED
  <2>1. \A e \in Entries : DrainBegin(e) \/ settle(e) =>
            Service!Next \/ UNCHANGED <<Running, Owed>>
    BY <1>6, <1>8 DEF Service!Next, DrainBegin, settle
  <2> QED
    BY <1>1, <1>2, <1>3, <1>4, <1>5, <1>7, <1>9, <2>1
       DEF Next, ClientNext, OwnerNext, Run, Service!Next

(* The coordinator implements the service: its executions of a key never   *)
(* overlap and begin only for a request that is owed.                      *)
THEOREM ImplementsService == Spec => ServiceSafety
<1>1. Spec => [](TypeOK /\ Shape)
  BY Invariance, PTL DEF IInv
<1> QED
  BY <1>1, ServiceInit, ServiceStep, PTL DEF Spec, ServiceSafety, Service!Safety
-----------------------------------------------------------------------------
(* What the coordinator's steps leave of the work that is due and of the   *)
(* entries that run.                                                       *)
DueAt(e, k) ==
    entry[e].key = k /\ (e \in pendingWake \/ entry[e].phase = "starting")

RunsAt(e, k) == entry[e].key = k /\ entry[e].phase = "running"

LEMMA OwedIsDue ==
    ASSUME NEW k \in Keys PROVE k \in Owed <=> \E e \in Entries : DueAt(e, k)
BY DEF Owed, DueAt

LEMMA DueIsLive ==
    ASSUME IInv, NEW k \in Keys, NEW e \in Entries, DueAt(e, k) \/ RunsAt(e, k)
    PROVE  Live(e) /\ active[k] = e
BY DEF IInv, Shape, FreeIsBlank, OneOwner, DueAt, RunsAt, Live, Blank

(* A call starts a free entry, or adds to what is pending.                 *)
LEMMA CallsKeepWork ==
    ASSUME IInv, NEW j \in Keys, NEW k \in Keys,
           Wake(j) \/ \E c \in Clients : run(c, j)
    PROVE  /\ \A e \in Entries : DueAt(e, k) => DueAt(e, k)'
           /\ \A e \in Entries : RunsAt(e, k) => RunsAt(e, k)'
           /\ pendingWake \subseteq pendingWake'
           /\ Wake(j) => j \in Owed'
           /\ UNCHANGED stopping
           /\ \A e \in Entries : Live(e) => entry'[e] = entry[e]
<1>1. CASE \E n \in Entries, force \in BOOLEAN : StartFresh(j, n, force)
  <2>1. PICK n \in Entries, force \in BOOLEAN : StartFresh(j, n, force)
    BY <1>1
  <2>2. ~Live(n) /\ entry' = [entry EXCEPT ![n] = Starting(j)]
        /\ UNCHANGED <<pendingWake, stopping>>
    BY <2>1 DEF StartFresh, Free
  <2>3. entry'[n] = Starting(j) /\ \A e \in Entries \ {n} : entry'[e] = entry[e]
    BY <2>2 DEF IInv, TypeOK
  <2>4. \A e \in Entries : Live(e) => entry'[e] = entry[e]
    BY <2>2, <2>3
  <2>5. j \in Owed'
    BY <2>3, OwedIsDue DEF Owed, Starting
  <2> QED BY <2>2, <2>4, <2>5, DueIsLive DEF DueAt, RunsAt
<1>2. CASE WakeCoalesces(j)
  <2>1. /\ active[j] # None /\ pendingWake' = pendingWake \cup {active[j]}
        /\ UNCHANGED <<entry, stopping>>
    BY <1>2 DEF WakeCoalesces, Idle
  <2>2. entry[active[j]].key = j /\ active[j] \in Entries
    BY <2>1 DEF IInv, Shape, OneOwner, TypeOK
  <2>3. j \in Owed'
    BY <2>1, <2>2 DEF Owed
  <2> QED BY <2>1, <2>3 DEF DueAt, RunsAt
<1>3. CASE \E c \in Clients : RunJoins(c, j)
  <2>1. UNCHANGED <<entry, pendingWake, stopping>>
    BY <1>3 DEF RunJoins, flags
  <2>2. Wake(j) => j \in Owed'
    <3> SUFFICES ASSUME Wake(j) PROVE j \in Owed'
      OBVIOUS
    <3>1. CASE WakeCoalesces(j)
      BY <3>1, <1>2
    <3>2. CASE WakeStarts(j)
      BY <3>2, <1>1 DEF WakeStarts
    <3> QED BY <3>1, <3>2 DEF Wake
  <2> QED BY <2>1, <2>2 DEF DueAt, RunsAt
<1> QED
  BY <1>1, <1>2, <1>3 DEF Wake, WakeStarts, run, RunStarts

(* An interrupt takes what is due from its own session only, and leaves a  *)
(* running drain to its finalizers.                                        *)
LEMMA InterruptKeepsWork ==
    ASSUME IInv, NEW c \in Clients, NEW j \in Keys, Interrupt(c, j), NEW k \in Keys
    PROVE  /\ j # k => \A e \in Entries : DueAt(e, k) => DueAt(e, k)'
           /\ \A e \in Entries : RunsAt(e, k) => RunsAt(e, k)'
           /\ \A e \in Entries : entry'[e].key = entry[e].key
<1>1. /\ active[j] \in Entries /\ entry[active[j]].key = j
      /\ pendingWake' = pendingWake \ {active[j]}
      /\ entry' = [entry EXCEPT ![active[j]] =
             IF @.phase = "starting" THEN Exited(@, "cancelled", "interrupted")
                                     ELSE @]
  BY DEF Interrupt, Idle, IInv, Shape, OneOwner, TypeOK
<1>2. \A e \in Entries : e # active[j] => entry'[e] = entry[e]
  BY <1>1 DEF IInv, TypeOK
<1>3. /\ entry'[active[j]].key = entry[active[j]].key
      /\ entry[active[j]].phase # "starting" => entry'[active[j]] = entry[active[j]]
  BY <1>1 DEF IInv, TypeOK, Exited
<1> QED BY <1>1, <1>2, <1>3 DEF DueAt, RunsAt

LEMMA BeginKeepsWork ==
    ASSUME IInv, NEW b \in Entries, DrainBegin(b), NEW k \in Keys
    PROVE  /\ \A e \in Entries : e # b => (DueAt(e, k) => DueAt(e, k)')
           /\ \A e \in Entries : RunsAt(e, k) => RunsAt(e, k)' /\ e # b
           /\ entry[b].key = k => RunsAt(b, k)'
           /\ \A e \in Entries : entry'[e].key = entry[e].key
           /\ UNCHANGED stopping
<1>1. /\ entry[b].phase = "starting" /\ entry' = [entry EXCEPT ![b].phase = "running"]
      /\ UNCHANGED <<pendingWake, stopping>>
  BY DEF DrainBegin, flags
<1>2. \A e \in Entries : e # b => entry'[e] = entry[e]
  BY <1>1 DEF IInv, TypeOK
<1>3. entry'[b].phase = "running" /\ entry'[b].key = entry[b].key
  BY <1>1 DEF IInv, TypeOK
<1> QED BY <1>1, <1>2, <1>3 DEF DueAt, RunsAt

LEMMA EndKeepsWork ==
    ASSUME IInv, NEW b \in Entries, NEW exit \in Exits, DrainEnd(b, exit),
           NEW k \in Keys
    PROVE  /\ \A e \in Entries : DueAt(e, k) => DueAt(e, k)'
           /\ \A e \in Entries : e # b => (RunsAt(e, k) => RunsAt(e, k)')
           /\ \A e \in Entries : entry'[e].key = entry[e].key
           /\ UNCHANGED stopping
<1>1. /\ entry[b].phase = "running"
      /\ entry' = [entry EXCEPT ![b] = Exited(@, "settling", exit)]
      /\ UNCHANGED <<pendingWake, stopping>>
  BY DEF DrainEnd, flags
<1>2. \A e \in Entries : e # b => entry'[e] = entry[e]
  BY <1>1 DEF IInv, TypeOK
<1>3. entry'[b].key = entry[b].key
  BY <1>1 DEF IInv, TypeOK, Exited
<1> QED BY <1>1, <1>2, <1>3 DEF DueAt, RunsAt

(* settle hands on what is due.                                            *)
LEMMA SettleKeepsWork ==
    ASSUME IInv, NEW b \in Entries, settle(b), NEW k \in Keys
    PROVE  /\ (\E e \in Entries : DueAt(e, k)) => \E e \in Entries : DueAt(e, k)'
           /\ \A e \in Entries : RunsAt(e, k) => RunsAt(e, k)' /\ e # b
           /\ \A e \in stopping' : e \in stopping /\ entry'[e].key = entry[e].key
                                   /\ e # b
<1>0. entry[b].phase \in {"settling", "cancelled"}
  BY DEF settle
<1>1. CASE SettleFollowUp(b)
  <2>1. /\ pendingWake' = pendingWake \ {b} /\ b \notin stopping
        /\ entry' = [entry EXCEPT ![b].phase = "starting"]
        /\ UNCHANGED stopping
    BY <1>1 DEF SettleFollowUp, FollowUp
  <2>2. \A e \in Entries : e # b => entry'[e] = entry[e]
    BY <2>1 DEF IInv, TypeOK
  <2>3. entry'[b].phase = "starting" /\ entry'[b].key = entry[b].key
    BY <2>1 DEF IInv, TypeOK
  <2>4. stopping \in SUBSET Entries
    BY DEF IInv, TypeOK
  <2>5. ASSUME NEW e \in Entries, DueAt(e, k) PROVE DueAt(e, k)'
    BY <2>1, <2>2, <2>3, <2>5 DEF DueAt
  <2> QED BY <1>0, <2>1, <2>2, <2>3, <2>4, <2>5 DEF RunsAt
<1>2. CASE SettleSuccessor(b)
  <2>1. PICK n \in Free :
             entry' = [entry EXCEPT ![b] = Blank, ![n] = Starting(entry[b].key)]
    BY <1>2 DEF SettleSuccessor
  <2>2. /\ n \in Entries /\ n # b /\ ~Live(n)
    BY <1>0, <2>1 DEF Free, Live
  <2>3. \A e \in Entries : e # b /\ e # n => entry'[e] = entry[e]
    BY <2>1, <2>2 DEF IInv, TypeOK
  <2>4. entry'[n] = Starting(entry[b].key)
    BY <2>1, <2>2 DEF IInv, TypeOK
  <2>5. pendingWake' = pendingWake \ {b} /\ stopping' = stopping \ {b}
    BY <1>2 DEF SettleSuccessor, ClearFlags
  <2>6. ASSUME NEW e \in Entries, DueAt(e, k) PROVE \E d \in Entries : DueAt(d, k)'
    <3>1. CASE e = b
      BY <3>1, <2>2, <2>4, <2>6 DEF DueAt, Starting
    <3>2. CASE e # b
      <4>1. e # n
        BY <2>2, <2>6, DueIsLive
      <4> QED BY <3>2, <4>1, <2>3, <2>5, <2>6 DEF DueAt
    <3> QED BY <3>1, <3>2
  <2>7. ASSUME NEW e \in Entries, RunsAt(e, k) PROVE RunsAt(e, k)' /\ e # b
    <3>1. e # b
      BY <1>0, <2>7 DEF RunsAt
    <3>2. e # n
      BY <2>2, <2>7, DueIsLive
    <3> QED BY <3>1, <3>2, <2>3, <2>7 DEF RunsAt
  <2>8. ASSUME NEW e \in stopping'
        PROVE e \in stopping /\ entry'[e].key = entry[e].key /\ e # b
    <3>1. e \in stopping /\ e # b /\ e \in Entries
      BY <2>5 DEF IInv, TypeOK
    <3>2. e # n
      BY <3>1, <2>2 DEF IInv, Shape, FreeIsBlank
    <3> QED BY <3>1, <3>2, <2>3
  <2> QED BY <2>6, <2>7, <2>8
<1>3. CASE SettleIdle(b)
  <2>1. /\ b \notin pendingWake /\ entry' = [entry EXCEPT ![b] = Blank]
        /\ pendingWake' = pendingWake \ {b} /\ stopping' = stopping \ {b}
    BY <1>3 DEF SettleIdle, ClearFlags, Successor
  <2>2. \A e \in Entries : e # b => entry'[e] = entry[e]
    BY <2>1 DEF IInv, TypeOK
  <2>3. stopping \in SUBSET Entries
    BY DEF IInv, TypeOK
  <2>4. ASSUME NEW e \in Entries, DueAt(e, k) PROVE DueAt(e, k)'
    <3>1. e # b
      BY <1>0, <2>1, <2>4 DEF DueAt
    <3> QED BY <3>1, <2>1, <2>2, <2>4 DEF DueAt
  <2>5. ASSUME NEW e \in Entries, RunsAt(e, k) PROVE RunsAt(e, k)' /\ e # b
    BY <1>0, <2>2, <2>5 DEF RunsAt
  <2> QED BY <2>1, <2>2, <2>3, <2>4, <2>5
<1> QED BY <1>1, <1>2, <1>3 DEF settle

(* Only DrainBegin makes an entry run.                                     *)
LEMMA RunningWas ==
    ASSUME IInv, NEW e \in Entries, entry'[e].phase = "running",
           \/ UNCHANGED entry
           \/ \E j \in Keys : Wake(j) \/ \E c \in Clients : run(c, j) \/ Interrupt(c, j)
           \/ \E c \in Clients : Abandon(c) \/ Return(c)
           \/ \E b \in Entries : settle(b) \/ \E exit \in Exits : DrainEnd(b, exit)
    PROVE  RunsAt(e, entry'[e].key)
<1>1. UNCHANGED entry => RunsAt(e, entry'[e].key)
  BY DEF RunsAt
<1>2. ASSUME NEW j \in Keys, Wake(j) \/ \E c \in Clients : run(c, j)
      PROVE RunsAt(e, entry'[e].key)
  <2>1. UNCHANGED entry \/ \E n \in Entries : entry' = [entry EXCEPT ![n] = Starting(j)]
    BY <1>2 DEF Wake, WakeCoalesces, WakeStarts, run, RunJoins, RunStarts, StartFresh
  <2>2. ASSUME NEW n \in Entries, entry' = [entry EXCEPT ![n] = Starting(j)]
        PROVE RunsAt(e, entry'[e].key)
    BY <2>2 DEF Starting, IInv, TypeOK, RunsAt
  <2> QED BY <1>1, <2>1, <2>2
<1>3. ASSUME NEW c \in Clients, NEW j \in Keys, Interrupt(c, j)
      PROVE RunsAt(e, entry'[e].key)
  BY <1>3 DEF Interrupt, Exited, IInv, TypeOK, RunsAt, Idle
<1>4. ASSUME NEW c \in Clients, Abandon(c) \/ Return(c)
      PROVE RunsAt(e, entry'[e].key)
  BY <1>1, <1>4 DEF Abandon, Return
<1>5. ASSUME NEW b \in Entries, NEW exit \in Exits, DrainEnd(b, exit)
      PROVE RunsAt(e, entry'[e].key)
  BY <1>5 DEF DrainEnd, Exited, IInv, TypeOK, RunsAt
<1>6. ASSUME NEW b \in Entries, settle(b) PROVE RunsAt(e, entry'[e].key)
  <2>1. CASE SettleFollowUp(b)
    BY <2>1 DEF SettleFollowUp, IInv, TypeOK, RunsAt
  <2>2. CASE SettleSuccessor(b)
    <3>1. PICK n \in Entries :
             entry' = [entry EXCEPT ![b] = Blank, ![n] = Starting(entry[b].key)]
      BY <2>2 DEF SettleSuccessor, Free
    <3> QED BY <3>1 DEF Blank, Starting, IInv, TypeOK, RunsAt
  <2>3. CASE SettleIdle(b)
    BY <2>3 DEF SettleIdle, Blank, IInv, TypeOK, RunsAt
  <2> QED BY <1>6, <2>1, <2>2, <2>3 DEF settle
<1> QED BY <1>1, <1>2, <1>3, <1>4, <1>5, <1>6

=============================================================================
