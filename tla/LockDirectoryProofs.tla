------------------------- MODULE LockDirectoryProofs -------------------------
(***************************************************************************)
(* Proofs about LockDirectory.  Unless a lock was removed by mistake, or a *)
(* breaker was left, the lock is of whoever is in it: each protocol needs  *)
(* its own reason why nobody else removes it.                              *)
(***************************************************************************)
EXTENDS LockDirectory, FiniteSetTheorems, TLAPS

(* The pid in an update lock or a registry's is its maker's, and until the *)
(* maker of an update lock has written it the lock is not old.  So one who *)
(* has found the lock that is there old and without a live owner, and goes *)
(* to remove it, removes one that was left.                                *)
OwnersOwn ==
    \A p \in Processes \ dead :
       /\ pc[p] \in Owning => lock.by = p
       /\ pc[p] = "made" => lock.pid = Nobody /\ ~lock.old
       /\ protocol = "update" /\ pc[p] \in {"holding", "releasing"}
             => lock.pid = p

JudgesKnow ==
    \A p \in Processes \ (dead \cup misled) :
       /\ pc[p] = "dated" /\ sawOld[p] => lock # Absent /\ lock.old
       /\ pc[p] = "reaping" => Left

PidLockInOrder ==
    protocol # "flock" /\ ~mistake =>
        /\ lock # Absent => lock.by \in Processes
        /\ lock.pid # Nobody => lock.pid = lock.by
        /\ \A p \in Processes :
              /\ pc[p] \in {"idle", "tries", "made", "holding", "releasing",
                            "blocked", "dated", "reaping", "waits"}
              /\ pc[p] = "dated" => protocol = "update"
        /\ OwnersOwn
        /\ JudgesKnow

(* flock: only the lock of a dead process grows old.  The breaker is of    *)
(* the one process that is between taking and leaving it, which removes    *)
(* the lock only when that is still the dead one's; and nobody finds the   *)
(* breaker old.                                                            *)
BreakerLeft == \E d \in dead : pc[d] \in Breaking

BreakerIsTaken ==
    /\ \/ breaker = Absent
       \/ breaker.by \in Processes /\ pc[breaker.by] \in Breaking
    /\ ~breaker.old
    /\ \A p \in Processes : pc[p] \in Breaking => breaker.by = p

FlockInOrder ==
    protocol = "flock" /\ ~BreakerLeft =>
        /\ BreakerIsTaken
        /\ lock.old => lock.by \in dead
        /\ \A p \in Processes :
              /\ pc[p] \notin {"clears", "reaping", "dated"}
              /\ pc[p] = "clearing" => lock.by \in dead
              /\ pc[p] \in Owning /\ p \notin dead => lock.by = p

LockInv == TypeOK /\ PidLockInOrder /\ FlockInOrder

Directories == [by : Processes \cup {Nobody}, pid : Processes \cup {Nobody},
                beats : BOOLEAN, old : BOOLEAN]

LEMMA DirectoriesMade ==
    /\ Absent \in Directories
    /\ \A p \in Processes : MadeBy(p) \in Directories
  BY DEF Absent, MadeBy, Directories

(* What is written into a directory leaves it whose it is.                 *)
LEMMA DirectoriesWritten ==
    ASSUME NEW dir \in Directories, NEW p \in Processes
    PROVE  LET beaten == [dir EXCEPT !.beats = TRUE, !.old = FALSE]
               stamped == [dir EXCEPT !.pid = p]
           IN  /\ beaten \in Directories /\ beaten.by = dir.by /\ ~beaten.old
               /\ stamped \in Directories
               /\ stamped.by = dir.by /\ stamped.old = dir.old
  BY DEF Directories

Steps == {"idle", "tries", "made", "beating", "holding", "releasing",
          "blocked", "dated", "reaping", "waits", "stale", "clears",
          "breaks", "clearing", "broke", "remade", "gaveUp"}

LEMMA OnlyTypes ==
    ASSUME TypeOK, NEW p \in Processes, NEW step \in Steps, Only(p, step)
    PROVE  TypeOK'
  BY DEF TypeOK, Only, Goes, Steps

LEMMA SetsLockTypes ==
    ASSUME TypeOK, NEW p \in Processes, NEW step \in Steps,
           NEW dir \in Directories, SetsLock(p, dir, step)
    PROVE  TypeOK'
  BY DEF TypeOK, SetsLock, Goes, Steps, Directories

LEMMA SetsBreakerTypes ==
    ASSUME TypeOK, NEW p \in Processes, NEW step \in Steps,
           NEW dir \in Directories, SetsBreaker(p, dir, step)
    PROVE  TypeOK'
  BY DEF TypeOK, SetsBreaker, Goes, Steps, Directories

LEMMA LockTypeStep ==
    ASSUME TypeOK, [Next]_vars
    PROVE  TypeOK'
<1>0. lock \in Directories
  BY DEF TypeOK, Directories
<1>1. ASSUME NEW p \in Processes,
             IsBlocked(p) \/ Retries(p) \/ Judges(p) \/ Waits(p)
             \/ FindsStale(p) \/ Breaks(p)
      PROVE  TypeOK'
  BY <1>1, OnlyTypes
     DEF IsBlocked, Retries, Judges, Waits, FindsStale, Breaks, Steps
<1>2. ASSUME NEW p \in Processes,
             Makes(p) \/ Reaps(p) \/ ClearsLock(p) \/ Removes(p)
      PROVE  TypeOK'
  BY <1>2, DirectoriesMade, SetsLockTypes DEF Makes, Reaps, ClearsLock, Removes, Steps
<1>3. ASSUME NEW p \in Processes, StampsPid(p)
      PROVE  TypeOK'
  <2>1. [lock EXCEPT !.pid = p, !.old = @ /\ lock.pid # Nobody] \in Directories
    BY <1>0 DEF Directories
  <2> QED
    BY <1>3, <2>1, OnlyTypes, SetsLockTypes DEF StampsPid, Steps
<1>4. ASSUME NEW p \in Processes, Starts(p) \/ Dates(p) \/ Reclaims(p)
      PROVE  TypeOK'
  <2>1. CASE Starts(p)
    BY <2>1 DEF Starts, TypeOK, Goes
  <2>2. CASE Dates(p)
    BY <2>2, OnlyTypes DEF Dates, TypeOK, Goes, Steps
  <2>3. CASE Reclaims(p)
    BY <2>3, OnlyTypes DEF Reclaims, TypeOK, Goes, Steps
  <2> QED
    BY <1>4, <2>1, <2>2, <2>3
<1>5. ASSUME NEW p \in Processes, Beats(p) \/ WritesMeta(p)
      PROVE  TypeOK'
  BY <1>0, <1>5, DirectoriesMade, DirectoriesWritten, SetsLockTypes
     DEF Beats, WritesMeta, Steps
<1>6. ASSUME NEW p \in Processes,
             Claims(p) \/ ClearsBreaker(p) \/ LeavesBreaker(p)
      PROVE  TypeOK'
  BY <1>6, DirectoriesMade, SetsBreakerTypes, OnlyTypes
     DEF Claims, ClearsBreaker, LeavesBreaker, Steps
<1>7. ASSUME NEW p \in Processes, Remakes(p)
      PROVE  TypeOK'
  BY <1>7, DirectoriesMade, SetsLockTypes, OnlyTypes DEF Remakes, Steps
<1>8. ASSUME NEW p \in Processes,
             TimesOut(p) \/ ReleasesOwn(p) \/ ReleasesAny(p) \/ ReleasesToken(p)
      PROVE  TypeOK'
  <2>1. \E step \in Steps : Only(p, step)
    BY <1>8 DEF TimesOut, ReleasesOwn, ReleasesAny, ReleasesToken, Steps
  <2> QED
    BY <2>1, OnlyTypes
<1>9. ASSUME NEW p \in Processes, Expires(p) \/ Dies(p)
      PROVE  TypeOK'
  <2>1. CASE Expires(p)
    BY <2>1 DEF Expires, TypeOK
  <2>2. CASE Dies(p)
    BY <2>2 DEF Dies, TypeOK
  <2> QED
    BY <1>9, <2>1, <2>2
<1>10. CASE GrowsOld
  <2>1. breaker \in Directories
    BY DEF TypeOK, Directories
  <2>2. /\ [lock EXCEPT !.old = TRUE] \in Directories
        /\ [breaker EXCEPT !.old = TRUE] \in Directories
    BY <1>0, <2>1 DEF Directories
  <2>3. CASE lock' = [lock EXCEPT !.old = TRUE]
              /\ UNCHANGED <<protocol, breaker, pc, sawOld, late, forced, dead,
                             misled, mistake>>
    BY <2>2, <2>3 DEF TypeOK, Directories
  <2>4. CASE breaker' = [breaker EXCEPT !.old = TRUE]
              /\ UNCHANGED <<protocol, lock, pc, sawOld, late, forced, dead,
                             misled, mistake>>
    BY <2>2, <2>4 DEF TypeOK, Directories
  <2> QED
    BY <1>10, <2>3, <2>4 DEF GrowsOld
<1>11. CASE UNCHANGED vars
  BY <1>11 DEF vars, TypeOK
<1> QED
  BY <1>1, <1>2, <1>3, <1>4, <1>5, <1>6, <1>7, <1>8, <1>9, <1>10, <1>11
     DEF Next, Acquires, Releases

LEMMA LockInitInv == Init => LockInv
<1> SUFFICES ASSUME Init
             PROVE  LockInv
  OBVIOUS
<1>1. TypeOK
  BY DirectoriesMade DEF Init, TypeOK, Directories
<1>2. PidLockInOrder
  BY DEF Init, PidLockInOrder, OwnersOwn, JudgesKnow, Absent, Owning
<1>3. FlockInOrder
  BY DEF Init, FlockInOrder, BreakerIsTaken, Absent, Owning, Breaking
<1> QED
  BY <1>1, <1>2, <1>3 DEF LockInv

(* A lock that was left stays left until it is removed: its maker does not *)
(* come to have it again.                                                  *)
LEMMA LeftStays ==
    ASSUME Left, lock' # Absent, lock'.by = lock.by, dead \subseteq dead',
           pc'[lock.by] = pc[lock.by] \/ pc'[lock.by] \notin Owning
    PROVE  Left'
  BY DEF Left

(* Whoever has a lock alive, nobody left it.                               *)
LEMMA NotLeft ==
    ASSUME OwnersOwn, NEW p \in Processes \ dead, pc[p] \in Owning
    PROVE  ~Left
  BY DEF OwnersOwn, Left

(* A step that leaves the directory as it is, of a process that does not   *)
(* come to have it and is no judge after it.                               *)
LEMMA PidLockWalk ==
    ASSUME LockInv, protocol # "flock", ~mistake,
           NEW p \in Processes,
           NEW step \in {"idle", "tries", "blocked", "waits"},
           Goes(p, step), UNCHANGED <<protocol, lock, sawOld, dead, mistake>>,
           misled \ {p} \subseteq misled'
    PROVE  PidLockInOrder'
<1> USE DEF LockInv, TypeOK, Goes, PidLockInOrder
<1>1. OwnersOwn'
  BY DEF OwnersOwn, Owning
<1>2. JudgesKnow'
  <2>1. Left => Left'
    BY DEF Left, Owning
  <2> QED
    BY <2>1 DEF JudgesKnow
<1> QED
  BY <1>1, <1>2

(* The lock is removed by its owner, or was left, or is not there.         *)
LEMMA PidLockRemoved ==
    ASSUME LockInv, protocol # "flock", ~mistake,
           NEW p \in Processes, NEW step \in {"idle", "tries"},
           \A q \in Processes \ dead : q # p => pc[q] \notin Owning,
           SetsLock(p, Absent, step)
    PROVE  PidLockInOrder'
<1> USE DEF LockInv, TypeOK, Goes, PidLockInOrder, SetsLock
<1>1. OwnersOwn'
  BY DEF OwnersOwn, Owning
<1>2. JudgesKnow'
  <2>1. \A q \in Processes : q # p /\ pc[q] \in Judging => q \in misled'
    OBVIOUS
  <2>2. pc'[p] \notin Judging /\ \A q \in Processes : q # p => pc'[q] = pc[q]
    BY DEF Judging
  <2> QED
    BY <2>1, <2>2 DEF JudgesKnow, Judging
<1>3. lock'.pid = Nobody /\ lock' = Absent
  BY DEF Absent
<1> QED
  BY <1>1, <1>2, <1>3

(* The protocol stays, and a mistake is not forgotten.                     *)
LEMMA MistakesStay ==
    ASSUME TypeOK, [Next]_vars
    PROVE  protocol' = protocol /\ (mistake => mistake')
<1> USE DEF TypeOK
<1>1. \A p \in Processes, step \in Steps :
         Only(p, step) => protocol' = protocol /\ mistake' = mistake
  BY DEF Only
<1>2. \A p \in Processes : \A dir, step :
         SetsLock(p, dir, step) => protocol' = protocol /\ (mistake => mistake')
  BY DEF SetsLock
<1>3. \A p \in Processes : \A dir, step :
         SetsBreaker(p, dir, step) => protocol' = protocol /\ mistake' = mistake
  BY DEF SetsBreaker
<1>4. ASSUME NEW p \in Processes,
             Makes(p) \/ StampsPid(p) \/ Reaps(p) \/ Beats(p) \/ WritesMeta(p)
                \/ ClearsLock(p) \/ Remakes(p) \/ Removes(p)
      PROVE  protocol' = protocol /\ (mistake => mistake')
  BY <1>1, <1>2, <1>4
     DEF Makes, StampsPid, Reaps, Beats, WritesMeta, ClearsLock, Remakes,
         Removes, Steps
<1>5. ASSUME NEW p \in Processes,
             Claims(p) \/ ClearsBreaker(p) \/ LeavesBreaker(p)
      PROVE  protocol' = protocol /\ (mistake => mistake')
  BY <1>1, <1>3, <1>5 DEF Claims, ClearsBreaker, LeavesBreaker, Steps
<1>6. ASSUME NEW p \in Processes,
             Starts(p) \/ IsBlocked(p) \/ Retries(p) \/ TimesOut(p) \/ Dates(p)
                \/ Judges(p) \/ Waits(p) \/ Reclaims(p) \/ FindsStale(p)
                \/ Breaks(p)
      PROVE  protocol' = protocol /\ (mistake => mistake')
  BY <1>6 DEF Starts, IsBlocked, Retries, TimesOut, Dates, Judges, Waits,
     Reclaims, FindsStale, Breaks, Only
<1>7. ASSUME NEW p \in Processes,
             ReleasesOwn(p) \/ ReleasesAny(p) \/ ReleasesToken(p)
                \/ Expires(p) \/ Dies(p)
      PROVE  protocol' = protocol /\ (mistake => mistake')
  BY <1>7 DEF ReleasesOwn, ReleasesAny, ReleasesToken, Expires, Dies, Only
<1> QED
  BY <1>4, <1>5, <1>6, <1>7 DEF Next, Acquires, Releases, GrowsOld, vars

(* Without a mistake a pid lock is removed only when no live process, but  *)
(* the one that removes it, is in it.                                      *)
LEMMA PidLockStep ==
    ASSUME LockInv, [Next]_vars
    PROVE  PidLockInOrder'
<1> SUFFICES ASSUME protocol' # "flock", ~mistake'
             PROVE  PidLockInOrder'
  BY DEF PidLockInOrder
<1>0. protocol # "flock" /\ ~mistake
  BY MistakesStay DEF LockInv
<1> USE <1>0, NobodyIsNoProcess
<1>inv. PidLockInOrder /\ TypeOK /\ OwnersOwn /\ JudgesKnow
  BY DEF LockInv, PidLockInOrder
<1>1. ASSUME NEW p \in Processes,
             Starts(p) \/ IsBlocked(p) \/ Retries(p) \/ TimesOut(p) \/ Waits(p)
      PROVE  PidLockInOrder'
  BY <1>1, PidLockWalk
     DEF Starts, IsBlocked, Retries, TimesOut, Waits, Only, Judging
<1>2. ASSUME NEW p \in Processes, Makes(p)
      PROVE  PidLockInOrder'
  <2> USE <1>2, <1>inv
      DEF Makes, SetsLock, MadeBy, Absent, Goes, At, TypeOK, PidLockInOrder
  <2>1. \A q \in Processes \ dead : pc[q] \notin Owning
    BY DEF OwnersOwn
  <2>2. OwnersOwn'
    BY <2>1 DEF OwnersOwn, Owning
  <2>3. JudgesKnow'
    BY DEF JudgesKnow, Left
  <2> QED
    BY <2>2, <2>3
<1>3. ASSUME NEW p \in Processes, StampsPid(p)
      PROVE  PidLockInOrder'
  <2> USE <1>3, <1>inv DEF StampsPid, Goes, At, TypeOK
  <2>1. pc[p] = "made" /\ lock.by = p /\ lock.pid = Nobody /\ ~lock.old
    BY DEF OwnersOwn, Owning
  <2>2. /\ lock'.by = p /\ ~lock'.old /\ lock'.pid \in {p, Nobody}
        /\ protocol = "update" /\ pc'[p] = "holding" => lock'.pid = p
    <3>1. lock \in Directories
      BY DEF Directories
    <3> QED
      BY <2>1, <3>1 DEF Directories, SetsLock, Only
  <2>3. /\ pc'[p] \in {"idle", "holding"}
        /\ \A q \in Processes \ {p} : pc'[q] = pc[q]
        /\ misled \ {p} \subseteq misled'
        /\ UNCHANGED <<protocol, sawOld, dead>>
    BY DEF SetsLock, Only, Absent, Judging
  <2>4. \A q \in Processes \ dead : q # p => pc[q] \notin Owning
    BY <2>1 DEF OwnersOwn
  <2>5. OwnersOwn'
    BY <2>2, <2>3, <2>4 DEF OwnersOwn, Owning
  <2>6. JudgesKnow'
    <3>1. ~Left
      BY <2>1, NotLeft DEF Owning
    <3> QED
      BY <2>1, <2>3, <3>1 DEF JudgesKnow
  <2> QED
    BY <2>2, <2>3, <2>5, <2>6 DEF PidLockInOrder
<1>4. ASSUME NEW p \in Processes, Dates(p) \/ Judges(p) \/ Reclaims(p)
      PROVE  PidLockInOrder'
  <2> USE <1>inv DEF Goes, At, TypeOK, Only, Judging
  <2>1. ASSUME Goes(p, "dated") \/ Goes(p, "reaping"),
               pc[p] \notin Owning, Goes(p, "dated") => protocol = "update",
               UNCHANGED <<protocol, lock, dead>>, misled \subseteq misled',
               \A q \in Processes : q # p => sawOld'[q] = sawOld[q],
               p \notin dead \cup misled' =>
                  /\ Goes(p, "dated") /\ sawOld'[p] => lock # Absent /\ lock.old
                  /\ Goes(p, "reaping") => Left
        PROVE  PidLockInOrder'
    <3>1. OwnersOwn'
      BY <2>1 DEF OwnersOwn, Owning
    <3>2. Left => Left'
      BY <1>inv, <2>1 DEF PidLockInOrder, Left, Owning
    <3>3. JudgesKnow'
      BY <2>1, <3>2 DEF JudgesKnow
    <3> QED
      BY <2>1, <3>1, <3>3 DEF PidLockInOrder
  <2>2. CASE Dates(p)
    <3>1. CASE Only(p, "tries")
      BY <3>1, PidLockWalk
    <3>2. CASE ~Only(p, "tries")
      BY <2>1, <2>2, <3>2 DEF Dates, Owning
    <3> QED
      BY <3>1, <3>2
  <2>3. CASE Judges(p)
    <3>1. CASE Only(p, "waits")
      BY <3>1, PidLockWalk
    <3>2. CASE ~Only(p, "waits")
      <4>1. Only(p, "reaping") /\ OwnerGone /\ sawOld[p] /\ p \notin dead
            /\ protocol = "update"
        BY <2>3, <3>2 DEF Judges, PidLockInOrder
      <4>2. p \notin misled => Left
        <5> SUFFICES ASSUME p \notin misled,
                            lock.by \notin dead, pc[lock.by] \in Owning
                     PROVE  FALSE
          BY <2>3, <4>1 DEF Left, JudgesKnow, Judges
        <5>1. lock # Absent /\ lock.old
          BY <2>3, <4>1 DEF JudgesKnow, Judges
        <5>2. lock.by \in Processes /\ (lock.pid # Nobody => lock.pid = lock.by)
          BY <5>1 DEF PidLockInOrder
        <5>3. pc[lock.by] \in {"made", "holding", "releasing"}
          BY <5>2 DEF PidLockInOrder, Owning
        <5> QED
          BY <4>1, <5>1, <5>2, <5>3 DEF OwnersOwn, OwnerGone
      <4> QED
        BY <2>1, <2>3, <4>1, <4>2 DEF Judges, Owning
    <3> QED
      BY <3>1, <3>2
  <2>4. CASE Reclaims(p)
    <3>1. CASE Only(p, "waits")
      BY <3>1, PidLockWalk
    <3>2. CASE ~Only(p, "waits")
      <4>1. lock.pid # Nobody => Left
        BY <2>4, <3>2 DEF Reclaims, OwnerGone, PidLockInOrder, Left, Absent
      <4> QED
        BY <2>1, <2>4, <3>2, <4>1 DEF Reclaims, Owning
    <3> QED
      BY <3>1, <3>2
  <2> QED
    BY <1>4, <2>2, <2>3, <2>4
<1>5. ASSUME NEW p \in Processes, Reaps(p)
      PROVE  PidLockInOrder'
  <2>1. lock = Absent \/ Left
    BY <1>5, <1>inv DEF Reaps, SetsLock, At, JudgesKnow
  <2>2. \A q \in Processes \ dead : q # p => pc[q] \notin Owning
    BY <1>inv, <2>1, NotLeft DEF OwnersOwn, Absent
  <2> QED
    BY <1>5, <2>2, PidLockRemoved DEF Reaps
<1>6. ASSUME NEW p \in Processes, Removes(p)
      PROVE  PidLockInOrder'
  <2>1. \A q \in Processes \ dead : q # p => pc[q] \notin Owning
    BY <1>6, <1>inv DEF Removes, At, OwnersOwn, Owning
  <2> QED
    BY <1>6, <2>1, PidLockRemoved DEF Removes
<1>7. ASSUME NEW p \in Processes,
             ReleasesOwn(p) \/ ReleasesAny(p) \/ ReleasesToken(p)
      PROVE  PidLockInOrder'
  <2> USE <1>inv DEF Goes, At, TypeOK, Only, Judging
  <2>1. CASE Only(p, "idle")
    BY <2>1, PidLockWalk
  <2>2. CASE ~Only(p, "idle")
    <3>1. pc[p] = "holding" /\ p \notin dead /\ Only(p, "releasing")
      BY <1>7, <2>2 DEF ReleasesOwn, ReleasesAny, ReleasesToken
    <3>2. OwnersOwn'
      BY <3>1 DEF OwnersOwn, Owning
    <3>3. JudgesKnow'
      <4>1. ~Left
        BY <3>1, NotLeft DEF Owning
      <4> QED
        BY <3>1, <4>1 DEF JudgesKnow
    <3> QED
      BY <3>1, <3>2, <3>3 DEF PidLockInOrder
  <2> QED
    BY <2>1, <2>2
<1>8. ASSUME NEW p \in Processes,
             Beats(p) \/ WritesMeta(p) \/ FindsStale(p) \/ Claims(p)
                \/ ClearsBreaker(p) \/ Breaks(p) \/ ClearsLock(p) \/ Remakes(p)
                \/ LeavesBreaker(p)
      PROVE  PidLockInOrder'
  BY <1>8, <1>inv
     DEF Beats, WritesMeta, FindsStale, Claims, ClearsBreaker, Breaks,
         ClearsLock, Remakes, LeavesBreaker, At, PidLockInOrder
<1>9. ASSUME NEW p \in Processes, Expires(p) \/ Dies(p)
      PROVE  PidLockInOrder'
  <2> USE <1>9, <1>inv DEF Expires, Dies, TypeOK
  <2>1. /\ UNCHANGED <<protocol, lock, pc, sawOld, misled>>
        /\ dead \subseteq dead'
    OBVIOUS
  <2>2. OwnersOwn'
    BY <2>1 DEF OwnersOwn
  <2>3. JudgesKnow'
    BY <2>1 DEF JudgesKnow, Left
  <2> QED
    BY <2>1, <2>2, <2>3 DEF PidLockInOrder
<1>10. CASE GrowsOld
  <2> USE <1>inv DEF TypeOK
  <2>1. CASE lock' = lock
    <3>1. UNCHANGED <<protocol, lock, pc, sawOld, misled, dead>>
      BY <1>10, <2>1 DEF GrowsOld
    <3> QED
      BY <3>1 DEF PidLockInOrder, OwnersOwn, JudgesKnow, Left
  <2>2. CASE lock' # lock
    <3>1. /\ lock # Absent
          /\ lock.by \in dead \/ pc[lock.by] # "made"
          /\ lock' = [lock EXCEPT !.old = TRUE]
          /\ UNCHANGED <<protocol, pc, sawOld, misled, dead>>
      BY <1>10, <2>2 DEF GrowsOld
    <3>2. lock'.by = lock.by /\ lock'.pid = lock.pid /\ lock'.old /\ lock' # Absent
      <4>1. lock \in Directories
        BY DEF Directories
      <4> QED
        BY <3>1, <4>1 DEF Directories, Absent
    <3>3. OwnersOwn'
      BY <3>1, <3>2 DEF OwnersOwn, Owning
    <3>4. JudgesKnow'
      BY <3>1, <3>2 DEF JudgesKnow, Left
    <3> QED
      BY <3>1, <3>2, <3>3, <3>4 DEF PidLockInOrder
  <2> QED
    BY <2>1, <2>2
<1>11. CASE UNCHANGED vars
  BY <1>11, <1>inv DEF vars, PidLockInOrder, OwnersOwn, JudgesKnow, Left
<1> QED
  BY <1>1, <1>2, <1>3, <1>4, <1>5, <1>6, <1>7, <1>8, <1>9, <1>10, <1>11
     DEF Next, Acquires, Releases
(* A breaker once left stays left: the dead do not move.                   *)
LEMMA BreakerStaysLeft ==
    ASSUME TypeOK, [Next]_vars, BreakerLeft
    PROVE  BreakerLeft'
<1> USE DEF TypeOK, Goes, Only, SetsLock, SetsBreaker, At, BreakerLeft
<1>1. PICK d \in dead : pc[d] \in Breaking
  OBVIOUS
<1>2. pc'[d] = pc[d] /\ d \in dead'
  <2>1. ASSUME NEW p \in Processes, Acquires(p)
        PROVE  pc'[d] = pc[d] /\ d \in dead'
    BY <2>1 DEF Acquires, Starts, Makes, IsBlocked, Retries, StampsPid, Dates,
       Judges, Reaps, Waits, Reclaims, Beats, WritesMeta, FindsStale, Claims,
       ClearsBreaker, Breaks, ClearsLock, Remakes, LeavesBreaker
  <2>2. ASSUME NEW p \in Processes,
               TimesOut(p) \/ Releases(p) \/ Expires(p) \/ Dies(p)
        PROVE  pc'[d] = pc[d] /\ d \in dead'
    BY <2>2 DEF TimesOut, Releases, ReleasesOwn, ReleasesAny, ReleasesToken,
       Removes, Expires, Dies
  <2> QED
    BY <2>1, <2>2 DEF Next, GrowsOld, vars
<1> QED
  BY <1>1, <1>2

(* The breaker and the lock change hands only through whom they are of.    *)
LEMMA FlockInOrderStep ==
    ASSUME LockInv, [Next]_vars
    PROVE  FlockInOrder'
<1> SUFFICES ASSUME protocol' = "flock", ~BreakerLeft'
             PROVE  FlockInOrder'
  BY DEF FlockInOrder
<1>0. protocol = "flock" => ~BreakerLeft /\ FlockInOrder
  BY BreakerStaysLeft DEF LockInv
<1> USE <1>0, NobodyIsNoProcess
    DEF LockInv, TypeOK, Goes, Only, SetsLock, SetsBreaker, Absent, MadeBy, At,
        FlockInOrder, BreakerIsTaken, BreakerLeft, Owning, Breaking
<1>1. ASSUME NEW p \in Processes,
             Starts(p) \/ Makes(p) \/ IsBlocked(p) \/ Retries(p) \/ TimesOut(p)
      PROVE  FlockInOrder'
  BY <1>1 DEF Starts, Makes, IsBlocked, Retries, TimesOut
<1>2. ASSUME NEW p \in Processes,
             StampsPid(p) \/ Dates(p) \/ Judges(p) \/ Reaps(p) \/ Waits(p)
                \/ Reclaims(p)
      PROVE  FlockInOrder'
  BY <1>2 DEF StampsPid, Dates, Judges, Reaps, Waits, Reclaims
<1>3. ASSUME NEW p \in Processes, Beats(p)
      PROVE  FlockInOrder'
  <2>1. pc[p] = "made" /\ p \notin dead /\ lock.by = p /\ protocol = "flock"
    BY <1>3 DEF Beats
  <2>2. CASE SetsLock(p, Absent, "idle")
    BY <2>1, <2>2
  <2>3. CASE ~SetsLock(p, Absent, "idle")
    <3>1. lock' = [lock EXCEPT !.beats = TRUE, !.old = FALSE]
      BY <1>3, <2>3 DEF Beats
    <3>2. lock \in Directories
      BY DEF Directories
    <3>3. lock'.by = p /\ ~lock'.old
      BY <2>1, <3>1, <3>2, DirectoriesWritten
    <3> QED
      BY <1>3, <2>1, <2>3, <3>3 DEF Beats
  <2> QED
    BY <2>2, <2>3
<1>4. ASSUME NEW p \in Processes, WritesMeta(p)
      PROVE  FlockInOrder'
  <2>1. /\ pc[p] = "beating" /\ p \notin dead /\ lock.by = p
        /\ protocol = "flock"
    BY <1>4 DEF WritesMeta
  <2>2. CASE SetsLock(p, Absent, "idle")
    BY <2>1, <2>2
  <2>3. CASE ~SetsLock(p, Absent, "idle")
    <3>1. lock' = [lock EXCEPT !.pid = p]
      BY <1>4, <2>3 DEF WritesMeta
    <3>2. lock \in Directories
      BY DEF Directories
    <3>3. lock'.by = p /\ lock'.old = lock.old
      BY <2>1, <3>1, <3>2, DirectoriesWritten
    <3> QED
      BY <1>4, <2>1, <2>3, <3>3 DEF WritesMeta
  <2> QED
    BY <2>2, <2>3
<1>5. ASSUME NEW p \in Processes, FindsStale(p) \/ Claims(p) \/ ClearsBreaker(p)
      PROVE  FlockInOrder'
  BY <1>5 DEF FindsStale, Claims, ClearsBreaker
<1>6. ASSUME NEW p \in Processes, Breaks(p) \/ ClearsLock(p)
      PROVE  FlockInOrder'
  BY <1>6 DEF Breaks, ClearsLock
<1>7. ASSUME NEW p \in Processes, Remakes(p) \/ LeavesBreaker(p)
      PROVE  FlockInOrder'
  BY <1>7 DEF Remakes, LeavesBreaker
<1>8. ASSUME NEW p \in Processes, Releases(p)
      PROVE  FlockInOrder'
  BY <1>8 DEF Releases, ReleasesOwn, ReleasesAny, ReleasesToken, Removes
<1>9. ASSUME NEW p \in Processes, Expires(p) \/ Dies(p)
      PROVE  FlockInOrder'
  BY <1>9 DEF Expires, Dies
<1>10. CASE GrowsOld
  BY <1>10 DEF GrowsOld
<1>11. CASE UNCHANGED vars
  BY <1>11 DEF vars
<1> QED
  BY <1>1, <1>2, <1>3, <1>4, <1>5, <1>6, <1>7, <1>8, <1>9, <1>10, <1>11
     DEF Next, Acquires

LEMMA Safe == Spec => []LockInv
<1>1. LockInv /\ [Next]_vars => LockInv'
  BY LockTypeStep, PidLockStep, FlockInOrderStep DEF LockInv
<1> QED
  BY LockInitInv, <1>1, PTL DEF Spec

(* Whoever is in the lock is of it: there are not two.                     *)
LEMMA OwnersAreOne ==
    ASSUME NEW owner, Holders \subseteq {owner}
    PROVE  ~(Cardinality(Holders) > 1)
<1>1. IsFiniteSet({owner}) /\ Cardinality({owner}) = 1
  BY FS_Singleton
<1>2. IsFiniteSet(Holders) /\ Cardinality(Holders) <= 1
  BY <1>1, FS_Subset
<1>3. Cardinality(Holders) \in Nat
  BY <1>2, FS_CardinalityType
<1> QED
  BY <1>2, <1>3

-----------------------------------------------------------------------------
(* The state keeps its types, for any protocol and processes.              *)
THEOREM LockTypeCorrect == Spec => []TypeOK
  BY Safe, PTL DEF LockInv

(* Two live processes are in the critical section at once only after a     *)
(* waiting process removed a lock in use for the one it had looked at, or  *)
(* for a registry's without a pid, and with flock only after a process     *)
(* died between taking the breaker and leaving it                          *)
(* (acquireWorkspaceUpdateLock, acquireRegistryFileLock,                   *)
(* tryAcquireLockDir).                                                     *)
THEOREM OneHolder == Spec => []HeldByOne
<1>1. LockInv => HeldByOne
  <2> SUFFICES ASSUME LockInv, protocol # "flock" => ~mistake,
                      protocol = "flock" => ~BreakerLeft
               PROVE  ~(Cardinality(Holders) > 1)
    BY DEF HeldByOne, BreakerLeft
  <2>1. Holders \subseteq {lock.by}
    BY DEF LockInv, PidLockInOrder, OwnersOwn, FlockInOrder, Holders, Owning
  <2> QED
    BY <2>1, OwnersAreOne
<1> QED
  BY Safe, <1>1, PTL
=============================================================================
