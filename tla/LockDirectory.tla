--------------------------- MODULE LockDirectory ---------------------------
(***************************************************************************)
(* Locks between processes: a directory that whoever makes it holds.       *)
(* Three protocols of the code share it: the update lock of a workspace    *)
(* (packages/spinosa-core/src/system/update-lock.ts), the lock of the      *)
(* workspace registry (packages/spinosa-core/src/workspace/registry.ts)    *)
(* and flock (packages/core/src/util/flock.ts).                            *)
(*                                                                         *)
(* They differ in how they tell that a lock was left by a process that     *)
(* died: the update lock by its pid and its age, the registry by its pid,  *)
(* once, when the wait is long; flock by a heartbeat that stops, and only  *)
(* under a second directory, the breaker.                                  *)
(*                                                                         *)
(* Time is whether a directory is old.  A process that lives is never so   *)
(* slow between two steps that what it has just made grows old, and its    *)
(* heartbeat is kept.  A directory is removed in one step.  A process is   *)
(* its pid: none is used again after a death, and all may signal another   *)
(* (kill(pid, 0) of another user's process fails as that of a dead one).   *)
(***************************************************************************)
EXTENDS Naturals, FiniteSets

CONSTANTS
    Processes,
    Users,      \* the processes that use the lock, of each protocol
    MaxDeaths,  \* how many of them may die
    Nobody

Protocols == {"update", "registry", "flock"}

ASSUME UsersAre == Users \in [Protocols -> SUBSET Processes]
ASSUME NobodyIsNoProcess == Nobody \notin Processes
ASSUME DeathsAreBounded == MaxDeaths \in Nat

VARIABLES
    protocol,   \* which of the three this lock follows
    lock,       \* the lock directory
    breaker,    \* the breaker directory of flock
    pc,         \* where each process is
    sawOld,     \* update: what each process read of the age
    late,       \* registry: who waits past the deadline
    forced,     \* registry: forceReclaimed of each acquisition
    dead,
    misled,     \* history: who is about to remove a directory that is not the
                \* one it looked at or, past the deadline, had no pid yet
    mistake     \* history: such a process has removed a lock in use

vars == <<protocol, lock, breaker, pc, sawOld, late, forced, dead, misled, mistake>>

Absent == [by |-> Nobody, pid |-> Nobody, beats |-> FALSE, old |-> FALSE]

MadeBy(p) == [Absent EXCEPT !.by = p]

TypeOK ==
    LET Dirs == [by : Processes \cup {Nobody}, pid : Processes \cup {Nobody},
                 beats : BOOLEAN, old : BOOLEAN] IN
    /\ protocol \in Protocols
    /\ lock \in Dirs /\ breaker \in Dirs
    /\ pc \in [Processes ->
                {"idle", "tries", "made", "beating", "holding", "releasing",
                 "blocked", "dated", "reaping", "waits", "stale", "clears",
                 "breaks", "clearing", "broke", "remade", "gaveUp"}]
    /\ sawOld \in [Processes -> BOOLEAN]
    /\ late \subseteq Processes /\ forced \subseteq Processes
    /\ dead \subseteq Processes
    /\ misled \subseteq Processes /\ mistake \in BOOLEAN

Init ==
    /\ protocol \in Protocols
    /\ lock = Absent /\ breaker = Absent
    /\ pc = [p \in Processes |-> "idle"]
    /\ sawOld = [p \in Processes |-> FALSE]
    /\ late = {} /\ forced = {} /\ dead = {}
    /\ misled = {} /\ mistake = FALSE

At(p, step) == p \notin dead /\ pc[p] = step

Goes(p, step) == pc' = [pc EXCEPT ![p] = step]

(* The steps of a process that has made the lock and not yet left it, and  *)
(* of one that has looked at a lock it may remove.                         *)
Owning == {"made", "beating", "holding", "releasing", "remade"}

Judging == {"dated", "reaping"}

(* A lock whose maker died or went on without it.                          *)
Left == lock # Absent /\ (lock.by \in dead \/ pc[lock.by] \notin Owning)

(* The steps that leave everything but where the process is.               *)
Only(p, step) ==
    /\ Goes(p, step)
    /\ misled' = misled \ (IF step \in Judging THEN {} ELSE {p})
    /\ UNCHANGED <<protocol, lock, breaker, sawOld, late, forced, dead, mistake>>

SetsLock(p, dir, step) ==
    /\ Goes(p, step)
    /\ lock' = dir
    /\ misled' = IF dir = Absent
                 THEN (misled \cup {q \in Processes : pc[q] \in Judging}) \ {p}
                 ELSE misled
    /\ mistake' = (mistake \/ (p \in misled /\ lock # Absent /\ ~Left))
    /\ UNCHANGED <<protocol, breaker, sawOld, late, forced, dead>>

SetsBreaker(p, dir, step) ==
    /\ Goes(p, step)
    /\ breaker' = dir
    /\ UNCHANGED <<protocol, lock, sawOld, late, forced, dead, misled, mistake>>

-----------------------------------------------------------------------------
(* What the three share: mkdir takes the lock, and waiting ends in another *)
(* try, or for the update lock and flock in a timeout.                     *)
Starts(p) ==
    /\ At(p, "idle") /\ p \in Users[protocol]
    /\ Goes(p, "tries")
    /\ late' = late \ {p} /\ forced' = forced \ {p}
    /\ UNCHANGED <<protocol, lock, breaker, sawOld, dead, misled, mistake>>

Makes(p) == At(p, "tries") /\ lock = Absent /\ SetsLock(p, MadeBy(p), "made")

IsBlocked(p) == At(p, "tries") /\ lock # Absent /\ Only(p, "blocked")

Retries(p) == At(p, "waits") /\ Only(p, "tries")

TimesOut(p) == protocol # "registry" /\ At(p, "waits") /\ Only(p, "idle")

(* The pid file; a file that is new makes the directory young again.  If   *)
(* the write fails, because the directory is gone or for another reason,   *)
(* the update throws and leaves it, and the registry goes on without.      *)
StampsPid(p) ==
    /\ protocol # "flock" /\ At(p, "made")
    /\ \/ /\ lock # Absent
          /\ SetsLock(p, [lock EXCEPT !.pid = p, !.old = @ /\ lock.pid # Nobody],
                      "holding")
       \/ Only(p, IF protocol = "update" THEN "idle" ELSE "holding")

(* No live process has this lock: its pid cannot be read, or is of a       *)
(* process that died.                                                      *)
(* Mutant: a lock without a pid has an owner that is about to write it.    *)
OwnerDied == lock.pid \in dead

OwnerGone == lock.pid = Nobody \/ lock.pid \in dead

Reaps(p) ==
    At(p, "reaping") /\ SetsLock(p, Absent, "tries")

Removes(p) == At(p, "releasing") /\ SetsLock(p, Absent, "idle")

-----------------------------------------------------------------------------
(* The update lock: its age is read, then its owner.                       *)
Dates(p) ==
    /\ protocol = "update" /\ At(p, "blocked")
    /\ \/ lock = Absent /\ Only(p, "tries")
       \/ /\ lock # Absent
          /\ Goes(p, "dated")
          /\ sawOld' = [sawOld EXCEPT ![p] = lock.old]
          /\ UNCHANGED <<protocol, lock, breaker, late, forced, dead, misled, mistake>>

(* Mutant: the age does not matter.                                        *)
JudgesPid(p) ==
    /\ At(p, "dated")
    /\ Only(p, IF OwnerGone THEN "reaping" ELSE "waits")

Judges(p) ==
    /\ At(p, "dated")
    /\ Only(p, IF OwnerGone /\ sawOld[p] THEN "reaping" ELSE "waits")

(* Release removes the lock only if the pid is still its own.              *)
ReleasesOwn(p) ==
    /\ protocol = "update" /\ At(p, "holding")
    /\ Only(p, IF lock.pid = p THEN "releasing" ELSE "idle")

(* The registry: past the deadline, and once.                              *)
Waits(p) ==
    /\ protocol = "registry" /\ At(p, "blocked")
    /\ p \notin late \/ p \in forced
    /\ Only(p, "waits")

Reclaims(p) ==
    /\ protocol = "registry" /\ At(p, "blocked")
    /\ p \in late /\ p \notin forced
    /\ \/ ~OwnerGone /\ Only(p, "waits")
       \/ /\ OwnerGone
          /\ Goes(p, "reaping")
          /\ forced' = forced \cup {p}
          /\ misled' = IF lock.pid = Nobody THEN misled \cup {p} ELSE misled
          /\ UNCHANGED <<protocol, lock, breaker, sawOld, late, dead, mistake>>

ReleasesAny(p) ==
    protocol = "registry" /\ At(p, "holding") /\ Only(p, "releasing")

-----------------------------------------------------------------------------
(* flock.  The heartbeat and the meta file are made with wx: if somebody   *)
(* else has made them, or a write fails, they are removed with the lock.   *)
Beats(p) ==
    /\ protocol = "flock" /\ At(p, "made")
    /\ \/ SetsLock(p, Absent, "idle")
       \/ /\ lock # Absent /\ ~lock.beats
          /\ SetsLock(p, [lock EXCEPT !.beats = TRUE, !.old = FALSE], "beating")

WritesMeta(p) ==
    /\ At(p, "beating")
    /\ \/ SetsLock(p, Absent, "idle")
       \/ /\ lock # Absent /\ lock.pid = Nobody
          /\ SetsLock(p, [lock EXCEPT !.pid = p], "holding")

(* Release compares the token; without its own it throws.                  *)
ReleasesToken(p) ==
    /\ protocol = "flock" /\ At(p, "holding")
    /\ Only(p, IF lock.pid = p THEN "releasing" ELSE "idle")

FindsStale(p) ==
    /\ protocol = "flock" /\ At(p, "blocked")
    /\ Only(p, IF lock.old THEN "stale" ELSE "waits")

(* The breaker is taken, or waited for, or removed when it is old itself.  *)
Claims(p) ==
    /\ At(p, "stale")
    /\ IF breaker = Absent THEN SetsBreaker(p, MadeBy(p), "breaks")
       ELSE Only(p, IF breaker.old THEN "clears" ELSE "waits")

ClearsBreaker(p) == At(p, "clears") /\ SetsBreaker(p, Absent, "waits")

(* Under the breaker staleness is read again, the lock removed and made.   *)
(* Mutant: what was read before the breaker was taken is acted on.         *)
BreaksAtOnce(p) == At(p, "breaks") /\ Only(p, "clearing")

Breaks(p) ==
    At(p, "breaks") /\ Only(p, IF lock.old THEN "clearing" ELSE "gaveUp")

ClearsLock(p) == At(p, "clearing") /\ SetsLock(p, Absent, "broke")

Remakes(p) ==
    /\ At(p, "broke")
    /\ IF lock = Absent THEN SetsLock(p, MadeBy(p), "remade")
       ELSE Only(p, "gaveUp")

LeavesBreaker(p) ==
    \/ At(p, "remade") /\ SetsBreaker(p, Absent, "made")
    \/ At(p, "gaveUp") /\ SetsBreaker(p, Absent, "waits")

-----------------------------------------------------------------------------
Acquires(p) ==
    \/ Starts(p) \/ Makes(p) \/ IsBlocked(p) \/ Retries(p) \/ StampsPid(p)
    \/ Dates(p) \/ Judges(p) \/ Reaps(p) \/ Waits(p) \/ Reclaims(p)
    \/ Beats(p) \/ WritesMeta(p) \/ FindsStale(p) \/ Claims(p)
    \/ ClearsBreaker(p) \/ Breaks(p) \/ ClearsLock(p) \/ Remakes(p)
    \/ LeavesBreaker(p)

Releases(p) ==
    ReleasesOwn(p) \/ ReleasesAny(p) \/ ReleasesToken(p) \/ Removes(p)

(* The clock: a wait passes its deadline; a directory grows old, a lock    *)
(* with a heartbeat or one being made only if its process is dead.         *)
Expires(p) ==
    /\ protocol = "registry" /\ pc[p] \in {"tries", "blocked", "waits"}
    /\ p \notin dead \cup late
    /\ late' = late \cup {p}
    /\ UNCHANGED <<protocol, lock, breaker, pc, sawOld, forced, dead, misled, mistake>>

GrowsOld ==
    \/ /\ protocol # "registry" /\ lock # Absent /\ ~lock.old
       /\ lock.by \in dead \/ (protocol = "update" /\ pc[lock.by] # "made")
       /\ lock' = [lock EXCEPT !.old = TRUE]
       /\ UNCHANGED <<protocol, breaker, pc, sawOld, late, forced, dead, misled, mistake>>
    \/ /\ breaker.by \in dead /\ ~breaker.old
       /\ breaker' = [breaker EXCEPT !.old = TRUE]
       /\ UNCHANGED <<protocol, lock, pc, sawOld, late, forced, dead, misled, mistake>>

Dies(p) ==
    /\ p \notin dead /\ pc[p] # "idle"
    /\ Cardinality(dead) < MaxDeaths
    /\ dead' = dead \cup {p}
    /\ UNCHANGED <<protocol, lock, breaker, pc, sawOld, late, forced, misled, mistake>>

Next ==
    \/ \E p \in Processes :
          Acquires(p) \/ TimesOut(p) \/ Releases(p) \/ Expires(p) \/ Dies(p)
    \/ GrowsOld

Spec == Init /\ [][Next]_vars

(* Processes that live go on, and come back for the lock; clocks advance.  *)
FairSpec ==
    /\ Spec
    /\ \A p \in Processes : /\ WF_vars(Acquires(p) \/ Releases(p))
                            /\ WF_vars(Expires(p))
    /\ WF_vars(GrowsOld)

-----------------------------------------------------------------------------
(* Properties.                                                             *)

Holders == {p \in Processes \ dead : pc[p] \in {"holding", "releasing"}}

(* The steps between taking the breaker and leaving it.                    *)
Breaking == {"breaks", "clearing", "broke", "remade", "gaveUp"}

(* "Serializes framework updates within a workspace"; "ensures only one    *)
(* contender performs stale cleanup": two live processes hold a lock only  *)
(* - if a waiting process has removed the lock of one that had it, taking  *)
(*   it for another: the directory was made after it had read the age of   *)
(*   an old one (update; nobody need have died, the old one may have been  *)
(*   held for long) or the pid of a dead one (registry), or its pid was    *)
(*   not written when a wait passed its deadline (registry);               *)
(* - for flock, if a process died between taking the breaker and leaving   *)
(*   it.                                                                   *)
HeldByOne ==
    Cardinality(Holders) > 1 =>
        \/ protocol # "flock" /\ mistake
        \/ protocol = "flock" /\ \E d \in dead : pc[d] \in Breaking

(* "a crashed updater never wedges the workspace": a lock whose maker died *)
(* or failed to write its pid is removed as long as others try, whatever   *)
(* had been written; but nobody reclaims the registry's twice in one       *)
(* acquisition.                                                            *)
NotWedged ==
    Left ~> \/ ~Left
            \/ protocol = "registry" /\ Users[protocol] \subseteq dead \cup forced
=============================================================================
