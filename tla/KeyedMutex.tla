----------------------------- MODULE KeyedMutex -----------------------------
(***************************************************************************)
(* An in-memory mutex with one lock per key                                *)
(* (packages/core/src/effect/keyed-mutex.ts).                              *)
(*                                                                         *)
(* The lock of a key is an entry, made by the first fiber that comes,      *)
(* named here for that fiber, and removed by the last that leaves: users   *)
(* counts who holds it and who waits for it.                               *)
(***************************************************************************)
EXTENDS Naturals, FiniteSets

CONSTANTS
    Keys,
    Fibers,
    None        \* the absence of a key or an entry

ASSUME NoneIsNoFiber == None \notin Fibers
ASSUME FibersAreFinite == IsFiniteSet(Fibers)

VARIABLES
    locks,      \* the map: key -> entry
    users,      \* the count of each entry
    place       \* where each fiber is in withLock

mutexVars == <<locks, users, place>>

Outside == [at |-> "outside", key |-> None, on |-> None]

MutexTypeOK ==
    /\ locks \in [Keys -> Fibers \cup {None}]
    /\ users \in [Keys -> [Fibers -> Nat]]
    /\ place \in [Fibers -> [at : {"outside", "waiting", "holding"},
                             key : Keys \cup {None}, on : Fibers \cup {None}]]

MutexInit ==
    /\ locks = [k \in Keys |-> None]
    /\ users = [k \in Keys |-> [e \in Fibers |-> 0]]
    /\ place = [f \in Fibers |-> Outside]

Inside(f, k) == place[f].at # "outside" /\ place[f].key = k

Holds(f, k) == place[f].at = "holding" /\ place[f].key = k

Taken(k, e) == \E f \in Fibers : Holds(f, k) /\ place[f].on = e

(* The entry of the key, made if there is none, and its permit.            *)
withLock(f, k) ==
    /\ place[f].at = "outside"
    /\ LET e == IF locks[k] = None THEN f ELSE locks[k] IN
          /\ locks' = [locks EXCEPT ![k] = e]
          /\ users' = [users EXCEPT ![k][e] = IF locks[k] = None THEN 1 ELSE @ + 1]
          /\ place' = [place EXCEPT ![f] =
                         [at |-> IF Taken(k, e) THEN "waiting" ELSE "holding",
                          key |-> k, on |-> e]]

(* Whoever waits may be overtaken by a fiber that comes as it is woken.    *)
Takes(f) ==
    /\ place[f].at = "waiting"
    /\ ~Taken(place[f].key, place[f].on)
    /\ place' = [place EXCEPT ![f].at = "holding"]
    /\ UNCHANGED <<locks, users>>

(* Mutant: waiters are not counted as users.                               *)
LastUserHolding(f) ==
    ~\E g \in Fibers \ {f} : Holds(g, place[f].key)

LastUser(f) == users[place[f].key][place[f].on] = 1

(* The ensuring of withLock: the effect is over, or the wait interrupted.  *)
Leaves(f) ==
    /\ place[f].at # "outside"
    /\ users' = [users EXCEPT ![place[f].key][place[f].on] = @ - 1]
    /\ locks' = IF LastUser(f) THEN [locks EXCEPT ![place[f].key] = None]
                ELSE locks
    /\ place' = [place EXCEPT ![f] = Outside]

MutexNext ==
    \E f \in Fibers : Takes(f) \/ Leaves(f) \/ \E k \in Keys : withLock(f, k)

MutexSpec == MutexInit /\ [][MutexNext]_mutexVars

-----------------------------------------------------------------------------
(* Properties.                                                             *)

(* "same key -> queue": no two fibers hold one key, whichever entries they *)
(* took it with.                                                           *)
Exclusive ==
    \A k \in Keys : \A f, g \in Fibers : Holds(f, k) /\ Holds(g, k) => f = g

(* "Entries are removed when no holder or waiter remains", and not before. *)
EntryIffUsed ==
    \A k \in Keys : locks[k] # None <=> \E f \in Fibers : Inside(f, k)
=============================================================================
