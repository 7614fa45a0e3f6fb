------------------------------ MODULE EventLog ------------------------------
(***************************************************************************)
(* The durable event log of a session in the databases of several nodes    *)
(* (packages/core/src/event.ts), and a reader that follows one of them;    *)
(* readers do not interact, so one stands for all.                         *)
(*                                                                         *)
(* A log is the rows of EventTable by sequence: the transaction writes row *)
(* and sequence together, so the latest sequence is the log's length less  *)
(* one (positions begin at 1 here).  Events are compared whole, as replay  *)
(* compares id, type and data.  Who writes what is left to the modules     *)
(* that extend this one.                                                   *)
(***************************************************************************)
EXTENDS Naturals, Sequences, SequencesExt

CONSTANTS
    Nodes,
    Owners,     \* whom a log may be claimed for
    Watched,    \* the node whose log the reader reads
    None

ASSUME NoneIsNobody == None \notin Owners

VARIABLES
    log,        \* EventTable of each node
    owner,      \* owner_id of EventSequenceTable
    reader,     \* the durable stream
    wake        \* its sliding(1) pubsub holds a wake

logVars == <<log, owner, reader, wake>>

LogInit(births) ==
    /\ log = births
    /\ owner = [n \in Nodes |-> None]
    /\ reader = [at |-> "off", after |-> 0, cursor |-> 0, got |-> <<>>]
    /\ wake = FALSE

LogTypeOK(events) ==
    /\ log \in [Nodes -> Seq(events)]
    /\ owner \in [Nodes -> Owners \cup {None}]
    /\ reader \in [at : {"off", "reading", "emitting", "live"},
                   after : Nat, cursor : Nat, got : Seq(events)]
    /\ reader.after <= reader.cursor
    /\ reader.cursor <= Len(log[Watched])
    /\ wake \in BOOLEAN

-----------------------------------------------------------------------------
(* The transaction of commitDurableEvent, and the wakes published with it, *)
(* uninterruptibly.                                                        *)
Installed == reader.at # "off"

Appends(n, e) ==
    /\ log' = [log EXCEPT ![n] = Append(@, e)]
    /\ wake' = (wake \/ (n = Watched /\ Installed))
    /\ UNCHANGED reader

Publish(n, e) == Appends(n, e) /\ UNCHANGED owner

Claim(n, o) == /\ owner' = [owner EXCEPT ![n] = o]
               /\ UNCHANGED <<log, reader, wake>>

(* replay of e as event i of the log, for owner o; strict if strictOwner.  *)
Fenced(n, o) == owner[n] # None /\ owner[n] # o

Refused(n, o, strict) == strict /\ Fenced(n, o)

Adopts(n, o) == owner' = [owner EXCEPT ![n] = IF @ = None THEN o ELSE @]

(* Mutant: an event beyond the next is taken as the next.                  *)
IsNextOrLater(n, e, i) == i > Len(log[n]) /\ e \notin ToSet(log[n])

IsNext(n, e, i) == i = Len(log[n]) + 1 /\ e \notin ToSet(log[n])

(* Mutant: the owner is looked at in strict replays only.                  *)
AcceptsFenced(n, e, i, o, strict) ==
    /\ ~Refused(n, o, strict)
    /\ IsNext(n, e, i)

Accepts(n, e, i, o, strict) == ~Fenced(n, o) /\ IsNext(n, e, i)

(* Mutant: the latest event is not compared.                               *)
KnowsOlder(n, e, i, o, strict) ==
    /\ ~Refused(n, o, strict)
    /\ i < Len(log[n]) /\ log[n][i] = e

Knows(n, e, i, o, strict) ==
    /\ ~Refused(n, o, strict)
    /\ i <= Len(log[n]) /\ log[n][i] = e

Ignores(n, e, i, o, strict) == ~strict /\ Fenced(n, o) /\ i > Len(log[n])

Dies(n, e, i, o, strict) ==
    /\ ~Accepts(n, e, i, o, strict)
    /\ ~Knows(n, e, i, o, strict)
    /\ ~Ignores(n, e, i, o, strict)

Replay(n, e, i, o, strict) ==
    \/ Accepts(n, e, i, o, strict) /\ Appends(n, e) /\ Adopts(n, o)
    \/ Knows(n, e, i, o, strict) /\ Adopts(n, o) /\ UNCHANGED <<log, reader, wake>>
    \/ /\ Ignores(n, e, i, o, strict) \/ Dies(n, e, i, o, strict)
       /\ UNCHANGED logVars

-----------------------------------------------------------------------------
(* durable: the wake is installed, then the log read from the cursor and   *)
(* handed on, and again for each wake.                                     *)
Subscribe(after) ==
    /\ reader.at = "off"
    /\ reader' = [at |-> "reading", after |-> after, cursor |-> after,
                  got |-> <<>>]
    /\ UNCHANGED <<log, owner, wake>>

(* Mutant: each read begins where the subscription did.                    *)
ReadFromStart == reader.after

ReadFrom == reader.cursor

Reads ==
    /\ reader.at = "reading"
    /\ LET last == Len(log[Watched])
           rows == SubSeq(log[Watched], ReadFrom + 1, last)
       IN reader' = [reader EXCEPT !.at = "emitting", !.cursor = last,
                                   !.got = @ \o rows]
    /\ UNCHANGED <<log, owner, wake>>

HandsOn ==
    /\ reader.at = "emitting"
    /\ reader' = [reader EXCEPT !.at = "live"]
    /\ UNCHANGED <<log, owner, wake>>

Woken ==
    /\ reader.at = "live" /\ wake
    /\ reader' = [reader EXCEPT !.at = "reading"]
    /\ wake' = FALSE
    /\ UNCHANGED <<log, owner>>

ReaderNext == Reads \/ HandsOn \/ Woken

-----------------------------------------------------------------------------
(* Properties.                                                             *)

Wanted == IF reader.at = "off" THEN <<>>
          ELSE SubSeq(log[Watched], reader.after + 1, Len(log[Watched]))

Feed == INSTANCE EventFeed WITH events <- Wanted, seen <- reader.got

(* The reader is given every event from where it asked, once, in order:    *)
(* EventFeed ("catches durable aggregate events       *)
(* published during replay handoff", event.test.ts:481).                   *)
ReaderFollows == Feed!FeedSpec
=============================================================================
