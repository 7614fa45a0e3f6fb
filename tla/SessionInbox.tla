---------------------------- MODULE SessionInbox ----------------------------
(***************************************************************************)
(* The durable prompt inbox of the V2 session runtime                      *)
(* (packages/core/src/session/input.ts): one row per admitted prompt, and  *)
(* the Prompted events that move a prompt into the transcript.             *)
(*                                                                         *)
(* Each operator here is one database transaction or one query; the event, *)
(* its sequence number and the projected row commit together, and a        *)
(* projector that dies rolls all of it back (packages/core/src/event.ts).  *)
(* Who calls them, and what happens in between, is SessionPrompts.         *)
(***************************************************************************)
LOCAL INSTANCE Naturals
LOCAL INSTANCE Sequences

CONSTANTS
    Keys,       \* session ids
    Prompts,    \* message ids; a retry reuses the id with the same text
    SessionOf   \* the session each prompt is sent to

VARIABLES
    row,        \* SessionInputTable: one row per prompt
    seq,        \* latest sequence of each session's event log
    transcript  \* the prompts of each session, in the order of Prompted events

Deliveries == {"queue", "steer"}

(* admitted = 0: no row.  promoted = 0: promoted_seq is NULL.              *)
NoRow == [delivery |-> "queue", admitted |-> 0, promoted |-> 0]

InboxType ==
    /\ row \in [Prompts -> [delivery : Deliveries, admitted : Nat,
                            promoted : Nat]]
    /\ seq \in [Keys -> Nat]
    /\ transcript \in [Keys -> Seq(Prompts)]

InboxInit ==
    /\ row = [p \in Prompts |-> NoRow]
    /\ seq = [k \in Keys |-> 0]
    /\ transcript = [k \in Keys |-> <<>>]

Stored(p) == row[p].admitted # 0
Pending(p) == Stored(p) /\ row[p].promoted = 0

PendingOf(k, delivery) ==
    {p \in Prompts : SessionOf[p] = k /\ Pending(p) /\ row[p].delivery = delivery}

hasPending(k, delivery) == PendingOf(k, delivery) # {}

(* promoteNextQueued's query: the oldest queued prompt, if any.            *)
(* Mutant: the order is descending.                                        *)
NewestQueued(k) ==
    {p \in PendingOf(k, "queue") :
        \A q \in PendingOf(k, "queue") : row[p].admitted >= row[q].admitted}

OldestQueued(k) ==
    {p \in PendingOf(k, "queue") :
        \A q \in PendingOf(k, "queue") : row[p].admitted <= row[q].admitted}

(* promoteSteers' query: the steers admitted up to the cutoff.             *)
SteersUpTo(k, cutoff) ==
    {p \in PendingOf(k, "steer") : row[p].admitted <= cutoff}

-----------------------------------------------------------------------------
(* Transactions.                                                           *)

Commit(k) == seq' = [seq EXCEPT ![k] = @ + 1]

RollBack == UNCHANGED <<row, seq, transcript>>

(* PromptAdmitted with projectAdmitted: conflicts if the id has a row.     *)
AdmitConflicts(p) == Stored(p)

projectAdmitted(p, delivery) ==
    /\ ~AdmitConflicts(p)
    /\ Commit(SessionOf[p])
    /\ row' = [row EXCEPT ![p] = [delivery |-> delivery,
                                  admitted |-> seq[SessionOf[p]] + 1,
                                  promoted |-> 0]]
    /\ UNCHANGED transcript

(* PromptDeliveryChanged with projectDeliveryChanged: the prompt becomes a *)
(* steer while it is unpromoted; repeating the change is harmless.         *)
SteerConflicts(p) == ~Pending(p)

projectDeliveryChanged(p) ==
    /\ ~SteerConflicts(p)
    /\ Commit(SessionOf[p])
    /\ row' = [row EXCEPT ![p].delivery = "steer"]
    /\ UNCHANGED transcript

(* Prompted with projectPrompted, from a row that was read with `delivery`: *)
(* the row must still be unpromoted and still have that delivery.          *)
PromptConflicts(p, delivery) == ~Pending(p) \/ row[p].delivery # delivery

(* Mutant: the Prompted event is stored, its projection is not.            *)
PromptedUnprojected(p, delivery) ==
    /\ ~PromptConflicts(p, delivery)
    /\ Commit(SessionOf[p])
    /\ transcript' = [transcript EXCEPT ![SessionOf[p]] = Append(@, p)]
    /\ UNCHANGED row

projectPrompted(p, delivery) ==
    /\ ~PromptConflicts(p, delivery)
    /\ Commit(SessionOf[p])
    /\ row' = [row EXCEPT ![p].promoted = seq[SessionOf[p]] + 1]
    /\ transcript' = [transcript EXCEPT ![SessionOf[p]] = Append(@, p)]
=============================================================================
