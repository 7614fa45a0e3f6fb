----------------------------- MODULE EventFeed -----------------------------
(***************************************************************************)
(* What the durable event stream of a session promises its reader          *)
(* (packages/core/src/event.ts, durable): every event of the log, each     *)
(* once, in the order of the log, whether it was there when the reader     *)
(* came or was committed since.                                            *)
(***************************************************************************)
EXTENDS Naturals, Sequences, SequencesExt

VARIABLES
    events,     \* the log from where the reader asked to begin
    seen        \* what it was given

feedVars == <<events, seen>>

FeedInit == seen = <<>>

Committed == /\ IsStrictPrefix(events, events')
             /\ UNCHANGED seen

Delivered == /\ IsStrictPrefix(seen, seen')
             /\ IsPrefix(seen', events)
             /\ UNCHANGED events

FeedNext == Committed \/ Delivered

FeedSafety == FeedInit /\ [][FeedNext]_feedVars

FeedSpec == FeedSafety /\ []<>(seen = events)
=============================================================================
