--------------------------- MODULE WorkspaceSync ---------------------------
(***************************************************************************)
(* One session whose log the home server mirrors from remote workspaces    *)
(* (packages/spinosa-kernel/src/control-plane/workspace.ts and             *)
(* server/routes/instance/httpapi/handlers/sync.ts).                       *)
(*                                                                         *)
(* For each remote a loop connects to its event stream, asks for the       *)
(* history beyond what home has, replays it, then replays the stream.      *)
(* A warp moves the session to another workspace: home fetches the rest of *)
(* the history, claims the log for the new owner, sends it there and       *)
(* steals the session.  Commit and notification of an event are two steps. *)
(***************************************************************************)
EXTENDS EventLog

CONSTANTS
    Home,
    Remotes,
    Birth,      \* where the session is created
    Warps,      \* calls of sessionWarp
    Workers,    \* the nodes whose agents work on the session
    MaxWork,    \* bound on the events of the agents at one node
    Starts      \* the positions a reader may ask to begin after

ASSUME NodesAre == /\ Nodes = Remotes \cup {Home}
                   /\ Home \notin Remotes
                   /\ Owners = Nodes
                   /\ Watched = Home
                   /\ Birth \in Nodes

VARIABLES
    unsent,     \* the positions each remote has committed and not notified
    stream,     \* the event stream home has open to each remote
    loop,       \* syncWorkspaceLoop
    warp,
    late        \* history: what remotes published after home claimed the log
                \* for another

syncVars == <<log, owner, reader, wake, unsent, stream, loop, warp, late>>

(* to: the workspace a session.updated moves the session to, None if the   *)
(* event does not.                                                         *)
Event(by, n, to) == [by |-> by, n |-> n, to |-> to]

Events == [by : Nodes, n : Nat, to : Nodes \cup {None}]

Place(n) == IF \E e \in ToSet(log[n]) : e.to # None
            THEN LET last == SelectLastInSeq(log[n], LAMBDA e : e.to # None)
                 IN log[n][last].to
            ELSE None

By(n) == {e \in ToSet(log[n]) : e.by = n}

NextEvent(n, to) == Event(n, Len(log[n]) + 1, to)

Idling == [at |-> "connecting", fence |-> 0, rest |-> <<>>, missed |-> FALSE]

NoWarp == [at |-> "off", from |-> None, to |-> None, fence |-> 0,
           rest |-> <<>>, rows |-> <<>>]

Positions(n) == 1 .. Len(log[n])

(* missed: history, this connection's history had an event that home       *)
(* ignored, for its log was claimed for another.                           *)
Loops == [at : {"connecting", "asking", "asked", "replaying", "streaming", "dead"},
          fence : Nat, rest : Seq(Nat), missed : BOOLEAN]

Calls == [at : {"off", "asking", "asked", "syncing", "claiming", "reading",
                "sending", "stealing", "moving", "done", "failed"},
          from : Nodes \cup {None}, to : Nodes \cup {None}, fence : Nat,
          rest : Seq(Nat), rows : Seq(Events)]

SyncTypeOK ==
    /\ LogTypeOK(Events)
    /\ unsent \in [Remotes -> SUBSET Nat]
    /\ loop \in [Remotes -> Loops]
    /\ warp \in [Warps -> Calls]
    /\ late \in SUBSET Events
    /\ DOMAIN stream \subseteq Remotes
    /\ \A r \in Remotes :
          /\ unsent[r] \subseteq Positions(r)
          /\ loop[r].rest \in Seq(Positions(r))
          /\ r \in DOMAIN stream => stream[r] \in Seq(Positions(r))
          /\ r \in DOMAIN stream <=> loop[r].at \notin {"connecting", "dead"}

SyncInit ==
    /\ LogInit([n \in Nodes |-> IF n = Birth THEN <<Event(n, 1, n)>> ELSE <<>>])
    /\ unsent = [r \in Remotes |-> {}]
    /\ stream = <<>>
    /\ loop = [r \in Remotes |-> Idling]
    /\ warp = [w \in Warps |-> NoWarp]
    /\ late = {}

-----------------------------------------------------------------------------
(* The remote: its agent publishes; the listener of each publish sends the *)
(* event to whoever has the stream open.                                   *)
IsLate(r) == owner[Home] \notin {None, r}

RemotePublishes(r, e) ==
    /\ Publish(r, e)
    /\ unsent' = [unsent EXCEPT ![r] = @ \cup {Len(log[r]) + 1}]
    /\ late' = IF IsLate(r) THEN late \cup {e} ELSE late

RemoteWorks(r) ==
    /\ r \in Workers /\ log[r] # <<>>
    /\ Cardinality(By(r)) < MaxWork
    /\ RemotePublishes(r, NextEvent(r, None))
    /\ UNCHANGED <<stream, loop, warp>>

Notifies(r) ==
    /\ \E i \in unsent[r] :
          /\ unsent' = [unsent EXCEPT ![r] = @ \ {i}]
          /\ stream' = [s \in DOMAIN stream |->
                          IF s = r THEN Append(stream[s], i) ELSE stream[s]]
    /\ UNCHANGED <<log, owner, reader, wake, loop, warp, late>>

(* Home's own agent works on a session that is placed there.               *)
HomeWorks ==
    /\ Home \in Workers
    /\ Place(Home) = Home
    /\ Cardinality(By(Home)) < MaxWork
    /\ Publish(Home, NextEvent(Home, None))
    /\ UNCHANGED <<unsent, stream, loop, warp, late>>

-----------------------------------------------------------------------------
(* The history handler: the events beyond the caller's fence, in order; a  *)
(* session without fence is answered from its beginning.                   *)
(* Mutant: the fence is a count where a sequence is compared.              *)
FencePastNext(r) == IF Place(Home) = r THEN Len(log[Home]) + 1 ELSE 0

Fence(r) == IF Place(Home) = r THEN Len(log[Home]) ELSE 0

History(r, fence) == [k \in 1 .. Len(log[r]) - fence |-> fence + k]

LoopGoes(r, at, fence, rest, missed) ==
    loop' = [loop EXCEPT ![r] = [at |-> at, fence |-> fence, rest |-> rest,
                                 missed |-> missed]]

Closes(r) == [s \in DOMAIN stream \ {r} |-> stream[s]]

(* connectSSE                                                              *)
Opens(r) == stream' = [s \in DOMAIN stream \cup {r} |->
                         IF s = r THEN <<>> ELSE stream[s]]

Connects(r) ==
    /\ loop[r].at = "connecting"
    /\ Opens(r)
    /\ LoopGoes(r, "asking", 0, <<>>, FALSE)
    /\ UNCHANGED <<log, owner, reader, wake, unsent, warp, late>>

(* syncHistory: the fence is read and sent,                                *)
Asks(r) ==
    /\ loop[r].at = "asking"
    /\ LoopGoes(r, "asked", Fence(r), <<>>, FALSE)
    /\ UNCHANGED <<log, owner, reader, wake, unsent, stream, warp, late>>

(* the remote answers, or the request fails and the loop backs off,        *)
IsAnswered(r) ==
    /\ loop[r].at = "asked"
    /\ LoopGoes(r, "replaying", Len(log[r]), History(r, loop[r].fence), FALSE)
    /\ UNCHANGED <<log, owner, reader, wake, unsent, stream, warp, late>>

Reconnects(r) ==
    /\ loop[r].at \in {"asked", "streaming"}
    /\ LoopGoes(r, "connecting", 0, <<>>, FALSE)
    /\ stream' = Closes(r)
    /\ UNCHANGED <<log, owner, reader, wake, unsent, warp, late>>

(* and each event is replayed; one that dies takes the fiber with it, for  *)
(* the loop only catches failures.                                         *)
ReplaysHistory(r) ==
    /\ loop[r].at = "replaying" /\ loop[r].rest # <<>>
    /\ LET i == Head(loop[r].rest)
           e == log[r][i]
           missed == loop[r].missed \/ Ignores(Home, e, i, r, FALSE)
       IN /\ Replay(Home, e, i, r, FALSE)
          /\ IF Dies(Home, e, i, r, FALSE)
             THEN LoopGoes(r, "dead", 0, <<>>, missed) /\ stream' = Closes(r)
             ELSE /\ LoopGoes(r, "replaying", loop[r].fence, Tail(loop[r].rest), missed)
                  /\ UNCHANGED stream
    /\ UNCHANGED <<unsent, warp, late>>

EndsHistory(r) ==
    /\ loop[r].at = "replaying" /\ loop[r].rest = <<>>
    /\ LoopGoes(r, "streaming", loop[r].fence, <<>>, loop[r].missed)
    /\ UNCHANGED <<log, owner, reader, wake, unsent, stream, warp, late>>

(* An event of the stream that cannot be replayed is dropped.              *)
ReplaysStream(r) ==
    /\ loop[r].at = "streaming" /\ stream[r] # <<>>
    /\ Replay(Home, log[r][Head(stream[r])], Head(stream[r]), r, FALSE)
    /\ stream' = [stream EXCEPT ![r] = Tail(@)]
    /\ UNCHANGED <<unsent, loop, warp, late>>

(* startSync, when the fiber is gone.                                      *)
StartsSync(r) ==
    /\ loop[r].at = "dead"
    /\ LoopGoes(r, "connecting", 0, <<>>, FALSE)
    /\ UNCHANGED <<log, owner, reader, wake, unsent, stream, warp, late>>

LoopNext(r) ==
    \/ Connects(r) \/ Asks(r) \/ IsAnswered(r)
    \/ ReplaysHistory(r) \/ EndsHistory(r) \/ ReplaysStream(r)

-----------------------------------------------------------------------------
(* sessionWarp.                                                            *)
WarpGoes(w, at) == warp' = [warp EXCEPT ![w].at = at]

Others == UNCHANGED <<unsent, stream, loop, late>>

(* A session of no workspace has no source to ask and its log is not       *)
(* claimed.  One of a local workspace is taken for the same: the code      *)
(* cancels its loop and claims its log, which no remote writes to.         *)
WarpBegins(w, to) ==
    /\ warp[w].at = "off"
    /\ \E from \in Nodes :
          /\ Place(Home) = from
          /\ warp' = [warp EXCEPT ![w] = [NoWarp EXCEPT
                          !.at = IF from = Home THEN "reading" ELSE "asking",
                          !.from = from, !.to = to]]
    /\ Others /\ UNCHANGED logVars

WarpAsks(w) ==
    /\ warp[w].at = "asking"
    /\ warp' = [warp EXCEPT ![w].at = "asked", ![w].fence = Fence(warp[w].from)]
    /\ Others /\ UNCHANGED logVars

(* The answer, or a failure, which is logged and passed over.              *)
WarpIsAnswered(w) ==
    /\ warp[w].at = "asked"
    /\ \/ warp' = [warp EXCEPT ![w].at = "syncing",
                               ![w].rest = History(warp[w].from, warp[w].fence)]
       \/ WarpGoes(w, "claiming")
    /\ Others /\ UNCHANGED logVars

WarpSyncs(w) ==
    /\ warp[w].at = "syncing"
    /\ \/ /\ warp[w].rest = <<>>
          /\ WarpGoes(w, "claiming")
          /\ UNCHANGED logVars
       \/ /\ warp[w].rest # <<>>
          /\ LET r == warp[w].from
                 i == Head(warp[w].rest)
             IN /\ Replay(Home, log[r][i], i, r, FALSE)
                /\ IF Dies(Home, log[r][i], i, r, FALSE)
                   THEN WarpGoes(w, "failed")
                   ELSE warp' = [warp EXCEPT ![w].rest = Tail(@)]
    /\ Others

WarpClaims(w) ==
    /\ warp[w].at = "claiming"
    /\ Claim(Home, warp[w].to)
    /\ WarpGoes(w, "reading")
    /\ late' = {e \in late : e.by # warp[w].to}
    /\ UNCHANGED <<unsent, stream, loop>>

(* Mutant: the last batch is not sent.                                     *)
ButLast(rows) == [i \in 1 .. Len(rows) - 1 |-> i]

Batches(rows) == [i \in DOMAIN rows |-> i]

(* To a local workspace the session is only moved; to a remote one its     *)
(* events are sent, in requests that may fail,                             *)
WarpReads(w) ==
    /\ warp[w].at = "reading"
    /\ IF warp[w].to = Home
       THEN WarpGoes(w, "moving")
       ELSE warp' = [warp EXCEPT ![w].at = "sending", ![w].rows = log[Home],
                                 ![w].rest = Batches(log[Home])]
    /\ Others /\ UNCHANGED logVars

(* and replayed there, strictly,                                           *)
WarpSends(w) ==
    /\ warp[w].at = "sending" /\ warp[w].rest # <<>>
    /\ LET i == Head(warp[w].rest)
           e == warp[w].rows[i]
       IN /\ Replay(warp[w].to, e, i, warp[w].to, TRUE)
          /\ IF Dies(warp[w].to, e, i, warp[w].to, TRUE)
             THEN WarpGoes(w, "failed")
             ELSE warp' = [warp EXCEPT ![w].rest = Tail(@)]
    /\ Others

WarpSent(w) ==
    /\ warp[w].at = "sending" /\ warp[w].rest = <<>>
    /\ WarpGoes(w, "stealing")
    /\ Others /\ UNCHANGED logVars

(* then stolen: the remote publishes that the session is its own,          *)
WarpSteals(w) ==
    /\ warp[w].at = "stealing"
    /\ RemotePublishes(warp[w].to, NextEvent(warp[w].to, warp[w].to))
    /\ WarpGoes(w, "moving")
    /\ UNCHANGED <<stream, loop>>

WarpFails(w) ==
    /\ warp[w].at \in {"reading", "sending", "stealing"}
    /\ WarpGoes(w, "failed")
    /\ Others /\ UNCHANGED logVars

(* and home publishes the same.                                            *)
WarpMoves(w) ==
    /\ warp[w].at = "moving"
    /\ Publish(Home, NextEvent(Home, warp[w].to))
    /\ WarpGoes(w, "done")
    /\ Others

WarpNext(w) ==
    \/ WarpAsks(w) \/ WarpIsAnswered(w) \/ WarpSyncs(w) \/ WarpClaims(w)
    \/ WarpReads(w) \/ WarpSends(w) \/ WarpSent(w) \/ WarpSteals(w) \/ WarpMoves(w)

-----------------------------------------------------------------------------
ReaderKeeps == UNCHANGED <<unsent, stream, loop, warp, late>>

SyncNext ==
    \/ HomeWorks
    \/ \E r \in Remotes : \/ RemoteWorks(r) \/ Notifies(r) \/ LoopNext(r)
                          \/ Reconnects(r) \/ StartsSync(r)
    \/ \E w \in Warps : \/ WarpNext(w) \/ WarpFails(w)
                        \/ \E to \in Nodes : WarpBegins(w, to)
    \/ ReaderNext /\ ReaderKeeps
    \/ \E after \in Starts \cap (0 .. Len(log[Home])) :
          Subscribe(after) /\ ReaderKeeps

SyncSpec == SyncInit /\ [][SyncNext]_syncVars

(* Every fiber that can go on does, requests are answered or fail, and     *)
(* listeners are called.                                                   *)
SyncFairness ==
    /\ \A r \in Remotes : WF_syncVars(LoopNext(r)) /\ WF_syncVars(Notifies(r))
    /\ \A w \in Warps : WF_syncVars(WarpNext(w))
    /\ WF_syncVars(ReaderNext /\ ReaderKeeps)

SyncFairSpec == SyncSpec /\ SyncFairness

-----------------------------------------------------------------------------
(* Properties.                                                             *)

WrittenBy(r) == \A e \in ToSet(log[Home]) : e.by = r

(* As long as home holds one workspace's events only, it holds a prefix of *)
(* that workspace's log, however stream and history repeat, reorder or     *)
(* drop them.                                                              *)
OneHistory == \A r \in Remotes : WrittenBy(r) => IsPrefix(log[Home], log[r])

(* An event that cannot be replayed ends the sync of a whole workspace, of *)
(* its other sessions too; that happens only to a log home's contradicts,  *)
(* never because history and stream repeat what home has.  The exception   *)
(* is a history of which home ignored a part, the log being claimed for    *)
(* another then: if a warp claims it back the rest of it comes after a gap.*)
Comparable(s, t) == IsPrefix(s, t) \/ IsPrefix(t, s)

OnlyDivergedDies ==
    \A r \in Remotes :
        loop[r].at = "dead" => loop[r].missed \/ ~Comparable(log[Home], log[r])

(* Once the loop streams, home's log reaches as far as the history that    *)
(* was answered, the gap between what it had and what the stream brings    *)
(* included, unless a part was ignored under a claim for another.          *)
HistoryIsWhole ==
    \A r \in Remotes :
        loop[r].at = "streaming" /\ ~loop[r].missed
        => Len(log[Home]) >= loop[r].fence

(* "claim this session so any future events coming from the old workspace  *)
(* are ignored" (workspace.ts:588): what a workspace publishes after home  *)
(* claimed the log for another never enters home's log.                    *)
FencedOut == late \cap ToSet(log[Home]) = {}

(* A session is stolen with the whole of what home read of it.             *)
StolenWhole ==
    \A w \in Warps :
        /\ warp[w].at \in {"stealing", "moving", "done"}
        /\ warp[w].to # Home
        => IsPrefix(warp[w].rows, log[warp[w].to])
=============================================================================
