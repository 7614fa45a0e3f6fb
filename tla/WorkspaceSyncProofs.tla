------------------------ MODULE WorkspaceSyncProofs ------------------------
(***************************************************************************)
(* Proofs about WorkspaceSync.  Every copy of the session holds genuine    *)
(* events: each is the one its writer has at that position.  Histories     *)
(* only grow, so what is genuine stays so; and an event published late is  *)
(* at a position nobody has copied, and is fenced off home from then on.   *)
(***************************************************************************)
EXTENDS WorkspaceSync, SequenceTheorems, TLAPS

Genuine(e, i, l) ==
    /\ e \in Events
    /\ i \in Nat \ {0}
    /\ e.n = i
    /\ i <= Len(l[e.by])
    /\ l[e.by][i] = e

Authentic(s, l) == \A i \in 1 .. Len(s) : Genuine(s[i], i, l)

(* What is late is in its writer's log and nowhere else.                   *)
LateIsFenced ==
    /\ \A e \in late : e.by \in Remotes /\ owner[Home] \notin {None, e.by}
    /\ \A n \in Nodes : \A i \in 1 .. Len(log[n]) :
          log[n][i] \in late => log[n][i].by = n

LogsInv ==
    /\ LogTypeOK(Events)
    /\ late \in SUBSET Events
    /\ \A n \in Nodes : Authentic(log[n], log)
    /\ LateIsFenced

(* Logs grow, and what becomes late is new.                                *)
Extends(l, k) ==
    \A n \in Nodes :
        /\ Len(l[n]) <= Len(k[n])
        /\ \A i \in 1 .. Len(l[n]) : k[n][i] = l[n][i]

Grows ==
    /\ Extends(log, log')
    /\ \A e \in late' : e \in late \/ e.n > Len(log[e.by])

(* A copy that is made once and sent on.                                   *)
CopyOK(s, l, d) ==
    /\ s \in Seq(Events)
    /\ Authentic(s, l)
    /\ \A i \in 1 .. Len(s) : s[i] \notin d

-----------------------------------------------------------------------------
LEMMA NodeFacts ==
    /\ Home \in Nodes
    /\ Remotes \subseteq Nodes
    /\ Home \notin Remotes
    /\ None \notin Nodes
    /\ Owners = Nodes
    /\ Watched = Home
BY NodesAre, NoneIsNobody

LEMMA EventFields ==
    ASSUME NEW e \in Events
    PROVE  e.by \in Nodes /\ e.n \in Nat /\ e.to \in Nodes \cup {None}
BY DEF Events

LEMMA LogFacts ==
    ASSUME LogTypeOK(Events), NEW n \in Nodes
    PROVE  /\ log[n] \in Seq(Events)
           /\ Len(log[n]) \in Nat
           /\ \A i \in 1 .. Len(log[n]) : log[n][i] \in Events
<1>1. log[n] \in Seq(Events)
  BY DEF LogTypeOK
<1> QED
  BY <1>1, ElementOfSeq, LenProperties

LEMMA GenuineKept ==
    ASSUME NEW e, NEW i, Genuine(e, i, log), Extends(log, log'),
           LogTypeOK(Events), LogTypeOK(Events)'
    PROVE  Genuine(e, i, log')
<1>1. e.by \in Nodes /\ i \in Nat \ {0} /\ i <= Len(log[e.by])
  BY EventFields DEF Genuine
<1>2. Len(log[e.by]) \in Nat /\ Len(log'[e.by]) \in Nat
  <2>1. log'[e.by] \in Seq(Events)
    BY <1>1 DEF LogTypeOK
  <2> QED
    BY <1>1, <2>1, LogFacts, LenProperties
<1>3. Len(log[e.by]) <= Len(log'[e.by]) /\ log'[e.by][i] = log[e.by][i]
  BY <1>1, <1>2 DEF Extends
<1> QED
  BY <1>1, <1>2, <1>3 DEF Genuine

LEMMA CopyKept ==
    ASSUME LogsInv, LogsInv', Grows, NEW s, CopyOK(s, log, late)
    PROVE  CopyOK(s, log', late')
<1>1. Authentic(s, log')
  BY GenuineKept DEF Authentic, CopyOK, Grows, LogsInv
<1>2. ASSUME NEW i \in 1 .. Len(s), s[i] \in late'
      PROVE  FALSE
  <2>1. Genuine(s[i], i, log) /\ s[i] \notin late
    BY <1>2 DEF CopyOK, Authentic
  <2>2. s[i].by \in Nodes
    BY <2>1, EventFields DEF Genuine
  <2>3. Len(log[s[i].by]) \in Nat
    BY <2>2, LogFacts DEF LogsInv
  <2>4. s[i].n > Len(log[s[i].by])
    BY <1>2, <2>1 DEF Grows
  <2> QED
    BY <2>1, <2>3, <2>4 DEF Genuine
<1> QED
  BY <1>1, <1>2 DEF CopyOK

-----------------------------------------------------------------------------
(* How the logs change.                                                    *)
LEMMA AppendFacts ==
    ASSUME LogTypeOK(Events), NEW n \in Nodes, NEW e \in Events, Appends(n, e)
    PROVE  /\ log' \in [Nodes -> Seq(Events)]
           /\ log'[n] = Append(log[n], e)
           /\ Len(log'[n]) = Len(log[n]) + 1
           /\ log'[n][Len(log[n]) + 1] = e
           /\ \A i \in 1 .. Len(log[n]) : log'[n][i] = log[n][i]
           /\ \A m \in Nodes \ {n} : log'[m] = log[m]
           /\ Extends(log, log')
           /\ wake' \in BOOLEAN
<1>1. log \in [Nodes -> Seq(Events)] /\ log[n] \in Seq(Events) /\ wake \in BOOLEAN
  BY DEF LogTypeOK
<1>2. log' = [log EXCEPT ![n] = Append(log[n], e)]
  BY DEF Appends
<1>3. Append(log[n], e) \in Seq(Events)
  BY <1>1
<1>4. log' \in [Nodes -> Seq(Events)]
  BY <1>1, <1>2, <1>3
<1>5. log'[n] = Append(log[n], e) /\ \A m \in Nodes \ {n} : log'[m] = log[m]
  BY <1>1, <1>2
<1>6. /\ Len(log'[n]) = Len(log[n]) + 1
      /\ log'[n][Len(log[n]) + 1] = e
      /\ \A i \in 1 .. Len(log[n]) : log'[n][i] = log[n][i]
  BY <1>1, <1>5
<1>7. ASSUME NEW m \in Nodes
      PROVE  /\ Len(log[m]) <= Len(log'[m])
             /\ \A i \in 1 .. Len(log[m]) : log'[m][i] = log[m][i]
  <2>1. Len(log[m]) \in Nat
    BY LogFacts
  <2> QED
    BY <1>5, <1>6, <2>1
<1>8. wake' \in BOOLEAN
  BY <1>1 DEF Appends
<1> QED
  BY <1>4, <1>5, <1>6, <1>7, <1>8 DEF Extends

LEMMA AppendKeepsTypes ==
    ASSUME LogTypeOK(Events), NEW n \in Nodes, NEW e \in Events, Appends(n, e),
           owner' \in [Nodes -> Owners \cup {None}]
    PROVE  LogTypeOK(Events)'
<1>1. Len(log[Watched]) \in Nat /\ Len(log'[Watched]) \in Nat
      /\ Len(log[Watched]) <= Len(log'[Watched])
  <2>1. log'[Watched] \in Seq(Events)
    BY AppendFacts, NodeFacts
  <2> QED
    BY <2>1, AppendFacts, NodeFacts, LogFacts, LenProperties DEF Extends
<1>2. reader' = reader
  BY DEF Appends
<1>3. reader'.cursor \in Nat /\ reader'.cursor <= Len(log'[Watched])
  BY <1>1, <1>2 DEF LogTypeOK
<1>4. log' \in [Nodes -> Seq(Events)] /\ wake' \in BOOLEAN
  BY AppendFacts
<1> QED
  BY <1>2, <1>3, <1>4 DEF LogTypeOK

(* A genuine event appended to a copy: the copies stay genuine.            *)
LEMMA AppendKeepsAuthentic ==
    ASSUME LogsInv, LogTypeOK(Events)', NEW n \in Nodes, NEW e \in Events,
           Appends(n, e), Genuine(e, Len(log[n]) + 1, log')
    PROVE  \A m \in Nodes : Authentic(log'[m], log')
<1> SUFFICES ASSUME NEW m \in Nodes, NEW i \in 1 .. Len(log'[m])
             PROVE  Genuine(log'[m][i], i, log')
  BY DEF Authentic
<1>1. Len(log[m]) \in Nat /\ LogTypeOK(Events)
  BY LogFacts DEF LogsInv
<1>2. CASE i \in 1 .. Len(log[m])
  <2>1. log'[m][i] = log[m][i]
    BY <1>1, <1>2, AppendFacts DEF Extends
  <2>2. Genuine(log[m][i], i, log)
    BY <1>2 DEF LogsInv, Authentic
  <2> QED
    BY <1>1, <2>1, <2>2, GenuineKept, AppendFacts
<1>3. CASE i \notin 1 .. Len(log[m])
  <2>1. m = n /\ i = Len(log[n]) + 1
    BY <1>1, <1>3, AppendFacts
  <2> QED
    BY <1>1, <2>1, AppendFacts
<1> QED
  BY <1>2, <1>3

LEMMA FreshIsGenuine ==
    ASSUME LogTypeOK(Events), NEW n \in Nodes, NEW to \in Nodes \cup {None},
           Appends(n, NextEvent(n, to))
    PROVE  /\ NextEvent(n, to) \in Events
           /\ NextEvent(n, to).by = n
           /\ NextEvent(n, to).n = Len(log[n]) + 1
           /\ Genuine(NextEvent(n, to), Len(log[n]) + 1, log')
<1>1. Len(log[n]) \in Nat
  BY LogFacts
<1>2. NextEvent(n, to) \in Events /\ NextEvent(n, to).by = n
      /\ NextEvent(n, to).n = Len(log[n]) + 1
  BY <1>1 DEF NextEvent, Event, Events
<1>3. Len(log'[n]) = Len(log[n]) + 1 /\ log'[n][Len(log[n]) + 1] = NextEvent(n, to)
  BY <1>2, AppendFacts
<1> QED
  BY <1>1, <1>2, <1>3 DEF Genuine

(* A node publishes; a remote that does so while home is claimed for       *)
(* another is late.                                                        *)
LEMMA PublishStep ==
    ASSUME LogsInv, NEW n \in Nodes, NEW to \in Nodes \cup {None},
           Publish(n, NextEvent(n, to)),
           \/ late' = late
           \/ n \in Remotes /\ IsLate(n) /\ late' = late \cup {NextEvent(n, to)}
    PROVE  LogsInv' /\ Grows
<1> DEFINE e == NextEvent(n, to)
<1>1. Appends(n, e) /\ owner' = owner
  BY DEF Publish
<1>2. LogTypeOK(Events) /\ Len(log[n]) \in Nat
  BY LogFacts DEF LogsInv
<1>3. /\ e \in Events /\ e.by = n /\ e.n = Len(log[n]) + 1
      /\ Genuine(e, Len(log[n]) + 1, log')
  BY <1>1, <1>2, FreshIsGenuine
<1> HIDE DEF e
<1>4. LogTypeOK(Events)'
  BY <1>1, <1>2, <1>3, AppendKeepsTypes DEF LogTypeOK
<1>5. \A m \in Nodes : Authentic(log'[m], log')
  BY <1>1, <1>3, <1>4, AppendKeepsAuthentic
<1>6. \A x \in late' : x \in late \/ x = e
  BY DEF e
<1>7. late' \in SUBSET Events
  BY <1>3, <1>6 DEF LogsInv
<1>8. \A x \in late' : x.by \in Remotes /\ owner'[Home] \notin {None, x.by}
  BY <1>1, <1>3 DEF LogsInv, LateIsFenced, IsLate, e
<1>9. ASSUME NEW m \in Nodes, NEW i \in 1 .. Len(log'[m]), log'[m][i] \in late'
      PROVE  log'[m][i].by = m
  <2>1. Len(log[m]) \in Nat
    BY <1>2, LogFacts
  <2>2. CASE i \in 1 .. Len(log[m])
    <3>1. log'[m][i] = log[m][i]
      BY <1>1, <1>2, <1>3, <2>2, AppendFacts DEF Extends
    <3>2. Genuine(log[m][i], i, log)
      BY <2>2 DEF LogsInv, Authentic
    <3>3. log[m][i] # e
      BY <1>2, <1>3, <3>2 DEF Genuine
    <3> QED
      BY <1>6, <1>9, <2>2, <3>1, <3>3 DEF LogsInv, LateIsFenced
  <2>3. CASE i \notin 1 .. Len(log[m])
    <3>1. m = n /\ i = Len(log[n]) + 1
      BY <1>1, <1>2, <1>3, <2>1, <2>3, AppendFacts
    <3>2. log'[m][i] = e
      BY <1>1, <1>2, <1>3, <3>1, AppendFacts
    <3> QED
      BY <1>3, <3>1, <3>2
  <2> QED
    BY <2>2, <2>3
<1>10. Grows
  <2>1. \A x \in late' : x \in late \/ x.n > Len(log[x.by])
    BY <1>2, <1>3, <1>6
  <2> QED
    BY <1>1, <1>2, <1>3, <2>1, AppendFacts DEF Grows
<1> QED
  BY <1>4, <1>5, <1>7, <1>8, <1>9, <1>10 DEF LogsInv, LateIsFenced

LEMMA SameLogs ==
    ASSUME LogsInv, log' = log, \A e \in late' : e \in late
    PROVE  /\ Grows
           /\ \A n \in Nodes : Authentic(log'[n], log')
           /\ \A n \in Nodes : \A i \in 1 .. Len(log'[n]) :
                 log'[n][i] \in late' => log'[n][i].by = n
<1>1. \A n \in Nodes : Len(log[n]) \in Nat
  BY LogFacts DEF LogsInv
<1>2. Grows
  BY <1>1 DEF Grows, Extends
<1>3. \A n \in Nodes : Authentic(log'[n], log')
  BY DEF LogsInv, Authentic, Genuine
<1> QED
  BY <1>2, <1>3 DEF LogsInv, LateIsFenced

LEMMA NoLogStep ==
    ASSUME LogsInv, UNCHANGED <<log, owner, reader, wake, late>>
    PROVE  LogsInv' /\ Grows
<1>1. LogTypeOK(Events)'
  BY DEF LogsInv, LogTypeOK
<1> QED
  BY <1>1, SameLogs DEF LogsInv, LateIsFenced

(* An owner that is adopted where there was none fences nothing that was   *)
(* published late, for nothing was.                                        *)
LEMMA AdoptStep ==
    ASSUME LogsInv, NEW n \in Nodes, NEW o \in Nodes, Adopts(n, o)
    PROVE  /\ owner' \in [Nodes -> Owners \cup {None}]
           /\ \A e \in late : e.by \in Remotes /\ owner'[Home] \notin {None, e.by}
<1>1. owner \in [Nodes -> Owners \cup {None}]
  BY DEF LogsInv, LogTypeOK
<1>2. owner' \in [Nodes -> Owners \cup {None}]
  BY <1>1, NodeFacts DEF Adopts
<1>3. owner[Home] # None => owner'[Home] = owner[Home]
  BY <1>1, NodeFacts DEF Adopts
<1> QED
  BY <1>2, <1>3 DEF LogsInv, LateIsFenced

LEMMA ClaimStep ==
    ASSUME LogsInv, NEW to \in Nodes, Claim(Home, to),
           late' = {e \in late : e.by # to}
    PROVE  LogsInv' /\ Grows
<1>1. owner' = [owner EXCEPT ![Home] = to] /\ UNCHANGED <<log, reader, wake>>
  BY DEF Claim
<1>2. owner \in [Nodes -> Owners \cup {None}]
  BY DEF LogsInv, LogTypeOK
<1>3. owner' \in [Nodes -> Owners \cup {None}] /\ owner'[Home] = to
  BY <1>1, <1>2, NodeFacts
<1>4. LogTypeOK(Events)'
  BY <1>1, <1>3 DEF LogsInv, LogTypeOK
<1>5. late' \in SUBSET Events /\ \A e \in late' : e \in late /\ e.by # to
  BY DEF LogsInv
<1>6. \A e \in late' : e.by \in Remotes /\ owner'[Home] \notin {None, e.by}
  BY <1>3, <1>5, NodeFacts DEF LogsInv, LateIsFenced
<1> QED
  BY <1>1, <1>4, <1>5, <1>6, SameLogs DEF LogsInv, LateIsFenced

(* A genuine event is replayed; what is late is not sent to remotes, and   *)
(* to home it is sent for its writer, who is fenced.                       *)
LEMMA ReplayStep ==
    ASSUME LogsInv, NEW n \in Nodes, NEW o \in Nodes, NEW e, NEW i,
           NEW strict \in BOOLEAN,
           Genuine(e, i, log), Replay(n, e, i, o, strict), late' = late,
           e \in late => n = Home /\ o = e.by
    PROVE  LogsInv' /\ Grows
<1>1. LogTypeOK(Events) /\ Len(log[n]) \in Nat
  BY LogFacts DEF LogsInv
<1>2. CASE Accepts(n, e, i, o, strict) /\ Appends(n, e) /\ Adopts(n, o)
  <2>1. ~Fenced(n, o) /\ i = Len(log[n]) + 1 /\ e \in Events
    BY <1>2 DEF Accepts, IsNext, Genuine
  <2>2. e \notin late
    <3>1. owner[n] \in {None, o}
      BY <2>1 DEF Fenced
    <3> QED
      BY <3>1 DEF LogsInv, LateIsFenced
  <2>3. LogTypeOK(Events)'
    BY <1>1, <1>2, <2>1, AdoptStep, AppendKeepsTypes
  <2>4. Extends(log, log') /\ Grows
    <3>1. Extends(log, log')
      BY <1>1, <1>2, <2>1, AppendFacts
    <3> QED
      BY <3>1 DEF Grows
  <2>5. Genuine(e, Len(log[n]) + 1, log')
    BY <1>1, <2>1, <2>3, <2>4, GenuineKept
  <2>6. \A m \in Nodes : Authentic(log'[m], log')
    BY <1>2, <2>1, <2>3, <2>5, AppendKeepsAuthentic
  <2>7. ASSUME NEW m \in Nodes, NEW k \in 1 .. Len(log'[m]), log'[m][k] \in late'
        PROVE  log'[m][k].by = m
    <3>1. Len(log[m]) \in Nat
      BY <1>1, LogFacts
    <3>2. CASE k \in 1 .. Len(log[m])
      <4>1. log'[m][k] = log[m][k]
        BY <2>4, <3>1, <3>2 DEF Extends
      <4> QED
        BY <2>7, <3>2, <4>1 DEF LogsInv, LateIsFenced
    <3>3. CASE k \notin 1 .. Len(log[m])
      <4>1. m = n /\ k = Len(log[n]) + 1
        BY <1>1, <1>2, <2>1, <3>1, <3>3, AppendFacts
      <4>2. log'[m][k] = e
        BY <1>1, <1>2, <2>1, <4>1, AppendFacts
      <4> QED
        BY <2>2, <2>7, <4>2
    <3> QED
      BY <3>2, <3>3
  <2> QED
    BY <1>2, <2>3, <2>4, <2>6, <2>7, AdoptStep DEF LogsInv, LateIsFenced
<1>3. CASE Adopts(n, o) /\ UNCHANGED <<log, reader, wake>>
  <2>1. LogTypeOK(Events)'
    BY <1>1, <1>3, AdoptStep DEF LogTypeOK
  <2> QED
    BY <1>3, <2>1, AdoptStep, SameLogs DEF LogsInv, LateIsFenced
<1>4. CASE UNCHANGED logVars
  BY <1>4, NoLogStep DEF logVars
<1> QED
  BY <1>2, <1>3, <1>4 DEF Replay

-----------------------------------------------------------------------------
(* The remotes, the loops and the calls of sessionWarp.                    *)
RemoteOK(r) ==
    /\ unsent[r] \subseteq Positions(r)
    /\ loop[r].rest \in Seq(Positions(r))
    /\ r \in DOMAIN stream => stream[r] \in Seq(Positions(r))
    /\ r \in DOMAIN stream <=> loop[r].at \notin {"connecting", "dead"}

RemotesInv ==
    /\ unsent \in [Remotes -> SUBSET Nat]
    /\ loop \in [Remotes -> Loops]
    /\ DOMAIN stream \subseteq Remotes
    /\ \A r \in Remotes : RemoteOK(r)

(* The first k of the rows are in the log of the node they go to.          *)
Sent(c, k, l) ==
    \A j \in 1 .. k : j <= Len(l[c.to]) /\ l[c.to][j] = c.rows[j]

(* What is left to send is the end of the rows.                            *)
IsRestOf(c) ==
    /\ Len(c.rest) <= Len(c.rows)
    /\ \A k \in 1 .. Len(c.rest) : c.rest[k] = Len(c.rows) - Len(c.rest) + k

CallOK(c, l, d) ==
    /\ c \in Calls
    /\ CopyOK(c.rows, l, d)
    /\ c.at # "off" => c.to \in Nodes
    /\ c.at \in {"sending", "stealing"} => c.to \in Remotes
    /\ c.at \in {"asking", "asked", "syncing"} => c.from \in Remotes
    /\ c.at = "syncing" => c.rest \in Seq(1 .. Len(l[c.from]))
    /\ c.at = "sending" =>
          IsRestOf(c) /\ Sent(c, Len(c.rows) - Len(c.rest), l)
    /\ c.at \in {"stealing", "moving", "done"} /\ c.to # Home =>
          Sent(c, Len(c.rows), l)

WarpsInv == /\ warp \in [Warps -> Calls]
            /\ \A w \in Warps : CallOK(warp[w], log, late)

SyncInv == LogsInv /\ RemotesInv /\ WarpsInv

LEMMA LengthsGrow ==
    ASSUME LogsInv, LogsInv', Grows, NEW n \in Nodes
    PROVE  /\ Len(log[n]) \in Nat /\ Len(log'[n]) \in Nat
           /\ Len(log[n]) <= Len(log'[n])
           /\ 1 .. Len(log[n]) \subseteq 1 .. Len(log'[n])
           /\ \A s \in Seq(1 .. Len(log[n])) : s \in Seq(1 .. Len(log'[n]))
<1>1. log[n] \in Seq(Events) /\ log'[n] \in Seq(Events)
  BY DEF LogsInv, LogTypeOK
<1>2. Len(log[n]) \in Nat /\ Len(log'[n]) \in Nat
  BY <1>1, LenProperties
<1>3. Len(log[n]) <= Len(log'[n])
  BY DEF Grows, Extends
<1>4. 1 .. Len(log[n]) \subseteq 1 .. Len(log'[n])
  BY <1>2, <1>3
<1> QED
  BY <1>2, <1>3, <1>4, SeqMonotonic

LEMMA SentKept ==
    ASSUME LogsInv, LogsInv', Grows, NEW c, NEW k, c.to \in Nodes,
           Sent(c, k, log)
    PROVE  Sent(c, k, log')
<1>1. Len(log[c.to]) \in Nat /\ Len(log'[c.to]) \in Nat
      /\ Len(log[c.to]) <= Len(log'[c.to])
  BY LengthsGrow
<1>2. \A j \in 1 .. Len(log[c.to]) : log'[c.to][j] = log[c.to][j]
  BY DEF Grows, Extends
<1> QED
  BY <1>1, <1>2 DEF Sent

LEMMA CallKept ==
    ASSUME LogsInv, LogsInv', Grows, NEW c, CallOK(c, log, late)
    PROVE  CallOK(c, log', late')
<1>1. CopyOK(c.rows, log', late')
  BY CopyKept DEF CallOK
<1>2. c.at = "syncing" => c.rest \in Seq(1 .. Len(log'[c.from]))
  BY LengthsGrow, NodeFacts DEF CallOK
<1>3. c.at = "sending" => Sent(c, Len(c.rows) - Len(c.rest), log')
  BY SentKept, NodeFacts DEF CallOK
<1>4. c.at \in {"stealing", "moving", "done"} /\ c.to # Home => Sent(c, Len(c.rows), log')
  <2>1. c.at \in {"stealing", "moving", "done"} => c.to \in Nodes
    BY DEF CallOK
  <2> QED
    BY <2>1, SentKept DEF CallOK
<1> QED
  BY <1>1, <1>2, <1>3, <1>4 DEF CallOK

LEMMA WarpsKept ==
    ASSUME LogsInv, LogsInv', Grows, WarpsInv, warp' = warp
    PROVE  WarpsInv'
BY CallKept DEF WarpsInv

LEMMA WarpsStep ==
    ASSUME LogsInv, LogsInv', Grows, WarpsInv, NEW w \in Warps, NEW c,
           warp' = [warp EXCEPT ![w] = c], CallOK(c, log', late')
    PROVE  WarpsInv'
<1>1. c \in Calls /\ warp \in [Warps -> Calls]
  BY DEF CallOK, WarpsInv
<1>2. warp' \in [Warps -> Calls]
  BY <1>1
<1>3. ASSUME NEW v \in Warps
      PROVE  CallOK(warp'[v], log', late')
  <2>1. CASE v = w
    BY <1>1, <2>1
  <2>2. CASE v # w
    BY <1>1, <2>2, CallKept DEF WarpsInv
  <2> QED
    BY <2>1, <2>2
<1> QED
  BY <1>2, <1>3 DEF WarpsInv

LEMMA RemoteKept ==
    ASSUME LogsInv, LogsInv', Grows, NEW r \in Remotes, RemoteOK(r),
           unsent'[r] = unsent[r], loop'[r] = loop[r],
           r \in DOMAIN stream' <=> r \in DOMAIN stream,
           r \in DOMAIN stream => stream'[r] = stream[r]
    PROVE  RemoteOK(r)'
BY LengthsGrow, NodeFacts DEF RemoteOK, Positions

LEMMA RemotesKept ==
    ASSUME LogsInv, LogsInv', Grows, RemotesInv, UNCHANGED <<unsent, stream, loop>>
    PROVE  RemotesInv'
<1>1. \A r \in Remotes : RemoteOK(r)'
  BY RemoteKept DEF RemotesInv
<1> QED
  BY <1>1 DEF RemotesInv

(* A step of the loop of r, which opens or closes its stream as it must.   *)
LEMMA LoopStep ==
    ASSUME LogsInv, LogsInv', Grows, RemotesInv, NEW r \in Remotes,
           NEW at \in {"connecting", "asking", "asked", "replaying", "streaming", "dead"},
           NEW fence \in Nat, NEW rest \in Seq(1 .. Len(log'[r])), NEW missed \in BOOLEAN,
           LoopGoes(r, at, fence, rest, missed), unsent' = unsent,
           DOMAIN stream' \subseteq Remotes,
           r \in DOMAIN stream' <=> at \notin {"connecting", "dead"},
           r \in DOMAIN stream' => stream'[r] \in Seq(1 .. Len(log'[r])),
           \A s \in Remotes \ {r} :
              /\ s \in DOMAIN stream' <=> s \in DOMAIN stream
              /\ s \in DOMAIN stream => stream'[s] = stream[s]
    PROVE  RemotesInv'
<1>1. loop' = [loop EXCEPT ![r] = [at |-> at, fence |-> fence, rest |-> rest, missed |-> missed]]
  BY DEF LoopGoes
<1>2. loop \in [Remotes -> Loops] /\ unsent \in [Remotes -> SUBSET Nat]
  BY DEF RemotesInv
<1>3. rest \in Seq(Nat)
  BY SeqMonotonic
<1>4. [at |-> at, fence |-> fence, rest |-> rest, missed |-> missed] \in Loops
  BY <1>3 DEF Loops
<1>5. loop' \in [Remotes -> Loops]
  BY <1>1, <1>2, <1>4
<1>6. loop'[r] = [at |-> at, fence |-> fence, rest |-> rest, missed |-> missed]
      /\ \A s \in Remotes \ {r} : loop'[s] = loop[s]
  BY <1>1, <1>2
<1>7. RemoteOK(r)'
  <2>1. unsent'[r] \subseteq 1 .. Len(log'[r])
    BY LengthsGrow, NodeFacts DEF RemotesInv, RemoteOK, Positions
  <2> QED
    BY <1>6, <2>1 DEF RemoteOK, Positions
<1>8. \A s \in Remotes \ {r} : RemoteOK(s)'
  BY <1>6, RemoteKept DEF RemotesInv
<1> QED
  BY <1>2, <1>5, <1>7, <1>8 DEF RemotesInv

-----------------------------------------------------------------------------
LEMMA InitInv == SyncInit => SyncInv
<1> SUFFICES ASSUME SyncInit
             PROVE  SyncInv
  OBVIOUS
<1> USE NodeFacts
<1>1. Event(Birth, 1, Birth) \in Events /\ Event(Birth, 1, Birth).n = 1
      /\ Event(Birth, 1, Birth).by = Birth
  BY NodesAre DEF Event, Events
<1>2. log = [n \in Nodes |-> IF n = Birth THEN <<Event(n, 1, n)>> ELSE <<>>]
  BY DEF SyncInit, LogInit
<1>3. /\ log \in [Nodes -> Seq(Events)]
      /\ \A n \in Nodes : Len(log[n]) = (IF n = Birth THEN 1 ELSE 0)
      /\ log[Birth][1] = Event(Birth, 1, Birth)
  BY <1>1, <1>2, NodesAre
<1>4. LogTypeOK(Events)
  <2>1. Len(log[Watched]) \in Nat
    BY <1>3
  <2>2. reader = [at |-> "off", after |-> 0, cursor |-> 0, got |-> <<>>]
        /\ wake = FALSE /\ owner \in [Nodes -> Owners \cup {None}]
    BY DEF SyncInit, LogInit
  <2>3. <<>> \in Seq(Events) /\ 0 \in Nat
    OBVIOUS
  <2>4. /\ reader \in [at : {"off", "reading", "emitting", "live"},
                      after : Nat, cursor : Nat, got : Seq(Events)]
        /\ reader.after = 0 /\ reader.cursor = 0
    <3> HIDE DEF Events
    <3> QED
      BY <2>2, <2>3, SMTT(20)
  <2>5. reader.after <= reader.cursor /\ reader.cursor <= Len(log[Watched])
    BY <2>1, <2>4
  <2> QED
    BY <1>3, <2>2, <2>4, <2>5 DEF LogTypeOK
<1>5. \A n \in Nodes : Authentic(log[n], log)
  BY <1>1, <1>3 DEF Authentic, Genuine
<1>6. LogsInv
  BY <1>4, <1>5 DEF LogsInv, LateIsFenced, SyncInit
<1>7. RemotesInv
  <2>1. Idling \in Loops /\ Idling.rest = <<>> /\ Idling.at = "connecting"
    BY DEF Idling, Loops
  <2>2. unsent = [r \in Remotes |-> {}] /\ DOMAIN stream = {}
        /\ loop = [r \in Remotes |-> Idling]
    BY DEF SyncInit
  <2>3. ASSUME NEW r \in Remotes
        PROVE  RemoteOK(r)
    <3>1. unsent[r] = {} /\ loop[r] = Idling /\ r \notin DOMAIN stream
      BY <2>2
    <3>2. unsent[r] \subseteq Positions(r) /\ loop[r].rest \in Seq(Positions(r))
      <4>1. loop[r].rest = <<>>
        BY <2>1, <3>1, Zenon
      <4>2. <<>> \in Seq(Positions(r))
        OBVIOUS
      <4> QED
        BY <3>1, <4>1, <4>2, Zenon
    <3>3. loop[r].at = "connecting"
      BY <2>1, <3>1
    <3>4. r \in DOMAIN stream <=> loop[r].at \notin {"connecting", "dead"}
      BY <3>1, <3>3
    <3> QED
      BY <3>1, <3>2, <3>4 DEF RemoteOK
  <2>4. unsent \in [Remotes -> SUBSET Nat] /\ loop \in [Remotes -> Loops]
    BY <2>1, <2>2
  <2> QED
    BY <2>2, <2>3, <2>4 DEF RemotesInv
<1>8. CopyOK(<<>>, log, late)
  BY DEF CopyOK, Authentic, SyncInit
<1>9. NoWarp \in Calls /\ NoWarp.rows = <<>> /\ NoWarp.at = "off"
  BY DEF NoWarp, Calls
<1>10. CallOK(NoWarp, log, late)
  BY <1>8, <1>9 DEF CallOK
<1>11. WarpsInv
  BY <1>9, <1>10 DEF WarpsInv, SyncInit
<1> QED
  BY <1>6, <1>7, <1>11 DEF SyncInv

LEMMA ReaderStep ==
    ASSUME LogsInv,
           ReaderNext \/ \E after \in Starts \cap (0 .. Len(log[Home])) : Subscribe(after)
    PROVE  UNCHANGED <<log, owner>> /\ LogTypeOK(Events)'
<1>1. LogTypeOK(Events) /\ Len(log[Watched]) \in Nat /\ Watched = Home
  BY LogFacts, NodeFacts DEF LogsInv
<1>2. ASSUME Reads
      PROVE  LogTypeOK(Events)'
  <2> DEFINE last == Len(log[Watched])
             rows == SubSeq(log[Watched], ReadFrom + 1, last)
  <2>1. reader.cursor \in Nat /\ reader.after \in Nat /\ reader.got \in Seq(Events)
        /\ reader.cursor <= last /\ reader.after <= reader.cursor
    BY <1>1 DEF LogTypeOK
  <2>2. rows \in Seq(Events)
    <3>1. \A k \in ReadFrom + 1 .. last : log[Watched][k] \in Events
      BY <1>1, <2>1, LogFacts, NodeFacts DEF ReadFrom
    <3> QED
      BY <1>1, <2>1, <3>1, SubSeqProperties DEF ReadFrom
  <2>3. reader.got \o rows \in Seq(Events)
    BY <2>1, <2>2, ConcatProperties
  <2>4. reader' = [reader EXCEPT !.at = "emitting", !.cursor = last,
                                 !.got = reader.got \o rows]
    BY <1>2 DEF Reads
  <2> HIDE DEF rows
  <2>5. reader' \in [at : {"off", "reading", "emitting", "live"},
                     after : Nat, cursor : Nat, got : Seq(Events)]
        /\ reader'.cursor = last /\ reader'.after = reader.after
    BY <1>1, <2>1, <2>3, <2>4 DEF LogTypeOK
  <2>6. UNCHANGED <<log, owner, wake>>
    BY <1>2 DEF Reads
  <2> QED
    BY <1>1, <2>1, <2>5, <2>6 DEF LogTypeOK
<1>3. ASSUME HandsOn \/ Woken
      PROVE  LogTypeOK(Events)'
  <2>1. UNCHANGED <<log, owner>> /\ wake' \in BOOLEAN
    BY <1>1, <1>3 DEF HandsOn, Woken, LogTypeOK
  <2>2. /\ reader' \in [at : {"off", "reading", "emitting", "live"},
                       after : Nat, cursor : Nat, got : Seq(Events)]
        /\ reader'.cursor = reader.cursor /\ reader'.after = reader.after
    BY <1>1, <1>3 DEF HandsOn, Woken, LogTypeOK
  <2> QED
    BY <1>1, <2>1, <2>2 DEF LogTypeOK
<1>4. ASSUME NEW after \in Starts \cap (0 .. Len(log[Home])), Subscribe(after)
      PROVE  LogTypeOK(Events)'
  <2>1. after \in Nat /\ after <= Len(log[Watched])
    BY <1>1
  <2>2. /\ reader' \in [at : {"off", "reading", "emitting", "live"},
                       after : Nat, cursor : Nat, got : Seq(Events)]
        /\ reader'.cursor = after /\ reader'.after = after
    BY <1>4, <2>1 DEF Subscribe
  <2> QED
    BY <1>1, <1>4, <2>1, <2>2 DEF Subscribe, LogTypeOK
<1>5. UNCHANGED <<log, owner>>
  BY DEF ReaderNext, Reads, HandsOn, Woken, Subscribe
<1> QED
  BY <1>2, <1>3, <1>4, <1>5 DEF ReaderNext

LEMMA ReadersInv ==
    ASSUME SyncInv, ReaderKeeps,
           ReaderNext \/ \E after \in Starts \cap (0 .. Len(log[Home])) : Subscribe(after)
    PROVE  SyncInv'
<1>1. UNCHANGED <<log, owner, unsent, stream, loop, warp, late>> /\ LogTypeOK(Events)'
  BY ReaderStep DEF SyncInv, ReaderKeeps
<1>2. LogsInv' /\ Grows
  BY <1>1, SameLogs DEF SyncInv, LogsInv, LateIsFenced
<1> QED
  BY <1>1, <1>2, RemotesKept, WarpsKept DEF SyncInv

-----------------------------------------------------------------------------
(* Remotes and home publish.                                               *)
LEMMA RemotePublishesStep ==
    ASSUME SyncInv, NEW r \in Remotes, NEW to \in Nodes \cup {None},
           RemotePublishes(r, NextEvent(r, to)), UNCHANGED <<stream, loop>>
    PROVE  LogsInv' /\ Grows /\ RemotesInv'
<1>1. r \in Nodes
  BY NodeFacts
<1>2. LogsInv' /\ Grows
  BY <1>1, PublishStep DEF SyncInv, RemotePublishes
<1>3. unsent \in [Remotes -> SUBSET Nat] /\ Len(log[r]) \in Nat
  BY <1>1, LogFacts DEF SyncInv, RemotesInv, LogsInv
<1>4. unsent' = [unsent EXCEPT ![r] = unsent[r] \cup {Len(log[r]) + 1}]
  BY DEF RemotePublishes
<1>5. unsent' \in [Remotes -> SUBSET Nat]
      /\ unsent'[r] = unsent[r] \cup {Len(log[r]) + 1}
      /\ \A s \in Remotes \ {r} : unsent'[s] = unsent[s]
  BY <1>3, <1>4
<1>6. Len(log'[r]) = Len(log[r]) + 1
  <2>1. Appends(r, NextEvent(r, to))
    BY DEF RemotePublishes, Publish
  <2> QED
    BY <1>1, <2>1, FreshIsGenuine, AppendFacts DEF SyncInv, LogsInv
<1>7. RemoteOK(r)'
  <2>1. unsent'[r] \subseteq 1 .. Len(log'[r])
    BY <1>1, <1>2, <1>3, <1>5, <1>6, LengthsGrow DEF SyncInv, RemotesInv, RemoteOK, Positions
  <2> QED
    BY <1>1, <1>2, <2>1, LengthsGrow DEF SyncInv, RemotesInv, RemoteOK, Positions
<1>8. \A s \in Remotes \ {r} : RemoteOK(s)'
  BY <1>2, <1>5, RemoteKept DEF SyncInv, RemotesInv
<1>9. RemotesInv'
  BY <1>5, <1>7, <1>8 DEF SyncInv, RemotesInv
<1> QED
  BY <1>2, <1>9

LEMMA WorkStep ==
    ASSUME SyncInv, HomeWorks \/ \E r \in Remotes : RemoteWorks(r)
    PROVE  SyncInv'
<1>1. CASE HomeWorks
  <2>1. LogsInv' /\ Grows
    BY <1>1, NodeFacts, PublishStep DEF SyncInv, HomeWorks
  <2> QED
    BY <1>1, <2>1, RemotesKept, WarpsKept DEF SyncInv, HomeWorks
<1>2. ASSUME NEW r \in Remotes, RemoteWorks(r)
      PROVE  SyncInv'
  <2>1. LogsInv' /\ Grows /\ RemotesInv'
    BY <1>2, RemotePublishesStep DEF RemoteWorks
  <2> QED
    BY <1>2, <2>1, WarpsKept DEF SyncInv, RemoteWorks
<1> QED
  BY <1>1, <1>2

LEMMA NotifyStep ==
    ASSUME SyncInv, NEW r \in Remotes, Notifies(r)
    PROVE  SyncInv'
<1>1. UNCHANGED <<log, owner, reader, wake, loop, warp, late>>
  BY DEF Notifies
<1>2. LogsInv' /\ Grows
  BY <1>1, NoLogStep DEF SyncInv
<1>3. PICK i \in unsent[r] :
        /\ unsent' = [unsent EXCEPT ![r] = unsent[r] \ {i}]
        /\ stream' = [s \in DOMAIN stream |->
                        IF s = r THEN Append(stream[s], i) ELSE stream[s]]
  BY DEF Notifies
<1>4. unsent \in [Remotes -> SUBSET Nat] /\ RemoteOK(r) /\ DOMAIN stream \subseteq Remotes
  BY DEF SyncInv, RemotesInv
<1>5. /\ unsent' \in [Remotes -> SUBSET Nat]
      /\ unsent'[r] = unsent[r] \ {i}
      /\ \A s \in Remotes \ {r} : unsent'[s] = unsent[s]
  BY <1>3, <1>4
<1>6. /\ DOMAIN stream' = DOMAIN stream
      /\ r \in DOMAIN stream => stream'[r] = Append(stream[r], i)
      /\ \A s \in DOMAIN stream \ {r} : stream'[s] = stream[s]
  BY <1>3
<1>7. i \in 1 .. Len(log[r]) /\ (r \in DOMAIN stream => stream[r] \in Seq(1 .. Len(log[r])))
  BY <1>4 DEF RemoteOK, Positions
<1>8. r \in DOMAIN stream => stream'[r] \in Seq(1 .. Len(log'[r]))
  BY <1>1, <1>6, <1>7
<1>9. RemoteOK(r)'
  BY <1>1, <1>4, <1>5, <1>6, <1>8 DEF RemoteOK, Positions
<1>10. \A s \in Remotes \ {r} : RemoteOK(s)'
  BY <1>1, <1>2, <1>5, <1>6, RemoteKept DEF SyncInv, RemotesInv
<1>11. RemotesInv'
  BY <1>1, <1>4, <1>5, <1>6, <1>9, <1>10 DEF SyncInv, RemotesInv
<1> QED
  BY <1>1, <1>2, <1>11, WarpsKept DEF SyncInv

-----------------------------------------------------------------------------
(* The loops.                                                              *)
LEMMA FenceIsNat ==
    ASSUME LogsInv, NEW r
    PROVE  Fence(r) \in Nat
BY LogFacts, NodeFacts DEF Fence, LogsInv

LEMMA HistoryIsSeq ==
    ASSUME LogsInv, NEW r \in Nodes, NEW fence \in Nat
    PROVE  History(r, fence) \in Seq(1 .. Len(log[r]))
<1>1. Len(log[r]) \in Nat
  BY LogFacts DEF LogsInv
<1>2. CASE Len(log[r]) <= fence
  <2>1. History(r, fence) = <<>>
    BY <1>1, <1>2 DEF History
  <2> QED
    BY <2>1
<1>3. CASE Len(log[r]) > fence
  <2>1. PICK m \in Nat : m = Len(log[r]) - fence
    BY <1>1, <1>3
  <2>2. History(r, fence) \in [1 .. m -> 1 .. Len(log[r])]
    BY <1>1, <2>1 DEF History
  <2> QED
    BY <2>2, SeqDef
<1> QED
  BY <1>1, <1>2, <1>3

LEMMA CopiedIsGenuine ==
    ASSUME LogsInv, NEW n \in Nodes, NEW i \in 1 .. Len(log[n])
    PROVE  /\ Genuine(log[n][i], i, log)
           /\ log[n][i] \in late => log[n][i].by = n
BY DEF LogsInv, Authentic, LateIsFenced

LEMMA HomeReplays ==
    ASSUME LogsInv, NEW r \in Remotes, NEW i \in 1 .. Len(log[r]),
           Replay(Home, log[r][i], i, r, FALSE), late' = late
    PROVE  LogsInv' /\ Grows
BY CopiedIsGenuine, ReplayStep, NodeFacts

LEMMA OpensOrCloses ==
    ASSUME LogsInv, LogsInv', Grows, RemotesInv, NEW r \in Remotes,
           stream' = stream \/ Opens(r) \/ stream' = Closes(r)
    PROVE  /\ DOMAIN stream' \subseteq Remotes
           /\ \A s \in Remotes \ {r} :
                 /\ s \in DOMAIN stream' <=> s \in DOMAIN stream
                 /\ s \in DOMAIN stream => stream'[s] = stream[s]
           /\ Opens(r) => r \in DOMAIN stream' /\ stream'[r] = <<>>
           /\ stream' = Closes(r) => r \notin DOMAIN stream'
           /\ stream' = stream =>
                 (r \in DOMAIN stream' => stream'[r] \in Seq(1 .. Len(log'[r])))
<1>1. DOMAIN stream \subseteq Remotes /\ r \in Nodes
  BY NodeFacts DEF RemotesInv
<1>2. stream' = stream =>
        (r \in DOMAIN stream' => stream'[r] \in Seq(1 .. Len(log'[r])))
  BY <1>1, LengthsGrow DEF RemotesInv, RemoteOK, Positions
<1>3. CASE stream' = stream
  BY <1>1, <1>2, <1>3 DEF Opens, Closes
<1>4. CASE Opens(r)
  BY <1>1, <1>2, <1>4 DEF Opens, Closes
<1>5. CASE stream' = Closes(r)
  BY <1>1, <1>2, <1>5 DEF Opens, Closes
<1> QED
  BY <1>3, <1>4, <1>5

(* The steps that leave the logs alone.                                    *)
LEMMA QuietLoopStep ==
    ASSUME SyncInv, NEW r \in Remotes,
           \/ Connects(r) \/ Asks(r) \/ IsAnswered(r)
           \/ EndsHistory(r) \/ Reconnects(r) \/ StartsSync(r)
    PROVE  SyncInv'
<1>1. UNCHANGED <<log, owner, reader, wake, unsent, warp, late>>
  BY DEF Connects, Asks, IsAnswered, EndsHistory, Reconnects, StartsSync
<1>2. LogsInv /\ RemotesInv /\ LogsInv' /\ Grows /\ WarpsInv'
  BY <1>1, NoLogStep, WarpsKept DEF SyncInv
<1>3. <<>> \in Seq(1 .. Len(log'[r])) /\ 0 \in Nat
  OBVIOUS
<1>4. loop[r] \in Loops /\ loop[r].fence \in Nat /\ loop[r].missed \in BOOLEAN
      /\ (r \in DOMAIN stream <=> loop[r].at \notin {"connecting", "dead"})
  BY <1>2 DEF RemotesInv, RemoteOK, Loops
<1>5. Len(log[r]) \in Nat /\ r \in Nodes
  BY <1>2, NodeFacts, LogFacts DEF LogsInv
<1>6. ASSUME NEW at \in {"connecting", "asking", "asked", "replaying", "streaming", "dead"},
             NEW fence \in Nat, NEW rest \in Seq(1 .. Len(log'[r])), NEW missed \in BOOLEAN,
             LoopGoes(r, at, fence, rest, missed),
             \/ stream' = stream /\ (r \in DOMAIN stream <=> at \notin {"connecting", "dead"})
             \/ Opens(r) /\ at \notin {"connecting", "dead"}
             \/ stream' = Closes(r) /\ at \in {"connecting", "dead"}
      PROVE  SyncInv'
  <2>1. stream' = stream \/ Opens(r) \/ stream' = Closes(r)
    BY <1>6
  <2>2. /\ DOMAIN stream' \subseteq Remotes
        /\ \A s \in Remotes \ {r} :
              /\ s \in DOMAIN stream' <=> s \in DOMAIN stream
              /\ s \in DOMAIN stream => stream'[s] = stream[s]
        /\ Opens(r) => r \in DOMAIN stream' /\ stream'[r] = <<>>
        /\ stream' = Closes(r) => r \notin DOMAIN stream'
        /\ stream' = stream =>
              (r \in DOMAIN stream' => stream'[r] \in Seq(1 .. Len(log'[r])))
    BY <1>2, <2>1, OpensOrCloses
  <2>3. /\ r \in DOMAIN stream' <=> at \notin {"connecting", "dead"}
        /\ r \in DOMAIN stream' => stream'[r] \in Seq(1 .. Len(log'[r]))
    BY <1>3, <1>6, <2>2
  <2>4. unsent' = unsent
    BY <1>1
  <2>5. RemotesInv'
    BY <1>2, <1>6, <2>2, <2>3, <2>4, LoopStep
  <2> QED
    BY <1>2, <2>5 DEF SyncInv
<1>7. CASE Connects(r)
  <2>1. Opens(r) /\ LoopGoes(r, "asking", 0, <<>>, FALSE)
    BY <1>7 DEF Connects
  <2> QED
    BY <1>3, <1>6, <2>1
<1>8. CASE Asks(r)
  <2>1. stream' = stream /\ LoopGoes(r, "asked", Fence(r), <<>>, FALSE) /\ Fence(r) \in Nat
        /\ r \in DOMAIN stream
    BY <1>2, <1>4, <1>8, FenceIsNat DEF Asks
  <2> QED
    BY <1>3, <1>6, <2>1
<1>9. CASE IsAnswered(r)
  <2>1. stream' = stream /\ LoopGoes(r, "replaying", Len(log[r]), History(r, loop[r].fence), FALSE)
        /\ r \in DOMAIN stream
    BY <1>2, <1>4, <1>9 DEF IsAnswered
  <2>2. History(r, loop[r].fence) \in Seq(1 .. Len(log'[r]))
    BY <1>1, <1>2, <1>4, <1>5, HistoryIsSeq
  <2> QED
    BY <1>5, <1>6, <2>1, <2>2
<1>10. CASE EndsHistory(r)
  <2>1. stream' = stream /\ LoopGoes(r, "streaming", loop[r].fence, <<>>, loop[r].missed)
        /\ r \in DOMAIN stream
    BY <1>2, <1>4, <1>10 DEF EndsHistory
  <2> QED
    BY <1>3, <1>4, <1>6, <2>1
<1>11. CASE Reconnects(r)
  <2>1. stream' = Closes(r) /\ LoopGoes(r, "connecting", 0, <<>>, FALSE)
    BY <1>11 DEF Reconnects
  <2> QED
    BY <1>3, <1>6, <2>1
<1>12. CASE StartsSync(r)
  <2>1. stream' = stream /\ LoopGoes(r, "connecting", 0, <<>>, FALSE)
        /\ r \notin DOMAIN stream
    BY <1>2, <1>4, <1>12 DEF StartsSync
  <2> QED
    BY <1>3, <1>6, <2>1
<1> QED
  BY <1>7, <1>8, <1>9, <1>10, <1>11, <1>12

LEMMA ReplaysHistoryStep ==
    ASSUME SyncInv, NEW r \in Remotes, ReplaysHistory(r)
    PROVE  SyncInv'
<1>1. LogsInv /\ RemotesInv /\ RemoteOK(r) /\ loop[r] \in Loops /\ r \in Nodes
  BY NodeFacts DEF SyncInv, RemotesInv
<1>2. PICK i : i = Head(loop[r].rest)
  OBVIOUS
<1>3. i \in 1 .. Len(log[r]) /\ Tail(loop[r].rest) \in Seq(1 .. Len(log[r]))
  BY <1>1, <1>2, HeadTailProperties DEF ReplaysHistory, RemoteOK, Positions
<1>4. PICK missed : missed = (loop[r].missed \/ Ignores(Home, log[r][i], i, r, FALSE))
  OBVIOUS
<1>5. /\ Replay(Home, log[r][i], i, r, FALSE) /\ UNCHANGED <<unsent, warp, late>>
      /\ missed \in BOOLEAN
      /\ \/ LoopGoes(r, "dead", 0, <<>>, missed) /\ stream' = Closes(r)
         \/ /\ LoopGoes(r, "replaying", loop[r].fence, Tail(loop[r].rest), missed)
            /\ stream' = stream
  BY <1>2, <1>4 DEF ReplaysHistory
<1>6. LogsInv' /\ Grows
  BY <1>1, <1>3, <1>5, HomeReplays
<1>7. r \in DOMAIN stream /\ loop[r].fence \in Nat
      /\ Tail(loop[r].rest) \in Seq(1 .. Len(log'[r]))
      /\ <<>> \in Seq(1 .. Len(log'[r]))
  <2>1. r \in DOMAIN stream
    BY <1>1 DEF ReplaysHistory, RemoteOK
  <2>2. loop[r].fence \in Nat
    BY <1>1 DEF Loops
  <2>3. Tail(loop[r].rest) \in Seq(1 .. Len(log'[r]))
    BY <1>1, <1>3, <1>6, LengthsGrow
  <2> QED
    BY <2>1, <2>2, <2>3
<1>8. CASE LoopGoes(r, "dead", 0, <<>>, missed) /\ stream' = Closes(r)
  <2>1. /\ DOMAIN stream' \subseteq Remotes /\ r \notin DOMAIN stream'
        /\ \A s \in Remotes \ {r} :
              /\ s \in DOMAIN stream' <=> s \in DOMAIN stream
              /\ s \in DOMAIN stream => stream'[s] = stream[s]
    BY <1>1, <1>6, <1>8, OpensOrCloses
  <2>2. LoopGoes(r, "dead", 0, <<>>, missed) /\ unsent' = unsent
        /\ 0 \in Nat /\ <<>> \in Seq(1 .. Len(log'[r]))
    BY <1>5, <1>8
  <2>3. RemotesInv'
    BY <1>1, <1>5, <1>6, <2>1, <2>2, LoopStep
  <2> QED
    BY <1>5, <1>6, <2>3, WarpsKept DEF SyncInv
<1>9. CASE /\ LoopGoes(r, "replaying", loop[r].fence, Tail(loop[r].rest), missed)
           /\ stream' = stream
  <2>1. /\ DOMAIN stream' \subseteq Remotes
        /\ r \in DOMAIN stream' => stream'[r] \in Seq(1 .. Len(log'[r]))
        /\ \A s \in Remotes \ {r} :
              /\ s \in DOMAIN stream' <=> s \in DOMAIN stream
              /\ s \in DOMAIN stream => stream'[s] = stream[s]
    BY <1>1, <1>6, <1>9, OpensOrCloses
  <2>2. unsent' = unsent
    BY <1>5
  <2>3. RemotesInv'
    BY <1>1, <1>5, <1>6, <1>7, <1>9, <2>1, <2>2, LoopStep
  <2> QED
    BY <1>5, <1>6, <2>3, WarpsKept DEF SyncInv
<1> QED
  BY <1>5, <1>8, <1>9

LEMMA ReplaysStreamStep ==
    ASSUME SyncInv, NEW r \in Remotes, ReplaysStream(r)
    PROVE  SyncInv'
<1>1. LogsInv /\ RemotesInv /\ RemoteOK(r) /\ r \in Nodes
  BY NodeFacts DEF SyncInv, RemotesInv
<1>2. PICK i : i = Head(stream[r])
  OBVIOUS
<1>3. r \in DOMAIN stream /\ stream[r] \in Seq(1 .. Len(log[r])) /\ stream[r] # <<>>
  BY <1>1 DEF ReplaysStream, RemoteOK, Positions
<1>4. i \in 1 .. Len(log[r]) /\ Tail(stream[r]) \in Seq(1 .. Len(log[r]))
  BY <1>2, <1>3, HeadTailProperties
<1>5. /\ Replay(Home, log[r][i], i, r, FALSE) /\ UNCHANGED <<unsent, loop, warp, late>>
      /\ stream' = [stream EXCEPT ![r] = Tail(stream[r])]
  BY <1>2 DEF ReplaysStream
<1>6. LogsInv' /\ Grows
  BY <1>1, <1>4, <1>5, HomeReplays
<1>7. /\ DOMAIN stream' = DOMAIN stream /\ stream'[r] = Tail(stream[r])
      /\ \A s \in DOMAIN stream \ {r} : stream'[s] = stream[s]
  BY <1>3, <1>5
<1>8. RemoteOK(r)'
  <2>1. stream'[r] \in Seq(1 .. Len(log'[r])) /\ loop'[r].rest \in Seq(1 .. Len(log'[r]))
        /\ unsent'[r] \subseteq 1 .. Len(log'[r])
    BY <1>1, <1>4, <1>5, <1>6, <1>7, LengthsGrow DEF RemoteOK, Positions
  <2> QED
    BY <1>1, <1>5, <1>7, <2>1 DEF RemoteOK, Positions
<1>9. \A s \in Remotes \ {r} : RemoteOK(s)'
  BY <1>1, <1>5, <1>6, <1>7, RemoteKept DEF RemotesInv
<1>10. RemotesInv'
  BY <1>1, <1>5, <1>7, <1>8, <1>9 DEF RemotesInv
<1> QED
  BY <1>5, <1>6, <1>10, WarpsKept DEF SyncInv

-----------------------------------------------------------------------------
(* sessionWarp.                                                            *)
LEMMA CallFields ==
    ASSUME NEW c \in Calls
    PROVE  /\ c.at \in {"off", "asking", "asked", "syncing", "claiming", "reading",
                       "sending", "stealing", "moving", "done", "failed"}
           /\ c.from \in Nodes \cup {None}
           /\ c.to \in Nodes \cup {None}
           /\ c.fence \in Nat
           /\ c.rest \in Seq(Nat)
           /\ c.rows \in Seq(Events)
BY DEF Calls

(* A call that goes on with what it holds.                                 *)
LEMMA CallGoesOn ==
    ASSUME LogsInv, LogsInv', Grows, NEW c, CallOK(c, log, late), NEW d,
           NEW at \in {"claiming", "reading", "failed"},
           c.at # "off", d = [c EXCEPT !.at = at]
    PROVE  CallOK(d, log', late')
<1>1. CallOK(c, log', late') /\ c \in Calls /\ c.to \in Nodes
  BY CallKept DEF CallOK
<1>2. d \in Calls /\ d.at = at /\ d.to = c.to /\ d.rows = c.rows
  BY <1>1 DEF Calls
<1> QED
  BY <1>1, <1>2 DEF CallOK

LEMMA WarpGoesOn ==
    ASSUME SyncInv, LogsInv', Grows, NEW w \in Warps, warp[w].at # "off",
           NEW at \in {"claiming", "reading", "failed"}, WarpGoes(w, at),
           UNCHANGED <<unsent, stream, loop>>
    PROVE  SyncInv'
<1>1. PICK c : c = [warp[w] EXCEPT !.at = at]
  OBVIOUS
<1>2. CallOK(c, log', late')
  BY <1>1, CallGoesOn DEF SyncInv, WarpsInv
<1>3. warp' = [warp EXCEPT ![w] = c]
  BY <1>1 DEF WarpGoes
<1>4. WarpsInv'
  BY <1>2, <1>3, WarpsStep DEF SyncInv
<1> QED
  BY <1>4, RemotesKept DEF SyncInv

LEMMA WarpBeginsStep ==
    ASSUME SyncInv, NEW w \in Warps, NEW to \in Nodes, WarpBegins(w, to)
    PROVE  SyncInv'
<1>1. UNCHANGED <<log, owner, reader, wake, late, unsent, stream, loop>>
  BY DEF WarpBegins, logVars, Others
<1>2. LogsInv' /\ Grows /\ RemotesInv'
  BY <1>1, NoLogStep, RemotesKept DEF SyncInv
<1>3. PICK from, c :
        /\ from \in Nodes
        /\ c = [NoWarp EXCEPT !.at = IF from = Home THEN "reading" ELSE "asking",
                              !.from = from, !.to = to]
        /\ warp' = [warp EXCEPT ![w] = c]
  BY DEF WarpBegins
<1>4. PICK at : at = (IF from = Home THEN "reading" ELSE "asking")
  OBVIOUS
<1>8. at \in {"reading", "asking"} /\ (at = "asking" => from # Home)
  BY <1>4
<1>9. PICK e : e = <<>>
  OBVIOUS
<1>10. e \in Seq(Nat) /\ e \in Seq(Events)
  BY <1>9
<1>11. c = [at |-> at, from |-> from, to |-> to, fence |-> 0, rest |-> e, rows |-> e]
  BY <1>3, <1>4, <1>9 DEF NoWarp
<1>12. c.at = at /\ c.from = from /\ c.to = to /\ c.rows = <<>>
  BY <1>9, <1>11
<1>13. c \in Calls
  BY <1>3, <1>8, <1>10, <1>11 DEF Calls
<1>5. CopyOK(<<>>, log', late')
  BY DEF CopyOK, Authentic
<1>6. from = Home \/ from \in Remotes
  BY <1>3, NodesAre
<1>7. CallOK(c, log', late')
  BY <1>3, <1>5, <1>6, <1>8, <1>12, <1>13 DEF CallOK
<1> QED
  BY <1>2, <1>3, <1>7, WarpsStep DEF SyncInv

LEMMA WarpAsksStep ==
    ASSUME SyncInv, NEW w \in Warps, WarpAsks(w)
    PROVE  SyncInv'
<1>1. UNCHANGED <<log, owner, reader, wake, late, unsent, stream, loop>>
  BY DEF WarpAsks, logVars, Others
<1>2. LogsInv' /\ Grows /\ RemotesInv'
  BY <1>1, NoLogStep, RemotesKept DEF SyncInv
<1>3. PICK b, f, c :
        /\ b = warp[w] /\ f = Fence(warp[w].from) /\ f \in Nat
        /\ c = [b EXCEPT !.at = "asked", !.fence = f]
  BY FenceIsNat DEF SyncInv
<1>4. CallOK(b, log', late') /\ b.at = "asking" /\ b \in Calls
  BY <1>2, <1>3, CallKept DEF SyncInv, WarpsInv, CallOK, WarpAsks
<1>5. c \in Calls /\ c.at = "asked" /\ c.from = b.from /\ c.to = b.to /\ c.rows = b.rows
  BY <1>3, <1>4 DEF Calls
<1>6. CallOK(c, log', late')
  BY <1>4, <1>5 DEF CallOK
<1>7. warp' = [warp EXCEPT ![w] = c]
  BY <1>3 DEF WarpAsks
<1> QED
  BY <1>2, <1>6, <1>7, WarpsStep DEF SyncInv

LEMMA WarpIsAnsweredStep ==
    ASSUME SyncInv, NEW w \in Warps, WarpIsAnswered(w)
    PROVE  SyncInv'
<1>1. UNCHANGED <<log, owner, reader, wake, late, unsent, stream, loop>>
  BY DEF WarpIsAnswered, logVars, Others
<1>2. LogsInv /\ LogsInv' /\ Grows /\ RemotesInv'
  BY <1>1, NoLogStep, RemotesKept DEF SyncInv
<1>3. CASE WarpGoes(w, "claiming")
  BY <1>1, <1>2, <1>3, WarpGoesOn DEF WarpIsAnswered
<1>4. CASE warp' = [warp EXCEPT ![w].at = "syncing",
                                ![w].rest = History(warp[w].from, warp[w].fence)]
  <2>1. PICK b, h, c : /\ b = warp[w] /\ h = History(b.from, b.fence)
                       /\ c = [b EXCEPT !.at = "syncing", !.rest = h]
    OBVIOUS
  <2>2. CallOK(b, log', late') /\ b.at = "asked" /\ b \in Calls /\ b.from \in Remotes
    BY <1>2, <2>1, CallKept DEF SyncInv, WarpsInv, CallOK, WarpIsAnswered
  <2>3. h \in Seq(1 .. Len(log'[b.from]))
    BY <1>1, <1>2, <2>1, <2>2, HistoryIsSeq, CallFields, NodeFacts
  <2>4. 1 .. Len(log'[b.from]) \subseteq Nat
    BY <1>1, <1>2, <2>2, LogFacts, NodeFacts DEF LogsInv
  <2>5. h \in Seq(Nat)
    BY <2>3, <2>4, SeqMonotonic
  <2>6. c \in Calls /\ c.at = "syncing" /\ c.from = b.from /\ c.to = b.to
        /\ c.rows = b.rows /\ c.rest = h
    BY <2>1, <2>2, <2>5 DEF Calls
  <2>7. CallOK(c, log', late')
    BY <2>2, <2>3, <2>6 DEF CallOK
  <2>8. warp' = [warp EXCEPT ![w] = c]
    BY <1>4, <2>1
  <2> QED
    BY <1>2, <2>7, <2>8, WarpsStep DEF SyncInv
<1> QED
  BY <1>3, <1>4 DEF WarpIsAnswered

LEMMA WarpSyncsStep ==
    ASSUME SyncInv, NEW w \in Warps, WarpSyncs(w)
    PROVE  SyncInv'
<1>1. UNCHANGED <<unsent, stream, loop, late>> /\ warp[w].at = "syncing"
  BY DEF WarpSyncs, Others
<1>2. LogsInv /\ WarpsInv
  BY DEF SyncInv
<1>3. CASE WarpGoes(w, "claiming") /\ UNCHANGED logVars
  <2>1. LogsInv' /\ Grows
    BY <1>1, <1>2, <1>3, NoLogStep DEF logVars
  <2> QED
    BY <1>1, <1>3, <2>1, WarpGoesOn
<1>4. ASSUME NEW b, NEW i, b = warp[w], i = Head(b.rest), b.rest # <<>>,
             Replay(Home, log[b.from][i], i, b.from, FALSE),
             \/ WarpGoes(w, "failed")
             \/ warp' = [warp EXCEPT ![w].rest = Tail(@)]
      PROVE  SyncInv'
  <2>1. /\ CallOK(b, log, late) /\ b.from \in Remotes /\ b \in Calls
        /\ b.rest \in Seq(1 .. Len(log[b.from])) /\ b.at = "syncing"
    BY <1>1, <1>2, <1>4 DEF WarpsInv, CallOK
  <2>2. i \in 1 .. Len(log[b.from]) /\ Tail(b.rest) \in Seq(1 .. Len(log[b.from]))
    BY <1>4, <2>1, HeadTailProperties
  <2>3. LogsInv' /\ Grows
    BY <1>1, <1>2, <1>4, <2>1, <2>2, HomeReplays
  <2>4. CASE WarpGoes(w, "failed")
    BY <1>1, <2>3, <2>4, WarpGoesOn
  <2>5. CASE warp' = [warp EXCEPT ![w].rest = Tail(@)]
    <3>1. PICK t, c : /\ t = Tail(b.rest) /\ c = [b EXCEPT !.rest = t]
                      /\ warp' = [warp EXCEPT ![w] = c]
      BY <1>4, <2>5
    <3>2. t \in Seq(1 .. Len(log'[b.from]))
      BY <1>2, <2>1, <2>2, <2>3, <3>1, LengthsGrow, NodeFacts
    <3>3. t \in Seq(Nat)
      BY <1>4, <2>1, <3>1, CallFields, HeadTailProperties
    <3>4. c \in Calls /\ c.at = "syncing" /\ c.from = b.from /\ c.to = b.to
          /\ c.rows = b.rows /\ c.rest = t
      BY <2>1, <3>1, <3>3 DEF Calls
    <3>5. CallOK(b, log', late')
      BY <1>2, <2>1, <2>3, CallKept
    <3>6. CallOK(c, log', late')
      BY <2>1, <3>2, <3>4, <3>5 DEF CallOK
    <3>7. WarpsInv'
      BY <1>2, <2>3, <3>1, <3>6, WarpsStep
    <3> QED
      BY <1>1, <2>3, <3>7, RemotesKept DEF SyncInv
  <2> QED
    BY <1>4, <2>4, <2>5
<1> QED
  BY <1>3, <1>4 DEF WarpSyncs

LEMMA WarpClaimsStep ==
    ASSUME SyncInv, NEW w \in Warps, WarpClaims(w)
    PROVE  SyncInv'
<1>1. warp[w].to \in Nodes /\ warp[w].at = "claiming"
  BY DEF SyncInv, WarpsInv, CallOK, WarpClaims
<1>2. LogsInv' /\ Grows
  BY <1>1, ClaimStep DEF SyncInv, WarpClaims
<1> QED
  BY <1>1, <1>2, WarpGoesOn DEF WarpClaims

(* What home reads is whole and holds nothing late.                        *)
LEMMA WarpReadsStep ==
    ASSUME SyncInv, NEW w \in Warps, WarpReads(w)
    PROVE  SyncInv'
<1>1. UNCHANGED <<log, owner, reader, wake, late, unsent, stream, loop>>
  BY DEF WarpReads, logVars, Others
<1>2. LogsInv /\ LogsInv' /\ Grows /\ RemotesInv'
  BY <1>1, NoLogStep, RemotesKept DEF SyncInv
<1>3. PICK b : b = warp[w]
  OBVIOUS
<1>4. CallOK(b, log', late') /\ b.at = "reading" /\ b \in Calls /\ b.to \in Nodes
  BY <1>2, <1>3, CallKept DEF SyncInv, WarpsInv, CallOK, WarpReads
<1>5. CASE b.to = Home
  <2>1. PICK c : c = [b EXCEPT !.at = "moving"]
    OBVIOUS
  <2>2. c \in Calls /\ c.at = "moving" /\ c.to = Home /\ c.rows = b.rows
    BY <1>4, <1>5, <2>1 DEF Calls
  <2>3. CallOK(c, log', late')
    BY <1>4, <2>2, NodeFacts DEF CallOK
  <2>4. warp' = [warp EXCEPT ![w] = c]
    BY <1>3, <1>5, <2>1 DEF WarpReads, WarpGoes
  <2> QED
    BY <1>2, <2>3, <2>4, WarpsStep DEF SyncInv
<1>6. CASE b.to # Home
  <2> PICK rows, rest : rows = log[Home] /\ rest = Batches(rows)
    OBVIOUS
  <2> PICK c : c = [b EXCEPT !.at = "sending", !.rows = rows, !.rest = rest]
    OBVIOUS
  <2>1. /\ rows = log[Home] /\ rest = Batches(rows)
        /\ c = [b EXCEPT !.at = "sending", !.rows = rows, !.rest = rest]
        /\ warp' = [warp EXCEPT ![w] = c]
    BY <1>3, <1>6 DEF WarpReads
  <2>2. rows \in Seq(Events) /\ Len(rows) \in Nat
    BY <1>2, <2>1, LogFacts, NodeFacts DEF LogsInv
  <2>3. rest \in Seq(Nat) /\ Len(rest) = Len(rows)
        /\ \A k \in 1 .. Len(rest) : rest[k] = k
    BY <2>1, <2>2 DEF Batches
  <2>4. CopyOK(rows, log', late')
    <3>1. Authentic(rows, log) /\ \A k \in 1 .. Len(rows) : rows[k] \in late => rows[k].by = Home
      BY <1>2, <2>1, NodeFacts DEF LogsInv, LateIsFenced
    <3>2. \A k \in 1 .. Len(rows) : rows[k] \notin late
      BY <1>2, <3>1, NodeFacts DEF LogsInv, LateIsFenced
    <3> QED
      BY <1>2, <2>2, <3>1, <3>2, CopyKept DEF CopyOK
  <2>5. c \in Calls /\ c.at = "sending" /\ c.to = b.to /\ c.rows = rows /\ c.rest = rest
    BY <1>4, <2>1, <2>2, <2>3 DEF Calls
  <2>6. b.to \in Remotes
    BY <1>4, <1>6, NodesAre
  <2>7. IsRestOf(c) /\ Sent(c, Len(c.rows) - Len(c.rest), log')
    <3> PICK m : m = Len(rows)
      OBVIOUS
    <3>1. m \in Nat /\ m - m = 0 /\ m <= m /\ 1 .. m - m = {}
          /\ \A k \in 1 .. m : k = m - m + k
      BY <2>2
    <3>2. Len(c.rows) = m /\ Len(c.rest) = m /\ \A k \in 1 .. m : c.rest[k] = k
      BY <2>3, <2>5, Zenon
    <3> QED
      BY <3>1, <3>2, Zenon DEF IsRestOf, Sent
  <2>8. CallOK(c, log', late')
    BY <1>4, <2>4, <2>5, <2>6, <2>7 DEF CallOK
  <2> QED
    BY <1>2, <2>1, <2>8, WarpsStep DEF SyncInv
<1> QED
  BY <1>5, <1>6

(* A strict replay that does not die leaves the event there.               *)
LEMMA StrictReplay ==
    ASSUME LogsInv, NEW n \in Nodes, NEW e \in Events, NEW i \in Nat \ {0},
           Replay(n, e, i, n, TRUE), ~Dies(n, e, i, n, TRUE)
    PROVE  i <= Len(log'[n]) /\ log'[n][i] = e
<1>1. LogTypeOK(Events) /\ Len(log[n]) \in Nat
  BY LogFacts DEF LogsInv
<1>2. ~Ignores(n, e, i, n, TRUE)
  BY DEF Ignores
<1>3. CASE Accepts(n, e, i, n, TRUE) /\ Appends(n, e)
  BY <1>1, <1>3, AppendFacts DEF Accepts, IsNext
<1>4. CASE Knows(n, e, i, n, TRUE) /\ UNCHANGED log
  BY <1>4 DEF Knows
<1>5. Accepts(n, e, i, n, TRUE) \/ Knows(n, e, i, n, TRUE)
  BY <1>2 DEF Dies
<1>6. CASE UNCHANGED logVars /\ (Ignores(n, e, i, n, TRUE) \/ Dies(n, e, i, n, TRUE))
  BY <1>2, <1>6
<1> QED
  BY <1>3, <1>4, <1>6 DEF Replay

LEMMA WarpSendsStep ==
    ASSUME SyncInv, NEW w \in Warps, WarpSends(w)
    PROVE  SyncInv'
<1>1. UNCHANGED <<unsent, stream, loop, late>>
  BY DEF WarpSends, Others
<1>2. LogsInv /\ WarpsInv
  BY DEF SyncInv
<1>3. PICK b, i, e : b = warp[w] /\ i = Head(b.rest) /\ e = b.rows[i]
  OBVIOUS
<1>4. /\ b.at = "sending" /\ b.rest # <<>>
      /\ Replay(b.to, e, i, b.to, TRUE)
      /\ IF Dies(b.to, e, i, b.to, TRUE)
         THEN WarpGoes(w, "failed")
         ELSE warp' = [warp EXCEPT ![w].rest = Tail(@)]
  BY <1>3 DEF WarpSends
<1>5. /\ CallOK(b, log, late) /\ b \in Calls /\ b.to \in Remotes /\ b.to \in Nodes
      /\ IsRestOf(b) /\ Sent(b, Len(b.rows) - Len(b.rest), log)
      /\ CopyOK(b.rows, log, late)
  BY <1>2, <1>3, <1>4, NodeFacts DEF WarpsInv, CallOK
<1>6. /\ b.rest \in Seq(Nat) /\ b.rows \in Seq(Events)
      /\ Len(b.rest) \in Nat \ {0} /\ Len(b.rows) \in Nat
  BY <1>4, <1>5, CallFields, EmptySeq, LenProperties
<1>12. PICK m, p : m = Len(b.rows) /\ p = Len(b.rest)
  OBVIOUS
<1>7. /\ m \in Nat /\ p \in Nat \ {0} /\ p <= m
      /\ \A k \in 1 .. p : b.rest[k] = m - p + k
      /\ i = m - p + 1 /\ i \in 1 .. m
  <2>1. i = b.rest[1]
    BY <1>3, <1>6
  <2>2. p <= m /\ \A k \in 1 .. p : b.rest[k] = m - p + k
    BY <1>5, <1>12, Zenon DEF IsRestOf
  <2>3. m \in Nat /\ p \in Nat \ {0}
    BY <1>6, <1>12
  <2>4. 1 \in 1 .. p
    BY <2>3
  <2>5. b.rest[1] = m - p + 1
    BY <2>2, <2>4, Zenon
  <2>6. m - p + 1 \in 1 .. m
    <3>1. p <= m
      BY <2>2, Zenon
    <3> QED
      BY <2>3, <3>1
  <2> QED
    BY <2>1, <2>2, <2>3, <2>5, <2>6, Zenon
<1>8. Genuine(e, i, log) /\ e \notin late /\ e \in Events /\ i \in Nat \ {0}
  <2>1. i \in 1 .. Len(b.rows)
    BY <1>7, <1>12, Zenon
  <2>2. Genuine(e, i, log) /\ e \notin late
    BY <1>3, <1>5, <2>1, Zenon DEF CopyOK, Authentic
  <2> QED
    BY <2>2 DEF Genuine
<1>9. LogsInv' /\ Grows
  BY <1>1, <1>2, <1>4, <1>5, <1>8, ReplayStep
<1>10. CASE Dies(b.to, e, i, b.to, TRUE)
  BY <1>1, <1>3, <1>4, <1>9, <1>10, WarpGoesOn
<1>11. CASE ~Dies(b.to, e, i, b.to, TRUE)
  <2>1. i <= Len(log'[b.to]) /\ log'[b.to][i] = e
    BY <1>2, <1>4, <1>5, <1>8, <1>11, StrictReplay, Zenon
  <2>2. PICK t, c : /\ t = Tail(b.rest) /\ c = [b EXCEPT !.rest = t]
                    /\ warp' = [warp EXCEPT ![w] = c]
    BY <1>3, <1>4, <1>11
  <2>3. /\ t \in Seq(Nat) /\ Len(t) = Len(b.rest) - 1
        /\ \A k \in 1 .. Len(t) : t[k] = b.rest[k + 1]
    BY <1>4, <1>6, <2>2, HeadTailProperties
  <2>4. c \in Calls /\ c.at = "sending" /\ c.to = b.to /\ c.rows = b.rows /\ c.rest = t
    BY <1>4, <1>5, <2>2, <2>3 DEF Calls
  <2>5. IsRestOf(c)
    <3>1. Len(t) = p - 1 /\ p - 1 <= m
      BY <1>7, <1>12, <2>3
    <3>2. ASSUME NEW k \in 1 .. p - 1
          PROVE  t[k] = m - (p - 1) + k
      <4>1. k + 1 \in 1 .. p
        BY <1>7
      <4>2. t[k] = b.rest[k + 1]
        BY <2>3, <3>1, Zenon
      <4>3. b.rest[k + 1] = m - p + (k + 1)
        BY <1>7, <4>1, Zenon
      <4>4. m - p + (k + 1) = m - (p - 1) + k
        <5>1. m \in Nat /\ p \in Nat
          BY <1>7, Zenon
        <5> QED
          BY <5>1
      <4> QED
        BY <4>2, <4>3, <4>4, Zenon
    <3> QED
      BY <1>12, <2>4, <3>1, <3>2, Zenon DEF IsRestOf
  <2>6. Sent(b, Len(b.rows) - Len(b.rest), log')
    BY <1>2, <1>5, <1>9, SentKept
  <2>7. Sent(c, Len(c.rows) - Len(c.rest), log')
    <3>1. Len(c.rows) = m /\ Len(c.rest) = p - 1 /\ m - (p - 1) = i
      BY <1>7, <1>12, <2>3, <2>4
    <3>2. Sent(b, m - p, log')
      BY <1>12, <2>6, Zenon
    <3>3. \A j \in 1 .. i : j \in 1 .. m - p \/ j = i
      BY <1>7
    <3>4. Sent(c, i, log')
      <4>1. c.to = b.to /\ c.rows = b.rows /\ b.rows[i] = e
        BY <1>3, <2>4
      <4> QED
        BY <2>1, <3>2, <3>3, <4>1, Zenon DEF Sent
    <3> QED
      BY <3>1, <3>4, Zenon
  <2>8. CopyOK(c.rows, log', late')
    BY <1>2, <1>5, <1>9, <2>4, CopyKept
  <2>9. CallOK(c, log', late')
    BY <1>5, <2>4, <2>5, <2>7, <2>8 DEF CallOK
  <2>10. WarpsInv'
    BY <1>2, <1>9, <2>2, <2>9, WarpsStep
  <2> QED
    BY <1>1, <1>9, <2>10, RemotesKept DEF SyncInv
<1> QED
  BY <1>10, <1>11

LEMMA WarpSentStep ==
    ASSUME SyncInv, NEW w \in Warps, WarpSent(w)
    PROVE  SyncInv'
<1>1. UNCHANGED <<log, owner, reader, wake, late, unsent, stream, loop>>
  BY DEF WarpSent, logVars, Others
<1>2. LogsInv' /\ Grows /\ RemotesInv'
  BY <1>1, NoLogStep, RemotesKept DEF SyncInv
<1>3. PICK b, c : b = warp[w] /\ c = [b EXCEPT !.at = "stealing"]
  OBVIOUS
<1>4. CallOK(b, log', late') /\ b.at = "sending" /\ b \in Calls /\ b.rest = <<>>
      /\ Len(b.rows) \in Nat
  BY <1>2, <1>3, CallKept, CallFields, LenProperties DEF SyncInv, WarpsInv, CallOK, WarpSent
<1>5. c \in Calls /\ c.at = "stealing" /\ c.to = b.to /\ c.rows = b.rows
  BY <1>3, <1>4 DEF Calls
<1>6. Sent(c, Len(c.rows), log')
  <2>1. Sent(b, Len(b.rows), log')
    BY <1>4 DEF CallOK
  <2> QED
    BY <1>5, <2>1 DEF Sent
<1>7. CallOK(c, log', late')
  BY <1>4, <1>5, <1>6 DEF CallOK
<1>8. warp' = [warp EXCEPT ![w] = c]
  BY <1>3 DEF WarpSent, WarpGoes
<1> QED
  BY <1>2, <1>7, <1>8, WarpsStep DEF SyncInv

(* After the steal, and after the move.                                    *)
LEMMA WarpEndsStep ==
    ASSUME SyncInv, NEW w \in Warps, WarpSteals(w) \/ WarpMoves(w)
    PROVE  SyncInv'
<1>1. PICK b, at, c : b = warp[w] /\ c = [b EXCEPT !.at = at]
                      /\ at = (IF WarpSteals(w) THEN "moving" ELSE "done")
  OBVIOUS
<1>2. /\ CallOK(b, log, late) /\ b \in Calls /\ b.to \in Nodes
      /\ b.at \in {"stealing", "moving"} /\ at \in {"moving", "done"}
      /\ (WarpSteals(w) => b.at = "stealing" /\ b.to \in Remotes)
      /\ warp' = [warp EXCEPT ![w] = c]
  BY <1>1 DEF SyncInv, WarpsInv, CallOK, WarpSteals, WarpMoves, WarpGoes
<1>3. LogsInv' /\ Grows /\ RemotesInv'
  <2>1. CASE WarpSteals(w)
    BY <1>1, <1>2, <2>1, RemotePublishesStep DEF WarpSteals
  <2>2. CASE WarpMoves(w)
    <3>1. LogsInv' /\ Grows
      BY <1>1, <1>2, <2>2, NodeFacts, PublishStep DEF SyncInv, WarpMoves, Others
    <3> QED
      BY <2>2, <3>1, RemotesKept DEF SyncInv, WarpMoves, Others
  <2> QED
    BY <2>1, <2>2
<1>4. c \in Calls /\ c.at = at /\ c.to = b.to /\ c.rows = b.rows
  BY <1>1, <1>2 DEF Calls
<1>5. CallOK(b, log', late')
  BY <1>2, <1>3, CallKept DEF SyncInv
<1>6. c.to # Home => Sent(c, Len(c.rows), log')
  <2>1. b.to # Home => Sent(b, Len(b.rows), log')
    BY <1>2, <1>5 DEF CallOK
  <2> QED
    BY <1>4, <2>1 DEF Sent
<1>7. CallOK(c, log', late')
  BY <1>2, <1>4, <1>5, <1>6 DEF CallOK
<1> QED
  BY <1>2, <1>3, <1>7, WarpsStep DEF SyncInv

LEMMA WarpFailsStep ==
    ASSUME SyncInv, NEW w \in Warps, WarpFails(w)
    PROVE  SyncInv'
<1>1. LogsInv' /\ Grows
  BY NoLogStep DEF SyncInv, WarpFails, Others, logVars
<1> QED
  BY <1>1, WarpGoesOn DEF WarpFails, Others

-----------------------------------------------------------------------------
LEMMA SyncStep ==
    ASSUME SyncInv, [SyncNext]_syncVars
    PROVE  SyncInv'
<1>1. CASE HomeWorks \/ \E r \in Remotes : RemoteWorks(r)
  BY <1>1, WorkStep
<1>2. CASE \E r \in Remotes : Notifies(r)
  BY <1>2, NotifyStep
<1>3. CASE \E r \in Remotes : LoopNext(r) \/ Reconnects(r) \/ StartsSync(r)
  BY <1>3, QuietLoopStep, ReplaysHistoryStep, ReplaysStreamStep DEF LoopNext
<1>4. CASE \E w \in Warps : WarpNext(w)
  BY <1>4, WarpAsksStep, WarpIsAnsweredStep, WarpSyncsStep, WarpClaimsStep,
     WarpReadsStep, WarpSendsStep, WarpSentStep, WarpEndsStep DEF WarpNext
<1>5. CASE \E w \in Warps : WarpFails(w) \/ \E to \in Nodes : WarpBegins(w, to)
  BY <1>5, WarpFailsStep, WarpBeginsStep
<1>6. CASE \/ ReaderNext /\ ReaderKeeps
           \/ \E after \in Starts \cap (0 .. Len(log[Home])) :
                 Subscribe(after) /\ ReaderKeeps
  BY <1>6, ReadersInv
<1>7. CASE UNCHANGED syncVars
  <2>1. UNCHANGED <<log, owner, reader, wake, late>> /\ UNCHANGED <<unsent, stream, loop>>
        /\ warp' = warp
    BY <1>7 DEF syncVars
  <2>2. LogsInv' /\ Grows
    BY <2>1, NoLogStep DEF SyncInv
  <2> QED
    BY <2>1, <2>2, RemotesKept, WarpsKept DEF SyncInv
<1> QED
  BY <1>1, <1>2, <1>3, <1>4, <1>5, <1>6, <1>7 DEF SyncNext

LEMMA SyncInvariance == SyncSpec => []SyncInv
<1>1. SyncInv /\ [SyncNext]_syncVars => SyncInv'
  BY SyncStep
<1> QED
  BY <1>1, InitInv, PTL DEF SyncSpec

(* A log and what it holds of another's, position by position.             *)
LEMMA PrefixByPosition ==
    ASSUME NEW S, NEW s \in Seq(S), NEW t \in Seq(S), Len(s) <= Len(t),
           \A i \in 1 .. Len(s) : s[i] = t[i]
    PROVE  IsPrefix(s, t)
<1>1. PICK m \in Nat, n \in Nat : m = Len(s) /\ n = Len(t)
  BY LenProperties
<1>2. m <= n /\ \A i \in 1 .. m : s[i] = t[i]
  BY <1>1
<1>3. \A i \in 1 .. m : s[i] \in S /\ t[i] \in S
  BY <1>1, <1>2, ElementOfSeq
<1>4. /\ SubSeq(s, 1, m) \in Seq(S) /\ SubSeq(t, 1, m) \in Seq(S)
      /\ Len(SubSeq(s, 1, m)) = Len(SubSeq(t, 1, m))
      /\ Len(SubSeq(s, 1, m)) = m
      /\ \A i \in 1 .. m : SubSeq(s, 1, m)[i] = s[i] /\ SubSeq(t, 1, m)[i] = t[i]
  BY <1>3, SubSeqProperties
<1>5. SubSeq(s, 1, m) = SubSeq(t, 1, m)
  BY <1>2, <1>4, SeqEqual
<1> QED
  BY <1>1, <1>2, <1>5 DEF IsPrefix

LEMMA InvIsTyped == SyncInv => SyncTypeOK
  BY DEF SyncInv, LogsInv, RemotesInv, WarpsInv, RemoteOK, SyncTypeOK

LEMMA InvIsOneHistory == SyncInv => OneHistory
<1> SUFFICES ASSUME SyncInv, NEW r \in Remotes, WrittenBy(r)
             PROVE  IsPrefix(log[Home], log[r])
  BY DEF OneHistory
<1>1. /\ log[Home] \in Seq(Events) /\ log[r] \in Seq(Events)
      /\ Len(log[Home]) \in Nat /\ Len(log[r]) \in Nat
  BY LogFacts, NodeFacts DEF SyncInv, LogsInv
<1>2. ASSUME NEW i \in 1 .. Len(log[Home])
      PROVE  i <= Len(log[r]) /\ log[Home][i] = log[r][i]
  <2>1. Genuine(log[Home][i], i, log)
    BY NodeFacts DEF SyncInv, LogsInv, Authentic
  <2>2. log[Home][i].by = r
    BY <1>1 DEF WrittenBy, ToSet
  <2> QED
    BY <2>1, <2>2 DEF Genuine
<1>3. Len(log[Home]) <= Len(log[r])
  <2>1. CASE Len(log[Home]) = 0
    BY <1>1, <2>1
  <2>2. CASE Len(log[Home]) # 0
    <3>1. Len(log[Home]) \in 1 .. Len(log[Home])
      BY <1>1, <2>2
    <3> QED
      BY <1>2, <3>1
  <2> QED
    BY <2>1, <2>2
<1> QED
  BY <1>1, <1>2, <1>3, PrefixByPosition

LEMMA InvIsFenced == SyncInv => FencedOut
<1> SUFFICES ASSUME SyncInv, NEW e \in late \cap ToSet(log[Home])
             PROVE  FALSE
  BY DEF FencedOut
<1>1. log[Home] \in Seq(Events) /\ DOMAIN log[Home] = 1 .. Len(log[Home])
  BY LogFacts, NodeFacts, LenProperties DEF SyncInv, LogsInv
<1>2. PICK i \in 1 .. Len(log[Home]) : log[Home][i] = e
  BY <1>1 DEF ToSet
<1> QED
  BY <1>2, NodeFacts DEF SyncInv, LogsInv, LateIsFenced

LEMMA InvIsStolenWhole == SyncInv => StolenWhole
<1> SUFFICES ASSUME SyncInv, NEW w \in Warps, NEW c, c = warp[w],
                    c.at \in {"stealing", "moving", "done"}, c.to # Home
             PROVE  IsPrefix(c.rows, log[c.to])
  BY DEF StolenWhole
<1>1. /\ c \in Calls /\ c.rows \in Seq(Events) /\ c.to \in Nodes
      /\ Sent(c, Len(c.rows), log)
  BY CallFields DEF SyncInv, WarpsInv, CallOK
<1>2. log[c.to] \in Seq(Events) /\ Len(log[c.to]) \in Nat /\ Len(c.rows) \in Nat
  BY <1>1, LogFacts, LenProperties DEF SyncInv, LogsInv
<1>3. \A j \in 1 .. Len(c.rows) : j <= Len(log[c.to]) /\ c.rows[j] = log[c.to][j]
  BY <1>1 DEF Sent
<1>4. Len(c.rows) <= Len(log[c.to])
  <2>1. CASE Len(c.rows) = 0
    BY <1>2, <2>1
  <2>2. CASE Len(c.rows) # 0
    <3>1. Len(c.rows) \in 1 .. Len(c.rows)
      BY <1>2, <2>2
    <3> QED
      BY <1>3, <3>1, Zenon
  <2> QED
    BY <2>1, <2>2
<1> QED
  BY <1>1, <1>2, <1>3, <1>4, PrefixByPosition

(* The types of the nodes', the loops' and the warps' state hold, and      *)
(* every position that is on its way is one its sender has.                *)
THEOREM SyncTypeCorrect == SyncSpec => []SyncTypeOK
BY SyncInvariance, InvIsTyped, PTL

(* Whatever history and stream repeat, reorder or drop, home holds a       *)
(* prefix of what the one workspace it mirrors has written.                *)
THEOREM HomeMirrors == SyncSpec => []OneHistory
BY SyncInvariance, InvIsOneHistory, PTL

(* "claim this session so any future events coming from the old workspace  *)
(* are ignored" (workspace.ts:588): they are, for any number of workspaces *)
(* and of warps at a time.                                                 *)
THEOREM LateStaysOut == SyncSpec => []FencedOut
BY SyncInvariance, InvIsFenced, PTL

(* A session is stolen with all the events home read of it.                *)
THEOREM StolenSessionsAreWhole == SyncSpec => []StolenWhole
BY SyncInvariance, InvIsStolenWhole, PTL

-----------------------------------------------------------------------------
(* The reader implements EventFeed: at most one event is appended to home  *)
(* in a step, and the reader has been given what lies between where it     *)
(* began and where it reads on.                                            *)
GotIsRead ==
    reader.got = IF reader.at = "off" THEN <<>>
                 ELSE SubSeq(log[Home], reader.after + 1, reader.cursor)

HomeAppends == \E e \in Events : log'[Home] = Append(log[Home], e)

LEMMA AppendsOrNot ==
    ASSUME LogsInv, LogsInv', NEW n, NEW e, Appends(n, e)
    PROVE  /\ UNCHANGED reader
           /\ log'[Home] = log[Home] \/ HomeAppends
<1>1. log' = [log EXCEPT ![n] = Append(log[n], e)] /\ UNCHANGED reader
  BY DEF Appends
<1>2. log \in [Nodes -> Seq(Events)] /\ log' \in [Nodes -> Seq(Events)] /\ Home \in Nodes
  BY NodeFacts DEF LogsInv, LogTypeOK
<1>3. CASE n # Home
  BY <1>1, <1>2, <1>3
<1>4. CASE n = Home
  <2>1. log'[Home] = Append(log[Home], e) /\ log'[Home] \in Seq(Events)
        /\ log[Home] \in Seq(Events)
    BY <1>1, <1>2, <1>4
  <2>2. PICK m \in Nat : m = Len(log[Home]) + 1
    BY <2>1, LenProperties
  <2>3. log'[Home][m] = e /\ m \in 1 .. Len(log'[Home])
    BY <2>1, <2>2
  <2>4. e \in Events
    BY <2>1, <2>3, ElementOfSeq
  <2> QED
    BY <1>1, <2>1, <2>4 DEF HomeAppends
<1> QED
  BY <1>1, <1>3, <1>4

LEMMA HomeGrowsOrIsRead ==
    ASSUME SyncInv, SyncInv', [SyncNext]_syncVars
    PROVE  \/ UNCHANGED reader /\ (log'[Home] = log[Home] \/ HomeAppends)
           \/ log' = log /\ ReaderNext
           \/ log' = log /\ \E after \in Starts \cap (0 .. Len(log[Home])) : Subscribe(after)
<1> USE DEF SyncInv
<1>1. ASSUME NEW n, NEW e, Publish(n, e)
      PROVE  UNCHANGED reader /\ (log'[Home] = log[Home] \/ HomeAppends)
  BY <1>1, AppendsOrNot DEF Publish
<1>2. ASSUME NEW n, NEW e, NEW i, NEW o, NEW strict, Replay(n, e, i, o, strict)
      PROVE  UNCHANGED reader /\ (log'[Home] = log[Home] \/ HomeAppends)
  BY <1>2, AppendsOrNot DEF Replay, logVars
<1>3. CASE HomeWorks \/ \E r \in Remotes : RemoteWorks(r)
  BY <1>1, <1>3 DEF HomeWorks, RemoteWorks, RemotePublishes
<1>4. CASE \E r \in Remotes : Notifies(r) \/ Reconnects(r) \/ StartsSync(r)
  BY <1>4 DEF Notifies, Reconnects, StartsSync
<1>5. ASSUME NEW r \in Remotes, LoopNext(r)
      PROVE  UNCHANGED reader /\ (log'[Home] = log[Home] \/ HomeAppends)
  <2>1. CASE ReplaysHistory(r) \/ ReplaysStream(r)
    BY <1>2, <2>1 DEF ReplaysHistory, ReplaysStream
  <2>2. CASE Connects(r) \/ Asks(r) \/ IsAnswered(r) \/ EndsHistory(r)
    BY <2>2 DEF Connects, Asks, IsAnswered, EndsHistory
  <2> QED
    BY <1>5, <2>1, <2>2 DEF LoopNext
<1>6. ASSUME NEW w \in Warps,
             WarpNext(w) \/ WarpFails(w) \/ \E to \in Nodes : WarpBegins(w, to)
      PROVE  UNCHANGED reader /\ (log'[Home] = log[Home] \/ HomeAppends)
  <2>1. CASE WarpSends(w) \/ WarpSyncs(w)
    BY <1>2, <2>1 DEF WarpSends, WarpSyncs, logVars
  <2>2. CASE WarpSteals(w) \/ WarpMoves(w)
    BY <1>1, <2>2 DEF WarpSteals, WarpMoves, RemotePublishes
  <2>3. CASE \/ WarpAsks(w) \/ WarpIsAnswered(w) \/ WarpClaims(w) \/ WarpReads(w)
             \/ WarpSent(w) \/ WarpFails(w) \/ \E to \in Nodes : WarpBegins(w, to)
    BY <2>3 DEF WarpAsks, WarpIsAnswered, WarpClaims, WarpReads, WarpSent, WarpFails,
                WarpBegins, logVars, Claim
  <2> QED
    BY <1>6, <2>1, <2>2, <2>3 DEF WarpNext
<1>7. CASE \/ ReaderNext /\ ReaderKeeps
           \/ \E after \in Starts \cap (0 .. Len(log[Home])) :
                 Subscribe(after) /\ ReaderKeeps
  BY <1>7 DEF ReaderNext, Reads, HandsOn, Woken, Subscribe
<1>8. CASE UNCHANGED syncVars
  BY <1>8 DEF syncVars
<1> QED
  BY <1>3, <1>4, <1>5, <1>6, <1>7, <1>8 DEF SyncNext

LEMMA SubSeqIsPrefix ==
    ASSUME NEW S, NEW s \in Seq(S), NEW m \in 1 .. Len(s) + 1,
           NEW k \in m - 1 .. Len(s), NEW n \in k .. Len(s)
    PROVE  /\ SubSeq(s, m, k) \in Seq(S) /\ SubSeq(s, m, n) \in Seq(S)
           /\ IsPrefix(SubSeq(s, m, k), SubSeq(s, m, n))
           /\ k # n => SubSeq(s, m, k) # SubSeq(s, m, n)
<1>1. Len(s) \in Nat /\ \A i \in m .. n : s[i] \in S
  BY LenProperties, ElementOfSeq
<1>2. \A i \in m .. k : s[i] \in S
  BY <1>1
<1>3. PICK p, q : p = SubSeq(s, m, k) /\ q = SubSeq(s, m, n)
  OBVIOUS
<1>4. /\ p \in Seq(S) /\ Len(p) = k - m + 1
      /\ \A i \in 1 .. k - m + 1 : p[i] = s[m + i - 1]
  BY <1>1, <1>2, <1>3, SubSeqProperties
<1>5. /\ q \in Seq(S) /\ Len(q) = n - m + 1
      /\ \A i \in 1 .. n - m + 1 : q[i] = s[m + i - 1]
  BY <1>1, <1>3, SubSeqProperties
<1>6. Len(p) <= Len(q) /\ \A i \in 1 .. Len(p) : p[i] = q[i]
  <2>1. k \in Int /\ n \in Int /\ m \in Int /\ k <= n
    BY <1>1
  <2>2. Len(p) <= Len(q)
    BY <1>4, <1>5, <2>1
  <2>3. ASSUME NEW i \in 1 .. Len(p)
        PROVE  p[i] = q[i]
    <3>1. i \in 1 .. k - m + 1
      BY <1>4, Zenon
    <3>2. i \in 1 .. n - m + 1
      BY <2>1, <3>1
    <3> QED
      BY <1>4, <1>5, <3>1, <3>2, Zenon
  <2> QED
    BY <2>2, <2>3
<1>7. IsPrefix(p, q)
  BY <1>4, <1>5, <1>6, PrefixByPosition
<1>8. k # n => p # q
  BY <1>1, <1>4, <1>5
<1> QED
  BY <1>3, <1>4, <1>5, <1>7, <1>8

LEMMA FeedStep ==
    ASSUME SyncInv, SyncInv', GotIsRead, [SyncNext]_syncVars
    PROVE  GotIsRead' /\ [Feed!FeedNext]_<<Wanted, reader.got>>
<1> USE DEF Feed!FeedNext, Feed!feedVars
<1>1. /\ log[Home] \in Seq(Events) /\ log'[Home] \in Seq(Events)
      /\ Len(log[Home]) \in Nat /\ Len(log'[Home]) \in Nat /\ Watched = Home
  <2>1. log[Home] \in Seq(Events) /\ log'[Home] \in Seq(Events)
    BY NodeFacts DEF SyncInv, LogsInv, LogTypeOK
  <2> QED
    BY <2>1, NodeFacts, LenProperties
<1>2. /\ reader.after \in Nat /\ reader.cursor \in Nat /\ reader.after <= reader.cursor
      /\ reader.cursor <= Len(log[Home]) /\ reader.got \in Seq(Events)
  BY <1>1 DEF SyncInv, LogsInv, LogTypeOK
<1>3. CASE UNCHANGED reader /\ log'[Home] = log[Home]
  <2>1. UNCHANGED <<Wanted, reader.got>>
    BY <1>1, <1>3 DEF Wanted
  <2> QED
    BY <1>3, <2>1 DEF GotIsRead
<1>4. CASE UNCHANGED reader /\ HomeAppends
  <2> PICK e \in Events : log'[Home] = Append(log[Home], e)
    BY <1>4 DEF HomeAppends
  <2>1. PICK s, t, a, c, m : /\ s = log[Home] /\ t = log'[Home] /\ m = Len(s)
                             /\ a = reader.after /\ c = reader.cursor
    OBVIOUS
  <2>2. /\ s \in Seq(Events) /\ t \in Seq(Events) /\ m \in Nat /\ Len(t) = m + 1
        /\ a \in Nat /\ c \in Nat /\ a <= c /\ c <= m
        /\ \A i \in 1 .. m : t[i] = s[i]
    BY <1>1, <1>2, <2>1
  <2>3. \A k \in a .. m : SubSeq(t, a + 1, k) = SubSeq(s, a + 1, k)
    <3> SUFFICES ASSUME NEW k \in a .. m
                 PROVE  SubSeq(t, a + 1, k) = SubSeq(s, a + 1, k)
      OBVIOUS
    <3>1. PICK p, q : p = SubSeq(t, a + 1, k) /\ q = SubSeq(s, a + 1, k)
      OBVIOUS
    <3>2. \A i \in a + 1 .. k : t[i] \in Events /\ s[i] \in Events /\ t[i] = s[i]
      BY <2>2, ElementOfSeq
    <3>3. /\ p \in Seq(Events) /\ Len(p) = k - a
          /\ \A i \in 1 .. k - a : p[i] = t[a + i]
      BY <2>2, <3>1, <3>2, SubSeqProperties
    <3>4. /\ q \in Seq(Events) /\ Len(q) = k - a
          /\ \A i \in 1 .. k - a : q[i] = s[a + i]
      BY <2>2, <3>1, <3>2, SubSeqProperties
    <3>5. \A i \in 1 .. k - a : p[i] = q[i]
      BY <2>2, <3>2, <3>3, <3>4
    <3> QED
      BY <3>1, <3>3, <3>4, <3>5, SeqEqual
  <2>4. GotIsRead'
    <3>1. SubSeq(t, a + 1, c) = SubSeq(s, a + 1, c)
      <4>1. c \in a .. m
        BY <2>2
      <4> QED
        BY <2>3, <4>1, Zenon
    <3>2. log'[Home] = t /\ reader'.after = a /\ reader'.cursor = c
          /\ reader'.at = reader.at /\ reader'.got = reader.got
      BY <1>4, <2>1, Zenon
    <3>3. reader.got = IF reader.at = "off" THEN <<>> ELSE SubSeq(s, a + 1, c)
      BY <2>1, Zenon DEF GotIsRead
    <3> QED
      BY <3>1, <3>2, <3>3, Zenon DEF GotIsRead
  <2>5. CASE reader.at = "off"
    BY <1>4, <2>4, <2>5 DEF Wanted
  <2>6. CASE reader.at # "off"
    <3>1. Wanted = SubSeq(s, a + 1, m) /\ Wanted' = SubSeq(t, a + 1, m + 1)
      BY <1>1, <1>4, <2>1, <2>2, <2>6 DEF Wanted
    <3>2. Wanted = SubSeq(t, a + 1, m)
      <4>1. m \in a .. m
        BY <2>2
      <4> QED
        BY <2>3, <3>1, <4>1, Zenon
    <3>3. IsStrictPrefix(SubSeq(t, a + 1, m), SubSeq(t, a + 1, m + 1))
      <4>1. a + 1 \in 1 .. Len(t) + 1 /\ m \in (a + 1) - 1 .. Len(t)
            /\ m + 1 \in m .. Len(t) /\ m # m + 1
        BY <2>2
      <4> QED
        BY <2>2, <4>1, SubSeqIsPrefix DEF IsStrictPrefix
    <3>4. Feed!Committed
      BY <1>4, <3>1, <3>2, <3>3 DEF Feed!Committed, Feed!IsStrictPrefix, Feed!IsPrefix,
         IsStrictPrefix, IsPrefix
    <3> QED
      BY <2>4, <3>4
  <2> QED
    BY <2>5, <2>6
<1>5. CASE log' = log /\ Reads
  <2>1. PICK s, a, c, m : /\ s = log[Home] /\ m = Len(s)
                          /\ a = reader.after /\ c = reader.cursor
    OBVIOUS
  <2>2. /\ s \in Seq(Events) /\ m \in Nat
        /\ a \in Nat /\ c \in Nat /\ a <= c /\ c <= m
    BY <1>1, <1>2, <2>1
  <2>3. reader.at = "reading" /\ reader.got = SubSeq(s, a + 1, c)
    BY <1>5, <2>1 DEF Reads, GotIsRead
  <2>4. SubSeq(s, a + 1, c) \o SubSeq(s, c + 1, m) = SubSeq(s, a + 1, m)
    <3>1. a + 1 \in 1 .. Len(s) + 1 /\ c \in (a + 1) - 1 .. Len(s) /\ m \in c .. Len(s)
      BY <2>1, <2>2
    <3> QED
      BY <2>2, <3>1, ConcatAdjacentSubSeq
  <2>5. reader' = [reader EXCEPT !.at = "emitting", !.cursor = m,
                                 !.got = reader.got \o SubSeq(s, c + 1, m)]
    BY <1>1, <1>5, <2>1 DEF Reads, ReadFrom
  <2>6. /\ reader'.at = "emitting" /\ reader'.cursor = m /\ reader'.after = a
        /\ reader'.got = SubSeq(s, a + 1, m)
    BY <2>1, <2>3, <2>4, <2>5 DEF SyncInv, LogsInv, LogTypeOK
  <2>7. GotIsRead'
    BY <1>5, <2>1, <2>6 DEF GotIsRead
  <2>8. Wanted = SubSeq(s, a + 1, m) /\ Wanted' = Wanted
    BY <1>1, <1>5, <2>1, <2>3, <2>6 DEF Wanted
  <2>9. IsPrefix(SubSeq(s, a + 1, c), SubSeq(s, a + 1, m))
        /\ IsPrefix(SubSeq(s, a + 1, m), SubSeq(s, a + 1, m))
        /\ (c # m => SubSeq(s, a + 1, c) # SubSeq(s, a + 1, m))
    <3>1. a + 1 \in 1 .. Len(s) + 1 /\ c \in (a + 1) - 1 .. Len(s)
          /\ m \in c .. Len(s) /\ m \in (a + 1) - 1 .. Len(s) /\ m \in m .. Len(s)
      BY <2>1, <2>2
    <3> QED
      BY <2>2, <3>1, SubSeqIsPrefix
  <2>10. CASE c = m
    BY <2>3, <2>6, <2>7, <2>8, <2>10
  <2>11. CASE c # m
    <3>1. Feed!Delivered
      BY <2>3, <2>6, <2>8, <2>9, <2>11 DEF Feed!Delivered, Feed!IsStrictPrefix,
         Feed!IsPrefix, IsStrictPrefix, IsPrefix
    <3> QED
      BY <2>7, <3>1
  <2> QED
    BY <2>10, <2>11
<1>6. CASE log' = log /\ (HandsOn \/ Woken)
  <2>1. /\ reader'.at # "off" /\ reader.at # "off" /\ reader'.got = reader.got
        /\ reader'.after = reader.after /\ reader'.cursor = reader.cursor
    BY <1>6 DEF HandsOn, Woken, SyncInv, LogsInv, LogTypeOK
  <2> QED
    BY <1>6, <2>1 DEF GotIsRead, Wanted
<1>7. ASSUME NEW after \in Starts \cap (0 .. Len(log[Home])), Subscribe(after), log' = log
      PROVE  GotIsRead' /\ [Feed!FeedNext]_<<Wanted, reader.got>>
  <2>1. PICK s, m : s = log[Home] /\ m = Len(s)
    OBVIOUS
  <2>2. /\ s \in Seq(Events) /\ m \in Nat /\ after \in 0 .. m
        /\ reader.at = "off" /\ reader' = [at |-> "reading", after |-> after,
                                         cursor |-> after, got |-> <<>>]
    BY <1>1, <1>7, <2>1 DEF Subscribe
  <2>3. SubSeq(s, after + 1, after) = <<>>
    BY <2>2, SubSeqEmpty
  <2>4. GotIsRead' /\ reader'.got = <<>> /\ reader.got = <<>>
    BY <1>7, <2>1, <2>2, <2>3 DEF GotIsRead
  <2>5. Wanted = <<>> /\ Wanted' = SubSeq(s, after + 1, m)
    BY <1>1, <1>7, <2>1, <2>2 DEF Wanted
  <2>6. IsPrefix(<<>>, SubSeq(s, after + 1, m))
    <3>1. after + 1 \in 1 .. Len(s) + 1 /\ after \in (after + 1) - 1 .. Len(s)
          /\ m \in after .. Len(s)
      BY <2>1, <2>2
    <3>2. IsPrefix(SubSeq(s, after + 1, after), SubSeq(s, after + 1, m))
      BY <2>2, <3>1, SubSeqIsPrefix
    <3> QED
      BY <2>3, <3>2
  <2>7. CASE Wanted' = <<>>
    BY <2>4, <2>5, <2>7
  <2>8. CASE Wanted' # <<>>
    BY <2>4, <2>5, <2>6, <2>8 DEF Feed!Committed, Feed!IsStrictPrefix, Feed!IsPrefix,
       IsStrictPrefix, IsPrefix
  <2> QED
    BY <2>7, <2>8
<1> QED
  BY <1>3, <1>4, <1>5, <1>6, <1>7, HomeGrowsOrIsRead DEF ReaderNext

(* For each subscription the reader is given the events of home's log from *)
(* where it asked, in order, none left out and none twice, though they are *)
(* committed while it reads: the safety part of ReaderFollows.             *)
THEOREM ReaderIsAFeed == SyncSpec => Feed!FeedSafety
<1>1. SyncInit => GotIsRead /\ Feed!FeedInit
  BY DEF SyncInit, LogInit, GotIsRead, Feed!FeedInit
<1>2. SyncInv /\ SyncInv' /\ GotIsRead /\ [SyncNext]_syncVars
      => GotIsRead' /\ [Feed!FeedNext]_<<Wanted, reader.got>>
  BY FeedStep
<1> QED
  BY <1>1, <1>2, SyncInvariance, PTL DEF SyncSpec, Feed!FeedSafety, Feed!feedVars

-----------------------------------------------------------------------------
(* What home has of the history a loop asked for.  The loop is behind the  *)
(* fence by what is left to replay, unless home ignored a part of it; so a *)
(* position home has not reached is the next one, and one that is refused  *)
(* is one where home has another event.                                    *)
Diverged(h, s) == \E i \in 1 .. Len(h) : i <= Len(s) /\ h[i] # s[i]

AnswerOK(c, s) ==
    /\ c.fence <= Len(s)
    /\ Len(c.rest) <= c.fence
    /\ \A k \in 1 .. Len(c.rest) : c.rest[k] = c.fence - Len(c.rest) + k

HistoryOK(c, h, s) ==
    /\ c.at = "asked" => c.fence <= Len(h)
    /\ c.at = "replaying" =>
          AnswerOK(c, s) /\ (c.missed \/ c.fence - Len(c.rest) <= Len(h))
    /\ c.at = "streaming" => c.missed \/ c.fence <= Len(h)
    /\ c.at = "dead" => c.missed \/ Diverged(h, s)

HistoryInv == \A r \in Remotes : HistoryOK(loop[r], log[Home], log[r])

LEMMA AppendExtends ==
    ASSUME LogsInv, LogsInv', NEW n, NEW e, Appends(n, e)
    PROVE  Extends(log, log')
<1> SUFFICES ASSUME NEW m \in Nodes
             PROVE  /\ Len(log[m]) <= Len(log'[m])
                    /\ \A i \in 1 .. Len(log[m]) : log'[m][i] = log[m][i]
  BY DEF Extends
<1>1. /\ log \in [Nodes -> Seq(Events)]
      /\ log' = [log EXCEPT ![n] = Append(log[n], e)]
      /\ log[m] \in Seq(Events) /\ log'[m] \in Seq(Events)
  BY DEF LogsInv, LogTypeOK, Appends
<1>2. Len(log[m]) \in Nat
  BY <1>1, LenProperties
<1>3. CASE m = n
  <2>1. log'[m] = Append(log[m], e)
    BY <1>1, <1>3
  <2>2. /\ Len(Append(log[m], e)) = Len(log[m]) + 1
        /\ \A i \in 1 .. Len(log[m]) : Append(log[m], e)[i] = log[m][i]
    BY <1>1
  <2> QED
    BY <1>2, <2>1, <2>2
<1>4. CASE m # n
  <2>1. log'[m] = log[m]
    BY <1>1, <1>4
  <2> QED
    BY <1>2, <2>1
<1> QED
  BY <1>3, <1>4

LEMMA LogsExtend ==
    ASSUME SyncInv, SyncInv', [SyncNext]_syncVars
    PROVE  Extends(log, log')
<1> USE DEF SyncInv
<1>1. ASSUME log' = log
      PROVE  Extends(log, log')
  <2>1. \A n \in Nodes : Len(log[n]) \in Nat
    BY LogFacts DEF LogsInv
  <2> QED
    BY <1>1, <2>1 DEF Extends
<1>2. ASSUME NEW n, NEW e, Publish(n, e)
      PROVE  Extends(log, log')
  BY <1>2, AppendExtends DEF Publish
<1>3. ASSUME NEW n, NEW e, NEW i, NEW o, NEW strict, Replay(n, e, i, o, strict)
      PROVE  Extends(log, log')
  BY <1>1, <1>3, AppendExtends DEF Replay, logVars
<1>4. CASE HomeWorks \/ \E r \in Remotes : RemoteWorks(r)
  BY <1>2, <1>4 DEF HomeWorks, RemoteWorks, RemotePublishes
<1>5. CASE \E r \in Remotes : Notifies(r) \/ Reconnects(r) \/ StartsSync(r)
  BY <1>1, <1>5 DEF Notifies, Reconnects, StartsSync
<1>6. ASSUME NEW r \in Remotes, LoopNext(r)
      PROVE  Extends(log, log')
  <2>1. CASE ReplaysHistory(r) \/ ReplaysStream(r)
    BY <1>3, <2>1 DEF ReplaysHistory, ReplaysStream
  <2>2. CASE Connects(r) \/ Asks(r) \/ IsAnswered(r) \/ EndsHistory(r)
    BY <1>1, <2>2 DEF Connects, Asks, IsAnswered, EndsHistory
  <2> QED
    BY <1>6, <2>1, <2>2 DEF LoopNext
<1>7. ASSUME NEW w \in Warps,
             WarpNext(w) \/ WarpFails(w) \/ \E to \in Nodes : WarpBegins(w, to)
      PROVE  Extends(log, log')
  <2>1. CASE WarpSends(w) \/ WarpSyncs(w)
    BY <1>1, <1>3, <2>1 DEF WarpSends, WarpSyncs, logVars
  <2>2. CASE WarpSteals(w) \/ WarpMoves(w)
    BY <1>2, <2>2 DEF WarpSteals, WarpMoves, RemotePublishes
  <2>3. CASE \/ WarpAsks(w) \/ WarpIsAnswered(w) \/ WarpClaims(w) \/ WarpReads(w)
             \/ WarpSent(w) \/ WarpFails(w) \/ \E to \in Nodes : WarpBegins(w, to)
    BY <1>1, <2>3 DEF WarpAsks, WarpIsAnswered, WarpClaims, WarpReads, WarpSent,
       WarpFails, WarpBegins, logVars, Claim
  <2> QED
    BY <1>7, <2>1, <2>2, <2>3 DEF WarpNext
<1>8. CASE \/ ReaderNext /\ ReaderKeeps
           \/ \E after \in Starts \cap (0 .. Len(log[Home])) :
                 Subscribe(after) /\ ReaderKeeps
  BY <1>1, <1>8 DEF ReaderNext, Reads, HandsOn, Woken, Subscribe
<1>9. CASE UNCHANGED syncVars
  BY <1>1, <1>9 DEF syncVars
<1> QED
  BY <1>4, <1>5, <1>6, <1>7, <1>8, <1>9 DEF SyncNext

(* What holds of a loop goes on to hold while the logs grow.               *)
LEMMA HistoryKept ==
    ASSUME LogsInv, LogsInv', Extends(log, log'), NEW r \in Remotes, NEW c \in Loops,
           HistoryOK(c, log[Home], log[r])
    PROVE  HistoryOK(c, log'[Home], log'[r])
<1>1. Home \in Nodes /\ r \in Nodes
  BY NodeFacts
<1>2. /\ Len(log[Home]) \in Nat /\ Len(log'[Home]) \in Nat
      /\ Len(log[r]) \in Nat /\ Len(log'[r]) \in Nat
  <2>1. \A n \in Nodes : log[n] \in Seq(Events) /\ log'[n] \in Seq(Events)
    BY DEF LogsInv, LogTypeOK
  <2> QED
    BY <1>1, <2>1, LenProperties
<1>3. /\ Len(log[Home]) <= Len(log'[Home])
      /\ Len(log[r]) <= Len(log'[r])
      /\ \A i \in 1 .. Len(log[Home]) : log'[Home][i] = log[Home][i]
      /\ \A i \in 1 .. Len(log[r]) : log'[r][i] = log[r][i]
  BY <1>1 DEF Extends
<1>4. c.fence \in Nat /\ Len(c.rest) \in Nat
  <2>1. c.fence \in Nat /\ c.rest \in Seq(Nat)
    BY DEF Loops
  <2> QED
    BY <2>1, LenProperties
<1>5. c.fence <= Len(log[Home]) => c.fence <= Len(log'[Home])
  BY <1>2, <1>3, <1>4
<1>6. c.fence - Len(c.rest) <= Len(log[Home]) => c.fence - Len(c.rest) <= Len(log'[Home])
  BY <1>2, <1>3, <1>4
<1>7. AnswerOK(c, log[r]) => AnswerOK(c, log'[r])
  BY <1>2, <1>3, <1>4 DEF AnswerOK
<1>8. Diverged(log[Home], log[r]) => Diverged(log'[Home], log'[r])
  BY <1>2, <1>3 DEF Diverged
<1> QED
  BY <1>5, <1>6, <1>7, <1>8 DEF HistoryOK

LEMMA LoopGoesTo ==
    ASSUME SyncInv, NEW r \in Remotes, NEW at, NEW fence, NEW rest, NEW missed,
           LoopGoes(r, at, fence, rest, missed)
    PROVE  /\ loop'[r] = [at |-> at, fence |-> fence, rest |-> rest, missed |-> missed]
           /\ \A s \in Remotes \ {r} : loop'[s] = loop[s]
BY DEF LoopGoes, SyncInv, RemotesInv

(* The request is sent and answered: the answer begins after the fence.    *)
LEMMA AskedHistory ==
    ASSUME SyncInv, NEW r \in Remotes, HistoryOK(loop[r], log[Home], log[r]),
           Asks(r) \/ IsAnswered(r)
    PROVE  HistoryOK(loop'[r], log'[Home], log'[r])
<1>1. Home \in Nodes /\ r \in Nodes
  BY NodeFacts
<1>2. Len(log[Home]) \in Nat /\ Len(log[r]) \in Nat
  BY <1>1, LogFacts DEF SyncInv, LogsInv
<1>3. loop \in [Remotes -> Loops]
  BY DEF SyncInv, RemotesInv
<1>4. CASE Asks(r)
  <2>1. loop'[r] = [at |-> "asked", fence |-> Fence(r), rest |-> <<>>, missed |-> FALSE]
        /\ log' = log
    <3>1. loop' = [loop EXCEPT ![r] = [at |-> "asked", fence |-> Fence(r), rest |-> <<>>,
                                       missed |-> FALSE]]
      BY <1>4 DEF Asks, LoopGoes
    <3> QED
      BY <1>3, <1>4, <3>1 DEF Asks
  <2>2. Fence(r) <= Len(log[Home])
    BY <1>2 DEF Fence
  <2> QED
    BY <2>1, <2>2 DEF HistoryOK
<1>5. CASE IsAnswered(r)
  <2>1. PICK f, n, h : f = loop[r].fence /\ n = Len(log[r]) /\ h = History(r, f)
    OBVIOUS
  <2>2. /\ loop'[r] = [at |-> "replaying", fence |-> n, rest |-> h, missed |-> FALSE]
        /\ log' = log
    <3>1. loop' = [loop EXCEPT ![r] = [at |-> "replaying", fence |-> n, rest |-> h,
                                       missed |-> FALSE]]
      BY <1>5, <2>1 DEF IsAnswered, LoopGoes
    <3> QED
      BY <1>3, <1>5, <3>1 DEF IsAnswered
  <2>3. f \in Nat /\ f <= Len(log[Home]) /\ n \in Nat
    BY <1>2, <1>5, <2>1 DEF IsAnswered, HistoryOK, SyncInv, RemotesInv, Loops
  <2>4. h \in Seq(1 .. n)
    BY <1>1, <2>1, <2>3, HistoryIsSeq DEF SyncInv
  <2>5. h = [k \in 1 .. n - f |-> f + k]
    BY <2>1 DEF History
  <2>6. DOMAIN h = 1 .. Len(h) /\ Len(h) \in Nat
    BY <2>4, LenProperties
  <2>7. PICK d : d = loop'[r]
    OBVIOUS
  <2>8. /\ d.at = "replaying" /\ d.fence = n /\ d.rest = h
        /\ Len(log'[r]) = n /\ log'[Home] = log[Home]
    BY <2>1, <2>2, <2>7
  <2>9. CASE n <= f
    <3>1. Len(h) = 0
      <4>1. 1 .. n - f = {}
        BY <2>3, <2>9
      <4>2. 1 .. Len(h) = {}
        BY <2>5, <2>6, <4>1
      <4> QED
        BY <2>6, <4>2
    <3>2. n - Len(h) <= Len(log[Home]) /\ 1 .. Len(h) = {} /\ Len(h) <= n
      BY <1>2, <2>3, <2>9, <3>1
    <3>3. AnswerOK(d, log'[r])
      BY <2>3, <2>8, <3>2 DEF AnswerOK
    <3> QED
      BY <2>7, <2>8, <3>2, <3>3 DEF HistoryOK
  <2>10. CASE n > f
    <3>1. Len(h) = n - f
      <4>1. PICK m \in Nat : m = n - f
        BY <2>3, <2>10
      <4>2. DOMAIN h = 1 .. m
        BY <2>5, <4>1
      <4>3. Len(h) = m
        BY <2>6, <4>1, <4>2
      <4> QED
        BY <4>1, <4>3
    <3>2. n - Len(h) = f /\ Len(h) <= n
      BY <2>3, <2>10, <3>1
    <3>3. \A k \in 1 .. Len(h) : h[k] = n - Len(h) + k
      BY <2>5, <3>1, <3>2
    <3>4. AnswerOK(d, log'[r])
      BY <2>3, <2>8, <3>2, <3>3 DEF AnswerOK
    <3> QED
      BY <2>3, <2>7, <2>8, <3>2, <3>4 DEF HistoryOK
  <2> QED
    BY <2>3, <2>9, <2>10
<1> QED
  BY <1>4, <1>5

(* An event of the history that is refused contradicts home's.             *)
LEMMA RefusedDiverges ==
    ASSUME SyncInv, NEW r \in Remotes, NEW i \in 1 .. Len(log[r]),
           i <= Len(log[Home]) + 1, Dies(Home, log[r][i], i, r, FALSE)
    PROVE  Diverged(log[Home], log[r])
<1>1. Home \in Nodes /\ r \in Nodes
  BY NodeFacts
<1>2. Len(log[Home]) \in Nat /\ Len(log[r]) \in Nat /\ i \in Nat
  BY <1>1, LogFacts DEF SyncInv, LogsInv
<1>3. CASE i <= Len(log[Home])
  <2>1. log[Home][i] # log[r][i]
    BY <1>3 DEF Dies, Knows, Refused
  <2> QED
    BY <1>2, <1>3, <2>1 DEF Diverged
<1>4. CASE i = Len(log[Home]) + 1
  <2>1. i > Len(log[Home])
    BY <1>2, <1>4
  <2>2. log[r][i] \in ToSet(log[Home])
    BY <1>4, <2>1 DEF Dies, Accepts, Ignores, IsNext
  <2>3. PICK j \in 1 .. Len(log[Home]) : log[Home][j] = log[r][i]
    <3>1. log[Home] \in Seq(Events)
      BY <1>1 DEF SyncInv, LogsInv, LogTypeOK
    <3>2. DOMAIN log[Home] = 1 .. Len(log[Home])
      BY <3>1, LenProperties
    <3> QED
      BY <2>2, <3>2 DEF ToSet
  <2>4. log[r][i].n = i /\ log[Home][j].n = j
    BY <1>1, CopiedIsGenuine DEF SyncInv, Genuine
  <2> QED
    BY <1>2, <2>1, <2>3, <2>4
<1> QED
  BY <1>2, <1>3, <1>4

LEMMA HeadAndTail ==
    ASSUME NEW S, NEW s \in Seq(S), s # <<>>
    PROVE  /\ Head(s) \in S /\ Head(s) = s[1] /\ Len(s) \in Nat \ {0}
           /\ Tail(s) \in Seq(S)
           /\ Len(Tail(s)) = Len(s) - 1
           /\ \A k \in 1 .. Len(s) - 1 : Tail(s)[k] = s[k + 1]
<1>1. Len(s) \in Nat \ {0}
  BY LenProperties, EmptySeq
<1> QED
  BY <1>1, HeadTailProperties

LEMMA ReplayedHistory ==
    ASSUME SyncInv, SyncInv', Extends(log, log'), NEW r \in Remotes,
           HistoryOK(loop[r], log[Home], log[r]), ReplaysHistory(r)
    PROVE  HistoryOK(loop'[r], log'[Home], log'[r])
<1>1. Home \in Nodes /\ r \in Nodes
  BY NodeFacts
<1>2. PICK c, i, f, q, t, m : /\ c = loop[r] /\ i = Head(c.rest) /\ f = c.fence
                              /\ q = Len(c.rest) /\ t = Tail(c.rest)
                              /\ m = (c.missed \/ Ignores(Home, log[r][i], i, r, FALSE))
  OBVIOUS
<1>3. c \in Loops /\ c.rest \in Seq(1 .. Len(log[r])) /\ c.rest # <<>> /\ f \in Nat
  BY <1>2 DEF SyncInv, RemotesInv, RemoteOK, Positions, Loops, ReplaysHistory
<1>4. /\ i \in 1 .. Len(log[r]) /\ i = c.rest[1] /\ q \in Nat \ {0}
      /\ t \in Seq(1 .. Len(log[r]))
      /\ Len(t) = q - 1
      /\ \A k \in 1 .. q - 1 : t[k] = c.rest[k + 1]
  <2>1. i = Head(c.rest) /\ q = Len(c.rest) /\ t = Tail(c.rest)
    BY <1>2
  <2> QED
    BY <1>3, <2>1, HeadAndTail
<1>5. AnswerOK(c, log[r]) /\ (c.missed \/ f - q <= Len(log[Home]))
  BY <1>2 DEF HistoryOK, ReplaysHistory
<1>6. f <= Len(log[r]) /\ q <= f /\ \A k \in 1 .. q : c.rest[k] = f - q + k
  BY <1>2, <1>5 DEF AnswerOK
<1>7. i = f - q + 1
  BY <1>4, <1>6
<1>8. /\ Len(log[Home]) \in Nat /\ Len(log'[Home]) \in Nat
      /\ Len(log[r]) \in Nat /\ Len(log'[r]) \in Nat
  <2>1. \A n \in Nodes : log[n] \in Seq(Events) /\ log'[n] \in Seq(Events)
    BY DEF SyncInv, LogsInv, LogTypeOK
  <2> QED
    BY <1>1, <2>1, LenProperties
<1>9. /\ Len(log[Home]) <= Len(log'[Home]) /\ Len(log[r]) <= Len(log'[r])
  BY <1>1 DEF Extends
<1>10. CASE Dies(Home, log[r][i], i, r, FALSE)
  <2>1. loop'[r] = [at |-> "dead", fence |-> 0, rest |-> <<>>, missed |-> m]
        /\ UNCHANGED log
    <3>1. LoopGoes(r, "dead", 0, <<>>, m)
      BY <1>2, <1>10 DEF ReplaysHistory
    <3>2. Replay(Home, log[r][i], i, r, FALSE)
      BY <1>2 DEF ReplaysHistory
    <3>3. log' = log
      BY <1>10, <3>2 DEF Replay, Dies, logVars
    <3> QED
      BY <3>1, <3>3, LoopGoesTo
  <2>2. CASE c.missed
    <3>1. m
      BY <1>2, <2>2
    <3>2. loop'[r].at = "dead" /\ loop'[r].missed = m
      BY <2>1
    <3> QED
      BY <3>1, <3>2 DEF HistoryOK
  <2>3. CASE ~c.missed
    <3>1. i <= Len(log[Home]) + 1
      BY <1>3, <1>4, <1>5, <1>7, <1>8, <2>3
    <3>2. Diverged(log[Home], log[r])
      BY <1>4, <1>10, <3>1, RefusedDiverges
    <3> QED
      BY <2>1, <3>2 DEF HistoryOK
  <2> QED
    BY <2>2, <2>3
<1>11. CASE ~Dies(Home, log[r][i], i, r, FALSE)
  <2>1. /\ loop'[r] = [at |-> "replaying", fence |-> f, rest |-> t,
                       missed |-> m]
        /\ Replay(Home, log[r][i], i, r, FALSE)
    <3>1. LoopGoes(r, "replaying", f, t, m)
      <4>1. loop[r].fence = f /\ Tail(loop[r].rest) = t /\ Head(loop[r].rest) = i
        BY <1>2
      <4> QED
        BY <1>2, <1>11, <4>1 DEF ReplaysHistory
    <3>2. Replay(Home, log[r][i], i, r, FALSE)
      BY <1>2 DEF ReplaysHistory
    <3>3. loop' = [loop EXCEPT ![r] = [at |-> "replaying", fence |-> f, rest |-> t,
                                       missed |-> m]]
      BY <3>1 DEF LoopGoes
    <3>4. loop \in [Remotes -> Loops]
      BY DEF SyncInv, RemotesInv
    <3> QED
      BY <3>2, <3>3, <3>4
  <2>2. AnswerOK(loop'[r], log'[r])
    <3>1. q - 1 <= f /\ f <= Len(log'[r])
      BY <1>3, <1>4, <1>6, <1>8, <1>9
    <3>2. \A k \in 1 .. q - 1 : t[k] = f - (q - 1) + k
      BY <1>3, <1>4, <1>6
    <3> QED
      BY <1>4, <2>1, <3>1, <3>2 DEF AnswerOK
  <2>3. m \/ f - (q - 1) <= Len(log'[Home])
    <3>1. CASE c.missed \/ Ignores(Home, log[r][i], i, r, FALSE)
      BY <1>2, <3>1
    <3>2. CASE Knows(Home, log[r][i], i, r, FALSE)
      <4>1. i <= Len(log[Home])
        BY <3>2 DEF Knows
      <4> QED
        BY <1>3, <1>4, <1>7, <1>8, <1>9, <4>1
    <3>3. CASE Accepts(Home, log[r][i], i, r, FALSE) /\ Appends(Home, log[r][i])
      <4>1. i = Len(log[Home]) + 1
        BY <3>3 DEF Accepts, IsNext
      <4>2. Len(log'[Home]) = Len(log[Home]) + 1
        <5>1. log[r][i] \in Events /\ LogTypeOK(Events)
          BY <1>1, <1>4, LogFacts DEF SyncInv, LogsInv
        <5> QED
          BY <1>1, <3>3, <5>1, AppendFacts
      <4> QED
        BY <1>3, <1>4, <1>7, <1>8, <4>1, <4>2
    <3> QED
      BY <1>11, <2>1, <3>1, <3>2, <3>3 DEF Replay, Dies
  <2> QED
    BY <1>4, <2>1, <2>2, <2>3 DEF HistoryOK
<1> QED
  BY <1>10, <1>11

LEMMA EndedHistory ==
    ASSUME SyncInv, NEW r \in Remotes, HistoryOK(loop[r], log[Home], log[r]),
           EndsHistory(r)
    PROVE  HistoryOK(loop'[r], log'[Home], log'[r])
<1>1. /\ loop[r].at = "replaying" /\ loop[r].rest = <<>> /\ log' = log
      /\ loop'[r] = [at |-> "streaming", fence |-> loop[r].fence, rest |-> <<>>,
                     missed |-> loop[r].missed]
  BY LoopGoesTo DEF EndsHistory
<1>2. loop[r].fence \in Nat
  BY DEF SyncInv, RemotesInv, Loops
<1>3. loop[r].missed \/ loop[r].fence <= Len(log[Home])
  <2>1. Len(loop[r].rest) = 0
    BY <1>1
  <2> QED
    BY <1>1, <1>2, <2>1 DEF HistoryOK
<1> QED
  BY <1>1, <1>3 DEF HistoryOK

(* A loop that (re)connects has asked for nothing.                         *)
LEMMA NoHistory ==
    ASSUME NEW c, NEW h, NEW s, c.at \in {"connecting", "asking"}
    PROVE  HistoryOK(c, h, s)
BY DEF HistoryOK

(* A loop moves by its own steps only.                                     *)
LEMMA LoopsMove ==
    ASSUME SyncInv, [SyncNext]_syncVars, NEW r \in Remotes, loop'[r] # loop[r]
    PROVE  \/ Connects(r) \/ Asks(r) \/ IsAnswered(r) \/ ReplaysHistory(r)
           \/ EndsHistory(r) \/ Reconnects(r) \/ StartsSync(r)
<1>1. loop \in [Remotes -> Loops]
  BY DEF SyncInv, RemotesInv
<1>2. ASSUME NEW s \in Remotes, NEW at, NEW fence, NEW rest, NEW missed,
             LoopGoes(s, at, fence, rest, missed)
      PROVE  s = r
  <2>1. loop' = [loop EXCEPT ![s] = [at |-> at, fence |-> fence, rest |-> rest,
                                     missed |-> missed]]
    BY <1>2 DEF LoopGoes
  <2> QED
    BY <1>1, <2>1
<1>3. loop' # loop
  OBVIOUS
<1>4. CASE HomeWorks \/ \E s \in Remotes : RemoteWorks(s) \/ Notifies(s)
  BY <1>3, <1>4 DEF HomeWorks, RemoteWorks, Notifies
<1>5. ASSUME NEW s \in Remotes, LoopNext(s) \/ Reconnects(s) \/ StartsSync(s)
      PROVE  \/ Connects(r) \/ Asks(r) \/ IsAnswered(r) \/ ReplaysHistory(r)
             \/ EndsHistory(r) \/ Reconnects(r) \/ StartsSync(r)
  <2>1. ~ReplaysStream(s)
    BY <1>3 DEF ReplaysStream
  <2>2. CASE Connects(s)
    BY <1>2, <2>2 DEF Connects
  <2>3. CASE Asks(s)
    BY <1>2, <2>3 DEF Asks
  <2>4. CASE IsAnswered(s)
    BY <1>2, <2>4 DEF IsAnswered
  <2>5. CASE ReplaysHistory(s)
    <3>1. s = r
      BY <1>2, <2>5 DEF ReplaysHistory
    <3> QED
      BY <2>5, <3>1
  <2>6. CASE EndsHistory(s)
    BY <1>2, <2>6 DEF EndsHistory
  <2>7. CASE Reconnects(s)
    BY <1>2, <2>7 DEF Reconnects
  <2>8. CASE StartsSync(s)
    BY <1>2, <2>8 DEF StartsSync
  <2> QED
    BY <1>5, <2>1, <2>2, <2>3, <2>4, <2>5, <2>6, <2>7, <2>8 DEF LoopNext
<1>6. ASSUME NEW w \in Warps,
             WarpNext(w) \/ WarpFails(w) \/ \E to \in Nodes : WarpBegins(w, to)
      PROVE  FALSE
  <2>1. CASE WarpNext(w)
    BY <1>3, <2>1 DEF WarpNext, WarpAsks, WarpIsAnswered, WarpSyncs, WarpClaims,
       WarpReads, WarpSends, WarpSent, WarpSteals, WarpMoves, Others
  <2>2. CASE WarpFails(w) \/ \E to \in Nodes : WarpBegins(w, to)
    BY <1>3, <2>2 DEF WarpFails, WarpBegins, Others
  <2> QED
    BY <1>6, <2>1, <2>2
<1>7. CASE \/ ReaderNext /\ ReaderKeeps
           \/ \E after \in Starts \cap (0 .. Len(log[Home])) :
                 Subscribe(after) /\ ReaderKeeps
  BY <1>3, <1>7 DEF ReaderKeeps
<1>8. CASE UNCHANGED syncVars
  BY <1>3, <1>8 DEF syncVars
<1> QED
  BY <1>4, <1>5, <1>6, <1>7, <1>8 DEF SyncNext

LEMMA HistoryStep ==
    ASSUME SyncInv, SyncInv', HistoryInv, [SyncNext]_syncVars
    PROVE  HistoryInv'
<1> SUFFICES ASSUME NEW r \in Remotes
             PROVE  HistoryOK(loop'[r], log'[Home], log'[r])
  BY DEF HistoryInv
<1>1. HistoryOK(loop[r], log[Home], log[r]) /\ loop[r] \in Loops
  BY DEF HistoryInv, SyncInv, RemotesInv
<1>2. Extends(log, log')
  BY LogsExtend
<1>3. CASE loop'[r] = loop[r]
  BY <1>1, <1>2, <1>3, HistoryKept DEF SyncInv
<1>4. CASE loop'[r] # loop[r]
  <2>1. ASSUME Connects(r) \/ Reconnects(r) \/ StartsSync(r)
        PROVE  HistoryOK(loop'[r], log'[Home], log'[r])
    <3>1. loop \in [Remotes -> Loops]
      BY DEF SyncInv, RemotesInv
    <3>2. loop'[r].at \in {"connecting", "asking"}
      BY <2>1, <3>1 DEF Connects, Reconnects, StartsSync, LoopGoes
    <3> QED
      BY <3>2, NoHistory
  <2>2. CASE Asks(r) \/ IsAnswered(r)
    BY <1>1, <2>2, AskedHistory
  <2>3. CASE ReplaysHistory(r)
    BY <1>1, <1>2, <2>3, ReplayedHistory
  <2>4. CASE EndsHistory(r)
    BY <1>1, <2>4, EndedHistory
  <2> QED
    BY <1>4, <2>1, <2>2, <2>3, <2>4, LoopsMove
<1> QED
  BY <1>3, <1>4

LEMMA HistoryInvariance == SyncSpec => []HistoryInv
<1>1. SyncInit => HistoryInv
  <2> SUFFICES ASSUME SyncInit, NEW r \in Remotes
               PROVE  HistoryOK(loop[r], log[Home], log[r])
    BY DEF HistoryInv
  <2>1. loop[r].at = "connecting"
    BY DEF SyncInit, Idling
  <2> QED
    BY <2>1, NoHistory
<1>2. SyncInv /\ SyncInv' /\ HistoryInv /\ [SyncNext]_syncVars => HistoryInv'
  BY HistoryStep
<1> QED
  BY <1>1, <1>2, SyncInvariance, PTL DEF SyncSpec

(* Logs that differ at a position are not comparable.                      *)
LEMMA DivergedAreApart ==
    ASSUME LogsInv, NEW r \in Remotes, Diverged(log[Home], log[r])
    PROVE  ~Comparable(log[Home], log[r])
<1>1. log[Home] \in Seq(Events) /\ log[r] \in Seq(Events)
  BY NodeFacts DEF LogsInv, LogTypeOK
<1>2. PICK i \in 1 .. Len(log[Home]) : i <= Len(log[r]) /\ log[Home][i] # log[r][i]
  BY DEF Diverged
<1>3. ASSUME NEW s \in Seq(Events), NEW t \in Seq(Events), IsPrefix(s, t),
             NEW k \in 1 .. Len(s)
      PROVE  s[k] = t[k]
  <2>1. PICK m \in Nat, n \in Nat : m = Len(s) /\ n = Len(t)
    BY LenProperties
  <2>2. m <= n /\ SubSeq(s, 1, m) = SubSeq(t, 1, m) /\ k \in 1 .. m
    BY <1>3, <2>1 DEF IsPrefix
  <2>3. \A j \in 1 .. m : s[j] \in Events /\ t[j] \in Events
    BY <2>1, <2>2, ElementOfSeq
  <2>4. \A j \in 1 .. m : SubSeq(s, 1, m)[j] = s[j] /\ SubSeq(t, 1, m)[j] = t[j]
    BY <2>3, SubSeqProperties
  <2> QED
    BY <2>2, <2>4
<1>4. i \in 1 .. Len(log[r])
  BY <1>1, <1>2, LenProperties
<1> QED
  BY <1>1, <1>2, <1>3, <1>4 DEF Comparable

(* For any workspaces, warps and agents, the loop that streams has all of  *)
(* the history it was answered, but for what a claim kept out.             *)
THEOREM HistoryArrives == SyncSpec => []HistoryIsWhole
<1>1. SyncInv /\ HistoryInv => HistoryIsWhole
  <2> SUFFICES ASSUME SyncInv, HistoryInv, NEW r \in Remotes,
                      loop[r].at = "streaming", ~loop[r].missed
               PROVE  Len(log[Home]) >= loop[r].fence
    BY DEF HistoryIsWhole
  <2>1. loop[r].fence <= Len(log[Home])
    BY DEF HistoryInv, HistoryOK
  <2>2. loop[r].fence \in Nat /\ Len(log[Home]) \in Nat
    BY NodeFacts, LogFacts DEF SyncInv, RemotesInv, LogsInv, Loops
  <2> QED
    BY <2>1, <2>2
<1> QED
  BY <1>1, SyncInvariance, HistoryInvariance, PTL

(* A loop dies only of a log that contradicts home's, or of a gap that a   *)
(* claim made in its history.                                              *)
THEOREM SyncDiesOfDivergence == SyncSpec => []OnlyDivergedDies
<1>1. SyncInv /\ HistoryInv => OnlyDivergedDies
  BY DivergedAreApart DEF OnlyDivergedDies, HistoryInv, HistoryOK, SyncInv
<1> QED
  BY <1>1, SyncInvariance, HistoryInvariance, PTL
=============================================================================
