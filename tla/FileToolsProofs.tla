--------------------------- MODULE FileToolsProofs ---------------------------
(***************************************************************************)
(* Proofs about the mutex, about the permission requests, and about the    *)
(* file tools, which use both as their modules say: what is proved of them *)
(* holds in the tools.                                                     *)
(***************************************************************************)
EXTENDS FileTools, FiniteSetTheorems, SequenceTheorems, TLAPS

-----------------------------------------------------------------------------
(* KeyedMutex.  That no two fibers hold a key needs that all who are       *)
(* inside it are on the one entry the map has, so the entry must stay      *)
(* until the last has left: the count has to be exact.                     *)

Insiders(k) == {f \in Fibers : Inside(f, k)}

OnTheEntry ==
    \A f \in Fibers : place[f].at # "outside" =>
        /\ place[f].key \in Keys
        /\ place[f].on \in Fibers
        /\ place[f].on = locks[place[f].key]

CountsInsiders ==
    \A k \in Keys : locks[k] # None =>
        /\ Insiders(k) # {}
        /\ users[k][locks[k]] = Cardinality(Insiders(k))

MutexInv == MutexTypeOK /\ OnTheEntry /\ CountsInsiders /\ Exclusive

LEMMA InsidersAreFinite ==
    ASSUME NEW k
    PROVE  /\ IsFiniteSet(Insiders(k))
           /\ Cardinality(Insiders(k)) \in Nat
  BY FibersAreFinite, FS_Subset, FS_CardinalityType DEF Insiders

(* Who has come as the first has the entry to himself.                     *)
LEMMA NoEntryNoInsider ==
    ASSUME OnTheEntry, NEW k \in Keys, locks[k] = None
    PROVE  \A f \in Fibers : ~Inside(f, k)
  BY NoneIsNoFiber DEF OnTheEntry, Inside

(* The count says whether anybody else is inside.                          *)
LEMMA LastUserIsAlone ==
    ASSUME MutexInv, NEW f \in Fibers, place[f].at # "outside"
    PROVE  /\ LastUser(f) <=> Insiders(place[f].key) = {f}
           /\ users[place[f].key][place[f].on] = Cardinality(Insiders(place[f].key))
           /\ users[place[f].key][place[f].on] \in Nat \ {0}
<1> DEFINE k == place[f].key
<1>1. /\ k \in Keys /\ place[f].on = locks[k] /\ locks[k] # None
  BY NoneIsNoFiber DEF MutexInv, OnTheEntry
<1>2. users[k][place[f].on] = Cardinality(Insiders(k))
  BY <1>1 DEF MutexInv, CountsInsiders
<1>3. f \in Insiders(k)
  BY DEF Insiders, Inside
<1>4. Cardinality(Insiders(k)) # 0
  BY <1>3, InsidersAreFinite, FS_EmptySet
<1>5. Cardinality(Insiders(k)) = 1 <=> Insiders(k) = {f}
  BY <1>3, InsidersAreFinite, FS_Singleton
<1> QED
  BY <1>2, <1>4, <1>5, InsidersAreFinite DEF LastUser

LEMMA MutexInitInv == MutexInit => MutexInv
  BY DEF MutexInit, MutexInv, MutexTypeOK, OnTheEntry, CountsInsiders,
         Exclusive, Holds, Outside

LEMMA ComesInv ==
    ASSUME MutexInv, NEW f \in Fibers, NEW k \in Keys, withLock(f, k)
    PROVE  MutexInv'
<1> DEFINE e == IF locks[k] = None THEN f ELSE locks[k]
           u == IF locks[k] = None THEN 1 ELSE users[k][e] + 1
           p == [at |-> IF Taken(k, e) THEN "waiting" ELSE "holding",
                 key |-> k, on |-> e]
<1>1. /\ place[f].at = "outside"
      /\ locks' = [locks EXCEPT ![k] = e]
      /\ users' = [users EXCEPT ![k][e] = u]
      /\ place' = [place EXCEPT ![f] = p]
  BY DEF withLock, MutexInv, MutexTypeOK
<1>2. /\ e \in Fibers /\ u \in Nat
      /\ p \in [at : {"outside", "waiting", "holding"},
                key : Keys \cup {None}, on : Fibers \cup {None}]
      /\ p.at \in {"waiting", "holding"} /\ p.key = k /\ p.on = e
  BY DEF MutexInv, MutexTypeOK
<1>3. p.at = "holding" => ~Taken(k, e)
  OBVIOUS
<1> HIDE DEF e, u, p
<1>4. MutexTypeOK'
  BY <1>1, <1>2 DEF MutexInv, MutexTypeOK
<1>5. \A g \in Fibers : place'[g] = IF g = f THEN p ELSE place[g]
  BY <1>1 DEF MutexInv, MutexTypeOK
<1>6. \A h \in Keys : locks'[h] = IF h = k THEN e ELSE locks[h]
  BY <1>1 DEF MutexInv, MutexTypeOK
<1>7. \A g \in Fibers : Inside(g, k) => place[g].on = e
  BY NoEntryNoInsider DEF MutexInv, OnTheEntry, Inside, e
<1>8. OnTheEntry'
  BY <1>2, <1>5, <1>6, <1>7 DEF MutexInv, OnTheEntry, Inside
<1>9. Exclusive'
  <2>1. SUFFICES ASSUME NEW h \in Keys, NEW g \in Fibers, NEW i \in Fibers,
                        Holds(g, h)', Holds(i, h)', g # i
                 PROVE  FALSE
    BY DEF Exclusive
  <2>2. CASE g # f /\ i # f
    BY <2>1, <2>2, <1>5 DEF MutexInv, Exclusive, Holds
  <2>3. CASE g = f
    <3>1. h = k /\ ~Taken(k, e)
      BY <2>1, <2>3, <1>2, <1>3, <1>5 DEF Holds
    <3>2. Holds(i, k) /\ Inside(i, k)
      BY <3>1, <2>1, <2>3, <1>5 DEF Holds, Inside
    <3> QED
      BY <3>1, <3>2, <1>7 DEF Taken
  <2>4. CASE i = f
    <3>1. h = k /\ ~Taken(k, e)
      BY <2>1, <2>4, <1>2, <1>3, <1>5 DEF Holds
    <3>2. Holds(g, k) /\ Inside(g, k)
      BY <3>1, <2>1, <2>4, <1>5 DEF Holds, Inside
    <3> QED
      BY <3>1, <3>2, <1>7 DEF Taken
  <2> QED
    BY <2>2, <2>3, <2>4
<1>10. CountsInsiders'
  <2>1. f \notin Insiders(k)
    BY <1>1 DEF Insiders, Inside
  <2>2. Insiders(k)' = Insiders(k) \cup {f}
    BY <1>2, <1>5 DEF Insiders, Inside
  <2>3. Cardinality(Insiders(k)') = Cardinality(Insiders(k)) + 1
    BY <2>1, <2>2, InsidersAreFinite, FS_AddElement
  <2>4. u = Cardinality(Insiders(k)) + 1
    <3>1. CASE locks[k] = None
      <4>1. Insiders(k) = {}
        BY <3>1, NoEntryNoInsider DEF MutexInv, Insiders
      <4> QED
        BY <3>1, <4>1, FS_EmptySet DEF u
    <3>2. CASE locks[k] # None
      BY <3>2 DEF MutexInv, CountsInsiders, u, e
    <3> QED
      BY <3>1, <3>2
  <2>5. users'[k][e] = u
    BY <1>1, <1>2 DEF MutexInv, MutexTypeOK
  <2>6. \A h \in Keys \ {k} : /\ Insiders(h)' = Insiders(h)
                              /\ users'[h] = users[h]
    BY <1>1, <1>2, <1>5 DEF MutexInv, MutexTypeOK, Insiders, Inside
  <2>7. ASSUME NEW h \in Keys, locks'[h] # None
        PROVE  /\ Insiders(h)' # {}
               /\ users'[h][locks'[h]] = Cardinality(Insiders(h)')
    <3>1. CASE h = k
      BY <3>1, <1>6, <2>2, <2>3, <2>4, <2>5
    <3>2. CASE h # k
      BY <3>2, <2>7, <1>6, <2>6 DEF MutexInv, CountsInsiders
    <3> QED
      BY <3>1, <3>2
  <2> QED
    BY <2>7 DEF CountsInsiders
<1> QED
  BY <1>4, <1>8, <1>9, <1>10 DEF MutexInv

LEMMA TakesInv ==
    ASSUME MutexInv, NEW f \in Fibers, Takes(f)
    PROVE  MutexInv'
<1>1. /\ place[f].at = "waiting" /\ ~Taken(place[f].key, place[f].on)
      /\ place' = [place EXCEPT ![f].at = "holding"]
      /\ locks' = locks /\ users' = users
  BY DEF Takes
<1>2. /\ \A g \in Fibers \ {f} : place'[g] = place[g]
      /\ place'[f].at = "holding" /\ place'[f].key = place[f].key
      /\ place'[f].on = place[f].on
  BY <1>1 DEF MutexInv, MutexTypeOK
<1>3. MutexTypeOK'
  BY <1>1 DEF MutexInv, MutexTypeOK
<1>4. OnTheEntry'
  BY <1>1, <1>2 DEF MutexInv, OnTheEntry
<1>5. \A k : Insiders(k)' = Insiders(k)
  BY <1>1, <1>2 DEF Insiders, Inside
<1>6. CountsInsiders'
  BY <1>1, <1>5 DEF MutexInv, CountsInsiders
<1>7. \A g \in Fibers \ {f} : ~Holds(g, place[f].key)
  BY <1>1 DEF MutexInv, OnTheEntry, Taken, Holds
<1>8. Exclusive'
  BY <1>2, <1>7 DEF MutexInv, Exclusive, Holds
<1> QED
  BY <1>3, <1>4, <1>6, <1>8 DEF MutexInv

LEMMA LeavesInv ==
    ASSUME MutexInv, NEW f \in Fibers, Leaves(f)
    PROVE  MutexInv'
<1>0. PICK k \in Keys, e \in Fibers :
        k = place[f].key /\ e = place[f].on /\ e = locks[k]
  BY DEF Leaves, MutexInv, OnTheEntry
<1> DEFINE u == users[k][e] - 1
<1>1. /\ place[f].at # "outside"
      /\ users' = [users EXCEPT ![k][e] = u]
      /\ locks' = IF LastUser(f) THEN [locks EXCEPT ![k] = None] ELSE locks
      /\ place' = [place EXCEPT ![f] = Outside]
  BY <1>0 DEF Leaves, MutexInv, MutexTypeOK
<1>2. k = place[f].key /\ e = locks[k]
  BY <1>0
<1>3. /\ LastUser(f) <=> Insiders(k) = {f}
      /\ u \in Nat /\ u = Cardinality(Insiders(k)) - 1
  <2>1. /\ LastUser(f) <=> Insiders(place[f].key) = {f}
        /\ users[place[f].key][place[f].on] = Cardinality(Insiders(place[f].key))
        /\ users[place[f].key][place[f].on] \in Nat \ {0}
    BY <1>1, LastUserIsAlone
  <2>2. /\ LastUser(f) <=> Insiders(k) = {f}
        /\ users[k][e] = Cardinality(Insiders(k))
        /\ users[k][e] \in Nat \ {0}
    BY <2>1, <1>2, <1>0, Zenon
  <2> QED
    BY <2>2
<1> HIDE DEF u
<1>4. MutexTypeOK'
  BY <1>1, <1>2, <1>3 DEF MutexInv, MutexTypeOK, Outside
<1>5. \A g \in Fibers : place'[g] = IF g = f THEN Outside ELSE place[g]
  BY <1>1 DEF MutexInv, MutexTypeOK
<1>6. f \in Insiders(k) /\ Insiders(k)' = Insiders(k) \ {f}
  BY <1>1, <1>2, <1>5 DEF Insiders, Inside, Outside
<1>7. \A h \in Keys \ {k} : /\ Insiders(h)' = Insiders(h)
                            /\ users'[h] = users[h]
                            /\ locks'[h] = locks[h]
  BY <1>1, <1>2, <1>5 DEF MutexInv, MutexTypeOK, Insiders, Inside, Outside
<1>8. OnTheEntry'
  <2>1. SUFFICES ASSUME NEW g \in Fibers, place'[g].at # "outside"
                 PROVE  /\ place'[g].key \in Keys /\ place'[g].on \in Fibers
                        /\ place'[g].on = locks'[place'[g].key]
    BY DEF OnTheEntry
  <2>2. g # f /\ place'[g] = place[g]
    BY <2>1, <1>5 DEF Outside
  <2>3. /\ place[g].key \in Keys /\ place[g].on \in Fibers
        /\ place[g].on = locks[place[g].key]
    BY <2>1, <2>2 DEF MutexInv, OnTheEntry
  <2>4. CASE place[g].key = k
    <3>1. g \in Insiders(k)
      BY <2>1, <2>2, <2>4 DEF Insiders, Inside
    <3>2. ~LastUser(f)
      BY <3>1, <2>2, <1>3
    <3> QED
      BY <3>2, <2>2, <2>3, <1>1
  <2>5. CASE place[g].key # k
    BY <2>2, <2>3, <2>5, <1>7
  <2> QED
    BY <2>4, <2>5
<1>9. Exclusive'
  BY <1>5 DEF MutexInv, Exclusive, Holds, Outside
<1>10. CountsInsiders'
  <2>1. Cardinality(Insiders(k)') = Cardinality(Insiders(k)) - 1
    BY <1>6, InsidersAreFinite, FS_RemoveElement
  <2>2. users'[k][e] = u
    BY <1>1, <1>2, <1>3 DEF MutexInv, MutexTypeOK
  <2>3. locks'[k] = None \/ (locks'[k] = e /\ Insiders(k)' # {})
    <3>1. CASE LastUser(f)
      BY <3>1, <1>1, <1>2 DEF MutexInv, MutexTypeOK
    <3>2. CASE ~LastUser(f)
      BY <3>2, <1>1, <1>2, <1>3, <1>6
    <3> QED
      BY <3>1, <3>2
  <2>4. ASSUME NEW h \in Keys, locks'[h] # None
        PROVE  /\ Insiders(h)' # {}
               /\ users'[h][locks'[h]] = Cardinality(Insiders(h)')
    <3>1. CASE h = k
      BY <3>1, <2>1, <2>2, <2>3, <2>4, <1>3
    <3>2. CASE h # k
      BY <3>2, <2>4, <1>7 DEF MutexInv, CountsInsiders
    <3> QED
      BY <3>1, <3>2
  <2> QED
    BY <2>4 DEF CountsInsiders
<1> QED
  BY <1>4, <1>8, <1>9, <1>10 DEF MutexInv

LEMMA MutexStepInv == MutexInv /\ [MutexNext]_mutexVars => MutexInv'
<1> SUFFICES ASSUME MutexInv, [MutexNext]_mutexVars
             PROVE  MutexInv'
  OBVIOUS
<1>1. CASE MutexNext
  BY <1>1, ComesInv, TakesInv, LeavesInv DEF MutexNext
<1>2. CASE UNCHANGED mutexVars
  <2>1. locks' = locks /\ users' = users /\ place' = place
    BY <1>2 DEF mutexVars
  <2>2. \A k : Insiders(k)' = Insiders(k)
    BY <2>1 DEF Insiders, Inside
  <2>3. MutexTypeOK' /\ OnTheEntry' /\ Exclusive'
    BY <2>1 DEF MutexInv, MutexTypeOK, OnTheEntry, Exclusive, Holds
  <2>4. CountsInsiders'
    BY <2>1, <2>2 DEF MutexInv, CountsInsiders
  <2> QED
    BY <2>3, <2>4 DEF MutexInv
<1> QED
  BY <1>1, <1>2

(* The invariant holds in every state of the mutex (keyed-mutex.ts).       *)
THEOREM MutexSafety == MutexSpec => []MutexInv
<1>1. MutexInv /\ [MutexNext]_mutexVars => MutexInv'
  BY MutexStepInv
<1> QED
  BY <1>1, MutexInitInv, PTL DEF MutexSpec

(* No two fibers hold one key: withLock serializes per key.                *)
THEOREM MutualExclusion == MutexSpec => []Exclusive
<1>1. MutexInv => Exclusive
  BY DEF MutexInv
<1> QED
  BY <1>1, MutexSafety, PTL

(* A key has an entry as long as, and only as long as, a fiber holds it or *)
(* waits for it: the map does not grow with the keys it has seen.          *)
THEOREM EntriesAreReclaimed == MutexSpec => []EntryIffUsed
<1>1. MutexInv => EntryIffUsed
  <2> SUFFICES ASSUME MutexInv, NEW k \in Keys
               PROVE  locks[k] # None <=> \E f \in Fibers : Inside(f, k)
    BY DEF EntryIffUsed
  <2>1. ASSUME locks[k] # None
        PROVE  \E f \in Fibers : Inside(f, k)
    BY <2>1 DEF MutexInv, CountsInsiders, Insiders
  <2>2. ASSUME NEW f \in Fibers, Inside(f, k)
        PROVE  locks[k] # None
    BY <2>2, NoneIsNoFiber DEF MutexInv, OnTheEntry, Inside
  <2> QED
    BY <2>1, <2>2
<1> QED
  BY <1>1, MutexSafety, PTL

-----------------------------------------------------------------------------
(* Permissions.  What holds of the requests while replies walk over them   *)
(* needs to be known of every reply at once: what it has been asked of,    *)
(* what it has yet to come to, and that a request that has stopped waiting *)
(* never waits again.                                                      *)

WasAsked(q) == ask[q].at \notin {"off", "evaluated"}

SettledWereAsked == \A q \in Requests : settled[q] # "open" => WasAsked(q)

(* A reply is to a request that was made, and is at a request that was.    *)
RepliesAreToAsked ==
    \A r \in Replies :
        /\ reply[r].at \notin {"off", "over"} =>
              reply[r].on \in Requests /\ WasAsked(reply[r].on)
        /\ reply[r].at \in {"weighing", "passing"} =>
              reply[r].item \in Requests /\ WasAsked(reply[r].item)

AnswersInPlace ==
    \A r \in Replies :
        /\ reply[r].at \in {"saved", "reading", "weighing"} =>
              reply[r].answer = "always"
        /\ reply[r].at \in {"telling", "saved", "reading"} =>
              reply[r].seen = {} /\ reply[r].swept = {}
        /\ reply[r].at = "passing" => reply[r].answer # "once"
        /\ reply[r].answer = "always" => reply[r].swept = {}

(* What a reject has yet to sweep is ahead of it.                          *)
YetToSweep(r, q) ==
    /\ reply[r].at = "passing" /\ reply[r].answer = "reject"
    /\ SessionOf[q] = SessionOf[reply[r].on]
    /\ q = reply[r].item \/ q \notin reply[r].seen

SweptIsAhead ==
    \A r \in Replies : \A q \in reply[r].swept :
        WasAsked(q) /\ (Waiting(q) => YetToSweep(r, q))

PermInv ==
    /\ PermTypeOK
    /\ PendingIsWaiting
    /\ SettledWereAsked
    /\ RepliesAreToAsked
    /\ AnswersInPlace
    /\ SweptIsAhead
    /\ AlwaysIsRemembered

ReplyRecords ==
    [at : {"off", "telling", "saving", "saved", "reading", "weighing",
           "passing", "over"},
     on : Requests \cup {NoRequest}, answer : Answers,
     rules : SUBSET Actions, seen : SUBSET Requests,
     item : Requests \cup {NoRequest}, swept : SUBSET Requests]

LEMMA PermInitInv == PermInit => PermInv
<1> SUFFICES ASSUME PermInit
             PROVE  PermInv
  OBVIOUS
<1>1. PermTypeOK
  BY DEF PermInit, PermTypeOK, NoReply, Outcomes, Answers
<1>2. \A q \in Requests : ~Waiting(q)
  BY DEF PermInit, Waiting
<1> QED
  BY <1>1, <1>2 DEF PermInit, PermInv, PendingIsWaiting, SettledWereAsked,
     RepliesAreToAsked, AnswersInPlace, SweptIsAhead, AlwaysIsRemembered, NoReply
-----------------------------------------------------------------------------
(* The steps of a call: only what it waits for changes.                    *)
(* A call that is not made yet, or one that ends, disturbs no reply.       *)
LEMMA CallStep ==
    ASSUME PermInv, NEW q \in Requests,
           UNCHANGED <<saved, settled, reply>>,
           PermTypeOK',
           \A p \in Requests \ {q} : ask'[p] = ask[p],
           WasAsked(q) => WasAsked(q)',
           Waiting(q)' => Waiting(q) \/ (~WasAsked(q) /\ (Allows(q, saved) => q \in stale')),
           settled[q] # "open" => WasAsked(q)',
           stale \subseteq stale',
           pending' = {p \in Requests : Waiting(p)'}
    PROVE  PermInv'
<1>1. \A p \in Requests \ {q} : Waiting(p)' <=> Waiting(p)
  BY DEF Waiting
<1>2. \A p \in Requests : WasAsked(p) => WasAsked(p)'
  BY DEF WasAsked
<1>3. PendingIsWaiting'
  BY DEF PendingIsWaiting
<1>4. SettledWereAsked'
  BY <1>2 DEF PermInv, SettledWereAsked
<1>5. RepliesAreToAsked'
  BY <1>2 DEF PermInv, RepliesAreToAsked
<1>6. AnswersInPlace'
  BY DEF PermInv, AnswersInPlace
<1>7. SweptIsAhead'
  <2> SUFFICES ASSUME NEW r \in Replies, NEW p \in reply[r].swept
               PROVE  WasAsked(p)' /\ (Waiting(p)' => YetToSweep(r, p)')
    BY DEF SweptIsAhead
  <2>1. p \in Requests
    BY DEF PermInv, PermTypeOK
  <2>2. WasAsked(p) /\ (Waiting(p) => YetToSweep(r, p))
    BY DEF PermInv, SweptIsAhead
  <2>3. Waiting(p)' => Waiting(p)
    BY <1>1, <2>1, <2>2
  <2>4. YetToSweep(r, p)' <=> YetToSweep(r, p)
    BY DEF YetToSweep
  <2> QED
    BY <1>2, <2>1, <2>2, <2>3, <2>4
<1>8. AlwaysIsRemembered'
  <2>1. \A p \in Requests : OnItsWay(p)' <=> OnItsWay(p)
    BY DEF OnItsWay, WillCome, Allows
  <2>2. \A p \in Requests : Allows(p, saved)' <=> Allows(p, saved)
    BY DEF Allows
  <2> QED
    BY <1>1, <2>1, <2>2 DEF PermInv, AlwaysIsRemembered
<1> QED
  BY <1>3, <1>4, <1>5, <1>6, <1>7, <1>8 DEF PermInv

LEMMA EvaluatesInv ==
    ASSUME PermInv, NEW q \in Requests, Evaluates(q)
    PROVE  PermInv'
<1>1. PermTypeOK'
  BY DEF PermInv, PermTypeOK, Evaluates
<1>2. /\ \A p \in Requests \ {q} : ask'[p] = ask[p]
      /\ ask[q].at = "off" /\ ask'[q].at \in {"denied", "evaluated"}
  BY DEF PermInv, PermTypeOK, Evaluates
<1>3. UNCHANGED <<saved, pending, settled, reply, stale>>
  BY DEF Evaluates
<1>4. \A p \in Requests : Waiting(p)' <=> Waiting(p)
  BY <1>2, <1>3 DEF Waiting
<1>5. ~WasAsked(q) /\ settled[q] = "open" /\ ~Waiting(q)'
  BY <1>2 DEF PermInv, SettledWereAsked, WasAsked, Waiting
<1>6. pending' = {p \in Requests : Waiting(p)'}
  BY <1>3, <1>4 DEF PermInv, PendingIsWaiting
<1> QED
  BY <1>1, <1>2, <1>3, <1>5, <1>6, CallStep

LEMMA DecidesInv ==
    ASSUME PermInv, NEW q \in Requests, Decides(q)
    PROVE  PermInv'
<1>1. PermTypeOK'
  BY DEF PermInv, PermTypeOK, Decides, AskGoes
<1>2. /\ \A p \in Requests \ {q} : ask'[p] = ask[p]
      /\ ask[q].at = "evaluated" /\ ask'[q].at \in {"allowed", "asking"}
  BY DEF PermInv, PermTypeOK, Decides, AskGoes
<1>3. UNCHANGED <<saved, settled, reply>> /\ stale \subseteq stale'
  BY DEF Decides
<1>4. ~WasAsked(q) /\ settled[q] = "open" /\ ~Waiting(q)
  BY <1>2 DEF PermInv, SettledWereAsked, WasAsked, Waiting
<1>5. /\ WasAsked(q)'
      /\ Waiting(q)' /\ Allows(q, saved) => q \in stale'
  BY <1>2, <1>3 DEF PermInv, PermTypeOK, WasAsked, Waiting, Decides, AskGoes
<1>6. pending' = {p \in Requests : Waiting(p)'}
  <2>1. \A p \in Requests \ {q} : Waiting(p)' <=> Waiting(p)
    BY <1>2, <1>3 DEF Waiting
  <2>2. pending' = IF Waiting(q)' THEN pending \cup {q} ELSE pending
    BY <1>3, <1>4 DEF PermInv, PermTypeOK, Waiting, Decides, AskGoes
  <2> QED
    BY <1>4, <2>1, <2>2 DEF PermInv, PendingIsWaiting
<1> QED
  BY <1>1, <1>2, <1>3, <1>4, <1>5, <1>6, CallStep

(* A request that was made is published, answered or given up.             *)
LEMMA EndsInv ==
    ASSUME PermInv, NEW q \in Requests, Asked(q) \/ Answered(q) \/ GivesUp(q)
    PROVE  PermInv'
<1>1. PermTypeOK'
  <2>1. pending' \in SUBSET Requests
    BY DEF PermInv, PermTypeOK, Asked, Answered, GivesUp, Without
  <2>2. \E at \in {"waiting", "allowed", "denied"} : AskGoes(q, at)
    BY DEF Asked, Answered, GivesUp
  <2>3. UNCHANGED <<saved, settled, reply, stale>>
    BY DEF Asked, Answered, GivesUp
  <2> QED
    BY <2>1, <2>2, <2>3 DEF PermInv, PermTypeOK, AskGoes
<1>2. /\ \A p \in Requests \ {q} : ask'[p] = ask[p]
      /\ ask[q].at \in {"asking", "waiting"}
      /\ ask'[q].at \in {"waiting", "allowed", "denied"}
  BY DEF PermInv, PermTypeOK, Asked, Answered, GivesUp, AskGoes
<1>3. UNCHANGED <<saved, settled, reply, stale>>
  BY DEF Asked, Answered, GivesUp
<1>4. WasAsked(q)' /\ (Waiting(q)' => Waiting(q))
  BY <1>2, <1>3 DEF WasAsked, Waiting
<1>5. pending' = {p \in Requests : Waiting(p)'}
  <2>1. \A p \in Requests \ {q} : Waiting(p)' <=> Waiting(p)
    BY <1>2, <1>3 DEF Waiting
  <2>2. CASE Asked(q)
    <3>1. pending' = pending /\ (Waiting(q)' <=> Waiting(q))
      BY <2>2 DEF Asked, AskGoes, Waiting, PermInv, PermTypeOK
    <3> QED
      BY <2>1, <3>1 DEF PermInv, PendingIsWaiting
  <2>3. CASE Answered(q) \/ GivesUp(q)
    <3>1. pending' = pending \ {q} /\ ~Waiting(q)'
      BY <2>3 DEF Answered, GivesUp, AskGoes, Without, Waiting, PermInv, PermTypeOK
    <3> QED
      BY <2>1, <3>1 DEF PermInv, PendingIsWaiting
  <2> QED
    BY <2>2, <2>3
<1> QED
  BY <1>1, <1>2, <1>3, <1>4, <1>5, CallStep
-----------------------------------------------------------------------------
(* The steps of a reply: what it settles stops waiting, and the invariant  *)
(* of the other replies is untouched.                                      *)
LEMMA ReplyStep ==
    ASSUME PermInv, NEW r \in Replies,
           UNCHANGED <<ask, stale>>,
           PermTypeOK', PendingIsWaiting',
           \A s \in Replies \ {r} : reply'[s] = reply[s],
           \A q \in Requests : Waiting(q)' => Waiting(q),
           \A q \in Requests : settled'[q] # "open" => WasAsked(q),
           reply'[r].at \notin {"off", "over"} =>
              reply'[r].on \in Requests /\ WasAsked(reply'[r].on),
           reply'[r].at \in {"weighing", "passing"} =>
              reply'[r].item \in Requests /\ WasAsked(reply'[r].item),
           reply'[r].at \in {"saved", "reading", "weighing"} =>
              reply'[r].answer = "always",
           reply'[r].at \in {"telling", "saved", "reading"} =>
              reply'[r].seen = {} /\ reply'[r].swept = {},
           reply'[r].at = "passing" => reply'[r].answer # "once",
           reply'[r].answer = "always" => reply'[r].swept = {},
           \A q \in reply'[r].swept :
              WasAsked(q) /\ (Waiting(q)' => YetToSweep(r, q)'),
           \A q \in Requests : Waiting(q)' /\ Allows(q, saved)' =>
              \/ q \in stale
              \/ WillCome(r, q)'
              \/ Allows(q, saved) /\ ~WillCome(r, q)
    PROVE  PermInv'
<1>1. \A q \in Requests : WasAsked(q)' <=> WasAsked(q)
  BY DEF WasAsked
<1>2. SettledWereAsked'
  BY <1>1 DEF SettledWereAsked
<1>3. RepliesAreToAsked'
  <2> SUFFICES ASSUME NEW s \in Replies
               PROVE  /\ reply'[s].at \notin {"off", "over"} =>
                            reply'[s].on \in Requests /\ WasAsked(reply'[s].on)
                      /\ reply'[s].at \in {"weighing", "passing"} =>
                            reply'[s].item \in Requests /\ WasAsked(reply'[s].item)
    BY <1>1 DEF RepliesAreToAsked, WasAsked
  <2> QED
    BY DEF PermInv, RepliesAreToAsked
<1>4. AnswersInPlace'
  BY DEF PermInv, AnswersInPlace
<1>5. SweptIsAhead'
  <2> SUFFICES ASSUME NEW s \in Replies, NEW q \in reply'[s].swept
               PROVE  WasAsked(q)' /\ (Waiting(q)' => YetToSweep(s, q)')
    BY DEF SweptIsAhead
  <2>1. q \in Requests
    BY DEF PermTypeOK
  <2>2. CASE s = r
    BY <1>1, <2>1, <2>2
  <2>3. CASE s # r
    BY <1>1, <2>1, <2>3 DEF PermInv, SweptIsAhead, YetToSweep
  <2> QED
    BY <2>2, <2>3
<1>6. AlwaysIsRemembered'
  <2> SUFFICES ASSUME NEW q \in Requests, Waiting(q)', Allows(q, saved)',
                      q \notin stale
               PROVE  OnItsWay(q)'
    BY DEF AlwaysIsRemembered
  <2>1. CASE WillCome(r, q)'
    BY <2>1 DEF OnItsWay
  <2>2. CASE Allows(q, saved) /\ ~WillCome(r, q)
    <3>1. PICK s \in Replies : WillCome(s, q)
      BY <2>2 DEF PermInv, AlwaysIsRemembered, OnItsWay
    <3>2. WillCome(s, q)'
      BY <2>2, <3>1 DEF WillCome, Allows
    <3> QED
      BY <3>2 DEF OnItsWay
  <2> QED
    BY <2>1, <2>2
<1> QED
  BY <1>2, <1>3, <1>4, <1>5, <1>6 DEF PermInv

LEMMA ResolvesFacts ==
    ASSUME PermInv, NEW q \in Requests, WasAsked(q), ask' = ask,
           NEW outcome \in {"approved", "rejected"}, Resolves(q, outcome)
    PROVE  /\ settled' \in [Requests -> Outcomes]
           /\ pending' = pending \ {q}
           /\ ~Waiting(q)'
           /\ \A p \in Requests \ {q} : Waiting(p)' <=> Waiting(p)
           /\ \A p \in Requests : settled'[p] # "open" => WasAsked(p)
           /\ PendingIsWaiting'
<1>1. /\ settled' \in [Requests -> Outcomes]
      /\ settled'[q] # "open"
      /\ \A p \in Requests \ {q} : settled'[p] = settled[p]
  BY DEF PermInv, PermTypeOK, Resolves, Settle, Outcomes
<1>2. pending' = pending \ {q}
  BY DEF Resolves, Without
<1>3. ~Waiting(q)' /\ \A p \in Requests \ {q} : Waiting(p)' <=> Waiting(p)
  BY <1>1 DEF Waiting
<1>4. PendingIsWaiting'
  BY <1>2, <1>3 DEF PermInv, PendingIsWaiting
<1>5. \A p \in Requests : settled'[p] # "open" => WasAsked(p)
  BY <1>1 DEF PermInv, SettledWereAsked
<1> QED
  BY <1>1, <1>2, <1>3, <1>4, <1>5

(* The walk is over, or at a request that is ahead.                        *)
LEMMA WalksOn ==
    ASSUME PermTypeOK, NEW r \in Replies, NEW rest \in SUBSET Requests,
           NEW at \in {"weighing", "passing"}, NEW to \in Walks(r, rest, at)
    PROVE  /\ to \in ReplyRecords
           /\ to.swept = reply[r].swept
           /\ \/ /\ Ahead(r, rest) = {}
                 /\ to.at = "over" /\ to.answer = "once" /\ to.seen = {}
              \/ /\ to.item \in Ahead(r, rest) /\ to.at = at
                 /\ to.on = reply[r].on /\ to.answer = reply[r].answer
                 /\ to.rules = reply[r].rules
                 /\ to.seen = reply[r].seen \cup {to.item}
<1>1. reply[r] \in ReplyRecords
  BY DEF PermTypeOK, ReplyRecords
<1>2. CASE Ahead(r, rest) = {}
  <2>1. to = Over(r)
    BY <1>2 DEF Walks
  <2> QED
    BY <1>1, <1>2, <2>1 DEF Over, NoReply, ReplyRecords, Answers
<1>3. CASE Ahead(r, rest) # {}
  <2>1. PICK q \in Ahead(r, rest) :
          to = [reply[r] EXCEPT !.at = at, !.item = q, !.seen = @ \cup {q}]
    BY <1>3 DEF Walks
  <2>2. q \in Requests
    BY DEF Ahead
  <2> QED
    BY <1>1, <2>1, <2>2 DEF ReplyRecords
<1> QED
  BY <1>2, <1>3

LEMMA GoesFacts ==
    ASSUME PermTypeOK, NEW r \in Replies, NEW to \in ReplyRecords, ReplyGoes(r, to)
    PROVE  /\ reply' \in [Replies -> ReplyRecords]
           /\ reply'[r] = to
           /\ \A s \in Replies \ {r} : reply'[s] = reply[s]
  BY DEF PermTypeOK, ReplyRecords, ReplyGoes
-----------------------------------------------------------------------------
LEMMA RepliedInv ==
    ASSUME PermInv, NEW r \in Replies, NEW q \in Requests,
           NEW answer \in Answers, Replied(r, q, answer)
    PROVE  PermInv'
<1> DEFINE to == [NoReply EXCEPT !.at = "telling", !.on = q, !.answer = answer]
<1>1. /\ to \in ReplyRecords
      /\ to.at = "telling" /\ to.on = q /\ to.seen = {} /\ to.swept = {}
  BY DEF NoReply, ReplyRecords, Answers
<1>2. reply[r].at = "off" /\ q \in pending /\ ReplyGoes(r, to)
  BY DEF Replied, ReplyGoes
<1> HIDE DEF to
<1>3. UNCHANGED <<saved, pending, settled, ask, stale>>
  BY DEF Replied
<1>4. /\ reply' \in [Replies -> ReplyRecords]
      /\ reply'[r] = to
      /\ \A s \in Replies \ {r} : reply'[s] = reply[s]
  BY <1>1, <1>2, GoesFacts DEF PermInv
<1>5. PermTypeOK'
  BY <1>3, <1>4 DEF PermInv, PermTypeOK, ReplyRecords
<1>6. \A p \in Requests : Waiting(p)' <=> Waiting(p)
  BY <1>3 DEF Waiting
<1>7. PendingIsWaiting'
  BY <1>3, <1>6 DEF PermInv, PendingIsWaiting
<1>8. WasAsked(q)
  BY <1>2 DEF PermInv, PendingIsWaiting, Waiting, WasAsked
<1>9. \A p \in Requests : settled'[p] # "open" => WasAsked(p)
  BY <1>3 DEF PermInv, SettledWereAsked
<1>10. \A p : ~WillCome(r, p)
  BY <1>2 DEF WillCome
<1>11. \A p : Allows(p, saved)' <=> Allows(p, saved)
  BY <1>3 DEF Allows
<1> QED
  BY <1>1, <1>3, <1>4, <1>5, <1>6, <1>7, <1>8, <1>9, <1>10, <1>11, ReplyStep

LEMMA RejectsInv ==
    ASSUME PermInv, NEW r \in Replies, Rejects(r)
    PROVE  PermInv'
<1>0. PICK on \in Requests : on = reply[r].on /\ WasAsked(on)
  BY DEF PermInv, RepliesAreToAsked, Rejects
<1>1. PICK t \in Walks(r, Without(on), "passing") :
        ReplyGoes(r, [t EXCEPT !.swept = OfSession(SessionOf[on])])
  BY <1>0 DEF Rejects
<1> DEFINE to == [t EXCEPT !.swept = OfSession(SessionOf[on])]
<1>2. /\ UNCHANGED <<saved, ask, stale>>
      /\ reply[r].at = "telling" /\ reply[r].answer = "reject"
      /\ Resolves(on, "rejected")
  BY <1>0 DEF Rejects
<1>3. /\ settled' \in [Requests -> Outcomes]
      /\ pending' = pending \ {on}
      /\ ~Waiting(on)'
      /\ \A p \in Requests \ {on} : Waiting(p)' <=> Waiting(p)
      /\ \A p \in Requests : settled'[p] # "open" => WasAsked(p)
      /\ PendingIsWaiting'
  BY <1>0, <1>2, ResolvesFacts
<1>4. /\ t \in ReplyRecords
      /\ \/ Ahead(r, pending') = {} /\ t.at = "over" /\ t.answer = "once"
         \/ /\ t.item \in Ahead(r, pending') /\ t.at = "passing"
            /\ t.on = on /\ t.answer = "reject"
            /\ t.seen = reply[r].seen \cup {t.item}
  <2>1. Without(on) = pending' /\ Without(on) \in SUBSET Requests
    BY <1>3 DEF Without, PermInv, PermTypeOK
  <2>2. PermTypeOK
    BY DEF PermInv
  <2> QED
    BY <1>0, <1>1, <1>2, <2>1, <2>2, WalksOn
<1>5. /\ to \in ReplyRecords
      /\ to.at = t.at /\ to.on = t.on /\ to.item = t.item /\ to.seen = t.seen
      /\ to.answer = t.answer /\ to.swept = OfSession(SessionOf[on])
  BY <1>4 DEF ReplyRecords, OfSession, PermInv, PermTypeOK
<1> HIDE DEF to
<1>6. /\ reply' \in [Replies -> ReplyRecords]
      /\ reply'[r] = to
      /\ \A s \in Replies \ {r} : reply'[s] = reply[s]
  BY <1>1, <1>5, GoesFacts DEF PermInv, to
<1>7. PermTypeOK'
  BY <1>2, <1>3, <1>6 DEF PermInv, PermTypeOK, ReplyRecords
<1>8. \A p \in Requests : Waiting(p) => WasAsked(p)
  BY DEF Waiting, WasAsked
<1>9. t.at = "passing" => t.item \in Requests /\ WasAsked(t.item)
  BY <1>3, <1>4, <1>8 DEF Ahead, PermInv, PendingIsWaiting
<1>10. reply[r].seen = {}
  BY <1>2 DEF PermInv, AnswersInPlace
<1>11. ASSUME NEW q \in OfSession(SessionOf[on])
       PROVE  /\ q \in Requests /\ WasAsked(q)
              /\ Waiting(q)' => YetToSweep(r, q)'
  <2>1. q \in Requests /\ Waiting(q) /\ SessionOf[q] = SessionOf[on]
    BY DEF OfSession, PermInv, PendingIsWaiting
  <2>2. ASSUME Waiting(q)'
        PROVE  YetToSweep(r, q)'
    <3>1. q \in pending'
      BY <2>1, <2>2, <1>3 DEF PendingIsWaiting
    <3>2. q \in Ahead(r, pending')
      BY <3>1, <2>1, <1>0, <1>10 DEF Ahead
    <3> QED
      BY <3>2, <2>1, <1>4, <1>5, <1>6, <1>10 DEF YetToSweep
  <2> QED
    BY <2>1, <2>2, <1>8
<1>12. \A p : (Allows(p, saved)' <=> Allows(p, saved)) /\ ~WillCome(r, p)
  BY <1>2 DEF Allows, WillCome
<1> QED
  BY <1>0, <1>2, <1>3, <1>4, <1>5, <1>6, <1>7, <1>9, <1>11, <1>12, ReplyStep

(* once, and always up to its saved rule, settle one request.              *)
LEMMA AllowsOnceInv ==
    ASSUME PermInv, NEW r \in Replies, AllowsOnce(r)
    PROVE  PermInv'
<1>0. PICK on \in Requests : on = reply[r].on /\ WasAsked(on)
  BY DEF PermInv, RepliesAreToAsked, AllowsOnce
<1>1. /\ UNCHANGED <<saved, ask, stale>>
      /\ reply[r].at = "telling" /\ reply[r].answer = "once"
      /\ Resolves(on, "approved") /\ ReplyGoes(r, Over(r))
  BY <1>0 DEF AllowsOnce
<1>2. reply[r].swept = {} /\ reply[r] \in ReplyRecords
  BY <1>1 DEF PermInv, PermTypeOK, AnswersInPlace, ReplyRecords
<1>3. /\ Over(r) \in ReplyRecords /\ Over(r).at = "over"
      /\ Over(r).swept = {} /\ Over(r).answer = "once"
  BY <1>2 DEF Over, NoReply, ReplyRecords, Answers
<1>4. /\ reply' \in [Replies -> ReplyRecords]
      /\ reply'[r] = Over(r)
      /\ \A s \in Replies \ {r} : reply'[s] = reply[s]
  BY <1>1, <1>3, GoesFacts DEF PermInv
<1>5. /\ settled' \in [Requests -> Outcomes]
      /\ pending' = pending \ {on}
      /\ ~Waiting(on)'
      /\ \A p \in Requests \ {on} : Waiting(p)' <=> Waiting(p)
      /\ \A p \in Requests : settled'[p] # "open" => WasAsked(p)
      /\ PendingIsWaiting'
  BY <1>0, <1>1, ResolvesFacts
<1>6. PermTypeOK'
  BY <1>1, <1>4, <1>5 DEF PermInv, PermTypeOK, ReplyRecords
<1>7. \A p : (Allows(p, saved)' <=> Allows(p, saved)) /\ ~WillCome(r, p)
  BY <1>1 DEF Allows, WillCome
<1> QED
  BY <1>1, <1>3, <1>4, <1>5, <1>6, <1>7, ReplyStep

LEMMA AllowsAlwaysInv ==
    ASSUME PermInv, NEW r \in Replies, AllowsAlways(r)
    PROVE  PermInv'
<1>0. PICK on \in Requests : on = reply[r].on /\ WasAsked(on)
  BY DEF PermInv, RepliesAreToAsked, AllowsAlways
<1> DEFINE to == [reply[r] EXCEPT !.at = "saved"]
<1>1. /\ UNCHANGED <<pending, settled, ask, stale>>
      /\ reply[r].at = "telling" /\ reply[r].answer = "always"
      /\ saved' = saved \cup {ActionOf[on]} /\ ReplyGoes(r, to)
  BY <1>0 DEF AllowsAlways
<1>2. reply[r].seen = {} /\ reply[r].swept = {} /\ reply[r] \in ReplyRecords
  BY <1>1 DEF PermInv, PermTypeOK, AnswersInPlace, ReplyRecords
<1>3. /\ to \in ReplyRecords /\ to.at = "saved" /\ to.on = on
      /\ to.swept = {} /\ to.seen = {} /\ to.answer = "always"
  BY <1>0, <1>1, <1>2 DEF ReplyRecords
<1> HIDE DEF to
<1>4. /\ reply' \in [Replies -> ReplyRecords]
      /\ reply'[r] = to
      /\ \A s \in Replies \ {r} : reply'[s] = reply[s]
  BY <1>1, <1>3, GoesFacts DEF PermInv
<1>5. PermTypeOK'
  BY <1>1, <1>4, RequestsAre DEF PermInv, PermTypeOK, ReplyRecords
<1>6. \A p \in Requests : Waiting(p)' <=> Waiting(p)
  BY <1>1 DEF Waiting
<1>7. PendingIsWaiting'
  BY <1>1, <1>6 DEF PermInv, PendingIsWaiting
<1>8. \A p \in Requests : settled'[p] # "open" => WasAsked(p)
  BY <1>1 DEF PermInv, SettledWereAsked
<1>9. \A p : WillCome(r, p)'
  BY <1>3, <1>4 DEF WillCome
<1> QED
  BY <1>0, <1>1, <1>3, <1>4, <1>5, <1>6, <1>7, <1>8, <1>9, ReplyStep

LEMMA SavesInv ==
    ASSUME PermInv, NEW r \in Replies, Saves(r)
    PROVE  PermInv'
<1>0. PICK on \in Requests : on = reply[r].on /\ WasAsked(on)
  BY DEF PermInv, RepliesAreToAsked, Saves
<1> DEFINE to == [reply[r] EXCEPT !.at = "reading"]
<1>1. /\ UNCHANGED <<saved, ask, stale>> /\ reply[r].at = "saved"
      /\ Resolves(on, "approved") /\ ReplyGoes(r, to)
  BY <1>0 DEF Saves
<1>2. /\ reply[r].seen = {} /\ reply[r].swept = {} /\ reply[r].answer = "always"
      /\ reply[r] \in ReplyRecords
  BY <1>1 DEF PermInv, PermTypeOK, AnswersInPlace, ReplyRecords
<1>3. /\ to \in ReplyRecords /\ to.at = "reading" /\ to.on = on
      /\ to.swept = {} /\ to.seen = {} /\ to.answer = "always"
  BY <1>0, <1>1, <1>2 DEF ReplyRecords
<1> HIDE DEF to
<1>4. /\ reply' \in [Replies -> ReplyRecords]
      /\ reply'[r] = to
      /\ \A s \in Replies \ {r} : reply'[s] = reply[s]
  BY <1>1, <1>3, GoesFacts DEF PermInv
<1>5. /\ settled' \in [Requests -> Outcomes]
      /\ pending' = pending \ {on}
      /\ ~Waiting(on)'
      /\ \A p \in Requests \ {on} : Waiting(p)' <=> Waiting(p)
      /\ \A p \in Requests : settled'[p] # "open" => WasAsked(p)
      /\ PendingIsWaiting'
  BY <1>0, <1>1, ResolvesFacts
<1>6. PermTypeOK'
  BY <1>1, <1>4, <1>5 DEF PermInv, PermTypeOK, ReplyRecords
<1>7. \A p : WillCome(r, p)'
  BY <1>3, <1>4 DEF WillCome
<1> QED
  BY <1>0, <1>1, <1>3, <1>4, <1>5, <1>6, <1>7, ReplyStep
-----------------------------------------------------------------------------
(* The walk of always, over the rules it has read.                         *)
LEMMA RemembersInv ==
    ASSUME PermInv, NEW r \in Replies, Remembers(r)
    PROVE  PermInv'
<1>0. PICK on \in Requests : on = reply[r].on /\ WasAsked(on)
  BY DEF PermInv, RepliesAreToAsked, Remembers
<1>1. PICK t \in Walks(r, pending, "weighing") :
        ReplyGoes(r, [t EXCEPT !.rules = saved])
  BY DEF Remembers
<1> DEFINE to == [t EXCEPT !.rules = saved]
<1>2. UNCHANGED <<saved, pending, settled, ask, stale>> /\ reply[r].at = "reading"
  BY DEF Remembers
<1>3. /\ reply[r].seen = {} /\ reply[r].swept = {} /\ reply[r].answer = "always"
      /\ pending \in SUBSET Requests /\ saved \in SUBSET Actions
  BY <1>2 DEF PermInv, PermTypeOK, AnswersInPlace
<1>4. /\ t \in ReplyRecords /\ t.swept = {}
      /\ \/ Ahead(r, pending) = {} /\ t.at = "over" /\ t.answer = "once"
         \/ /\ t.item \in Ahead(r, pending) /\ t.at = "weighing"
            /\ t.on = on /\ t.answer = "always"
            /\ t.seen = {t.item}
  <2>1. PermTypeOK
    BY DEF PermInv
  <2> QED
    BY <1>0, <1>1, <1>3, <2>1, WalksOn
<1>5. /\ to \in ReplyRecords
      /\ to.at = t.at /\ to.on = t.on /\ to.item = t.item /\ to.seen = t.seen
      /\ to.answer = t.answer /\ to.swept = {} /\ to.rules = saved
  BY <1>3, <1>4 DEF ReplyRecords
<1> HIDE DEF to
<1>6. /\ reply' \in [Replies -> ReplyRecords]
      /\ reply'[r] = to
      /\ \A s \in Replies \ {r} : reply'[s] = reply[s]
  BY <1>1, <1>5, GoesFacts DEF PermInv, to
<1>7. PermTypeOK'
  BY <1>2, <1>6 DEF PermInv, PermTypeOK, ReplyRecords
<1>8. \A p \in Requests : Waiting(p)' <=> Waiting(p)
  BY <1>2 DEF Waiting
<1>9. PendingIsWaiting'
  BY <1>2, <1>8 DEF PermInv, PendingIsWaiting
<1>10. \A p \in Requests : settled'[p] # "open" => WasAsked(p)
  BY <1>2 DEF PermInv, SettledWereAsked
<1>11. \A p \in pending : p \in Ahead(r, pending) /\ WasAsked(p)
  BY <1>3 DEF Ahead, PermInv, PendingIsWaiting, Waiting, WasAsked
<1>12. t.at = "weighing" => t.item \in Requests /\ WasAsked(t.item)
  BY <1>3, <1>4, <1>11 DEF Ahead
<1>13. ASSUME NEW q \in Requests, Waiting(q)', Allows(q, saved)'
       PROVE  WillCome(r, q)'
  <2>1. q \in Ahead(r, pending) /\ Allows(q, saved)
    BY <1>2, <1>8, <1>11, <1>13 DEF PermInv, PendingIsWaiting, Allows
  <2>2. /\ to.at = "weighing" /\ to.answer = "always" /\ to.seen = {to.item}
        /\ Allows(q, to.rules)
    BY <2>1, <1>4, <1>5
  <2> QED
    BY <2>2, <1>6 DEF WillCome, Allows
<1> QED
  BY <1>0, <1>2, <1>4, <1>5, <1>6, <1>7, <1>8, <1>9, <1>10, <1>12, <1>13, ReplyStep

LEMMA WeighsInv ==
    ASSUME PermInv, NEW r \in Replies, Weighs(r)
    PROVE  PermInv'
<1>0. PICK on \in Requests, item \in Requests :
        /\ on = reply[r].on /\ WasAsked(on)
        /\ item = reply[r].item /\ WasAsked(item)
  BY DEF PermInv, RepliesAreToAsked, Weighs
<1>1. UNCHANGED <<saved, pending, settled, ask, stale>> /\ reply[r].at = "weighing"
  BY DEF Weighs
<1>2. /\ reply[r].answer = "always" /\ reply[r].swept = {}
      /\ reply[r] \in ReplyRecords /\ pending \in SUBSET Requests
  BY <1>1 DEF PermInv, PermTypeOK, AnswersInPlace, ReplyRecords
<1>3. PICK to \in ReplyRecords :
        /\ ReplyGoes(r, to) /\ to.swept = {}
        /\ \/ /\ Allows(item, reply[r].rules) /\ to.at = "passing"
              /\ to.on = on /\ to.item = item /\ to.answer = "always"
              /\ to.rules = reply[r].rules /\ to.seen = reply[r].seen
           \/ ~Allows(item, reply[r].rules) /\ Ahead(r, pending) = {}
              /\ to.at = "over" /\ to.answer = "once"
           \/ /\ ~Allows(item, reply[r].rules) /\ to.item \in Ahead(r, pending)
              /\ to.at = "weighing" /\ to.on = on /\ to.answer = "always"
              /\ to.rules = reply[r].rules
              /\ to.seen = reply[r].seen \cup {to.item}
  <2>1. CASE Allows(item, reply[r].rules)
    <3> DEFINE t == [reply[r] EXCEPT !.at = "passing"]
    <3>1. ReplyGoes(r, t)
      BY <1>0, <2>1 DEF Weighs
    <3>2. /\ t \in ReplyRecords /\ t.swept = {} /\ t.at = "passing" /\ t.on = on
          /\ t.item = item /\ t.answer = "always"
          /\ t.rules = reply[r].rules /\ t.seen = reply[r].seen
      BY <1>0, <1>2 DEF ReplyRecords
    <3> QED
      BY <2>1, <3>1, <3>2
  <2>2. CASE ~Allows(item, reply[r].rules)
    <3>1. PICK t \in Walks(r, pending, "weighing") : ReplyGoes(r, t)
      BY <1>0, <2>2 DEF Weighs
    <3>2. PermTypeOK
      BY DEF PermInv
    <3> QED
      BY <2>2, <1>0, <1>2, <3>1, <3>2, WalksOn
  <2> QED
    BY <2>1, <2>2
<1>4. /\ reply' \in [Replies -> ReplyRecords]
      /\ reply'[r] = to
      /\ \A s \in Replies \ {r} : reply'[s] = reply[s]
  BY <1>3, GoesFacts DEF PermInv
<1>5. PermTypeOK'
  BY <1>1, <1>4 DEF PermInv, PermTypeOK, ReplyRecords
<1>6. \A p \in Requests : Waiting(p)' <=> Waiting(p)
  BY <1>1 DEF Waiting
<1>7. PendingIsWaiting'
  BY <1>1, <1>6 DEF PermInv, PendingIsWaiting
<1>8. \A p \in Requests : settled'[p] # "open" => WasAsked(p)
  BY <1>1 DEF PermInv, SettledWereAsked
<1>9. \A p \in pending : WasAsked(p)
  BY DEF PermInv, PendingIsWaiting, Waiting, WasAsked
<1>10. to.at \in {"weighing", "passing"} => to.item \in Requests /\ WasAsked(to.item)
  BY <1>0, <1>2, <1>3, <1>9 DEF Ahead
<1>11. ASSUME NEW q \in Requests, Waiting(q)', Allows(q, saved)', WillCome(r, q)
       PROVE  WillCome(r, q)'
  <2>1. /\ Allows(q, reply[r].rules)
        /\ q = item \/ q \notin reply[r].seen
        /\ q \in pending
    BY <1>0, <1>1, <1>6, <1>11 DEF WillCome, PermInv, PendingIsWaiting
  <2>2. CASE Allows(item, reply[r].rules)
    BY <1>3, <1>4, <2>1, <2>2 DEF WillCome, Allows
  <2>3. CASE ~Allows(item, reply[r].rules)
    <3>1. q \in Ahead(r, pending)
      BY <1>2, <2>1, <2>3 DEF Ahead
    <3>2. /\ to.at = "weighing" /\ to.answer = "always"
          /\ Allows(q, to.rules) /\ (q = to.item \/ q \notin to.seen)
      BY <1>3, <2>1, <2>3, <3>1 DEF Ahead
    <3> QED
      BY <3>2, <1>4 DEF WillCome, Allows
  <2> QED
    BY <2>2, <2>3
<1>12. \A q \in Requests : Allows(q, saved)' <=> Allows(q, saved)
  BY <1>1 DEF Allows
<1> QED
  BY <1>0, <1>1, <1>3, <1>4, <1>5, <1>6, <1>7, <1>8, <1>10, <1>11, <1>12, ReplyStep

(* One step of a walk settles the request it is at, and goes on.           *)
LEMMA PassesInv ==
    ASSUME PermInv, NEW r \in Replies, Passes(r)
    PROVE  PermInv'
<1>0. PICK on \in Requests, item \in Requests :
        /\ on = reply[r].on /\ WasAsked(on)
        /\ item = reply[r].item /\ WasAsked(item)
  BY DEF PermInv, RepliesAreToAsked, Passes
<1> DEFINE rejects == reply[r].answer = "reject"
           at == IF rejects THEN "passing" ELSE "weighing"
<1>1. /\ UNCHANGED <<saved, ask, stale>> /\ reply[r].at = "passing"
      /\ Resolves(item, IF rejects THEN "rejected" ELSE "approved")
  BY <1>0 DEF Passes
<1>2. /\ rejects \/ (reply[r].answer = "always" /\ reply[r].swept = {})
      /\ reply[r] \in ReplyRecords /\ pending \in SUBSET Requests
  BY <1>1 DEF PermInv, PermTypeOK, AnswersInPlace, ReplyRecords, Answers
<1>3. /\ settled' \in [Requests -> Outcomes]
      /\ pending' = pending \ {item}
      /\ ~Waiting(item)'
      /\ \A p \in Requests \ {item} : Waiting(p)' <=> Waiting(p)
      /\ \A p \in Requests : settled'[p] # "open" => WasAsked(p)
      /\ PendingIsWaiting'
  <2>1. (IF rejects THEN "rejected" ELSE "approved") \in {"approved", "rejected"}
    OBVIOUS
  <2> QED
    BY <1>0, <1>1, <2>1, ResolvesFacts
<1>4. PICK to \in ReplyRecords :
        /\ ReplyGoes(r, to) /\ to.swept = reply[r].swept
        /\ \/ /\ Ahead(r, pending') = {} /\ to.at = "over"
              /\ to.answer = "once"
           \/ /\ to.item \in Ahead(r, pending') /\ to.at = at
              /\ to.on = on /\ to.answer = reply[r].answer
              /\ to.rules = reply[r].rules
              /\ to.seen = reply[r].seen \cup {to.item}
  <2>1. PICK t \in Walks(r, pending', at) : ReplyGoes(r, t)
    BY <1>0, <1>3 DEF Passes, Without
  <2>2. PermTypeOK /\ pending' \in SUBSET Requests /\ at \in {"weighing", "passing"}
    BY <1>2, <1>3 DEF PermInv
  <2> HIDE DEF at
  <2> QED
    BY <1>0, <2>1, <2>2, WalksOn
<1>5. /\ reply' \in [Replies -> ReplyRecords]
      /\ reply'[r] = to
      /\ \A s \in Replies \ {r} : reply'[s] = reply[s]
  BY <1>4, GoesFacts DEF PermInv
<1>6. PermTypeOK'
  BY <1>1, <1>3, <1>5 DEF PermInv, PermTypeOK, ReplyRecords
<1>7. \A p \in pending : WasAsked(p)
  BY DEF PermInv, PendingIsWaiting, Waiting, WasAsked
<1>8. to.at \in {"weighing", "passing"} => to.item \in Requests /\ WasAsked(to.item)
  BY <1>2, <1>3, <1>4, <1>7 DEF Ahead
<1>9. /\ to.at = "weighing" => to.answer = "always"
      /\ to.at = "passing" => to.answer # "once"
      /\ to.answer = "always" => to.swept = {}
      /\ to.at \notin {"saved", "reading", "telling"}
  BY <1>2, <1>4 DEF PermInv, AnswersInPlace
<1>10. ASSUME NEW q \in reply[r].swept
       PROVE  WasAsked(q) /\ (Waiting(q)' => YetToSweep(r, q)')
  <2>1. /\ q \in Requests /\ WasAsked(q)
        /\ Waiting(q) => YetToSweep(r, q)
    BY <1>2 DEF PermInv, SweptIsAhead, ReplyRecords
  <2>2. ASSUME Waiting(q)'
        PROVE  YetToSweep(r, q)'
    <3>1. q # item /\ q \in pending' /\ YetToSweep(r, q)
      BY <1>3, <2>1, <2>2 DEF PendingIsWaiting
    <3>2. q \in Ahead(r, pending') /\ q \notin reply[r].seen /\ rejects
      BY <1>0, <2>1, <3>1 DEF Ahead, YetToSweep
    <3> QED
      BY <3>1, <3>2, <1>0, <1>4, <1>5 DEF YetToSweep
  <2> QED
    BY <2>1, <2>2
<1>11. ASSUME NEW q \in Requests, Waiting(q)', WillCome(r, q)
       PROVE  WillCome(r, q)'
  <2>1. /\ Allows(q, reply[r].rules) /\ reply[r].answer = "always"
        /\ q # item /\ q \notin reply[r].seen /\ q \in pending'
    BY <1>0, <1>1, <1>3, <1>11 DEF WillCome, PendingIsWaiting
  <2>2. q \in Ahead(r, pending')
    BY <2>1 DEF Ahead
  <2>3. /\ to.at = "weighing" /\ to.answer = "always"
        /\ Allows(q, to.rules) /\ (q = to.item \/ q \notin to.seen)
    BY <1>4, <2>1, <2>2
  <2> QED
    BY <2>3, <1>5 DEF WillCome, Allows
<1>12. \A q \in Requests : Allows(q, saved)' <=> Allows(q, saved)
  BY <1>1 DEF Allows
<1>13. \A q \in Requests : Waiting(q)' => Waiting(q)
  BY <1>3
<1>14. to.at \notin {"off", "over"} => to.on = on
  BY <1>4
<1> QED
  BY <1>0, <1>1, <1>3, <1>4, <1>5, <1>6, <1>8, <1>9, <1>10, <1>11, <1>12, <1>13,
     <1>14, ReplyStep
-----------------------------------------------------------------------------
LEMMA PermStepInv == PermInv /\ [PermNext]_permVars => PermInv'
<1> SUFFICES ASSUME PermInv, [PermNext]_permVars
             PROVE  PermInv'
  OBVIOUS
<1>1. ASSUME NEW q \in Requests, AskNext(q) \/ GivesUp(q)
      PROVE  PermInv'
  BY <1>1, EvaluatesInv, DecidesInv, EndsInv DEF AskNext
<1>2. ASSUME NEW r \in Replies, ReplyNext(r)
      PROVE  PermInv'
  BY <1>2, RejectsInv, AllowsOnceInv, AllowsAlwaysInv, SavesInv, RemembersInv,
     WeighsInv, PassesInv DEF ReplyNext
<1>3. ASSUME NEW r \in Replies, NEW q \in Requests, NEW answer \in Answers,
             Replied(r, q, answer)
      PROVE  PermInv'
  BY <1>3, RepliedInv
<1>4. CASE UNCHANGED permVars
  <2>1. UNCHANGED <<saved, pending, settled, ask, reply, stale>>
    BY <1>4 DEF permVars
  <2>2. \A q : /\ Waiting(q)' <=> Waiting(q)
               /\ WasAsked(q)' <=> WasAsked(q)
               /\ Allows(q, saved)' <=> Allows(q, saved)
    BY <2>1 DEF Waiting, WasAsked, Allows
  <2>3. \A r, q : /\ YetToSweep(r, q)' <=> YetToSweep(r, q)
                  /\ WillCome(r, q)' <=> WillCome(r, q)
    BY <2>1 DEF YetToSweep, WillCome, Allows
  <2>4. PermTypeOK' /\ AnswersInPlace'
    BY <2>1 DEF PermInv, PermTypeOK, AnswersInPlace
  <2>5. PendingIsWaiting' /\ SettledWereAsked'
    BY <2>1, <2>2 DEF PermInv, PendingIsWaiting, SettledWereAsked
  <2>6. RepliesAreToAsked'
    BY <2>1 DEF PermInv, RepliesAreToAsked, WasAsked
  <2>7. SweptIsAhead'
    BY <2>1, <2>2, <2>3 DEF PermInv, SweptIsAhead
  <2>8. AlwaysIsRemembered'
    BY <2>1, <2>2, <2>3 DEF PermInv, AlwaysIsRemembered, OnItsWay
  <2> QED
    BY <2>4, <2>5, <2>6, <2>7, <2>8 DEF PermInv
<1> QED
  BY <1>1, <1>2, <1>3, <1>4 DEF PermNext

LEMMA PermInvariance == PermSpec => []PermInv
<1>1. PermInv /\ [PermNext]_permVars => PermInv'
  BY PermStepInv
<1> QED
  BY <1>1, PermInitInv, PTL DEF PermSpec

(* The types of the requests' and the replies' state hold.                 *)
THEOREM PermTypeCorrect == PermSpec => []PermTypeOK
BY PermInvariance, PTL DEF PermInv

(* The map holds the requests that wait for a reply, and no others.        *)
THEOREM PendingCorrect == PermSpec => []PendingIsWaiting
BY PermInvariance, PTL DEF PermInv

LEMMA PermInvRejects == PermInv => RejectSweeps
  BY DEF PermInv, SweptIsAhead, RejectSweeps, YetToSweep

(* reject reaches every request its session had open, whatever comes and   *)
(* goes while it walks.                                                    *)
THEOREM RejectReachesAll == PermSpec => []RejectSweeps
BY PermInvariance, PermInvRejects, PTL

(* No request waits for what a saved rule allows unless a reply is on its  *)
(* way to it or it was made with rules read before.                        *)
THEOREM AlwaysReachesAll == PermSpec => []AlwaysIsRemembered
BY PermInvariance, PTL DEF PermInv

-----------------------------------------------------------------------------
(* FileTools.  Since a Location changes a file only under its lock, what   *)
(* an update has compared is still there when it opens the file, and the   *)
(* file is still empty when it fills it, unless another Location came.     *)

Calls == [at : {"prepares", "applies", "locking", "compared", "writing",
                "written", "over"},
          i : Nat, read : Seq(Contents)]

(* A call is inside the mutex from when it applies a change to its end.    *)
LocksItsFile(c) ==
    /\ call[c].at \in {"prepares", "applies", "over"} => place[c].at = "outside"
    /\ call[c].at = "locking" =>
          place[c].at # "outside" /\ place[c].key = Lock(c)
    /\ call[c].at \in {"compared", "writing", "written"} => Holds(c, Lock(c))

HasRead(c) ==
    /\ call[c].at = "prepares" => Len(call[c].read) = call[c].i - 1
    /\ call[c].at \notin {"prepares", "over"} => Len(call[c].read) = Len(Plan[c])

ComparedIsCurrent(c) ==
    call[c].at = "compared" =>
        /\ Change(c).kind = "update"
        /\ Crossed(c) \/ content[File(c)] = call[c].read[call[c].i]

FilledIsTorn(c) == call[c].at = "writing" => Crossed(c) \/ content[File(c)] = Torn

CallInv(c) ==
    LocksItsFile(c) /\ HasRead(c) /\ ComparedIsCurrent(c) /\ FilledIsTorn(c)

ToolInv ==
    /\ MutexInv
    /\ PermInv
    /\ FileTypeOK
    /\ \A c \in Fibers : CallInv(c)
    /\ TornIsBeingFilled
    /\ UpdatesLoseNothing

LEMMA CallTypes ==
    ASSUME FileTypeOK, NEW c \in Fibers
    PROVE  /\ call[c] \in Calls
           /\ call[c].i \in 1 .. Len(Plan[c])
           /\ Len(Plan[c]) \in Nat
           /\ Change(c).kind \in Kinds
           /\ File(c) \in Files /\ Lock(c) \in Keys
<1>1. Plan[c] \in Seq([kind : Kinds, file : Files])
  BY CallsAre
<1>2. call[c].i \in 1 .. Len(Plan[c]) /\ call[c] \in Calls
  BY DEF FileTypeOK, Calls
<1>3. Plan[c][call[c].i] \in [kind : Kinds, file : Files]
  BY <1>1, <1>2, ElementOfSeq
<1> QED
  BY <1>1, <1>2, <1>3, CallsAre DEF Change, File, Lock

LEMMA ToolInitInv == FileInit => ToolInv
<1> SUFFICES ASSUME FileInit
             PROVE  ToolInv
  OBVIOUS
<1>1. MutexInv /\ PermInv
  BY MutexInitInv, PermInitInv DEF FileInit
<1>2. content \in [Files -> {Missing, Holding({})}]
  BY CallsAre DEF FileInit
<1>3. /\ call \in [Fibers -> Calls]
      /\ \A c \in Fibers : /\ call[c].at = "prepares" /\ call[c].i = 1
                             /\ call[c].read = <<>>
  BY DEF FileInit, Calls
<1>4. \A c \in Fibers : 1 \in 1 .. Len(Plan[c])
  BY CallsAre
<1>5. FileTypeOK
  <2>1. Missing \in Contents /\ Holding({}) \in Contents
    BY DEF Missing, Holding, Contents
  <2>2. lost = {} /\ crossed = {}
    BY DEF FileInit
  <2> QED
    BY <1>1, <1>2, <1>3, <1>4, <2>1, <2>2 DEF FileTypeOK, MutexInv, PermInv, Calls
<1>6. \A c \in Fibers : place[c].at = "outside"
  BY CallsAre DEF FileInit, MutexInit, Outside
<1>7. \A c \in Fibers : CallInv(c)
  BY <1>3, <1>6 DEF CallInv, LocksItsFile, HasRead, ComparedIsCurrent, FilledIsTorn
<1>8. TornIsBeingFilled
  BY <1>2 DEF TornIsBeingFilled, Missing, Holding
<1>9. UpdatesLoseNothing
  BY DEF FileInit, UpdatesLoseNothing
<1> QED
  BY <1>1, <1>5, <1>7, <1>8, <1>9 DEF ToolInv
-----------------------------------------------------------------------------
(* A step of one call.  It changes no file whose lock it does not hold, so *)
(* what holds of the other calls still does.                               *)
LEMMA OthersKeep ==
    ASSUME ToolInv, NEW c \in Fibers,
           \A d \in Fibers \ {c} : call'[d] = call[d] /\ place'[d] = place[d],
           crossed \subseteq crossed',
           \/ content' = content
           \/ /\ Holds(c, Lock(c)) /\ Crosses(c)
              /\ \A f \in Files \ {File(c)} : content'[f] = content[f]
    PROVE  \A d \in Fibers \ {c} : CallInv(d)'
<1> SUFFICES ASSUME NEW d \in Fibers \ {c}
             PROVE  CallInv(d)'
  OBVIOUS
<1>1. call'[d] = call[d] /\ place'[d] = place[d] /\ CallInv(d)
  BY DEF ToolInv
<1>2. /\ File(d)' = File(d) /\ Change(d)' = Change(d) /\ Lock(d)' = Lock(d)
      /\ Crossed(d) => Crossed(d)'
  BY <1>1 DEF File, Change, Lock, Crossed
<1>3. LocksItsFile(d)'
  BY <1>1, <1>2 DEF CallInv, LocksItsFile, Holds
<1>4. HasRead(d)'
  BY <1>1 DEF CallInv, HasRead
<1>5. call[d].at \in {"compared", "writing"} =>
        Crossed(d)' \/ content'[File(d)] = content[File(d)]
  <2>1. SUFFICES ASSUME call[d].at \in {"compared", "writing"},
                        Holds(c, Lock(c)), Crosses(c), File(d) = File(c)
                 PROVE  Crossed(d)'
    BY CallTypes DEF ToolInv
  <2>2. Holds(d, Lock(d)) /\ Lock(c) \in Keys
    BY <1>1, <2>1, CallTypes DEF ToolInv, CallInv, LocksItsFile
  <2>3. Lock(d) # Lock(c)
    BY <2>1, <2>2 DEF ToolInv, MutexInv, Exclusive
  <2>4. LocationOf[d] # LocationOf[c]
    BY <2>1, <2>3 DEF Lock
  <2> QED
    BY <1>1, <2>1, <2>4 DEF Crosses, Crossed
<1>6. ComparedIsCurrent(d)' /\ FilledIsTorn(d)'
  BY <1>1, <1>2, <1>5 DEF CallInv, ComparedIsCurrent, FilledIsTorn
<1> QED
  BY <1>3, <1>4, <1>6 DEF CallInv

(* The steps that write to no file.                                        *)
LEMMA NoWriteKeeps ==
    ASSUME ToolInv, NEW c \in Fibers, [MutexNext]_mutexVars,
           UNCHANGED <<permVars, content, lost, crossed>>,
           \A d \in Fibers \ {c} : call'[d] = call[d] /\ place'[d] = place[d],
           call[c].at # "writing",
           call' \in [Fibers -> Calls],
           call'[c].i \in 1 .. Len(Plan[c]),
           CallInv(c)'
    PROVE  ToolInv'
<1>1. MutexInv' /\ PermInv'
  BY MutexStepInv, PermStepInv DEF ToolInv
<1>2. FileTypeOK'
  BY <1>1 DEF ToolInv, FileTypeOK, MutexInv, PermInv, Calls
<1>3. \A d \in Fibers : CallInv(d)'
  BY OthersKeep
<1>4. TornIsBeingFilled'
  <2>1. ASSUME NEW d \in Fibers, NEW f, call[d].at = "writing",
               Holds(d, <<LocationOf[d], f>>)
        PROVE  call'[d].at = "writing" /\ Holds(d, <<LocationOf[d], f>>)'
    BY <2>1 DEF Holds
  <2>2. TornIsBeingFilled
    BY DEF ToolInv
  <2> QED
    BY <2>1, <2>2 DEF TornIsBeingFilled
<1>5. UpdatesLoseNothing'
  BY DEF ToolInv, UpdatesLoseNothing
<1> QED
  BY <1>1, <1>2, <1>3, <1>4, <1>5 DEF ToolInv

LEMMA OverFacts ==
    ASSUME FileTypeOK, NEW c \in Fibers, CallOver(c)
    PROVE  /\ call' \in [Fibers -> Calls]
           /\ call'[c].i \in 1 .. Len(Plan[c])
           /\ call'[c].at = "over"
           /\ \A d \in Fibers \ {c} : call'[d] = call[d]
<1>1. 1 \in 1 .. Len(Plan[c])
  BY CallsAre
<1> QED
  BY <1>1 DEF FileTypeOK, CallOver, Calls

LEMMA GoesOnFacts ==
    ASSUME FileTypeOK, NEW c \in Fibers, NEW at, CallGoes(c, at),
           at \in {"prepares", "applies", "locking", "compared", "writing",
                   "written", "over"}
    PROVE  /\ call' \in [Fibers -> Calls]
           /\ call'[c] = [call[c] EXCEPT !.at = at]
           /\ call'[c].at = at /\ call'[c].i = call[c].i
           /\ call'[c].read = call[c].read
           /\ call'[c].i \in 1 .. Len(Plan[c])
           /\ File(c)' = File(c) /\ Change(c)' = Change(c)
           /\ \A d \in Fibers \ {c} : call'[d] = call[d]
  BY DEF FileTypeOK, CallGoes, Calls, File, Change

LEMMA PreparedFacts ==
    ASSUME FileTypeOK, NEW c \in Fibers, NEW read \in Contents, HasRead(c),
           call[c].at = "prepares", Prepared(c, read)
    PROVE  /\ call' \in [Fibers -> Calls]
           /\ call'[c].i \in 1 .. Len(Plan[c])
           /\ call'[c].at \in {"prepares", "applies"}
           /\ HasRead(c)'
           /\ \A d \in Fibers \ {c} : call'[d] = call[d]
<1> DEFINE done == call[c].i = Len(Plan[c])
           to == [at |-> IF done THEN "applies" ELSE "prepares",
                  i |-> IF done THEN 1 ELSE call[c].i + 1,
                  read |-> Append(call[c].read, read)]
<1>1. call' = [call EXCEPT ![c] = to] /\ call \in [Fibers -> Calls]
  BY DEF Prepared, FileTypeOK, Calls
<1>2. /\ call[c].i \in 1 .. Len(Plan[c]) /\ Len(Plan[c]) \in Nat
      /\ call[c].read \in Seq(Contents)
  BY CallTypes DEF Calls
<1>3. /\ Append(call[c].read, read) \in Seq(Contents)
      /\ Len(Append(call[c].read, read)) = Len(call[c].read) + 1
  BY <1>2
<1>4. to \in Calls /\ to.i \in 1 .. Len(Plan[c]) /\ to.at \in {"prepares", "applies"}
  <2>1. to.i \in 1 .. Len(Plan[c])
    BY <1>2
  <2>2. to.i \in Nat
    BY <2>1
  <2>3. to.at \in {"prepares", "applies"}
    OBVIOUS
  <2> QED
    BY <1>3, <2>1, <2>2, <2>3 DEF Calls
<1>5. /\ to.at = "prepares" => Len(to.read) = to.i - 1
      /\ to.at = "applies" => Len(to.read) = Len(Plan[c])
  <2>1. Len(to.read) = call[c].i /\ call[c].i \in Nat
    BY <1>2, <1>3 DEF HasRead
  <2>2. to.at = "applies" <=> done
    OBVIOUS
  <2>3. ~done => to.i = call[c].i + 1
    OBVIOUS
  <2> HIDE DEF to
  <2> QED
    BY <2>1, <2>2, <2>3
<1> HIDE DEF to
<1>6. /\ call' \in [Fibers -> Calls] /\ call'[c] = to
      /\ \A d \in Fibers \ {c} : call'[d] = call[d]
  BY <1>1, <1>4
<1> QED
  BY <1>4, <1>5, <1>6 DEF HasRead
-----------------------------------------------------------------------------
LEMMA PreparesInv ==
    ASSUME ToolInv, NEW c \in Fibers, Prepares(c)
    PROVE  ToolInv'
<1>1. /\ FileTypeOK /\ HasRead(c) /\ call[c].at = "prepares"
      /\ place[c].at = "outside"
      /\ UNCHANGED <<mutexVars, permVars, content, lost, crossed>>
  BY DEF ToolInv, CallInv, LocksItsFile, Prepares
<1>2. content[File(c)] \in Contents /\ Missing \in Contents
  BY <1>1, CallTypes DEF FileTypeOK, Missing, Contents
<1>3. /\ call' \in [Fibers -> Calls]
      /\ call'[c].i \in 1 .. Len(Plan[c])
      /\ call'[c].at \in {"prepares", "applies", "over"}
      /\ HasRead(c)'
      /\ \A d \in Fibers \ {c} : call'[d] = call[d]
  <2>1. CASE CallOver(c)
    BY <2>1, <1>1, OverFacts DEF HasRead
  <2>2. CASE \E read \in Contents : Prepared(c, read)
    BY <2>2, <1>1, PreparedFacts
  <2>3. CallOver(c) \/ \E read \in Contents : Prepared(c, read)
    BY <1>2 DEF Prepares
  <2> QED
    BY <2>1, <2>2, <2>3
<1>4. place' = place
  BY <1>1 DEF mutexVars
<1>5. CallInv(c)'
  BY <1>1, <1>3, <1>4 DEF CallInv, LocksItsFile, ComparedIsCurrent, FilledIsTorn
<1> QED
  BY <1>1, <1>3, <1>4, <1>5, NoWriteKeeps

LEMMA AppliesInv ==
    ASSUME ToolInv, NEW c \in Fibers, Applies(c)
    PROVE  ToolInv' /\ [MutexNext]_mutexVars
<1>1. /\ FileTypeOK /\ HasRead(c) /\ call[c].at = "applies"
      /\ withLock(c, Lock(c)) /\ CallGoes(c, "locking")
      /\ UNCHANGED <<permVars, content, lost, crossed>>
  BY DEF ToolInv, CallInv, Applies
<1>2. c \in Fibers /\ Lock(c) \in Keys
  BY <1>1, CallTypes
<1>3. MutexNext
  BY <1>1, <1>2 DEF MutexNext
<1>4. /\ place'[c].at # "outside" /\ place'[c].key = Lock(c)
      /\ \A d \in Fibers \ {c} : place'[d] = place[d]
  BY <1>1, <1>2, CallsAre DEF ToolInv, MutexInv, MutexTypeOK, withLock
<1>5. /\ call' \in [Fibers -> Calls]
      /\ call'[c].at = "locking" /\ call'[c].read = call[c].read
      /\ call'[c].i \in 1 .. Len(Plan[c])
      /\ Lock(c)' = Lock(c)
      /\ \A d \in Fibers \ {c} : call'[d] = call[d]
  BY <1>1, GoesOnFacts DEF Lock
<1>6. CallInv(c)'
  BY <1>1, <1>4, <1>5 DEF CallInv, LocksItsFile, HasRead, ComparedIsCurrent, FilledIsTorn
<1> QED
  BY <1>1, <1>3, <1>4, <1>5, <1>6, NoWriteKeeps

LEMMA LockedInv ==
    ASSUME ToolInv, NEW c \in Fibers, Locked(c)
    PROVE  ToolInv' /\ [MutexNext]_mutexVars
<1>1. Takes(c) /\ UNCHANGED <<permVars, content, call, lost, crossed>>
  BY DEF Locked, fileVars
<1>2. c \in Fibers /\ MutexNext
  BY <1>1, CallsAre DEF MutexNext
<1>3. /\ place[c].at = "waiting"
      /\ place'[c].at = "holding" /\ place'[c].key = place[c].key
      /\ \A d \in Fibers \ {c} : place'[d] = place[d]
  BY <1>1, <1>2, CallsAre DEF ToolInv, MutexInv, MutexTypeOK, Takes
<1>4. CallInv(c) /\ Lock(c)' = Lock(c)
  BY <1>1 DEF ToolInv, Lock, File, Change
<1>5. call[c].at = "locking"
  BY <1>3, <1>4, CallTypes DEF ToolInv, CallInv, LocksItsFile, Holds, Calls
<1>6. CallInv(c)'
  BY <1>1, <1>3, <1>4, <1>5 DEF CallInv, LocksItsFile, HasRead, ComparedIsCurrent, FilledIsTorn
<1>7. call' \in [Fibers -> Calls] /\ call'[c].i \in 1 .. Len(Plan[c])
  BY <1>1 DEF ToolInv, FileTypeOK, Calls
<1> QED
  BY <1>1, <1>2, <1>3, <1>5, <1>6, <1>7, NoWriteKeeps

LEMMA LeavesFacts ==
    ASSUME ToolInv, NEW c \in Fibers, Leaves(c)
    PROVE  /\ MutexNext
           /\ place'[c].at = "outside"
           /\ \A d \in Fibers \ {c} : place'[d] = place[d]
<1>1. c \in Fibers
  BY CallsAre
<1> QED
  BY <1>1, CallsAre DEF MutexNext, ToolInv, MutexInv, MutexTypeOK, Leaves, Outside

LEMMA EndsWell ==
    ASSUME ToolInv, NEW c \in Fibers, Ends(c), call[c].at # "writing"
    PROVE  ToolInv' /\ [MutexNext]_mutexVars
<1>1. /\ FileTypeOK /\ Leaves(c) /\ CallOver(c)
      /\ UNCHANGED <<permVars, content, lost, crossed>>
  BY DEF ToolInv, Ends
<1>2. /\ MutexNext /\ place'[c].at = "outside"
      /\ \A d \in Fibers \ {c} : place'[d] = place[d]
  BY <1>1, LeavesFacts
<1>3. /\ call' \in [Fibers -> Calls]
      /\ call'[c].i \in 1 .. Len(Plan[c]) /\ call'[c].at = "over"
      /\ \A d \in Fibers \ {c} : call'[d] = call[d]
  BY <1>1, OverFacts
<1>4. CallInv(c)'
  BY <1>2, <1>3 DEF CallInv, LocksItsFile, HasRead, ComparedIsCurrent, FilledIsTorn
<1> QED
  BY <1>1, <1>2, <1>3, <1>4, NoWriteKeeps

LEMMA InterruptedInv ==
    ASSUME ToolInv, NEW c \in Fibers, Interrupted(c)
    PROVE  ToolInv' /\ [MutexNext]_mutexVars
<1>1. CASE call[c].at = "locking" /\ Ends(c)
  BY <1>1, EndsWell
<1>2. CASE /\ call[c].at \in {"prepares", "applies"} /\ CallOver(c)
           /\ UNCHANGED <<mutexVars, permVars, content, lost, crossed>>
  <2>1. FileTypeOK /\ place' = place /\ place[c].at = "outside"
    BY <1>2 DEF ToolInv, CallInv, LocksItsFile, mutexVars
  <2>2. /\ call' \in [Fibers -> Calls]
        /\ call'[c].i \in 1 .. Len(Plan[c]) /\ call'[c].at = "over"
        /\ \A d \in Fibers \ {c} : call'[d] = call[d]
    BY <1>2, <2>1, OverFacts
  <2>3. CallInv(c)'
    BY <2>1, <2>2 DEF CallInv, LocksItsFile, HasRead, ComparedIsCurrent, FilledIsTorn
  <2> QED
    BY <1>2, <2>1, <2>2, <2>3, NoWriteKeeps
<1> QED
  BY <1>1, <1>2 DEF Interrupted

LEMMA ComparesInv ==
    ASSUME ToolInv, NEW c \in Fibers, Compares(c)
    PROVE  ToolInv'
<1>1. /\ FileTypeOK /\ CallInv(c) /\ call[c].at = "locking"
      /\ place[c].at = "holding" /\ Change(c).kind = "update"
      /\ content[File(c)] = call[c].read[call[c].i]
      /\ CallGoes(c, "compared")
      /\ UNCHANGED <<mutexVars, permVars, content, lost, crossed>>
  BY DEF ToolInv, Compares, Has, Passing
<1>2. place' = place /\ Holds(c, Lock(c))
  BY <1>1 DEF mutexVars, CallInv, LocksItsFile, Holds
<1>3. /\ call' \in [Fibers -> Calls]
      /\ call'[c].at = "compared" /\ call'[c].i = call[c].i
      /\ call'[c].read = call[c].read
      /\ call'[c].i \in 1 .. Len(Plan[c])
      /\ File(c)' = File(c) /\ Change(c)' = Change(c) /\ Lock(c)' = Lock(c)
      /\ \A d \in Fibers \ {c} : call'[d] = call[d]
  BY <1>1, GoesOnFacts DEF Lock
<1>4. CallInv(c)'
  BY <1>1, <1>2, <1>3 DEF CallInv, LocksItsFile, HasRead, ComparedIsCurrent, FilledIsTorn, Holds
<1> QED
  BY <1>1, <1>2, <1>3, <1>4, NoWriteKeeps
-----------------------------------------------------------------------------
(* The steps that write.                                                   *)
LEMMA WriteKeeps ==
    ASSUME ToolInv, NEW c \in Fibers, NEW to \in Contents, NEW at,
           at \in {"writing", "written"}, CallGoes(c, at),
           Holds(c, Lock(c)), HasRead(c), call[c].at \notin {"prepares", "over"},
           content' = [content EXCEPT ![File(c)] = to],
           to.is = "torn" => at = "writing" \/ Crossed(c),
           at = "writing" => to = Torn,
           Change(c).kind = "update" /\ Drops(c) => Crossed(c), Loses(c), Crosses(c),
           UNCHANGED <<mutexVars, permVars>>
    PROVE  ToolInv'
<1>1. /\ FileTypeOK /\ File(c) \in Files
      /\ locks' = locks /\ users' = users /\ place' = place
  BY CallTypes DEF ToolInv, mutexVars
<1>2. /\ call' \in [Fibers -> Calls]
      /\ call'[c].at = at /\ call'[c].i = call[c].i
      /\ call'[c].read = call[c].read
      /\ call'[c].i \in 1 .. Len(Plan[c])
      /\ File(c)' = File(c) /\ Lock(c)' = Lock(c)
      /\ \A d \in Fibers \ {c} : call'[d] = call[d]
  BY <1>1, GoesOnFacts DEF Lock
<1>3. /\ content' \in [Files -> Contents] /\ content'[File(c)] = to
      /\ \A f \in Files \ {File(c)} : content'[f] = content[f]
  BY <1>1 DEF FileTypeOK
<1>4. MutexInv' /\ PermInv'
  BY MutexStepInv, PermStepInv DEF ToolInv
<1>5. /\ crossed \subseteq crossed' /\ lost' \subseteq crossed'
      /\ crossed' \in SUBSET (Fibers \X Nat)
  <2>1. \A d \in Fibers : call[d].i \in Nat
    BY <1>1, CallTypes DEF Calls
  <2>2. crossed \subseteq crossed' /\ crossed' \in SUBSET (Fibers \X Nat)
    BY <1>1, <2>1 DEF Crosses, FileTypeOK
  <2> QED
    BY <2>2 DEF Loses, Crossed, ToolInv, UpdatesLoseNothing
<1>6. FileTypeOK'
  <2>1. MutexTypeOK' /\ PermTypeOK'
    BY <1>4 DEF MutexInv, PermInv
  <2>2. \A d \in Fibers : call'[d].i \in 1 .. Len(Plan[d])
    BY <1>1, <1>2 DEF FileTypeOK
  <2> QED
    BY <1>2, <1>3, <1>5, <2>1, <2>2 DEF FileTypeOK, Calls
<1>7. CallInv(c)'
  BY <1>1, <1>2, <1>3
     DEF CallInv, LocksItsFile, HasRead, ComparedIsCurrent, FilledIsTorn, Holds, Torn
<1>8. \A d \in Fibers : CallInv(d)'
  BY <1>1, <1>2, <1>3, <1>5, <1>7, OthersKeep
<1>9. TornIsBeingFilled'
  <2> SUFFICES ASSUME NEW f \in Files, content'[f].is = "torn"
               PROVE  \/ \E d \in Fibers : /\ Holds(d, <<LocationOf[d], f>>)'
                                           /\ call'[d].at = "writing"
                      \/ \E d \in Fibers : \E i \in 1 .. Len(Plan[d]) :
                            <<d, i>> \in crossed' /\ Plan[d][i].file = f
    BY DEF TornIsBeingFilled
  <2>1. CASE f = File(c) /\ at = "writing"
    BY <2>1, <1>1, <1>2 DEF Holds, Lock
  <2>2. CASE f = File(c) /\ at # "writing"
    <3>1. Crossed(c)
      BY <2>2, <1>3
    <3> QED
      BY <2>2, <3>1, <1>1, <1>5, CallTypes DEF Crossed, File, Change
  <2>3. CASE f # File(c)
    <3>1. \/ \E d \in Fibers : Holds(d, <<LocationOf[d], f>>) /\ call[d].at = "writing"
          \/ \E d \in Fibers : \E i \in 1 .. Len(Plan[d]) :
                <<d, i>> \in crossed /\ Plan[d][i].file = f
      BY <2>3, <1>3 DEF ToolInv, TornIsBeingFilled
    <3>2. ~Holds(c, <<LocationOf[c], f>>)
      BY <2>3 DEF Holds, Lock
    <3> QED
      BY <3>1, <3>2, <1>1, <1>2, <1>5 DEF Holds
  <2> QED
    BY <2>1, <2>2, <2>3
<1>10. UpdatesLoseNothing'
  BY <1>5 DEF UpdatesLoseNothing
<1> QED
  BY <1>4, <1>6, <1>8, <1>9, <1>10 DEF ToolInv

(* An update opens what it has compared, or is crossed.                    *)
LEMMA OpensInv ==
    ASSUME ToolInv, NEW c \in Fibers, Opens(c)
    PROVE  ToolInv'
<1>1. FileTypeOK /\ CallInv(c)
  BY DEF ToolInv
<1>2. \/ call[c].at = "compared"
      \/ call[c].at = "locking" /\ place[c].at = "holding" /\ Change(c).kind # "update"
  BY DEF Opens, Has
<1>3. Holds(c, Lock(c)) /\ HasRead(c)
  BY <1>1, <1>2 DEF CallInv, LocksItsFile, Holds
<1>4. ASSUME Change(c).kind = "update", Drops(c)
      PROVE  Crossed(c)
  <2>1. CASE content[File(c)] = call[c].read[call[c].i]
    <3>1. Written(c).of = content[File(c)].of \cup {c}
      BY <1>4, <2>1 DEF Written, Holding
    <3> QED
      BY <1>4, <3>1 DEF Drops
  <2> QED
    BY <1>1, <1>2, <1>4, <2>1 DEF CallInv, ComparedIsCurrent
<1> DEFINE to == IF Change(c).kind = "delete" THEN Missing ELSE Torn
           at == IF Change(c).kind = "delete" THEN "written" ELSE "writing"
<1>5. /\ to \in Contents /\ at \in {"writing", "written"}
      /\ to.is = "torn" => at = "writing"
      /\ at = "writing" => to = Torn
  BY DEF Missing, Torn, Contents
<1>6. /\ content' = [content EXCEPT ![File(c)] = to] /\ CallGoes(c, at)
      /\ Loses(c) /\ Crosses(c) /\ UNCHANGED <<mutexVars, permVars>>
  BY DEF Opens
<1> HIDE DEF to, at
<1> QED
  BY <1>2, <1>3, <1>4, <1>5, <1>6, WriteKeeps

(* It fills what it has emptied, or is crossed.                            *)
LEMMA FillsInv ==
    ASSUME ToolInv, NEW c \in Fibers, Fills(c)
    PROVE  ToolInv'
<1>1. FileTypeOK /\ CallInv(c) /\ call[c].at = "writing"
  BY DEF ToolInv, Fills
<1>2. Holds(c, Lock(c)) /\ HasRead(c)
  BY <1>1 DEF CallInv, LocksItsFile
<1>3. Written(c) \in Contents /\ Written(c).is = "whole"
  <2>1. call[c].read \in Seq(Contents) /\ call[c].i \in 1 .. Len(call[c].read)
    BY <1>1, <1>2, CallTypes DEF HasRead, Calls
  <2>2. call[c].read[call[c].i] \in Contents
    BY <2>1, ElementOfSeq
  <2> QED
    BY <2>2 DEF Written, Holding, Contents
<1>4. Drops(c) => Crossed(c)
  BY <1>1 DEF CallInv, FilledIsTorn, Drops, Torn
<1>5. PICK to \in Contents : /\ content' = [content EXCEPT ![File(c)] = to]
                             /\ to.is = "torn" => Crossed(c)
  BY <1>3 DEF Fills, Torn, Contents
<1>6. /\ CallGoes(c, "written") /\ Loses(c) /\ Crosses(c)
      /\ UNCHANGED <<mutexVars, permVars>>
  BY DEF Fills
<1> QED
  BY <1>1, <1>2, <1>4, <1>5, <1>6, WriteKeeps

LEMMA UnlocksInv ==
    ASSUME ToolInv, NEW c \in Fibers, Unlocks(c)
    PROVE  ToolInv' /\ [MutexNext]_mutexVars
<1>1. /\ FileTypeOK /\ HasRead(c) /\ call[c].at = "written" /\ Leaves(c)
      /\ UNCHANGED <<permVars, content, lost, crossed>>
  BY DEF ToolInv, CallInv, Unlocks
<1>2. /\ MutexNext /\ place'[c].at = "outside"
      /\ \A d \in Fibers \ {c} : place'[d] = place[d]
  BY <1>1, LeavesFacts
<1>3. /\ call' \in [Fibers -> Calls] /\ call'[c].i \in 1 .. Len(Plan[c])
      /\ \/ call'[c].at = "over"
         \/ call'[c].at = "applies" /\ call'[c].read = call[c].read
      /\ \A d \in Fibers \ {c} : call'[d] = call[d]
  <2>1. CASE call[c].i = Len(Plan[c])
    BY <1>1, <2>1, OverFacts DEF Unlocks
  <2>2. CASE call[c].i # Len(Plan[c])
    <3>1. call[c] \in Calls /\ call[c].i + 1 \in 1 .. Len(Plan[c])
      BY <1>1, <2>2, CallTypes
    <3>2. call' = [call EXCEPT ![c].at = "applies", ![c].i = @ + 1]
      BY <2>2 DEF Unlocks
    <3> DEFINE to == [call[c] EXCEPT !.at = "applies", !.i = @ + 1]
    <3>3. /\ to \in Calls /\ to.at = "applies" /\ to.i = call[c].i + 1
          /\ to.read = call[c].read
      <4>1. call[c].i + 1 \in Nat
        BY <3>1
      <4> QED
        BY <3>1, <4>1 DEF Calls
    <3>4. call' = [call EXCEPT ![c] = to] /\ call \in [Fibers -> Calls]
      BY <1>1, <3>2 DEF FileTypeOK, Calls
    <3> HIDE DEF to
    <3> QED
      BY <3>1, <3>3, <3>4
  <2> QED
    BY <2>1, <2>2
<1>4. CallInv(c)'
  BY <1>1, <1>2, <1>3 DEF CallInv, LocksItsFile, HasRead, ComparedIsCurrent, FilledIsTorn
<1> QED
  BY <1>1, <1>2, <1>3, <1>4, NoWriteKeeps
-----------------------------------------------------------------------------
LEMMA FileStep ==
    ASSUME ToolInv, NEW c \in Fibers, FileNext(c)
    PROVE  ToolInv' /\ [MutexNext]_mutexVars /\ UNCHANGED permVars
<1>1. CASE Prepares(c) \/ Compares(c) \/ Opens(c) \/ Fills(c)
  <2>1. UNCHANGED mutexVars /\ UNCHANGED permVars
    BY <1>1 DEF Prepares, Compares, Opens, Fills
  <2> QED
    BY <1>1, <2>1, PreparesInv, ComparesInv, OpensInv, FillsInv
<1>2. CASE Applies(c) \/ Locked(c) \/ Interrupted(c) \/ Unlocks(c)
  <2>1. UNCHANGED permVars
    BY <1>2 DEF Applies, Locked, Interrupted, Unlocks, Ends
  <2> QED
    BY <1>2, <2>1, AppliesInv, LockedInv, InterruptedInv, UnlocksInv
<1>3. CASE Fails(c)
  <2>1. Ends(c) /\ call[c].at # "writing" /\ UNCHANGED permVars
    BY <1>3 DEF Fails, Has, Ends
  <2> QED
    BY <2>1, EndsWell
<1> QED
  BY <1>1, <1>2, <1>3 DEF FileNext

LEMMA PermStep ==
    ASSUME ToolInv, [PermNext]_permVars, UNCHANGED <<mutexVars, fileVars>>
    PROVE  ToolInv'
<1>1. /\ locks' = locks /\ users' = users /\ place' = place
      /\ content' = content /\ call' = call /\ lost' = lost /\ crossed' = crossed
  BY DEF mutexVars, fileVars
<1>2. MutexInv' /\ PermInv'
  BY MutexStepInv, PermStepInv DEF ToolInv
<1>3. FileTypeOK'
  BY <1>1, <1>2 DEF ToolInv, FileTypeOK, MutexInv, PermInv
<1>4. \A c \in Fibers : CallInv(c)'
  BY <1>1 DEF ToolInv, CallInv, LocksItsFile, HasRead, ComparedIsCurrent,
              FilledIsTorn, Crossed, Holds, Lock, File, Change
<1>5. TornIsBeingFilled' /\ UpdatesLoseNothing'
  BY <1>1 DEF ToolInv, TornIsBeingFilled, UpdatesLoseNothing, Holds
<1> QED
  BY <1>2, <1>3, <1>4, <1>5 DEF ToolInv

LEMMA ToolStep ==
    ToolInv /\ [ToolNext]_toolVars =>
        ToolInv' /\ [MutexNext]_mutexVars /\ [PermNext]_permVars
<1> SUFFICES ASSUME ToolInv, [ToolNext]_toolVars
             PROVE  ToolInv' /\ [MutexNext]_mutexVars /\ [PermNext]_permVars
  OBVIOUS
<1>1. CASE PermNext /\ UNCHANGED <<mutexVars, fileVars>>
  BY <1>1, PermStep
<1>2. ASSUME NEW c \in Fibers, FileNext(c)
      PROVE  ToolInv' /\ [MutexNext]_mutexVars /\ [PermNext]_permVars
  BY <1>2, FileStep
<1>3. CASE UNCHANGED toolVars
  <2>1. UNCHANGED <<mutexVars, permVars, fileVars>>
    BY <1>3 DEF toolVars
  <2> QED
    BY <2>1, PermStep
<1> QED
  BY <1>1, <1>2, <1>3 DEF ToolNext

LEMMA ToolInvariance == ToolSpec => []ToolInv
<1>1. ToolInv /\ [ToolNext]_toolVars => ToolInv'
  BY ToolStep
<1> QED
  BY <1>1, ToolInitInv, PTL DEF ToolSpec

(* The types of the tools' state hold.                                     *)
THEOREM FileTypeCorrect == ToolSpec => []FileTypeOK
BY ToolInvariance, PTL DEF ToolInv

(* No edit overwrites a change it has not read (writeIfUnchanged).         *)
THEOREM NothingLost == ToolSpec => []UpdatesLoseNothing
BY ToolInvariance, PTL DEF ToolInv

(* A file that is cut short is one that a call is filling, under its lock. *)
THEOREM TornOnlyUnderLock == ToolSpec => []TornIsBeingFilled
BY ToolInvariance, PTL DEF ToolInv

(* The tools use the mutex as it is specified,                             *)
THEOREM ToolsUseTheMutex == ToolSpec => MutexSpec
<1>1. ToolInv /\ [ToolNext]_toolVars => [MutexNext]_mutexVars
  BY ToolStep
<1>2. FileInit => MutexInit
  BY DEF FileInit
<1> QED
  BY <1>1, <1>2, ToolInvariance, PTL DEF ToolSpec, MutexSpec

(* and the requests, so that what is proved of requests holds for them:    *)
(* what is pending waits, and reject and always reach all they should.     *)
THEOREM ToolsUseTheRequests == ToolSpec => PermSpec
<1>1. ToolInv /\ [ToolNext]_toolVars => [PermNext]_permVars
  BY ToolStep
<1>2. FileInit => PermInit
  BY DEF FileInit
<1> QED
  BY <1>1, <1>2, ToolInvariance, PTL DEF ToolSpec, PermSpec

THEOREM ToolsRequestsCorrect ==
    ToolSpec => [](PendingIsWaiting /\ RejectSweeps /\ AlwaysIsRemembered)
BY ToolsUseTheRequests, PendingCorrect, RejectReachesAll, AlwaysReachesAll, PTL
=============================================================================
