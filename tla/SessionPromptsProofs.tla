------------------------ MODULE SessionPromptsProofs ------------------------
(***************************************************************************)
(* Theorems about SessionPrompts, for any sets of sessions, prompts,       *)
(* senders, clients and entries, any number of steps of an agent and of    *)
(* restarts.                                                               *)
(***************************************************************************)
EXTENDS SessionPrompts, RunCoordinatorProofs

-----------------------------------------------------------------------------
(* The inbox.                                                              *)

(* Sequences are given once: nothing is dated after the log's latest, no   *)
(* two admissions of a session alike.                                      *)
Dated ==
    \A p \in Prompts :
        /\ row[p].admitted <= seq[SessionOf[p]]
        /\ row[p].promoted <= seq[SessionOf[p]]
        /\ row[p].promoted # 0 => Stored(p)

Distinct ==
    \A p, q \in Prompts :
        SessionOf[p] = SessionOf[q] /\ p # q /\ Stored(p) =>
            row[p].admitted # row[q].admitted

(* What was promoted from the queue had been admitted before what is still *)
(* queued: the state that makes the transcript first in, first out.        *)
QueueFirst ==
    \A p, q \in Prompts :
        /\ SessionOf[p] = SessionOf[q]
        /\ row[p].delivery = "queue" /\ row[q].delivery = "queue"
        /\ row[p].promoted # 0 /\ Pending(q)
        => row[p].admitted < row[q].admitted

InboxInv ==
    InboxType /\ Dated /\ Distinct /\ PromotedOnce /\ QueueFirst /\ QueueIsFifo

Oldest(p) ==
    \A q \in PendingOf(SessionOf[p], "queue") : row[p].admitted <= row[q].admitted

(* What no transaction changes of a row.                                   *)
RowMoves(q) ==
    /\ Stored(q) => /\ row'[q].admitted = row[q].admitted
                    /\ row[q].promoted # 0 => row'[q] = row[q]
                    /\ row[q].delivery = "steer" => row'[q].delivery = "steer"
    /\ ~Stored(q) => \/ row'[q] = row[q]
                     \/ /\ row'[q].admitted = seq[SessionOf[q]] + 1
                        /\ row'[q].promoted = 0

LEMMA AdmittedKeeps ==
    ASSUME InboxInv, NEW p \in Prompts, NEW delivery \in Deliveries,
           projectAdmitted(p, delivery)
    PROVE  InboxInv' /\ \A q \in Prompts : RowMoves(q)
<1> DEFINE k == SessionOf[p]
<1>1. k \in Keys
  BY SessionOfAssumption
<1>2. /\ ~Stored(p)
      /\ seq' = [seq EXCEPT ![k] = @ + 1]
      /\ row' = [row EXCEPT ![p] = [delivery |-> delivery, admitted |-> seq[k] + 1,
                                    promoted |-> 0]]
      /\ transcript' = transcript
  BY DEF projectAdmitted, AdmitConflicts, Commit
<1>3. /\ row'[p] = [delivery |-> delivery, admitted |-> seq[k] + 1, promoted |-> 0]
      /\ \A q \in Prompts \ {p} : row'[q] = row[q]
      /\ seq'[k] = seq[k] + 1 /\ seq[k] \in Nat
      /\ \A j \in Keys \ {k} : seq'[j] = seq[j]
  BY <1>1, <1>2 DEF InboxInv, InboxType
<1>4. InboxType'
  BY <1>1, <1>2 DEF InboxInv, InboxType, Deliveries
<1>5. row[p].promoted = 0
  BY <1>2 DEF InboxInv, Dated
<1>6. \A q \in Prompts : RowMoves(q)
  BY <1>2, <1>3 DEF RowMoves
<1>7. \A q \in Prompts : row[q].admitted \in Nat /\ row[q].promoted \in Nat
                          /\ SessionOf[q] \in Keys /\ seq[SessionOf[q]] \in Nat
  BY SessionOfAssumption DEF InboxInv, InboxType
<1>8. Dated'
  BY <1>1, <1>3, <1>7, SessionOfAssumption DEF InboxInv, Dated, Stored
<1>9. Distinct'
  BY <1>2, <1>3, <1>7 DEF InboxInv, Dated, Distinct, Stored
<1>10. \A q \in Prompts : row[q].promoted # 0 => row'[q] = row[q] /\ q # p
  BY <1>3, <1>5
<1>11. \A q \in Prompts : row'[q].promoted # 0 <=> row[q].promoted # 0
  BY <1>3, <1>5
<1>12. ASSUME NEW j \in Keys, NEW i \in DOMAIN transcript[j]
       PROVE  /\ transcript[j][i] \in Prompts
              /\ row'[transcript[j][i]] = row[transcript[j][i]]
  BY <1>10 DEF InboxInv, PromotedOnce
<1>13. PromotedOnce'
  BY <1>2, <1>11, <1>12 DEF InboxInv, PromotedOnce
<1>14. QueueIsFifo'
  BY <1>2, <1>12 DEF InboxInv, QueueIsFifo
<1>15. QueueFirst'
  <2> SUFFICES ASSUME NEW a \in Prompts, NEW b \in Prompts,
                      SessionOf[a] = SessionOf[b],
                      row'[a].delivery = "queue", row'[b].delivery = "queue",
                      row'[a].promoted # 0, Pending(b)'
               PROVE  row'[a].admitted < row'[b].admitted
    BY DEF QueueFirst
  <2>1. row'[a] = row[a] /\ a # p
    BY <1>10, <1>11
  <2>2. CASE b = p
    BY <1>3, <1>7, <2>1, <2>2 DEF InboxInv, Dated
  <2>3. CASE b # p
    BY <1>3, <2>1, <2>3 DEF InboxInv, QueueFirst, Pending, Stored
  <2> QED BY <2>2, <2>3
<1> QED BY <1>4, <1>6, <1>8, <1>9, <1>13, <1>14, <1>15 DEF InboxInv

LEMMA DeliveryChangedKeeps ==
    ASSUME InboxInv, NEW p \in Prompts, projectDeliveryChanged(p)
    PROVE  InboxInv' /\ \A q \in Prompts : RowMoves(q)
<1> DEFINE k == SessionOf[p]
<1>1. k \in Keys
  BY SessionOfAssumption
<1>2. /\ Pending(p)
      /\ seq' = [seq EXCEPT ![k] = @ + 1]
      /\ row' = [row EXCEPT ![p].delivery = "steer"]
      /\ transcript' = transcript
  BY DEF projectDeliveryChanged, SteerConflicts, Commit
<1>3. /\ row'[p].delivery = "steer"
      /\ \A q \in Prompts : /\ row'[q].admitted = row[q].admitted
                            /\ row'[q].promoted = row[q].promoted
                            /\ q # p => row'[q] = row[q]
      /\ seq'[k] = seq[k] + 1 /\ seq[k] \in Nat
      /\ \A j \in Keys \ {k} : seq'[j] = seq[j]
  BY <1>1, <1>2 DEF InboxInv, InboxType
<1>4. InboxType'
  <2> DEFINE Rows == [delivery : Deliveries, admitted : Nat, promoted : Nat]
  <2>1. row \in [Prompts -> Rows] /\ "steer" \in Deliveries
    BY DEF InboxInv, InboxType, Deliveries
  <2>2. [row[p] EXCEPT !.delivery = "steer"] \in Rows
    BY <2>1
  <2>3. row' \in [Prompts -> Rows]
    BY <1>2, <2>1, <2>2
  <2>4. seq' \in [Keys -> Nat]
    BY <1>1, <1>2 DEF InboxInv, InboxType
  <2> QED BY <1>2, <2>3, <2>4 DEF InboxInv, InboxType
<1>5. row[p].promoted = 0
  BY <1>2 DEF Pending
<1>6. \A q \in Prompts : RowMoves(q)
  BY <1>2, <1>3, <1>5 DEF RowMoves, Pending
<1>7. \A q \in Prompts : row[q].admitted \in Nat /\ row[q].promoted \in Nat
                          /\ SessionOf[q] \in Keys /\ seq[SessionOf[q]] \in Nat
  BY SessionOfAssumption DEF InboxInv, InboxType
<1>8. Dated'
  BY <1>1, <1>3, <1>7 DEF InboxInv, Dated, Stored
<1>9. Distinct'
  BY <1>3 DEF InboxInv, Distinct, Stored
<1>10. ASSUME NEW j \in Keys, NEW i \in DOMAIN transcript[j]
       PROVE  /\ transcript[j][i] \in Prompts
              /\ row'[transcript[j][i]] = row[transcript[j][i]]
  BY <1>3, <1>5 DEF InboxInv, PromotedOnce
<1>11. PromotedOnce'
  BY <1>2, <1>3, <1>10 DEF InboxInv, PromotedOnce
<1>12. QueueIsFifo'
  BY <1>2, <1>10 DEF InboxInv, QueueIsFifo
<1>13. QueueFirst'
  BY <1>3 DEF InboxInv, QueueFirst, Pending, Stored
<1> QED BY <1>4, <1>6, <1>8, <1>9, <1>11, <1>12, <1>13 DEF InboxInv

(* A prompt promoted from the queue has to be the oldest there.            *)
LEMMA PromptedKeeps ==
    ASSUME InboxInv, NEW p \in Prompts, NEW delivery \in Deliveries,
           projectPrompted(p, delivery), delivery = "queue" => Oldest(p)
    PROVE  InboxInv' /\ \A q \in Prompts : RowMoves(q)
<1> DEFINE k == SessionOf[p]
           n == Len(transcript[k])
<1>1. k \in Keys
  BY SessionOfAssumption
<1>2. /\ Pending(p) /\ row[p].delivery = delivery
      /\ seq' = [seq EXCEPT ![k] = @ + 1]
      /\ row' = [row EXCEPT ![p].promoted = seq[k] + 1]
      /\ transcript' = [transcript EXCEPT ![k] = Append(@, p)]
  BY DEF projectPrompted, PromptConflicts, Commit
<1>3. /\ row'[p].promoted = seq[k] + 1
      /\ \A q \in Prompts : /\ row'[q].admitted = row[q].admitted
                            /\ row'[q].delivery = row[q].delivery
                            /\ q # p => row'[q] = row[q]
      /\ seq'[k] = seq[k] + 1 /\ seq[k] \in Nat
      /\ \A j \in Keys \ {k} : seq'[j] = seq[j]
  BY <1>1, <1>2 DEF InboxInv, InboxType
<1>4. InboxType'
  <2> DEFINE Rows == [delivery : Deliveries, admitted : Nat, promoted : Nat]
  <2>1. row \in [Prompts -> Rows] /\ seq[k] + 1 \in Nat
    BY <1>3 DEF InboxInv, InboxType
  <2>2. [row[p] EXCEPT !.promoted = seq[k] + 1] \in Rows
    BY <2>1
  <2>3. row' \in [Prompts -> Rows]
    BY <1>2, <2>1, <2>2
  <2>4. seq' \in [Keys -> Nat]
    BY <1>1, <1>2 DEF InboxInv, InboxType
  <2>5. transcript' \in [Keys -> Seq(Prompts)]
    BY <1>1, <1>2 DEF InboxInv, InboxType
  <2> QED BY <2>3, <2>4, <2>5 DEF InboxType
<1>5. row[p].promoted = 0 /\ Stored(p)
  BY <1>2 DEF Pending
<1>6. \A q \in Prompts : RowMoves(q)
  BY <1>2, <1>3, <1>5 DEF RowMoves
<1>7. \A q \in Prompts : row[q].admitted \in Nat /\ row[q].promoted \in Nat
                          /\ SessionOf[q] \in Keys /\ seq[SessionOf[q]] \in Nat
  BY SessionOfAssumption DEF InboxInv, InboxType
<1>8. Dated'
  BY <1>1, <1>3, <1>5, <1>7 DEF InboxInv, Dated, Stored
<1>9. Distinct'
  BY <1>3 DEF InboxInv, Distinct, Stored
<1>10. \A q \in Prompts :
          row'[q].promoted # 0 <=> row[q].promoted # 0 \/ q = p
  BY <1>3
<1>11. /\ n \in Nat
       /\ \A j \in Keys \ {k} : transcript'[j] = transcript[j]
       /\ DOMAIN transcript[k] = 1..n
       /\ DOMAIN transcript'[k] = 1..(n + 1)
       /\ transcript'[k][n + 1] = p
       /\ \A i \in 1..n : transcript'[k][i] = transcript[k][i]
  BY <1>1, <1>2 DEF InboxInv, InboxType
<1>12. ASSUME NEW j \in Keys, NEW i \in DOMAIN transcript[j]
       PROVE  /\ transcript[j][i] \in Prompts
              /\ SessionOf[transcript[j][i]] = j
              /\ row[transcript[j][i]].promoted # 0
              /\ row'[transcript[j][i]] = row[transcript[j][i]]
  BY <1>3, <1>5 DEF InboxInv, PromotedOnce
<1>13. PromotedOnce'
  <2> SUFFICES ASSUME NEW j \in Keys
               PROVE  /\ {transcript'[j][i] : i \in DOMAIN transcript'[j]} =
                            {q \in Prompts : SessionOf[q] = j /\ row'[q].promoted # 0}
                      /\ \A a, b \in DOMAIN transcript'[j] : a < b =>
                            row'[transcript'[j][a]].promoted
                                < row'[transcript'[j][b]].promoted
    BY DEF PromotedOnce
  <2>1. /\ {transcript[j][i] : i \in DOMAIN transcript[j]} =
              {q \in Prompts : SessionOf[q] = j /\ row[q].promoted # 0}
        /\ \A a, b \in DOMAIN transcript[j] : a < b =>
              row[transcript[j][a]].promoted < row[transcript[j][b]].promoted
    BY DEF InboxInv, PromotedOnce
  <2>2. CASE j # k
    <3>1. transcript'[j] = transcript[j]
      BY <1>11, <2>2
    <3>2. {q \in Prompts : SessionOf[q] = j /\ row'[q].promoted # 0} =
             {q \in Prompts : SessionOf[q] = j /\ row[q].promoted # 0}
      BY <1>10, <2>2
    <3>3. ASSUME NEW a \in DOMAIN transcript[j], NEW b \in DOMAIN transcript[j], a < b
          PROVE  row'[transcript[j][a]].promoted < row'[transcript[j][b]].promoted
      BY <2>1, <1>12, <3>3
    <3>4. {transcript'[j][i] : i \in DOMAIN transcript'[j]} =
             {q \in Prompts : SessionOf[q] = j /\ row'[q].promoted # 0}
      BY <2>1, <3>1, <3>2, Zenon
    <3>5. ASSUME NEW a \in DOMAIN transcript'[j], NEW b \in DOMAIN transcript'[j], a < b
          PROVE  row'[transcript'[j][a]].promoted < row'[transcript'[j][b]].promoted
      BY <3>1, <3>3, <3>5
    <3> QED BY <3>4, <3>5, Zenon
  <2>3. CASE j = k
    <3>1. ASSUME NEW q
          PROVE  q \in {transcript'[k][i] : i \in 1..(n + 1)} <=>
                 q \in {transcript[k][i] : i \in 1..n} \/ q = p
      <4>1. n + 1 \in 1..(n + 1) /\ 1..n \subseteq 1..(n + 1)
            /\ \A i \in 1..(n + 1) : i \in 1..n \/ i = n + 1
        BY ONLY n \in Nat, <1>11
      <4> QED BY ONLY <4>1, <1>11
    <3>2. {q \in Prompts : SessionOf[q] = k /\ row'[q].promoted # 0} =
             {q \in Prompts : SessionOf[q] = k /\ row[q].promoted # 0} \cup {p}
      BY <1>10
    <3>3. ASSUME NEW a \in 1..(n + 1), NEW b \in 1..(n + 1), a < b
          PROVE  row'[transcript'[k][a]].promoted < row'[transcript'[k][b]].promoted
      <4>1. a \in 1..n /\ a \in DOMAIN transcript[k]
        BY <1>11, <3>3
      <4>2. PICK q : q = transcript[k][a]
        OBVIOUS
      <4>3. q \in Prompts /\ SessionOf[q] = k /\ row'[q] = row[q]
        BY <1>1, <1>12, <4>1, <4>2
      <4>4. row[q].promoted <= seq[k] /\ row[q].promoted \in Nat
        BY <1>7, <4>3 DEF InboxInv, Dated
      <4>5. transcript'[k][a] = q
        BY <1>11, <4>1, <4>2
      <4>6. CASE b = n + 1
        <5>1. row'[transcript'[k][b]].promoted = seq[k] + 1
          BY <4>6, <1>3, <1>11
        <5> QED BY <5>1, <4>3, <4>4, <4>5, <1>3
      <4>7. CASE b \in 1..n
        <5>1. b \in DOMAIN transcript[k] /\ transcript'[k][b] = transcript[k][b]
          BY <4>7, <1>11
        <5>2. row'[transcript[k][b]] = row[transcript[k][b]]
          BY <5>1, <1>1, <1>12
        <5>3. row[transcript[k][a]].promoted < row[transcript[k][b]].promoted
          BY <2>1, <2>3, <3>3, <4>1, <5>1
        <5> QED BY <4>2, <4>3, <4>5, <5>1, <5>2, <5>3
      <4>8. b = n + 1 \/ b \in 1..n
        BY ONLY <1>11, b \in 1..(n + 1)
      <4> QED BY <4>6, <4>7, <4>8
    <3>4. {transcript'[j][i] : i \in DOMAIN transcript'[j]} =
             {q \in Prompts : SessionOf[q] = j /\ row'[q].promoted # 0}
      <4> DEFINE was == {transcript[k][i] : i \in 1..n}
                 is == {transcript'[k][i] : i \in 1..(n + 1)}
                 had == {q \in Prompts : SessionOf[q] = k /\ row[q].promoted # 0}
                 has == {q \in Prompts : SessionOf[q] = k /\ row'[q].promoted # 0}
      <4>1. was = had
        BY <2>1, <2>3, <1>11
      <4>2. is = was \cup {p}
        BY <3>1
      <4>3. is = has
        BY <4>1, <4>2, <3>2
      <4> QED BY <4>3, <2>3, <1>11
    <3>5. ASSUME NEW a \in DOMAIN transcript'[j], NEW b \in DOMAIN transcript'[j], a < b
          PROVE  row'[transcript'[j][a]].promoted < row'[transcript'[j][b]].promoted
      BY <3>3, <3>5, <2>3, <1>11
    <3> QED BY <3>4, <3>5, Zenon
  <2> QED BY <2>2, <2>3
<1>14. QueueIsFifo'
  <2> SUFFICES ASSUME NEW j \in Keys, NEW a \in DOMAIN transcript'[j],
                      NEW b \in DOMAIN transcript'[j], a < b,
                      row'[transcript'[j][a]].delivery = "queue",
                      row'[transcript'[j][b]].delivery = "queue"
               PROVE  row'[transcript'[j][a]].admitted < row'[transcript'[j][b]].admitted
    BY DEF QueueIsFifo
  <2>1. CASE j # k \/ b # n + 1
    <3>1. /\ a \in DOMAIN transcript[j] /\ b \in DOMAIN transcript[j]
          /\ transcript'[j][a] = transcript[j][a]
          /\ transcript'[j][b] = transcript[j][b]
      <4>1. CASE j # k
        BY <1>11, <4>1
      <4>2. CASE j = k
        <5>1. a \in 1..(n + 1) /\ b \in 1..(n + 1)
          BY <1>11, <4>2
        <5>2. a \in 1..n /\ b \in 1..n
          BY <5>1, <1>11, <2>1, <4>2
        <5> QED BY <5>2, <1>11, <4>2
      <4> QED BY <4>1, <4>2
    <3>2. /\ row'[transcript[j][a]] = row[transcript[j][a]]
          /\ row'[transcript[j][b]] = row[transcript[j][b]]
      BY <3>1, <1>12
    <3>3. row[transcript[j][a]].delivery = "queue" /\ row[transcript[j][b]].delivery = "queue"
          => row[transcript[j][a]].admitted < row[transcript[j][b]].admitted
      BY <3>1 DEF InboxInv, QueueIsFifo
    <3> QED BY <3>1, <3>2, <3>3
  <2>2. CASE j = k /\ b = n + 1
    <3>1. a \in 1..n
      BY <1>11, <2>2
    <3>2. PICK q : q = transcript[k][a]
      OBVIOUS
    <3>3. q \in Prompts /\ SessionOf[q] = k /\ row'[q] = row[q]
          /\ row[q].promoted # 0 /\ transcript'[k][a] = q
      BY <1>1, <1>11, <1>12, <3>1, <3>2
    <3>4. row[q].admitted < row[p].admitted
      BY <3>3, <2>2, <1>2, <1>3, <1>11 DEF InboxInv, QueueFirst
    <3> QED BY <3>3, <3>4, <2>2, <1>3, <1>11
  <2> QED BY <2>1, <2>2
<1>15. QueueFirst'
  <2> SUFFICES ASSUME NEW a \in Prompts, NEW b \in Prompts,
                      SessionOf[a] = SessionOf[b],
                      row'[a].delivery = "queue", row'[b].delivery = "queue",
                      row'[a].promoted # 0, Pending(b)'
               PROVE  row'[a].admitted < row'[b].admitted
    BY DEF QueueFirst
  <2>1. Pending(b) /\ b # p
    BY <1>3 DEF Pending, Stored
  <2>2. CASE a = p
    <3>1. b \in PendingOf(k, "queue")
      BY <2>1, <2>2, <1>3 DEF PendingOf
    <3>2. row[p].admitted <= row[b].admitted
      BY <3>1, <1>2, <1>3, <2>2 DEF Oldest
    <3>3. row[p].admitted # row[b].admitted
      BY <2>1, <2>2, <1>5 DEF InboxInv, Distinct
    <3> QED BY <3>2, <3>3, <2>2, <1>3, <1>7
  <2>3. CASE a # p
    BY <1>3, <2>1, <2>3 DEF InboxInv, QueueFirst
  <2> QED BY <2>2, <2>3
<1> QED BY <1>4, <1>6, <1>8, <1>9, <1>13, <1>14, <1>15 DEF InboxInv

-----------------------------------------------------------------------------
(* What the fibers hold of the inbox between their awaits.                 *)

(* A caller past its admission has a row; only a steer is upgraded to.     *)
Asked ==
    \A s \in Senders :
        /\ sender[s].at # "idle" => sender[s].prompt \in Prompts
        /\ sender[s].at \in {"steer", "wake"} => Stored(sender[s].prompt)
        /\ sender[s].at = "steer" => sender[s].delivery = "steer"

WokenStored == \A p \in woken : Stored(p)

(* The rows a runner holds are of its own session and stored; one it read  *)
(* as queued is the only one it holds and still the oldest in the queue.   *)
Holds(e) ==
    /\ entry[e].phase # "running" => runner[e] = Off
    /\ runner[e].at # "publish" => runner[e].rows = {}
    /\ runner[e].at = "afterTurn" => runner[e].promotion = "steer"
    /\ \A r \in runner[e].rows :
          /\ Stored(r.prompt) /\ SessionOf[r.prompt] = entry[e].key
          /\ r.delivery = "queue" => Oldest(r.prompt) /\ runner[e].rows = {r}

PInv ==
    /\ PromptType /\ IInv /\ InboxInv /\ Asked /\ WokenStored
    /\ \A e \in Entries : Holds(e)

LEMMA PromptsInitInv == PromptsInit => PInv
<1> SUFFICES ASSUME PromptsInit PROVE PInv
  OBVIOUS
<1>1. IInv
  BY InitIInv DEF PromptsInit
<1>2. row = [p \in Prompts |-> NoRow] /\ seq = [k \in Keys |-> 0]
      /\ transcript = [k \in Keys |-> <<>>]
  BY DEF PromptsInit, InboxInit
<1>3. \A p \in Prompts : /\ row[p] = NoRow /\ ~Stored(p) /\ ~Pending(p)
                         /\ SessionOf[p] \in Keys /\ seq[SessionOf[p]] = 0
  BY <1>2, SessionOfAssumption DEF NoRow, Stored, Pending
<1>4. InboxType
  BY <1>2 DEF InboxType, NoRow, Deliveries
<1>5. Dated /\ Distinct /\ QueueFirst
  BY <1>3 DEF Dated, Distinct, QueueFirst, NoRow
<1>6. ASSUME NEW k \in Keys, NEW i \in DOMAIN transcript[k] PROVE FALSE
  BY <1>2, <1>6
<1>7. PromotedOnce
  <2> SUFFICES ASSUME NEW k \in Keys
               PROVE  {transcript[k][i] : i \in DOMAIN transcript[k]} =
                         {p \in Prompts : SessionOf[p] = k /\ row[p].promoted # 0}
    BY <1>6 DEF PromotedOnce
  <2>1. {transcript[k][i] : i \in DOMAIN transcript[k]} = {}
    BY <1>6
  <2>2. {p \in Prompts : SessionOf[p] = k /\ row[p].promoted # 0} = {}
    BY <1>3 DEF NoRow
  <2> QED BY <2>1, <2>2
<1>8. QueueIsFifo
  BY <1>6 DEF QueueIsFifo
<1>9. PromptType
  BY StepsAssumption DEF PromptsInit, PromptType, Off, Resting, RunnerStates,
     SenderStates, Deliveries
<1>10. Asked /\ WokenStored /\ \A e \in Entries : Holds(e)
  BY DEF PromptsInit, Asked, WokenStored, Holds, Resting, Off
<1> QED BY <1>1, <1>4, <1>5, <1>7, <1>8, <1>9, <1>10 DEF PInv, InboxInv

(* Every step but a crash is one of the coordinator.                       *)
LEMMA PromptsIsCoordinator ==
    ASSUME Asked, [PromptsNext]_allVars, ~Crash PROVE [Next]_vars
<1>1. ASSUME NEW s \in Senders, SenderNext(s) PROVE [Next]_vars
  <2>1. CASE WakeSession(s)
    <3>1. sender[s].prompt \in Prompts /\ Wake(SessionOf[sender[s].prompt])
      BY <2>1 DEF WakeSession, Asked
    <3> QED BY <3>1, SessionOfAssumption DEF Next
  <2>2. CASE Admit(s) \/ Steer(s)
    BY <2>2 DEF Admit, Steer, coordVars, vars, flags
  <2> QED BY <1>1, <2>1, <2>2 DEF SenderNext
<1>2. ASSUME NEW e \in Entries, RunnerNext(e) PROVE [Next]_vars
  <2>1. CASE Begin(e)
    BY <2>1 DEF Begin, Next, OwnerNext
  <2>2. CASE Settle(e)
    BY <2>2 DEF Settle, Next, OwnerNext
  <2>3. ASSUME NEW exit \in Exits, End(e, exit) PROVE [Next]_vars
    BY <2>3 DEF End, Next, OwnerNext
  <2>4. CASE ~(Begin(e) \/ Settle(e) \/ \E exit \in Exits : End(e, exit))
    <3>1. UNCHANGED coordVars
      BY <1>2, <2>4 DEF RunnerNext, CheckSteer, CheckQueue, Cutoff, ReadQueued,
         ReadSteers, Publish, Turn, AfterTurn, NextRound
    <3> QED BY <3>1 DEF coordVars, vars, flags
  <2> QED BY <2>1, <2>2, <2>3, <2>4
<1>3. ASSUME NEW c \in Clients, ClientNext(c) PROVE [Next]_vars
  BY <1>3 DEF Next
<1>4. ASSUME NEW s \in Senders, NEW p \in Prompts, NEW d \in Deliveries,
             NEW r \in Resumes, Prompt(s, p, d, r)
      PROVE [Next]_vars
  BY <1>4 DEF Prompt, coordVars, vars, flags
<1>5. CASE UNCHANGED allVars
  BY <1>5 DEF allVars, coordVars, vars, flags
<1> QED BY <1>1, <1>2, <1>3, <1>4, <1>5 DEF PromptsNext

LEMMA PromptsCoordinate ==
    ASSUME IInv, Asked, [PromptsNext]_allVars PROVE IInv'
<1>1. CASE ~Crash
  <2>1. [Next]_vars
    BY <1>1, PromptsIsCoordinator
  <2> QED BY <2>1, TypeStep, ShapeStep, NoLostWakeStep DEF IInv
<1>2. CASE Crash
  <2>1. Init'
    BY <1>2 DEF Crash, Init
  <2>2. (Init => IInv)'
    BY InitIInv, PTL
  <2> QED BY <2>1, <2>2
<1> QED BY <1>1, <1>2

(* The inbox through any step.                                             *)
LEMMA InboxStep ==
    ASSUME PInv, [PromptsNext]_allVars
    PROVE  InboxInv' /\ \A q \in Prompts : RowMoves(q)
<1>1. ASSUME UNCHANGED inbox PROVE InboxInv' /\ \A q \in Prompts : RowMoves(q)
  <2>1. InboxInv
    BY DEF PInv
  <2>2. row' = row /\ seq' = seq /\ transcript' = transcript
    BY <1>1 DEF inbox
  <2>3. \A q \in Prompts : RowMoves(q)
    BY <2>2 DEF RowMoves
  <2>4. InboxType' /\ Dated' /\ Distinct' /\ PromotedOnce' /\ QueueFirst'
        /\ QueueIsFifo'
    BY <2>1, <2>2 DEF InboxInv, InboxType, Dated, Distinct, PromotedOnce,
       QueueFirst, QueueIsFifo, Stored, Pending
  <2> QED BY <2>3, <2>4 DEF InboxInv
<1>2. ASSUME RollBack PROVE UNCHANGED inbox
  BY <1>2 DEF RollBack, inbox
<1>3. ASSUME NEW s \in Senders, SenderNext(s)
      PROVE  InboxInv' /\ \A q \in Prompts : RowMoves(q)
  <2>1. CASE WakeSession(s)
    BY <2>1, <1>1 DEF WakeSession
  <2>2. PICK p, d : p = sender[s].prompt /\ d = sender[s].delivery
    OBVIOUS
  <2>3. d \in Deliveries
    BY <2>2 DEF PInv, PromptType
  <2>4. CASE Admit(s)
    <3>1. p \in Prompts
      BY <2>4, <2>2 DEF PInv, Asked, Admit
    <3>2. projectAdmitted(p, d) \/ RollBack
      BY <2>4, <2>2 DEF Admit
    <3> QED BY <3>1, <3>2, <2>3, <1>1, <1>2, AdmittedKeeps DEF PInv
  <2>5. CASE Steer(s)
    <3>1. p \in Prompts
      BY <2>5, <2>2 DEF PInv, Asked, Steer
    <3>2. projectDeliveryChanged(p) \/ RollBack
      BY <2>5, <2>2 DEF Steer
    <3> QED BY <3>1, <3>2, <1>1, <1>2, DeliveryChangedKeeps DEF PInv
  <2> QED BY <1>3, <2>1, <2>4, <2>5 DEF SenderNext
<1>4. ASSUME NEW e \in Entries, Publish(e)
      PROVE  InboxInv' /\ \A q \in Prompts : RowMoves(q)
  <2>1. PICK r \in runner[e].rows : Prompted(r) \/ Skips(r)
    BY <1>4 DEF Publish, FirstOf
  <2>2. r.prompt \in Prompts /\ r.delivery \in Deliveries
    BY <2>1 DEF PInv, PromptType
  <2>3. r.delivery = "queue" => Oldest(r.prompt)
    BY <2>1 DEF PInv, Holds
  <2>4. projectPrompted(r.prompt, r.delivery) \/ RollBack
    BY <2>1 DEF Prompted, Skips
  <2> QED BY <2>2, <2>3, <2>4, <1>1, <1>2, PromptedKeeps DEF PInv
<1>5. ASSUME NEW e \in Entries, RunnerNext(e)
      PROVE  InboxInv' /\ \A q \in Prompts : RowMoves(q)
  <2>1. Publish(e) \/ UNCHANGED inbox
    BY <1>5 DEF RunnerNext, Begin, CheckSteer, CheckQueue, Cutoff, ReadQueued,
       ReadSteers, Turn, AfterTurn, NextRound, Settle, End
  <2> QED BY <2>1, <1>1, <1>4
<1>6. CASE UNCHANGED allVars
  BY <1>6, <1>1 DEF allVars
<1> QED BY <1>1, <1>3, <1>5, <1>6 DEF PromptsNext, Prompt, Idles, Crash

(* What RowMoves leaves of what a fiber knows of the inbox.                *)
LEMMA RowsKept ==
    ASSUME InboxInv, \A q \in Prompts : RowMoves(q), NEW p \in Prompts
    PROVE  /\ Stored(p) => Stored(p)'
           /\ Stored(p) /\ Oldest(p) => Oldest(p)'
           /\ Stored(p) /\ Pending(p)' => Pending(p)
<1>1. \A q \in Prompts : /\ row[q].admitted \in Nat /\ row[q].promoted \in Nat
                         /\ seq[SessionOf[q]] \in Nat
                         /\ row[q].admitted <= seq[SessionOf[q]]
                         /\ row[q].delivery \in {"queue", "steer"}
  BY SessionOfAssumption DEF InboxInv, InboxType, Dated, Deliveries
<1>2. \A q \in Prompts : Stored(q) => Stored(q)' /\ row'[q].admitted = row[q].admitted
  BY DEF RowMoves, Stored
<1>3. ASSUME NEW q \in Prompts, Stored(q), Pending(q)'
      PROVE  Pending(q) /\ (row'[q].delivery = "queue" => row[q].delivery = "queue")
  BY <1>1, <1>3 DEF RowMoves, Pending
<1>4. ASSUME Stored(p), Oldest(p), NEW q \in PendingOf(SessionOf[p], "queue")'
      PROVE  row'[p].admitted <= row'[q].admitted
  <2>1. /\ q \in Prompts /\ SessionOf[q] = SessionOf[p] /\ Pending(q)'
        /\ row'[q].delivery = "queue"
    BY <1>4 DEF PendingOf
  <2>2. CASE Stored(q)
    <3>1. q \in PendingOf(SessionOf[p], "queue")
      BY <2>1, <2>2, <1>3 DEF PendingOf
    <3> QED BY <3>1, <2>1, <2>2, <1>2, <1>4 DEF Oldest
  <2>3. CASE ~Stored(q)
    <3>1. row'[q].admitted = seq[SessionOf[q]] + 1
      BY <2>1, <2>3 DEF RowMoves, Pending, Stored
    <3> QED BY <3>1, <2>1, <1>1, <1>2, <1>4
  <2> QED BY <2>2, <2>3
<1>5. Stored(p) /\ Oldest(p) => Oldest(p)'
  BY <1>4 DEF Oldest
<1> QED BY <1>2, <1>3, <1>5

(* Who stays out of a step keeps where it is, its rows and its session;    *)
(* only Begin and End change whether a drain runs.                         *)
LEMMA AwayStays ==
    ASSUME IInv, PromptType, Asked, [PromptsNext]_allVars, ~Crash, NEW e \in Entries
    PROVE  /\ ~RunnerNext(e) => runner'[e] = runner[e]
           /\ ~RunnerNext(e) \/ UNCHANGED coordVars =>
                 /\ entry[e].phase = "running" => entry'[e].phase = "running"
                 /\ entry'[e].phase = "running" => RunsAt(e, entry'[e].key)
<1>1. ASSUME ~RunnerNext(e) PROVE runner'[e] = runner[e]
  <2>1. UNCHANGED runner \/ \E d \in Entries : RunnerNext(d)
    BY DEF PromptsNext, Prompt, SenderNext, Admit, Steer, WakeSession, Idles,
       promptVars, allVars
  <2>2. ASSUME NEW d \in Entries, RunnerNext(d), d # e PROVE runner'[e] = runner[e]
    BY <2>2 DEF RunnerNext, Begin, CheckSteer, CheckQueue, Cutoff, ReadQueued,
       ReadSteers, Publish, Turn, AfterTurn, NextRound, Settle, End, Goes,
       GoesPromoting, PromptType
  <2> QED BY <1>1, <2>1, <2>2
<1>2. ASSUME UNCHANGED coordVars
      PROVE  /\ entry[e].phase = "running" => entry'[e].phase = "running"
             /\ entry'[e].phase = "running" => RunsAt(e, entry'[e].key)
  BY <1>2 DEF coordVars, RunsAt
<1>3. ASSUME ~RunnerNext(e)
      PROVE  /\ entry[e].phase = "running" => entry'[e].phase = "running"
             /\ entry'[e].phase = "running" => RunsAt(e, entry'[e].key)
  <2>1. \/ UNCHANGED coordVars
        \/ \E j \in Keys : Wake(j) \/ \E c \in Clients : run(c, j) \/ Interrupt(c, j)
        \/ \E c \in Clients : Abandon(c) \/ Return(c)
        \/ \E b \in Entries \ {e} :
              DrainBegin(b) \/ settle(b) \/ \E exit \in Exits : DrainEnd(b, exit)
    <3>1. ASSUME NEW s \in Senders, WakeSession(s) PROVE \E j \in Keys : Wake(j)
      BY <3>1, SessionOfAssumption DEF WakeSession, Asked
    <3>2. ASSUME NEW c \in Clients, ClientNext(c)
          PROVE  \/ \E j \in Keys : \E d \in Clients : run(d, j) \/ Interrupt(d, j)
                 \/ \E d \in Clients : Abandon(d) \/ Return(d)
      BY <3>2 DEF ClientNext, Run, RunAgain, IInv, TypeOK
    <3>3. ASSUME NEW b \in Entries, RunnerNext(b)
          PROVE  \/ UNCHANGED coordVars
                 \/ DrainBegin(b) \/ settle(b) \/ \E exit \in Exits : DrainEnd(b, exit)
      BY <3>3 DEF RunnerNext, Begin, CheckSteer, CheckQueue, Cutoff, ReadQueued,
         ReadSteers, Publish, Turn, AfterTurn, NextRound, Settle, End
    <3>4. CASE UNCHANGED allVars
      BY <3>4 DEF allVars
    <3>5. ASSUME NEW s \in Senders,
                 \/ Admit(s) \/ Steer(s)
                 \/ \E p \in Prompts, d \in Deliveries, r \in Resumes : Prompt(s, p, d, r)
          PROVE  UNCHANGED coordVars
      BY <3>5 DEF Admit, Steer, Prompt
    <3> QED BY <1>3, <3>1, <3>2, <3>3, <3>4, <3>5 DEF PromptsNext, SenderNext
  <2> DEFINE Stays == /\ entry[e].phase = "running" => entry'[e].phase = "running"
                      /\ entry'[e].phase = "running" => RunsAt(e, entry'[e].key)
  <2>2. PICK k : k = entry[e].key
    OBVIOUS
  <2>3. entry[e].phase = "running" => k \in Keys /\ RunsAt(e, k)
    BY <2>2 DEF IInv, Shape, OneOwner, Live, RunsAt
  <2>4. (k \in Keys /\ RunsAt(e, k) => RunsAt(e, k)')
        => (entry[e].phase = "running" => entry'[e].phase = "running")
    BY <2>2, <2>3 DEF RunsAt
  <2>5. CASE UNCHANGED coordVars
    BY <2>5, <1>2
  <2>6. ASSUME NEW j \in Keys, Wake(j) \/ \E c \in Clients : run(c, j) PROVE Stays
    BY <2>4, <2>6, CallsKeepWork, RunningWas
  <2>7. ASSUME NEW j \in Keys, NEW c \in Clients, Interrupt(c, j) PROVE Stays
    BY <2>4, <2>7, InterruptKeepsWork, RunningWas
  <2>8. ASSUME NEW c \in Clients, Abandon(c) \/ Return(c) PROVE Stays
    BY <2>8 DEF Abandon, Return, RunsAt
  <2>9. ASSUME NEW b \in Entries \ {e}, DrainBegin(b) PROVE Stays
    BY <2>9 DEF DrainBegin, IInv, TypeOK, RunsAt
  <2>10. ASSUME NEW b \in Entries \ {e}, settle(b) PROVE Stays
    BY <2>4, <2>10, SettleKeepsWork, RunningWas
  <2>11. ASSUME NEW b \in Entries \ {e}, NEW exit \in Exits, DrainEnd(b, exit)
         PROVE Stays
    BY <2>11 DEF DrainEnd, IInv, TypeOK, RunsAt
  <2> QED BY <2>1, <2>5, <2>6, <2>7, <2>8, <2>9, <2>10, <2>11
<1> QED BY <1>1, <1>2, <1>3

LEMMA PromptTypeStep ==
    ASSUME PInv, [PromptsNext]_allVars PROVE PromptType'
<1> USE StepsAssumption, ResumesAssumption DEF PInv, PromptType
<1> DEFINE RowSets == SUBSET [prompt : Prompts, delivery : Deliveries]
           Runners == [at : RunnerStates, promotion : Deliveries \cup {"none"},
                       cutoff : Nat, rows : RowSets, step : 1..MaxSteps]
           Callers == [at : SenderStates, prompt : Prompts \cup {None},
                       delivery : Deliveries, resume : BOOLEAN]
<1>1. ASSUME NEW s \in Senders, SenderNext(s) PROVE PromptType'
  <2>1. Resting \in Callers
    BY DEF Resting, SenderStates, Deliveries
  <2>2. \A d \in Deliveries : Admitted(s, d) => sender' \in [Senders -> Callers]
    BY <2>1 DEF Admitted, Returns, SenderStates
  <2>3. CASE Admit(s)
    <3>1. sender[s].prompt \in Prompts /\ sender[s].delivery \in Deliveries
          /\ row[sender[s].prompt].delivery \in Deliveries
      BY <2>3 DEF Admit, Asked, InboxInv, InboxType
    <3>2. sender' \in [Senders -> Callers]
      BY <2>2, <2>3, <3>1 DEF Admit
    <3>3. UNCHANGED <<runner, crashes, woken, quiet, history>>
      BY <2>3 DEF Admit
    <3> QED BY <3>2, <3>3 DEF history
  <2>4. CASE Steer(s)
    <3>1. sender[s].prompt \in Prompts /\ row[sender[s].prompt].delivery \in Deliveries
          /\ "steer" \in Deliveries
      BY <2>4 DEF Steer, Asked, InboxInv, InboxType, Deliveries
    <3>2. Returns(s) => sender' \in [Senders -> Callers]
      BY <2>1 DEF Returns
    <3>3. sender' \in [Senders -> Callers]
      BY <2>2, <2>4, <3>1, <3>2 DEF Steer
    <3>4. quiet' \in SUBSET woken
      BY <2>4 DEF Steer
    <3>5. UNCHANGED <<runner, crashes, woken, history>>
      BY <2>4 DEF Steer
    <3> QED BY <3>3, <3>4, <3>5 DEF history
  <2>5. CASE WakeSession(s)
    <3>1. sender[s].prompt \in Prompts
      BY <2>5 DEF WakeSession, Asked
    <3>2. sender' \in [Senders -> Callers]
      BY <2>1, <2>5 DEF WakeSession, Returns
    <3>3. /\ woken' = woken \cup {sender[s].prompt}
          /\ quiet' = quiet \ PromptsOf(SessionOf[sender[s].prompt])
          /\ cut' = cut \ {SessionOf[sender[s].prompt]}
          /\ UNCHANGED <<runner, crashes, seen, unanswered, overtaken>>
      BY <2>5 DEF WakeSession
    <3>4. woken' \in SUBSET Prompts /\ quiet' \in SUBSET woken' /\ cut' \in SUBSET Keys
      BY <3>1, <3>3
    <3> QED BY <3>2, <3>3, <3>4
  <2> QED BY <1>1, <2>3, <2>4, <2>5 DEF SenderNext
<1>2. ASSUME NEW s \in Senders, NEW p \in Prompts, NEW d \in Deliveries,
             NEW r \in Resumes, Prompt(s, p, d, r)
      PROVE  PromptType'
  <2>1. r \in BOOLEAN
    OBVIOUS
  <2>2. \A at \in SenderStates : [at |-> at, prompt |-> p, delivery |-> d,
                                  resume |-> r] \in Callers
    BY <2>1
  <2>3. sender' \in [Senders -> Callers]
    BY <1>2, <2>2 DEF Prompt, Calls, SenderStates
  <2> QED BY <1>2, <2>3 DEF Prompt, history
<1>3. ASSUME NEW e \in Entries, RunnerNext(e) PROVE PromptType'
  <2>0. runner[e] \in Runners
    OBVIOUS
  <2>1. \A v \in Runners : runner' = [runner EXCEPT ![e] = v] =>
            runner' \in [Entries -> Runners]
    OBVIOUS
  <2>2. \A at \in RunnerStates, promotion \in Deliveries \cup {"none"} :
            Goes(e, at) \/ GoesPromoting(e, at, promotion) =>
                runner' \in [Entries -> Runners]
    BY <2>0 DEF Goes, GoesPromoting
  <2>3. {"off", "checkSteer", "checkQueue", "cutoff", "queued", "steers", "publish",
         "model", "afterTurn", "outer"} \subseteq RunnerStates
        /\ {"queue", "steer", "none"} \subseteq Deliveries \cup {"none"}
    BY DEF RunnerStates, Deliveries
  <2>4. Off \in Runners /\ [Off EXCEPT !.at = "checkSteer"] \in Runners
    BY <2>3 DEF Off
  <2>5. entry[e].phase = "running" => Session(e) \in Keys /\ seq[Session(e)] \in Nat
    BY DEF IInv, Shape, OneOwner, Live, Session, InboxInv, InboxType
  <2>6. CASE Begin(e)
    BY <2>6, <2>1, <2>4 DEF Begin, others, history
  <2>7. CASE CheckSteer(e) \/ CheckQueue(e) \/ AfterTurn(e)
    BY <2>7, <2>2, <2>3 DEF CheckSteer, CheckQueue, AfterTurn, others, history
  <2>8. CASE Cutoff(e)
    BY <2>8, <2>0, <2>3, <2>5 DEF Cutoff, At, others, history
  <2>9. \A p \in Prompts : Read(p) \in [prompt : Prompts, delivery : Deliveries]
    BY DEF Read, InboxInv, InboxType
  <2>10. CASE ReadQueued(e)
    <3>1. ASSUME NEW p \in OldestQueued(Session(e)),
                 runner' = [runner EXCEPT ![e].at = "publish", ![e].rows = {Read(p)}]
          PROVE  runner' \in [Entries -> Runners]
      <4>1. {Read(p)} \in RowSets
        BY <2>9 DEF OldestQueued, PendingOf
      <4> QED BY <4>1, <3>1, <2>0, <2>3
    <3> QED BY <2>10, <3>1, <2>2, <2>3 DEF ReadQueued, others, history
  <2>11. \A rows, promotion : Publishing(rows, promotion) \in RunnerStates
    BY <2>3 DEF Publishing
  <2>12. CASE ReadSteers(e)
    <3>1. PICK rows : rows = {Read(p) : p \in SteersUpTo(Session(e), runner[e].cutoff)}
      OBVIOUS
    <3>2. rows \in RowSets
      BY <3>1, <2>9 DEF SteersUpTo, PendingOf
    <3>3. PICK at : at = Publishing(rows, "none")
      OBVIOUS
    <3>4. runner' = [runner EXCEPT ![e].at = at, ![e].rows = rows,
                                   ![e].promotion = "none", ![e].cutoff = 0]
      BY <2>12, <3>1, <3>3 DEF ReadSteers
    <3>5. runner' \in [Entries -> Runners]
      BY <3>2, <3>3, <3>4, <2>0, <2>3, <2>11
    <3> QED BY <2>12, <3>5 DEF ReadSteers, others, history
  <2>13. CASE Publish(e)
    <3>1. PICK r \in runner[e].rows :
             /\ Prompted(r) \/ Skips(r)
             /\ runner' = [runner EXCEPT
                   ![e].at = Publishing(runner[e].rows \ {r}, runner[e].promotion),
                   ![e].rows = runner[e].rows \ {r}, ![e].step = 1]
      BY <2>13 DEF Publish, FirstOf
    <3>2. PICK at, rest : /\ at = Publishing(runner[e].rows \ {r}, runner[e].promotion)
                          /\ rest = runner[e].rows \ {r}
      OBVIOUS
    <3>3. at \in RunnerStates /\ rest \in RowSets /\ 1 \in 1..MaxSteps
      BY <2>0, <2>11, <3>2
    <3>4. runner' = [runner EXCEPT ![e].at = at, ![e].rows = rest, ![e].step = 1]
      BY <3>1, <3>2
    <3>5. runner' \in [Entries -> Runners]
      BY <3>3, <3>4, <2>0
    <3>6. overtaken' \in [Prompts -> Nat]
      BY <3>1 DEF Prompted, Skips
    <3> QED BY <2>13, <3>5, <3>6 DEF Publish, others
  <2>14. CASE Turn(e)
    <3>1. runner[e].step < MaxSteps => runner[e].step + 1 \in 1..MaxSteps
      BY <2>0
    <3>2. runner' \in [Entries -> Runners]
      BY <2>14, <3>1, <2>0, <2>2, <2>3 DEF Turn
    <3>3. seen' \in SUBSET Prompts /\ unanswered' \in SUBSET Keys
      BY <2>14 DEF Turn
    <3> QED BY <2>14, <3>2, <3>3 DEF Turn, others
  <2>15. CASE NextRound(e)
    <3>1. runner' = [runner EXCEPT ![e].at = "cutoff", ![e].promotion = "queue",
                                   ![e].step = 1]
      BY <2>15 DEF NextRound
    <3>2. 1 \in 1..MaxSteps
      OBVIOUS
    <3>3. runner' \in [Entries -> Runners]
      BY <3>1, <3>2, <2>0, <2>3
    <3> QED BY <2>15, <3>3 DEF NextRound, others, history
  <2>16. CASE Settle(e)
    <3>1. Session(e) \in Keys
      BY <2>16 DEF Settle, settle, IInv, Shape, OneOwner, Live, Session
    <3> QED BY <2>16, <3>1 DEF Settle, others
  <2>17. ASSUME NEW exit \in Exits, End(e, exit) PROVE PromptType'
    <3>1. Session(e) \in Keys
      BY <2>17, <2>5 DEF End, DrainEnd
    <3>2. unanswered' \in SUBSET Keys
      BY <2>17, <3>1 DEF End
    <3> QED BY <2>17, <3>2, <2>1, <2>4 DEF End, others
  <2> QED BY <1>3, <2>6, <2>7, <2>8, <2>10, <2>12, <2>13, <2>14, <2>15, <2>16,
             <2>17 DEF RunnerNext
<1>4. CASE Crash
  <2>1. crashes' \in 0..MaxCrashes
    BY <1>4 DEF Crash
  <2>2. Off \in Runners /\ Resting \in Callers
    BY DEF Off, Resting, RunnerStates, SenderStates, Deliveries
  <2>3. unanswered' \in SUBSET Keys /\ cut' \in SUBSET Keys
    BY <1>4 DEF Crash
  <2> QED BY <1>4, <2>1, <2>2, <2>3 DEF Crash
<1>5. CASE UNCHANGED promptVars
  BY <1>5 DEF promptVars
<1> QED BY <1>1, <1>2, <1>3, <1>4, <1>5 DEF PromptsNext, Idles, allVars

LEMMA AskedStep ==
    ASSUME PInv, [PromptsNext]_allVars, InboxInv', \A q \in Prompts : RowMoves(q)
    PROVE  Asked' /\ WokenStored'
<1> DEFINE AskedAt(s) ==
       /\ sender[s].at # "idle" => sender[s].prompt \in Prompts
       /\ sender[s].at \in {"steer", "wake"} => Stored(sender[s].prompt)
       /\ sender[s].at = "steer" => sender[s].delivery = "steer"
<1>1. \A p \in Prompts : Stored(p) => Stored(p)'
  BY RowsKept DEF PInv
<1>2. \A s \in Senders : sender'[s] = sender[s] => AskedAt(s)'
  BY <1>1 DEF PInv, Asked
<1>3. woken \subseteq Prompts /\ sender \in [Senders -> [at : SenderStates,
            prompt : Prompts \cup {None}, delivery : Deliveries, resume : BOOLEAN]]
  BY DEF PInv, PromptType
<1>4. UNCHANGED woken => WokenStored'
  BY <1>1, <1>3 DEF PInv, WokenStored
<1>5. ASSUME NEW s \in Senders, SenderNext(s) PROVE Asked' /\ WokenStored'
  <2>1. PICK p : p = sender[s].prompt
    OBVIOUS
  <2>2. p \in Prompts
    BY <1>5, <2>1 DEF PInv, Asked, SenderNext, Admit, Steer, WakeSession
  <2>3. \A t \in Senders \ {s} : sender'[t] = sender[t]
    BY <1>3, <1>5 DEF SenderNext, Admit, Steer, WakeSession, Admitted, Returns
  <2>4. CASE WakeSession(s)
    <3>1. Stored(p) /\ woken' = woken \cup {p}
      BY <2>1, <2>4 DEF WakeSession, PInv, Asked
    <3>2. WokenStored'
      BY <1>1, <1>3, <2>2, <3>1 DEF PInv, WokenStored
    <3>3. AskedAt(s)'
      BY <1>3, <2>4 DEF WakeSession, Returns, Resting
    <3> QED BY <1>2, <2>3, <3>2, <3>3 DEF Asked
  <2>5. CASE Admit(s) \/ Steer(s)
    <3>1. Stored(p)'
      <4>1. projectAdmitted(p, sender[s].delivery) => Stored(p)'
        BY <2>2, SessionOfAssumption DEF projectAdmitted, Stored, PInv, InboxInv,
           InboxType
      <4>2. AdmitConflicts(p) => Stored(p)'
        BY <1>1, <2>2 DEF AdmitConflicts
      <4>3. Steer(s) => Stored(p)'
        BY <1>1, <2>1, <2>2 DEF Steer, PInv, Asked
      <4> QED BY <2>1, <2>5, <4>1, <4>2, <4>3 DEF Admit
    <3>2. sender'[s] = Resting \/ sender' = [sender EXCEPT ![s].at = "wake"]
      BY <1>3, <2>5 DEF Admit, Steer, Admitted, Returns
    <3>3. AskedAt(s)'
      BY <1>3, <2>1, <2>2, <3>1, <3>2 DEF Resting
    <3>4. UNCHANGED woken
      BY <2>5 DEF Admit, Steer
    <3> QED BY <1>2, <1>4, <2>3, <3>3, <3>4 DEF Asked
  <2> QED BY <1>5, <2>4, <2>5 DEF SenderNext
<1>6. ASSUME NEW s \in Senders, NEW p \in Prompts, NEW d \in Deliveries,
             NEW r \in Resumes, Prompt(s, p, d, r)
      PROVE  Asked' /\ WokenStored'
  <2>1. PICK at : at \in {"admit", "steer", "wake"} /\ Calls(s, at, p, d, r)
                  /\ (at = "admit" \/ Stored(p)) /\ (at = "steer" => d = "steer")
    BY <1>6 DEF Prompt, Upgrades, Pending
  <2>2. /\ sender'[s] = [at |-> at, prompt |-> p, delivery |-> d, resume |-> r]
        /\ \A t \in Senders \ {s} : sender'[t] = sender[t]
    BY <1>3, <2>1 DEF Calls
  <2>3. AskedAt(s)'
    BY <1>1, <2>1, <2>2
  <2>4. UNCHANGED woken
    BY <1>6 DEF Prompt
  <2> QED BY <1>2, <1>4, <2>2, <2>3, <2>4 DEF Asked
<1>7. CASE Crash
  <2>1. UNCHANGED woken /\ \A s \in Senders : sender'[s] = Resting
    BY <1>7 DEF Crash
  <2> QED BY <1>4, <2>1 DEF Asked, Resting
<1>8. CASE UNCHANGED <<sender, woken>>
  BY <1>2, <1>4, <1>8 DEF Asked
<1>9. ASSUME NEW e \in Entries, RunnerNext(e) PROVE UNCHANGED <<sender, woken>>
  BY <1>9 DEF RunnerNext, Begin, CheckSteer, CheckQueue, Cutoff, ReadQueued,
     ReadSteers, Publish, Turn, AfterTurn, NextRound, Settle, End, others
<1> QED BY <1>5, <1>6, <1>7, <1>8, <1>9 DEF PromptsNext, Idles, promptVars, allVars

LEMMA HoldsStep ==
    ASSUME PInv, [PromptsNext]_allVars, InboxInv', \A q \in Prompts : RowMoves(q),
           NEW e \in Entries
    PROVE  Holds(e)'
<1>0. /\ runner \in [Entries -> [at : RunnerStates, promotion : Deliveries \cup {"none"},
            cutoff : Nat, rows : SUBSET [prompt : Prompts, delivery : Deliveries],
            step : 1..MaxSteps]]
      /\ Holds(e)
  BY DEF PInv, PromptType
<1>1. CASE Crash
  <2>1. runner'[e] = Off
    BY <1>1 DEF Crash
  <2> QED BY <2>1 DEF Holds, Off
<1>2. \A r \in runner[e].rows :
          /\ r.prompt \in Prompts /\ SessionOf[r.prompt] = entry[e].key
          /\ Stored(r.prompt)'
          /\ r.delivery = "queue" => Oldest(r.prompt)' /\ runner[e].rows = {r}
  BY <1>0, RowsKept DEF PInv, Holds
<1>3. runner[e].rows # {} => entry[e].phase = "running"
  BY <1>0 DEF Holds, Off
<1>4. CASE ~Crash /\ ~RunnerNext(e)
  <2>1. /\ runner'[e] = runner[e]
        /\ entry[e].phase = "running" => entry'[e].phase = "running"
        /\ entry'[e].phase = "running" => RunsAt(e, entry'[e].key)
    BY <1>4, AwayStays DEF PInv
  <2> QED BY <1>0, <1>2, <1>3, <2>1 DEF Holds, RunsAt
<1>5. ASSUME UNCHANGED coordVars, entry[e].phase = "running", runner'[e].rows = {},
             runner'[e].at = "afterTurn" => runner'[e].promotion = "steer"
      PROVE  Holds(e)'
  BY <1>5 DEF Holds, coordVars
<1>6. CASE Begin(e)
  <2>1. entry'[e].phase = "running"
    BY <1>6 DEF Begin, DrainBegin, PInv, IInv, TypeOK
  <2>2. runner'[e] = [Off EXCEPT !.at = "checkSteer"]
    BY <1>0, <1>6 DEF Begin
  <2> QED BY <2>1, <2>2 DEF Holds, Off
<1>7. CASE Settle(e)
  <2>1. runner'[e] = Off
    BY <1>0, <1>7 DEF Settle, settle, Holds
  <2> QED BY <2>1 DEF Holds, Off
<1>8. ASSUME NEW exit \in Exits, End(e, exit) PROVE Holds(e)'
  <2>1. runner'[e] = Off
    BY <1>0, <1>8 DEF End
  <2> QED BY <2>1 DEF Holds, Off
<1>9. CASE CheckSteer(e) \/ CheckQueue(e) \/ Cutoff(e) \/ AfterTurn(e) \/ NextRound(e)
  <2>1. UNCHANGED coordVars /\ entry[e].phase = "running"
    BY <1>9 DEF CheckSteer, CheckQueue, Cutoff, AfterTurn, NextRound, At
  <2>2. runner'[e].rows = {} /\ runner'[e].at # "afterTurn"
    BY <1>0, <1>9 DEF CheckSteer, CheckQueue, Cutoff, AfterTurn, NextRound, At, Goes,
       GoesPromoting, Holds
  <2> QED BY <1>5, <2>1, <2>2
<1>10. CASE Turn(e)
  <2>1. UNCHANGED coordVars /\ entry[e].phase = "running"
    BY <1>10 DEF Turn, At
  <2>2. runner'[e].rows = {} /\ runner'[e].promotion = "steer"
    BY <1>0, <1>10 DEF Turn, At, GoesPromoting, Holds
  <2> QED BY <1>5, <2>1, <2>2
<1>11. CASE ReadQueued(e)
  <2>1. UNCHANGED coordVars /\ entry[e].phase = "running" /\ row' = row
    BY <1>11 DEF ReadQueued, At, inbox
  <2>2. CASE Goes(e, "steers")
    <3>1. runner'[e].rows = {} /\ runner'[e].at = "steers"
      BY <1>0, <1>11, <2>2 DEF ReadQueued, At, Goes, Holds
    <3> QED BY <1>5, <2>1, <3>1
  <2>3. ASSUME NEW p \in OldestQueued(Session(e)),
               runner' = [runner EXCEPT ![e].at = "publish", ![e].rows = {Read(p)}]
        PROVE  Holds(e)'
    <3>1. /\ p \in Prompts /\ SessionOf[p] = entry[e].key /\ Stored(p) /\ Oldest(p)
      BY <2>3 DEF OldestQueued, PendingOf, Oldest, Session, Pending
    <3>2. runner'[e].at = "publish" /\ runner'[e].rows = {Read(p)} /\ Read(p).prompt = p
      BY <1>0, <2>3 DEF Read
    <3>3. Stored(p)' /\ Oldest(p)' /\ UNCHANGED entry
      BY <2>1, <3>1, RowsKept DEF coordVars, PInv
    <3> QED BY <2>1, <3>1, <3>2, <3>3 DEF Holds
  <2> QED BY <1>11, <2>2, <2>3 DEF ReadQueued
<1>12. CASE ReadSteers(e)
  <2>1. UNCHANGED coordVars /\ entry[e].phase = "running" /\ row' = row
    BY <1>12 DEF ReadSteers, At, inbox
  <2>2. PICK rows : rows = {Read(p) : p \in SteersUpTo(Session(e), runner[e].cutoff)}
    OBVIOUS
  <2>3. runner'[e].rows = rows /\ runner'[e].at = Publishing(rows, "none")
    BY <1>0, <1>12, <2>2 DEF ReadSteers
  <2>4. rows = {} \/ runner'[e].at = "publish"
    BY <2>3 DEF Publishing
  <2>5. runner'[e].at \in {"publish", "model"}
    BY <2>3 DEF Publishing
  <2>6. \A r \in rows : /\ SessionOf[r.prompt] = entry[e].key /\ Stored(r.prompt)
                        /\ r.delivery = "steer"
    BY <2>2 DEF SteersUpTo, PendingOf, Read, Pending, Session
  <2> QED BY <2>1, <2>3, <2>4, <2>5, <2>6 DEF Holds, Stored, coordVars
<1>13. CASE Publish(e)
  <2>1. UNCHANGED coordVars /\ entry[e].phase = "running"
    BY <1>13 DEF Publish, At
  <2>2. PICK r \in runner[e].rows :
             runner' = [runner EXCEPT
                   ![e].at = Publishing(runner[e].rows \ {r}, runner[e].promotion),
                   ![e].rows = runner[e].rows \ {r}, ![e].step = 1]
    BY <1>13 DEF Publish, FirstOf
  <2>3. PICK rest : rest = runner[e].rows \ {r}
    OBVIOUS
  <2>4. runner'[e].rows = rest /\ runner'[e].at = Publishing(rest, runner[e].promotion)
    BY <1>0, <2>2, <2>3
  <2>5. /\ rest = {} \/ runner'[e].at = "publish"
        /\ runner'[e].at # "afterTurn"
    BY <2>4 DEF Publishing
  <2>6. \A q \in rest : /\ Stored(q.prompt)' /\ SessionOf[q.prompt] = entry[e].key
                        /\ q.delivery # "queue"
    BY <1>2, <2>2, <2>3
  <2> QED BY <2>1, <2>4, <2>5, <2>6 DEF Holds, coordVars
<1> QED BY <1>1, <1>4, <1>6, <1>7, <1>8, <1>9, <1>10, <1>11, <1>12, <1>13
           DEF RunnerNext

LEMMA PInvStep == PInv /\ [PromptsNext]_allVars => PInv'
<1> SUFFICES ASSUME PInv, [PromptsNext]_allVars PROVE PInv'
  OBVIOUS
<1>1. InboxInv' /\ \A q \in Prompts : RowMoves(q)
  BY InboxStep
<1>2. PromptType'
  BY PromptTypeStep
<1>3. IInv'
  BY PromptsCoordinate DEF PInv
<1>4. Asked' /\ WokenStored'
  BY <1>1, AskedStep
<1>5. \A e \in Entries : Holds(e)'
  BY <1>1, HoldsStep
<1> QED BY <1>1, <1>2, <1>3, <1>4, <1>5 DEF PInv

LEMMA PromptsInvariance == PromptsSpec => []PInv
BY PromptsInitInv, PInvStep, PTL DEF PromptsSpec

(* What the prompts see is a coordinator that restarts: every step is one  *)
(* of its own or begins anew with nothing.  So through crashes executions  *)
(* of a session do not overlap, nobody waits on an entry the map does not  *)
(* hold, no wake is lost to an exit, and what was told to stop never       *)
(* drains again (run-coordinator.ts; a crash is the process's end).        *)
THEOREM RestartsCoordinate ==
    PromptsSpec => /\ Init /\ [][Next \/ Init']_vars
                   /\ []OneOwner /\ []NobodyOrphaned /\ []NoLostWake
                   /\ StoppedStaysStopped
<1>1. PromptsInit => Init
  BY DEF PromptsInit
<1>2. Crash => Init' /\ StopStep
  BY DEF Crash, Init, StopStep, Blank
<1>3. PInv /\ [PromptsNext]_allVars => [Next \/ Init']_vars
  BY <1>2, PromptsIsCoordinator DEF PInv
<1>4. PInv /\ [PromptsNext]_allVars => StopStep \/ UNCHANGED vars
  BY <1>2, PromptsIsCoordinator, StopsStay DEF PInv
<1>5. StopStep \/ UNCHANGED vars =>
        [\A e \in Entries : e \in stopping =>
            /\ entry'[e].phase = "running" => entry[e].phase = "running"
            /\ e \in stopping' \/ entry'[e] = Blank]_vars
  BY DEF StopStep
<1>6. PInv => OneOwner /\ NobodyOrphaned /\ NoLostWake
  BY DEF PInv, IInv, Shape
<1> QED BY <1>1, <1>3, <1>4, <1>5, <1>6, PromptsInvariance, PTL
        DEF PromptsSpec, StoppedStaysStopped

(* The types.                                                              *)
THEOREM PromptsTypeCorrect == PromptsSpec => []PromptsTypeOK
<1>1. PInv => PromptsTypeOK
  BY DEF PInv, PromptsTypeOK, IInv, InboxInv
<1> QED BY <1>1, PromptsInvariance, PTL

(* The transcript holds the promoted prompts of the session, each once and *)
(* in the order of their events, through races, failures and restarts      *)
(* (input.ts, projectPrompted).                                            *)
THEOREM PromotedExactlyOnce == PromptsSpec => []PromotedOnce
<1>1. PInv => PromotedOnce
  BY DEF PInv, InboxInv
<1> QED BY <1>1, PromptsInvariance, PTL

(* Prompts promoted from the queue come out in the order of their          *)
(* admission, although the row is read in one transaction and promoted in  *)
(* another (input.ts, promoteNextQueued).                                  *)
THEOREM FirstInFirstOut == PromptsSpec => []QueueIsFifo
<1>1. PInv => QueueIsFifo
  BY DEF PInv, InboxInv
<1> QED BY <1>1, PromptsInvariance, PTL

-----------------------------------------------------------------------------
(* No prompt is stranded.                                                  *)

(* A running drain has still to look where prompt p waits.                 *)
Ahead(e, p) ==
    /\ entry[e].phase = "running"
    /\ row[p].delivery = "queue" \/ runner[e].at \notin {"checkQueue", "outer"}

(* The session's entry will drain again, will look for p, or is about to   *)
(* leave the session cut short.                                            *)
Comes(e, p) ==
    \/ DueAt(e, SessionOf[p])
    \/ /\ entry[e].key = SessionOf[p]
       /\ \/ e \in stopping
          \/ entry[e].phase \in {"settling", "cancelled"} /\ entry[e].exit # "success"
          \/ Ahead(e, p)

Expected(p) ==
    Waking(SessionOf[p]) \/ \E e \in Entries : Comes(e, p)

StrandInv ==
    \A p \in woken \ quiet : Pending(p) /\ SessionOf[p] \notin cut => Expected(p)

LEMMA ComesIsLive ==
    ASSUME IInv, NEW p \in Prompts, NEW e \in Entries, Comes(e, p)
    PROVE  Live(e) /\ active[SessionOf[p]] = e
<1>1. SessionOf[p] \in Keys
  BY SessionOfAssumption
<1>2. entry[e].key = SessionOf[p]
  BY DEF Comes, DueAt
<1>3. Live(e)
  BY <1>1, <1>2, NoneAssumption DEF IInv, Shape, FreeIsBlank, Live, Blank
<1> QED BY <1>2, <1>3 DEF IInv, Shape, OneOwner

(* The steps that leave the inbox and the runners alone.                   *)
LEMMA ComesThroughCalls ==
    ASSUME PInv, NEW p \in Prompts, NEW e \in Entries, Comes(e, p),
           UNCHANGED <<inbox, runner>>, NEW j \in Keys,
           \/ Wake(j)
           \/ \E c \in Clients : run(c, j) \/ Interrupt(c, j)
           \/ \E c \in Clients : Abandon(c) \/ Return(c)
    PROVE  Comes(e, p)'
<1>0. IInv /\ Live(e) /\ row' = row
  BY ComesIsLive DEF PInv, inbox
<1>1. ASSUME entry'[e] = entry[e], e \in pendingWake => e \in pendingWake',
             e \in stopping => e \in stopping'
      PROVE  Comes(e, p)'
  BY <1>0, <1>1 DEF Comes, DueAt, Ahead
<1>2. CASE Wake(j) \/ \E c \in Clients : run(c, j)
  <2>1. /\ pendingWake \subseteq pendingWake' /\ UNCHANGED stopping
        /\ Live(e) => entry'[e] = entry[e]
    BY <1>0, <1>2, CallsKeepWork
  <2> QED BY <1>0, <1>1, <2>1
<1>3. ASSUME NEW c \in Clients, Interrupt(c, j) PROVE Comes(e, p)'
  <2>1. /\ stopping' = stopping \cup {active[j]}
        /\ pendingWake' = pendingWake \ {active[j]}
        /\ entry' = [entry EXCEPT ![active[j]] =
               IF @.phase = "starting" THEN Exited(@, "cancelled", "interrupted")
                                       ELSE @]
    BY <1>3 DEF Interrupt
  <2>2. CASE e = active[j]
    <3>1. entry'[e].key = entry[e].key /\ e \in stopping'
      BY <1>0, <1>3, <2>1, <2>2, InterruptKeepsWork
    <3> QED BY <3>1 DEF Comes, DueAt
  <2>3. CASE e # active[j]
    <3>1. entry'[e] = entry[e]
      BY <2>1, <2>3, <1>0 DEF IInv, TypeOK
    <3> QED BY <1>1, <2>1, <2>3, <3>1
  <2> QED BY <2>2, <2>3
<1>4. CASE \E c \in Clients : Abandon(c) \/ Return(c)
  <2>1. UNCHANGED <<entry, pendingWake, stopping>>
    BY <1>4 DEF Abandon, Return, flags
  <2> QED BY <1>1, <2>1
<1> QED BY <1>2, <1>3, <1>4

(* settle hands what comes on, unless the session is cut short.            *)
LEMMA ComesThroughSettle ==
    ASSUME PInv, NEW p \in Prompts, NEW e \in Entries, Comes(e, p),
           NEW b \in Entries, Settle(b)
    PROVE  SessionOf[p] \in cut' \/ \E d \in Entries : Comes(d, p)'
<1>0. IInv /\ Live(e) /\ row' = row /\ runner' = runner /\ SessionOf[p] \in Keys
      /\ entry[e].key = SessionOf[p]
  BY ComesIsLive, SessionOfAssumption DEF PInv, inbox, Settle, Comes, DueAt
<1>1. settle(b) /\ entry[b].phase \in {"settling", "cancelled"}
  BY DEF Settle, settle
<1>2. CASE DueAt(e, SessionOf[p])
  <2>1. PICK d \in Entries : DueAt(d, SessionOf[p])'
    BY <1>0, <1>1, <1>2, SettleKeepsWork
  <2> QED BY <2>1 DEF Comes
<1>3. CASE e # b
  <2>1. entry'[e] = entry[e] /\ (e \in pendingWake => e \in pendingWake')
        /\ (e \in stopping => e \in stopping')
    <3>1. CASE SettleFollowUp(b)
      BY <1>0, <1>3, <3>1 DEF SettleFollowUp, IInv, TypeOK
    <3>2. CASE SettleIdle(b)
      BY <1>0, <1>3, <3>2 DEF SettleIdle, ClearFlags, IInv, TypeOK
    <3>3. CASE SettleSuccessor(b)
      <4>1. PICK n \in Free :
               entry' = [entry EXCEPT ![b] = Blank, ![n] = Starting(entry[b].key)]
        BY <3>3 DEF SettleSuccessor
      <4>2. n # e
        BY <1>0 DEF Free
      <4> QED BY <1>0, <1>3, <3>3, <4>1, <4>2
              DEF SettleSuccessor, ClearFlags, IInv, TypeOK
    <3> QED BY <1>1, <3>1, <3>2, <3>3 DEF settle
  <2> QED BY <1>0, <2>1 DEF Comes, DueAt, Ahead
<1>4. CASE e = b /\ ~DueAt(e, SessionOf[p])
  <2>1. e \in stopping \/ entry[e].exit # "success"
    BY <1>1, <1>4 DEF Comes, Ahead
  <2>2. e \notin pendingWake
    BY <1>0, <1>4 DEF DueAt
  <2>3. SettleIdle(b)
    BY <1>1, <1>4, <2>2 DEF settle, SettleFollowUp, FollowUp, SettleSuccessor, Successor
  <2>4. active'[SessionOf[p]] = None
    BY <1>0, <1>4, <2>3 DEF SettleIdle, IInv, TypeOK
  <2>5. SessionOf[p] \in cut'
    BY <1>0, <1>4, <2>1, <2>4 DEF Settle, Session
  <2> QED BY <2>5
<1> QED BY <1>2, <1>3, <1>4

(* The runner's own steps: it never passes by a prompt where it last       *)
(* looked, nor ends well with one it has still to look for.                *)
LEMMA ComesThroughRunner ==
    ASSUME PInv, NEW p \in Prompts, NEW e \in Entries, Comes(e, p),
           NEW b \in Entries, RunnerNext(b), ~Settle(b),
           Pending(p), Pending(p)', row'[p].delivery = row[p].delivery
    PROVE  Comes(e, p)'
<1>0. /\ IInv /\ PromptType /\ entry[e].key = SessionOf[p]
      /\ runner \in [Entries -> [at : RunnerStates, promotion : Deliveries \cup {"none"},
             cutoff : Nat, rows : SUBSET [prompt : Prompts, delivery : Deliveries],
             step : 1..MaxSteps]]
      /\ row[p].delivery \in {"queue", "steer"}
  BY DEF PInv, PromptType, Comes, DueAt, InboxInv, InboxType, Deliveries
<1>1. p \in PendingOf(entry[e].key, row[p].delivery)
  BY <1>0 DEF PendingOf
<1>2. CASE Begin(b)
  <2>1. /\ entry[b].phase = "starting" /\ entry' = [entry EXCEPT ![b].phase = "running"]
        /\ UNCHANGED <<pendingWake, stopping>>
    BY <1>2 DEF Begin, DrainBegin, flags
  <2>2. runner' = [runner EXCEPT ![b] = [Off EXCEPT !.at = "checkSteer"]]
    BY <1>2 DEF Begin
  <2>3. CASE e = b
    <3>1. entry'[e].phase = "running" /\ entry'[e].key = SessionOf[p]
      BY <1>0, <2>1, <2>3 DEF IInv, TypeOK
    <3>2. runner'[e].at = "checkSteer"
      BY <1>0, <2>2, <2>3 DEF Off
    <3> QED BY <3>1, <3>2 DEF Comes, Ahead
  <2>4. CASE e # b
    <3>1. entry'[e] = entry[e] /\ runner'[e] = runner[e]
      BY <1>0, <2>1, <2>2, <2>4 DEF IInv, TypeOK
    <3> QED BY <2>1, <3>1 DEF Comes, DueAt, Ahead
  <2> QED BY <2>3, <2>4
<1>3. ASSUME NEW exit \in Exits, End(b, exit) PROVE Comes(e, p)'
  <2>1. /\ entry[b].phase = "running"
        /\ entry' = [entry EXCEPT ![b] = Exited(@, "settling", exit)]
        /\ UNCHANGED <<pendingWake, stopping>>
        /\ runner' = [runner EXCEPT ![b] = Off]
    BY <1>3 DEF End, DrainEnd, flags
  <2>2. CASE e # b
    <3>1. entry'[e] = entry[e] /\ runner'[e] = runner[e]
      BY <1>0, <2>1, <2>2 DEF IInv, TypeOK
    <3> QED BY <2>1, <3>1 DEF Comes, DueAt, Ahead
  <2>3. CASE e = b
    <3>1. entry'[e].phase = "settling" /\ entry'[e].exit = exit
          /\ entry'[e].key = SessionOf[p]
      BY <1>0, <2>1, <2>3 DEF IInv, TypeOK, Exited
    <3>2. CASE exit # "success"
      BY <3>1, <3>2 DEF Comes
    <3>3. CASE exit = "success"
      <4>1. Finished(e)
        BY <1>3, <2>3, <3>3 DEF End, Exiting
      <4>2. ~Ahead(e, p)
        BY <1>0, <1>1, <4>1 DEF Finished, Ahead, hasPending, Session, At
      <4>3. e \in pendingWake \/ e \in stopping
        BY <2>1, <2>3, <4>2 DEF Comes, DueAt
      <4> QED BY <2>1, <3>1, <4>3 DEF Comes, DueAt
    <3> QED BY <3>2, <3>3
  <2> QED BY <2>2, <2>3
<1>4. CASE ~Begin(b) /\ ~\E exit \in Exits : End(b, exit)
  <2>1. UNCHANGED coordVars
    BY <1>4 DEF RunnerNext, CheckSteer, CheckQueue, Cutoff, ReadQueued, ReadSteers,
       Publish, Turn, AfterTurn, NextRound
  <2>2. Ahead(e, p) => Ahead(e, p)'
    <3>1. CASE e # b
      <4>1. runner'[e] = runner[e]
        BY <1>0, <1>4, <3>1 DEF RunnerNext, CheckSteer, CheckQueue, Cutoff,
           ReadQueued, ReadSteers, Publish, Turn, AfterTurn, NextRound, Goes,
           GoesPromoting
      <4> QED BY <2>1, <4>1 DEF Ahead, coordVars
    <3>2. CASE row[p].delivery = "queue"
      BY <2>1, <3>2 DEF Ahead, coordVars
    <3>3. CASE e = b /\ row[p].delivery = "steer" /\ Ahead(e, p)
      <4>1. hasPending(Session(e), "steer")
        BY <1>1, <3>3 DEF hasPending, Session
      <4>2. runner[e].at \notin {"checkQueue", "outer"}
        BY <3>3 DEF Ahead
      <4>3. \A rows, promotion : Publishing(rows, promotion) \notin {"checkQueue", "outer"}
        BY DEF Publishing
      <4>4. runner'[e].at \notin {"checkQueue", "outer"}
        <5>1. CASE CheckSteer(e)
          BY <1>0, <4>1, <5>1 DEF CheckSteer, GoesPromoting
        <5>2. CASE AfterTurn(e)
          BY <1>0, <4>1, <5>2 DEF AfterTurn, Goes
        <5>3. CASE CheckQueue(e) \/ NextRound(e)
          BY <4>2, <5>3 DEF CheckQueue, NextRound, At
        <5>4. CASE Cutoff(e) \/ ReadQueued(e)
          BY <1>0, <5>4 DEF Cutoff, ReadQueued, Goes
        <5>5. CASE ReadSteers(e)
          BY <1>0, <4>3, <5>5 DEF ReadSteers
        <5>6. CASE Publish(e)
          BY <1>0, <4>3, <5>6 DEF Publish
        <5>7. CASE Turn(e)
          BY <1>0, <5>7 DEF Turn, GoesPromoting
        <5> QED BY <1>4, <3>3, <5>1, <5>2, <5>3, <5>4, <5>5, <5>6, <5>7
                DEF RunnerNext
      <4> QED BY <2>1, <3>3, <4>4 DEF Ahead, coordVars
    <3> QED BY <1>0, <3>1, <3>2, <3>3
  <2> QED BY <2>1, <2>2 DEF Comes, DueAt, coordVars
<1> QED BY <1>2, <1>3, <1>4

LEMMA StrandStep ==
    ASSUME PInv, StrandInv, [PromptsNext]_allVars, InboxInv',
           \A q \in Prompts : RowMoves(q)
    PROVE  StrandInv'
<1> SUFFICES ASSUME NEW p \in (woken \ quiet)', Pending(p)', SessionOf[p] \notin cut'
             PROVE  Expected(p)'
  BY DEF StrandInv
<1> DEFINE k == SessionOf[p]
<1>0. /\ IInv /\ PromptType /\ Asked /\ InboxInv /\ PromptType'
      /\ p \in Prompts /\ k \in Keys
  BY PromptTypeStep, SessionOfAssumption DEF PInv, PromptType
<1>1. Stored(p) => Pending(p)
  BY <1>0, RowsKept
<1>2. ASSUME p \in woken, p \notin quiet, k \notin cut PROVE Pending(p) /\ Expected(p)
  BY <1>0, <1>1, <1>2 DEF PInv, WokenStored, StrandInv
<1>3. ASSUME UNCHANGED <<woken, quiet, cut>> PROVE Pending(p) /\ Expected(p)
  BY <1>2, <1>3
<1>4. ASSUME UNCHANGED <<coordVars, runner>>, row'[p].delivery = row[p].delivery,
             NEW e \in Entries, Comes(e, p)
      PROVE  Comes(e, p)'
  BY <1>4 DEF Comes, DueAt, Ahead, coordVars
<1>5. ASSUME UNCHANGED sender, Waking(k) PROVE Waking(k)'
  BY <1>5 DEF Waking
<1>6. ASSUME NEW s \in Senders, WakeSession(s) PROVE Expected(p)'
  <2>1. PICK j : j = SessionOf[sender[s].prompt]
    OBVIOUS
  <2>2. /\ Wake(j) /\ UNCHANGED <<inbox, runner>> /\ j \in Keys
        /\ sender' = [sender EXCEPT ![s] = Resting]
        /\ woken' = woken \cup {sender[s].prompt}
        /\ quiet' = quiet \ PromptsOf(j) /\ cut' = cut \ {j}
    BY <1>0, <1>6, <2>1, SessionOfAssumption DEF WakeSession, Returns, Asked
  <2>3. CASE j = k
    <3>1. \E e \in Entries : DueAt(e, k)'
      BY <1>0, <2>2, <2>3, CallsKeepWork DEF Owed, DueAt
    <3> QED BY <3>1 DEF Expected, Comes
  <2>4. CASE j # k
    <3>1. p \in woken /\ p \notin quiet /\ k \notin cut
      BY <2>1, <2>2, <2>4 DEF PromptsOf
    <3>2. Expected(p)
      BY <1>2, <3>1
    <3>3. Waking(k) => Waking(k)'
      BY <1>0, <2>1, <2>2, <2>4 DEF Waking, PromptType
    <3>4. ASSUME NEW e \in Entries, Comes(e, p) PROVE Comes(e, p)'
      BY <1>0, <2>2, <3>4, ComesThroughCalls
    <3> QED BY <3>2, <3>3, <3>4 DEF Expected
  <2> QED BY <2>3, <2>4
<1>7. ASSUME NEW s \in Senders, Admit(s) PROVE Expected(p)'
  <2>1. UNCHANGED <<coordVars, runner, woken, quiet, cut>>
    BY <1>7 DEF Admit, history
  <2>2. Expected(p) /\ Stored(p)
    BY <1>3, <2>1 DEF Pending
  <2>3. row'[p].delivery = row[p].delivery
    BY <1>0, <1>7, <2>2 DEF Admit, projectAdmitted, AdmitConflicts, RollBack, InboxInv,
       InboxType
  <2>4. \A t \in Senders \ {s} : sender'[t] = sender[t]
    BY <1>0, <1>7 DEF Admit, Admitted, Returns, PromptType
  <2>5. Waking(k) => Waking(k)'
    BY <1>7, <2>4 DEF Waking, Admit
  <2> QED BY <1>4, <2>1, <2>2, <2>3, <2>5 DEF Expected
<1>8. ASSUME NEW s \in Senders, Steer(s) PROVE Expected(p)'
  <2>1. UNCHANGED <<coordVars, runner, woken, cut>>
    BY <1>8 DEF Steer, history
  <2>2. quiet \subseteq quiet'
    BY <1>8 DEF Steer
  <2>3. Expected(p) /\ Pending(p)
    BY <1>2, <2>1, <2>2
  <2>4. \A t \in Senders \ {s} : sender'[t] = sender[t]
    BY <1>0, <1>8 DEF Steer, Admitted, Returns, PromptType
  <2>5. Waking(k) => Waking(k)'
    BY <1>8, <2>4 DEF Waking, Steer
  <2>6. CASE row'[p].delivery = row[p].delivery
    BY <1>4, <2>1, <2>3, <2>5, <2>6 DEF Expected
  <2>7. CASE row'[p].delivery # row[p].delivery
    <3>1. projectDeliveryChanged(p) /\ sender[s].prompt = p /\ Admitted(s, "steer")
      BY <1>0, <1>8, <2>7 DEF Steer, projectDeliveryChanged, RollBack, InboxInv,
         InboxType, SteerConflicts
    <3>2. Upgrades(p, "steer")
      BY <1>0, <2>3, <2>7, <3>1 DEF projectDeliveryChanged, Upgrades, InboxInv,
         InboxType, Deliveries
    <3>3. sender[s].resume
      BY <1>0, <1>8, <2>1, <3>1, <3>2 DEF Steer
    <3>4. sender[s].delivery = "steer"
      BY <1>0, <1>8 DEF Steer, Asked
    <3>5. sender' = [sender EXCEPT ![s].at = "wake"]
      BY <3>1, <3>3, <3>4 DEF Admitted
    <3>6. Waking(k)'
      BY <1>0, <3>1, <3>5 DEF Waking, PromptType
    <3> QED BY <3>6 DEF Expected
  <2> QED BY <2>6, <2>7
<1>9. ASSUME NEW s \in Senders, NEW q \in Prompts, NEW d \in Deliveries,
             NEW r \in Resumes, Prompt(s, q, d, r)
      PROVE  Expected(p)'
  <2>1. UNCHANGED <<coordVars, runner, woken, quiet, cut, row>>
    BY <1>9 DEF Prompt, history, inbox
  <2>2. Expected(p)
    BY <1>3, <2>1
  <2>3. \A t \in Senders \ {s} : sender'[t] = sender[t]
    BY <1>0, <1>9 DEF Prompt, Calls, PromptType
  <2>4. Waking(k) => Waking(k)'
    BY <1>9, <2>3 DEF Waking, Prompt
  <2> QED BY <1>4, <2>1, <2>2, <2>4 DEF Expected
<1>10. ASSUME NEW b \in Entries, Settle(b) PROVE Expected(p)'
  <2>1. UNCHANGED <<sender, woken, quiet>> /\ cut \subseteq cut'
    BY <1>10 DEF Settle, others
  <2>2. Expected(p)
    BY <1>2, <2>1
  <2>3. ASSUME NEW e \in Entries, Comes(e, p) PROVE \E d \in Entries : Comes(d, p)'
    BY <1>0, <1>10, <2>3, ComesThroughSettle
  <2> QED BY <1>5, <2>1, <2>2, <2>3 DEF Expected
<1>11. ASSUME NEW b \in Entries, RunnerNext(b), ~Settle(b) PROVE Expected(p)'
  <2>1. UNCHANGED <<sender, woken, quiet, cut>>
    BY <1>11 DEF RunnerNext, Begin, CheckSteer, CheckQueue, Cutoff, ReadQueued,
       ReadSteers, Publish, Turn, AfterTurn, NextRound, End, others, history
  <2>2. Expected(p) /\ Pending(p)
    BY <1>3, <2>1
  <2>3. row'[p].delivery = row[p].delivery
    <3>1. UNCHANGED inbox => row'[p].delivery = row[p].delivery
      BY DEF inbox
    <3>2. CASE Publish(b)
      <4>1. PICK r \in runner[b].rows : Prompted(r) \/ Skips(r)
        BY <3>2 DEF Publish, FirstOf
      <4>2. row' = row \/ row' = [row EXCEPT ![r.prompt].promoted
                                             = seq[SessionOf[r.prompt]] + 1]
        BY <4>1 DEF Prompted, Skips, projectPrompted, RollBack
      <4>3. PICK q, n : /\ q = r.prompt /\ n = seq[SessionOf[r.prompt]] + 1
        OBVIOUS
      <4>4. row' = row \/ row' = [row EXCEPT ![q].promoted = n]
        BY <4>2, <4>3
      <4>5. row \in [Prompts -> [delivery : Deliveries, admitted : Nat,
                                promoted : Nat]]
        BY <1>0 DEF InboxInv, InboxType
      <4> QED BY <1>0, <4>4, <4>5
    <3> QED BY <1>11, <3>1, <3>2 DEF RunnerNext, Begin, CheckSteer, CheckQueue, Cutoff,
            ReadQueued, ReadSteers, Turn, AfterTurn, NextRound, End
  <2>4. ASSUME NEW e \in Entries, Comes(e, p) PROVE Comes(e, p)'
    BY <1>0, <1>11, <2>2, <2>3, <2>4, ComesThroughRunner
  <2> QED BY <1>5, <2>1, <2>2, <2>4 DEF Expected
<1>12. ASSUME NEW c \in Clients, ClientNext(c), Idles PROVE Expected(p)'
  <2>1. UNCHANGED <<inbox, runner, sender, woken, quiet, cut>>
    BY <1>12 DEF Idles, promptVars
  <2>2. Expected(p)
    BY <1>3, <2>1
  <2>3. ASSUME NEW e \in Entries, Comes(e, p) PROVE Comes(e, p)'
    <3>1. PICK j \in Keys : \/ run(c, j) \/ Interrupt(c, j)
                            \/ Abandon(c) \/ Return(c)
      BY <1>0, <1>12 DEF ClientNext, Run, RunAgain, IInv, TypeOK
    <3> QED BY <1>0, <2>1, <2>3, <3>1, ComesThroughCalls
  <2> QED BY <1>5, <2>1, <2>2, <2>3 DEF Expected
<1>13. CASE Crash
  BY <1>0, <1>13 DEF Crash
<1>14. CASE UNCHANGED allVars
  <2>1. UNCHANGED <<coordVars, runner, sender, woken, quiet, cut, row>>
    BY <1>14 DEF allVars, promptVars, inbox
  <2> QED BY <1>3, <1>4, <1>5, <2>1 DEF Expected
<1> QED BY <1>6, <1>7, <1>8, <1>9, <1>10, <1>11, <1>12, <1>13, <1>14
           DEF PromptsNext, SenderNext

(* "The drain's last look at the inbox and the wake that races with it     *)
(* never miss each other": a prompt whose call woke its session is not     *)
(* left in the inbox of an idle session (run-coordinator.ts, wake and      *)
(* settle; runner/llm.ts, run).                                            *)
THEOREM NothingStranded == PromptsSpec => []NoStrandedPrompt
<1>1. PromptsInit => StrandInv
  BY DEF PromptsInit, StrandInv
<1>2. PInv /\ StrandInv /\ [PromptsNext]_allVars => StrandInv'
  BY InboxStep, StrandStep
<1>3. PInv /\ StrandInv => NoStrandedPrompt
  <2> SUFFICES ASSUME PInv, StrandInv, NEW p \in woken \ quiet, LeftBehind(p)
               PROVE  FALSE
    BY DEF NoStrandedPrompt
  <2>1. p \in Prompts /\ IInv /\ SessionOf[p] \in Keys
    BY SessionOfAssumption DEF PInv, PromptType
  <2>2. PICK e \in Entries : Comes(e, p)
    BY DEF StrandInv, LeftBehind, Expected
  <2>3. active[SessionOf[p]] = e
    BY <2>1, <2>2, ComesIsLive
  <2> QED BY <2>3, NoneAssumption DEF LeftBehind
<1> QED BY <1>1, <1>2, <1>3, PromptsInvariance, PTL DEF PromptsSpec

-----------------------------------------------------------------------------
(* What was promoted is answered.                                          *)

(* A runner's step leaves the other runners alone.                         *)
LEMMA OthersStay ==
    ASSUME IInv, PromptType, NEW b \in Entries, RunnerNext(b),
           NEW e \in Entries, e # b, NEW k \in Keys
    PROVE  runner'[e] = runner[e] /\ (RunsAt(e, k) <=> RunsAt(e, k)')
<1>1. runner'[e] = runner[e]
  BY DEF RunnerNext, Begin, CheckSteer, CheckQueue, Cutoff, ReadQueued, ReadSteers,
     Publish, Turn, AfterTurn, NextRound, Settle, End, Goes, GoesPromoting, PromptType
<1>2. CASE Settle(b)
  <2>1. settle(b)
    BY <1>2 DEF Settle
  <2>2. RunsAt(e, k)' => RunsAt(e, k)
    BY <2>1, RunningWas DEF RunsAt
  <2> QED BY <1>1, <2>1, <2>2, SettleKeepsWork
<1>3. CASE Begin(b)
  BY <1>1, <1>3 DEF Begin, DrainBegin, IInv, TypeOK, RunsAt
<1>4. ASSUME NEW exit \in Exits, End(b, exit) PROVE RunsAt(e, k) <=> RunsAt(e, k)'
  BY <1>4 DEF End, DrainEnd, IInv, TypeOK, RunsAt
<1>5. UNCHANGED coordVars => (RunsAt(e, k) <=> RunsAt(e, k)')
  BY DEF coordVars, RunsAt
<1> QED BY <1>1, <1>2, <1>3, <1>4, <1>5 DEF RunnerNext, CheckSteer, CheckQueue, Cutoff,
        ReadQueued, ReadSteers, Publish, Turn, AfterTurn, NextRound

LEMMA OnlyPublishPromotes ==
    ASSUME PInv, [PromptsNext]_allVars, NEW p \in Prompts,
           row[p].promoted = 0, row'[p].promoted # 0
    PROVE  \E b \in Entries : Publish(b) /\ RunsAt(b, SessionOf[p])
<1>0. row \in [Prompts -> [delivery : Deliveries, admitted : Nat, promoted : Nat]]
  BY DEF PInv, InboxInv, InboxType
<1>1. ~UNCHANGED inbox
  BY DEF inbox
<1>2. ASSUME NEW s \in Senders, SenderNext(s) PROVE FALSE
  <2>1. PICK q, d, n : /\ q = sender[s].prompt /\ d = sender[s].delivery
                       /\ n = seq[SessionOf[sender[s].prompt]] + 1
    OBVIOUS
  <2>2. \/ UNCHANGED row
        \/ row' = [row EXCEPT ![q] = [delivery |-> d, admitted |-> n, promoted |-> 0]]
        \/ row' = [row EXCEPT ![q].delivery = "steer"]
    <3>1. CASE Admit(s)
      BY <2>1, <3>1 DEF Admit, projectAdmitted, RollBack
    <3>2. CASE Steer(s)
      BY <2>1, <3>2 DEF Steer, projectDeliveryChanged, RollBack
    <3>3. CASE WakeSession(s)
      BY <3>3 DEF WakeSession, inbox
    <3> QED BY <1>2, <3>1, <3>2, <3>3 DEF SenderNext
  <2> QED BY <1>0, <2>2
<1>3. ASSUME NEW b \in Entries, Publish(b) PROVE RunsAt(b, SessionOf[p])
  <2>1. PICK r \in runner[b].rows : Prompted(r) \/ Skips(r)
    BY <1>3 DEF Publish, FirstOf
  <2>2. PICK q, n : q = r.prompt /\ n = seq[SessionOf[r.prompt]] + 1
    OBVIOUS
  <2>3. row' = row \/ row' = [row EXCEPT ![q].promoted = n]
    BY <2>1, <2>2 DEF Prompted, Skips, projectPrompted, RollBack
  <2>4. q = p
    BY <1>0, <2>3
  <2>5. Holds(b)
    BY DEF PInv
  <2>6. SessionOf[p] = entry[b].key
    BY <2>1, <2>2, <2>4, <2>5 DEF Holds
  <2> QED BY <1>3, <2>6 DEF Publish, At, RunsAt
<1>4. ASSUME NEW b \in Entries, RunnerNext(b) PROVE Publish(b)
  BY <1>1, <1>4 DEF RunnerNext, Begin, CheckSteer, CheckQueue, Cutoff, ReadQueued,
     ReadSteers, Turn, AfterTurn, NextRound, Settle, End
<1> QED BY <1>1, <1>2, <1>3, <1>4 DEF PromptsNext, Prompt, Idles, Crash, allVars

(* The session's drain is between the promotion and the provider.          *)
Answers(e, k) == RunsAt(e, k) /\ runner[e].at \in {"publish", "steers", "model"}

AnswerInv ==
    \A p \in Prompts \ seen :
        row[p].promoted # 0 /\ SessionOf[p] \notin unanswered
            => \E e \in Entries : Answers(e, SessionOf[p])

LEMMA AnswerStep ==
    ASSUME PInv, AnswerInv, [PromptsNext]_allVars PROVE AnswerInv'
<1> SUFFICES ASSUME NEW p \in Prompts, p \notin seen', row'[p].promoted # 0,
                    SessionOf[p] \notin unanswered'
             PROVE  \E e \in Entries : Answers(e, SessionOf[p])'
  BY DEF AnswerInv
<1> DEFINE k == SessionOf[p]
<1>0. /\ k \in Keys /\ IInv /\ PromptType /\ Asked
      /\ runner \in [Entries -> [at : RunnerStates, promotion : Deliveries \cup {"none"},
             cutoff : Nat, rows : SUBSET [prompt : Prompts, delivery : Deliveries],
             step : 1..MaxSteps]]
  BY SessionOfAssumption DEF PInv, PromptType
<1>1. \A rows, promotion : Publishing(rows, promotion) \in {"publish", "steers", "model"}
  BY DEF Publishing
<1>2. CASE row[p].promoted = 0
  <2>1. PICK b \in Entries : Publish(b) /\ RunsAt(b, k)
    BY <1>2, OnlyPublishPromotes
  <2>2. runner'[b].at \in {"publish", "steers", "model"} /\ UNCHANGED coordVars
    BY <1>0, <1>1, <2>1 DEF Publish
  <2> QED BY <2>1, <2>2 DEF Answers, RunsAt, coordVars
<1>3. CASE row[p].promoted # 0 /\ \E b \in Entries : RunnerNext(b)
  <2>1. PICK b \in Entries : RunnerNext(b)
    BY <1>3
  <2>2. p \notin seen
    BY <2>1 DEF RunnerNext, Begin, CheckSteer, CheckQueue, Cutoff, ReadQueued,
       ReadSteers, Publish, Turn, AfterTurn, NextRound, Settle, End, history
  <2>3. CASE Turn(b)
    <3>1. Session(b) # k
      BY <2>3, <1>3 DEF Turn
    <3>2. PICK e \in Entries : Answers(e, k)
      BY <1>3, <2>2, <2>3, <3>1 DEF Turn, AnswerInv
    <3>3. e # b
      BY <3>1, <3>2 DEF Answers, RunsAt, Session
    <3> QED BY <1>0, <2>1, <3>2, <3>3, OthersStay DEF Answers
  <2>4. CASE ~Turn(b)
    <3>1. unanswered \subseteq unanswered'
      BY <2>1, <2>4 DEF RunnerNext, Begin, CheckSteer, CheckQueue, Cutoff, ReadQueued,
         ReadSteers, Publish, AfterTurn, NextRound, Settle, End, history
    <3>2. PICK e \in Entries : Answers(e, k)
      BY <1>3, <2>2, <3>1 DEF AnswerInv
    <3>3. CASE e # b
      BY <1>0, <2>1, <3>2, <3>3, OthersStay DEF Answers
    <3>4. CASE e = b
      <4>1. entry[b].phase = "running" /\ runner[b].at \in {"publish", "steers", "model"}
            /\ Session(b) = k
        BY <3>2, <3>4 DEF Answers, RunsAt, Session
      <4>2. ~\E exit \in Exits : End(b, exit)
        <5> SUFFICES ASSUME NEW exit \in Exits, End(b, exit) PROVE FALSE
          OBVIOUS
        <5>1. Owing(k)
          BY <1>3, <2>2 DEF Owing
        <5>2. exit = "success"
          BY <4>1, <5>1 DEF End
        <5>3. Finished(b)
          BY <5>2 DEF End, Exiting
        <5> QED BY <4>1, <5>3 DEF Finished, At
      <4>3. ReadSteers(b) \/ Publish(b)
        <5>1. ~Begin(b) /\ ~Settle(b)
          BY <4>1 DEF Begin, DrainBegin, Settle, settle
        <5>2. ~CheckSteer(b) /\ ~CheckQueue(b) /\ ~Cutoff(b) /\ ~ReadQueued(b)
              /\ ~AfterTurn(b) /\ ~NextRound(b)
          BY <4>1 DEF CheckSteer, CheckQueue, Cutoff, ReadQueued, AfterTurn, NextRound, At
        <5> QED BY <2>1, <2>4, <4>2, <5>1, <5>2 DEF RunnerNext
      <4>4. UNCHANGED coordVars
        BY <4>3 DEF ReadSteers, Publish
      <4>5. runner'[b].at \in {"publish", "steers", "model"}
        <5>1. CASE ReadSteers(b)
          BY <1>0, <1>1, <5>1 DEF ReadSteers
        <5>2. CASE Publish(b)
          BY <1>0, <1>1, <5>2 DEF Publish
        <5> QED BY <4>3, <5>1, <5>2
      <4> QED BY <3>2, <3>4, <4>4, <4>5 DEF Answers, RunsAt, coordVars
    <3> QED BY <3>3, <3>4
  <2> QED BY <2>3, <2>4
<1>4. CASE row[p].promoted # 0 /\ ~(\E b \in Entries : RunnerNext(b)) /\ ~Crash
  <2>1. UNCHANGED <<seen, unanswered>>
    BY <1>4 DEF PromptsNext, Prompt, SenderNext, Admit, Steer, WakeSession, Idles,
       promptVars, allVars, history
  <2>2. PICK e \in Entries : Answers(e, k)
    BY <1>4, <2>1 DEF AnswerInv
  <2>3. runner'[e] = runner[e] /\ entry'[e].phase = "running"
        /\ entry'[e].key = entry[e].key
    BY <1>0, <1>4, <2>2, AwayStays DEF Answers, RunsAt
  <2> QED BY <2>2, <2>3 DEF Answers, RunsAt
<1>5. CASE row[p].promoted # 0 /\ Crash
  <2>1. p \notin seen
    BY <1>5 DEF Crash
  <2> QED BY <1>0, <1>5, <2>1 DEF Crash, Owing
<1> QED BY <1>2, <1>3, <1>4, <1>5

(* A promoted prompt reaches the provider before its session is idle,      *)
(* unless the drain that promoted it was cut short (runner/llm.ts,         *)
(* runTurnAttempt).                                                        *)
THEOREM PromotedAnswered == PromptsSpec => []PromotedIsAnswered
<1>1. PromptsInit => AnswerInv
  BY DEF PromptsInit, InboxInit, AnswerInv, NoRow
<1>2. PInv /\ AnswerInv /\ [PromptsNext]_allVars => AnswerInv'
  BY AnswerStep
<1>3. PInv /\ AnswerInv => PromotedIsAnswered
  <2> SUFFICES ASSUME PInv, AnswerInv, NEW p \in Prompts \ seen,
                      row[p].promoted # 0, active[SessionOf[p]] = None,
                      SessionOf[p] \notin unanswered
               PROVE  FALSE
    BY DEF PromotedIsAnswered
  <2>1. PICK e \in Entries : RunsAt(e, SessionOf[p])
    BY DEF AnswerInv, Answers
  <2>2. active[SessionOf[p]] = e
    BY <2>1, SessionOfAssumption, DueIsLive DEF PInv
  <2> QED BY <2>2, NoneAssumption
<1> QED BY <1>1, <1>2, <1>3, PromptsInvariance, PTL DEF PromptsSpec

-----------------------------------------------------------------------------
(* A steer is overtaken once.                                              *)

(* The drain takes steers before it looks at the queue again.              *)
SteersFirst(e) ==
    /\ runner[e].at \notin {"checkQueue", "outer", "queued"}
    /\ runner[e].at = "cutoff" => runner[e].promotion = "steer"
    /\ \A r \in runner[e].rows : r.delivery = "steer"

OvertakenAt(p) ==
    /\ overtaken[p] \in {0, 1}
    /\ overtaken[p] # 0 =>
          /\ Stored(p) /\ row[p].delivery = "steer"
          /\ Pending(p) => \A e \in Entries : RunsAt(e, SessionOf[p]) => SteersFirst(e)

OvertakenInv == \A p \in Prompts : OvertakenAt(p)

(* With a steer waiting, a drain that takes steers first goes on doing so. *)
LEMMA SteersFirstKept ==
    ASSUME PInv, [PromptsNext]_allVars, IInv', NEW p \in Prompts, Pending(p),
           row[p].delivery = "steer", NEW e \in Entries, RunsAt(e, SessionOf[p])',
           \A d \in Entries : RunsAt(d, SessionOf[p]) => SteersFirst(d)
    PROVE  SteersFirst(e)'
<1> DEFINE k == SessionOf[p]
<1>0. /\ k \in Keys /\ IInv /\ PromptType /\ Asked /\ Holds(e)
      /\ runner \in [Entries -> [at : RunnerStates, promotion : Deliveries \cup {"none"},
             cutoff : Nat, rows : SUBSET [prompt : Prompts, delivery : Deliveries],
             step : 1..MaxSteps]]
  BY SessionOfAssumption DEF PInv, PromptType
<1>1. ASSUME runner'[e] = runner[e], RunsAt(e, k) PROVE SteersFirst(e)'
  BY <1>1 DEF SteersFirst
<1>2. ~Crash
  BY <1>0 DEF Crash, Blank, RunsAt
<1>3. CASE ~\E b \in Entries : RunnerNext(b)
  <2>1. runner'[e] = runner[e] /\ RunsAt(e, k)
    BY <1>0, <1>2, <1>3, AwayStays DEF RunsAt
  <2> QED BY <1>1, <2>1
<1>4. ASSUME NEW b \in Entries, RunnerNext(b), b # e PROVE SteersFirst(e)'
  BY <1>0, <1>1, <1>4, OthersStay
<1>5. CASE RunnerNext(e)
  <2>1. ~Settle(e)
    <3> SUFFICES ASSUME Settle(e) PROVE FALSE
      OBVIOUS
    <3>1. settle(e) /\ entry[e].phase # "running"
      BY DEF Settle, settle
    <3> QED BY <1>0, <3>1, RunningWas DEF RunsAt
  <2>2. ASSUME NEW exit \in Exits, End(e, exit) PROVE FALSE
    BY <1>0, <2>2 DEF End, DrainEnd, Exited, IInv, TypeOK, RunsAt
  <2>3. CASE Begin(e)
    <3>1. runner'[e] = [Off EXCEPT !.at = "checkSteer"]
      BY <1>0, <2>3 DEF Begin
    <3> QED BY <3>1 DEF SteersFirst, Off
  <2>4. CASE ~Begin(e)
    <3>1. UNCHANGED coordVars
      BY <1>5, <2>1, <2>2, <2>4 DEF RunnerNext, CheckSteer, CheckQueue, Cutoff,
         ReadQueued, ReadSteers, Publish, Turn, AfterTurn, NextRound
    <3>2. SteersFirst(e) /\ Session(e) = k
      BY <3>1 DEF RunsAt, coordVars, Session
    <3>3. hasPending(Session(e), "steer")
      BY <3>2 DEF hasPending, PendingOf
    <3>4. \A rows, promotion : Publishing(rows, promotion) \in {"publish", "steers", "model"}
      BY DEF Publishing
    <3>5. CASE CheckSteer(e)
      <4>1. GoesPromoting(e, "cutoff", "steer")
        BY <3>3, <3>5 DEF CheckSteer
      <4> QED BY <1>0, <3>2, <4>1 DEF SteersFirst, GoesPromoting
    <3>6. ~CheckQueue(e) /\ ~ReadQueued(e) /\ ~NextRound(e)
      BY <3>2 DEF SteersFirst, CheckQueue, ReadQueued, NextRound, At
    <3>7. CASE Cutoff(e)
      <4>1. runner[e].promotion = "steer"
        BY <3>2, <3>7 DEF SteersFirst, Cutoff, At
      <4>2. runner'[e].at = "steers" /\ runner'[e].rows = runner[e].rows
        BY <1>0, <3>7, <4>1 DEF Cutoff
      <4> QED BY <3>2, <4>2 DEF SteersFirst
    <3>8. CASE ReadSteers(e)
      <4>1. PICK rows : rows = {Read(q) : q \in SteersUpTo(Session(e), runner[e].cutoff)}
        OBVIOUS
      <4>2. runner'[e].at = Publishing(rows, "none") /\ runner'[e].rows = rows
        BY <1>0, <3>8, <4>1 DEF ReadSteers
      <4>3. \A r \in rows : r.delivery = "steer"
        BY <4>1 DEF SteersUpTo, PendingOf, Read
      <4>4. runner'[e].at \in {"publish", "steers", "model"}
        BY <3>4, <4>2
      <4> QED BY <4>2, <4>3, <4>4 DEF SteersFirst
    <3>9. CASE Publish(e)
      <4>1. runner'[e].at \in {"publish", "steers", "model"}
        BY <1>0, <3>4, <3>9 DEF Publish
      <4>2. runner'[e].rows \subseteq runner[e].rows
        BY <1>0, <3>9 DEF Publish
      <4> QED BY <3>2, <4>1, <4>2 DEF SteersFirst
    <3>10. CASE Turn(e)
      <4>1. runner'[e].at \in {"cutoff", "afterTurn"} /\ runner'[e].promotion = "steer"
            /\ runner'[e].rows = runner[e].rows
        BY <1>0, <3>10 DEF Turn, GoesPromoting
      <4> QED BY <3>2, <4>1 DEF SteersFirst
    <3>11. CASE AfterTurn(e)
      <4>1. Goes(e, "cutoff") /\ runner[e].promotion = "steer"
        BY <1>0, <3>3, <3>11 DEF AfterTurn, At, Holds
      <4> QED BY <1>0, <3>2, <4>1 DEF SteersFirst, Goes
    <3> QED BY <1>5, <2>1, <2>2, <2>4, <3>5, <3>6, <3>7, <3>8, <3>9, <3>10, <3>11
            DEF RunnerNext
  <2> QED BY <2>3, <2>4
<1> QED BY <1>3, <1>4, <1>5

LEMMA OvertakenStep ==
    ASSUME PInv, OvertakenInv, [PromptsNext]_allVars, IInv', InboxInv',
           \A q \in Prompts : RowMoves(q)
    PROVE  OvertakenInv'
<1> SUFFICES ASSUME NEW p \in Prompts PROVE OvertakenAt(p)'
  BY DEF OvertakenInv
<1> DEFINE k == SessionOf[p]
<1>0. /\ k \in Keys /\ IInv /\ PromptType /\ InboxInv /\ OvertakenAt(p)
      /\ runner \in [Entries -> [at : RunnerStates, promotion : Deliveries \cup {"none"},
             cutoff : Nat, rows : SUBSET [prompt : Prompts, delivery : Deliveries],
             step : 1..MaxSteps]]
  BY SessionOfAssumption DEF PInv, PromptType, OvertakenInv
<1>1. /\ Stored(p) => Stored(p)'
      /\ Stored(p) /\ row[p].delivery = "steer" => row'[p].delivery = "steer"
      /\ Stored(p) /\ Pending(p)' => Pending(p)
  BY <1>0, RowsKept DEF RowMoves
<1>2. ASSUME overtaken'[p] = overtaken[p] PROVE OvertakenAt(p)'
  <2>1. CASE overtaken[p] = 0
    BY <1>2, <2>1 DEF OvertakenAt
  <2>2. CASE overtaken[p] # 0
    <3>1. Stored(p) /\ row[p].delivery = "steer"
      BY <1>0, <2>2 DEF OvertakenAt
    <3>2. Stored(p)' /\ row'[p].delivery = "steer"
      BY <1>1, <3>1
    <3>3. ASSUME Pending(p)', NEW e \in Entries, RunsAt(e, k)' PROVE SteersFirst(e)'
      <4>1. Pending(p) /\ \A d \in Entries : RunsAt(d, k) => SteersFirst(d)
        BY <1>0, <1>1, <2>2, <3>1, <3>3 DEF OvertakenAt
      <4> QED BY <3>1, <3>3, <4>1, SteersFirstKept
    <3>4. overtaken'[p] \in {0, 1}
      BY <1>0, <1>2 DEF OvertakenAt
    <3> QED BY <3>2, <3>3, <3>4 DEF OvertakenAt
  <2> QED BY <2>1, <2>2
<1>3. ASSUME NEW b \in Entries, Publish(b) PROVE OvertakenAt(p)'
  <2>1. PICK r \in runner[b].rows :
             /\ Prompted(r) \/ Skips(r)
             /\ runner' = [runner EXCEPT
                   ![b].at = Publishing(runner[b].rows \ {r}, runner[b].promotion),
                   ![b].rows = runner[b].rows \ {r}, ![b].step = 1]
    BY <1>3 DEF Publish, FirstOf
  <2>2. CASE Skips(r) \/ p \notin Waiters(r.prompt, r.delivery)
    <3>1. overtaken'[p] = overtaken[p]
      BY <1>0, <2>1, <2>2 DEF Skips, Prompted, PromptType
    <3> QED BY <1>2, <3>1
  <2>3. CASE Prompted(r) /\ p \in Waiters(r.prompt, r.delivery)
    <3>1. /\ r.delivery = "queue" /\ SessionOf[r.prompt] = k
          /\ Pending(p) /\ row[p].delivery = "steer"
      BY <2>3 DEF Waiters, PendingOf
    <3>2. Holds(b)
      BY DEF PInv
    <3>3. RunsAt(b, k) /\ UNCHANGED coordVars /\ runner[b].rows = {r}
      BY <1>3, <2>1, <3>1, <3>2 DEF Publish, At, RunsAt, Holds
    <3>4. overtaken[p] = 0
      BY <1>0, <2>1, <3>1, <3>3 DEF OvertakenAt, SteersFirst
    <3>5. overtaken'[p] = 1
      BY <1>0, <2>3, <3>4 DEF Prompted, PromptType
    <3>6. Stored(p)' /\ row'[p].delivery = "steer"
      BY <1>1, <3>1 DEF Pending
    <3>7. runner'[b].rows = {} /\ runner'[b].at \in {"steers", "model"}
      BY <1>0, <2>1, <3>3 DEF Publishing
    <3>8. ASSUME NEW e \in Entries, RunsAt(e, k)' PROVE SteersFirst(e)'
      <4>1. RunsAt(e, k)
        BY <3>3, <3>8 DEF RunsAt, coordVars
      <4>2. e = b
        BY <1>0, <3>3, <4>1, DueIsLive
      <4> QED BY <3>7, <4>2 DEF SteersFirst
    <3> QED BY <3>5, <3>6, <3>8 DEF OvertakenAt
  <2> QED BY <2>1, <2>2, <2>3
<1>4. CASE ~\E b \in Entries : Publish(b)
  <2>1. UNCHANGED overtaken
    <3>1. ASSUME NEW b \in Entries, RunnerNext(b) PROVE UNCHANGED overtaken
      BY <1>4, <3>1 DEF RunnerNext, Begin, CheckSteer, CheckQueue, Cutoff, ReadQueued,
         ReadSteers, Turn, AfterTurn, NextRound, Settle, End, history
    <3>2. ASSUME NEW s \in Senders, SenderNext(s) PROVE UNCHANGED overtaken
      BY <3>2 DEF SenderNext, Admit, Steer, WakeSession, history
    <3> QED BY <3>1, <3>2 DEF PromptsNext, Prompt, Idles, Crash, history, promptVars,
            allVars
  <2> QED BY <1>2, <2>1
<1> QED BY <1>3, <1>4

(* However prompts arrive while it waits, one queued prompt at most is     *)
(* promoted ahead of a steer (input.ts, the delivery "steer").             *)
THEOREM OvertakenAtMostOnce == PromptsSpec => []SteerOvertakenOnce
<1>1. PromptsInit => OvertakenInv
  BY DEF PromptsInit, OvertakenInv, OvertakenAt
<1>2. PInv /\ OvertakenInv /\ [PromptsNext]_allVars => OvertakenInv'
  BY InboxStep, OvertakenStep, PromptsCoordinate DEF PInv
<1>3. OvertakenInv => SteerOvertakenOnce
  BY DEF OvertakenInv, OvertakenAt, SteerOvertakenOnce
<1> QED BY <1>1, <1>2, <1>3, PromptsInvariance, PTL DEF PromptsSpec

=============================================================================
