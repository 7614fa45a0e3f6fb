---------------------------- MODULE Permissions ----------------------------
(***************************************************************************)
(* The permission requests of a location (packages/core/src/permission.ts  *)
(* and permission/saved.ts).                                               *)
(*                                                                         *)
(* A tool call asserts a permission: configured and saved rules allow or   *)
(* deny it, or it waits in pending for a reply.  A reply publishes before  *)
(* it settles; reject settles the session's other requests too, always     *)
(* saves a rule and settles every request the rules now allow, both while  *)
(* they walk through the live map, whose order is left open.  Replies      *)
(* cannot be interrupted.  Each Location has its own pending; the rules    *)
(* its project saves from another Location, whose replies do not walk this *)
(* pending, are left out.                                                  *)
(***************************************************************************)
EXTENDS Naturals

CONSTANTS
    Requests,   \* calls of assert, each with its request
    Replies,    \* calls of reply
    Configured, \* what configured rules say of each request
    SessionOf,  \* the session of each request
    Sessions,
    Actions,
    ActionOf,   \* the action of each request; its save list is "*"
    NoRequest

ASSUME RequestsAre ==
    /\ Configured \in [Requests -> {"allow", "ask", "deny"}]
    /\ SessionOf \in [Requests -> Sessions]
    /\ ActionOf \in [Requests -> Actions]
    /\ NoRequest \notin Requests

VARIABLES
    saved,      \* the actions PermissionTable allows
    pending,    \* the map of open requests
    settled,    \* the deferred of each request
    ask,        \* where each assert is, with the saved rules it read
    reply,      \* where each reply is
    stale       \* history: requests made although a rule saved by then
                \* allows them

permVars == <<saved, pending, settled, ask, reply, stale>>

Answers == {"once", "always", "reject"}

Outcomes == {"open", "approved", "rejected"}

NoReply == [at |-> "off", on |-> NoRequest, answer |-> "once", rules |-> {},
            seen |-> {}, item |-> NoRequest, swept |-> {}]

PermTypeOK ==
    /\ saved \in SUBSET Actions
    /\ pending \in SUBSET Requests
    /\ settled \in [Requests -> Outcomes]
    /\ ask \in [Requests -> [at : {"off", "evaluated", "asking", "waiting",
                                   "allowed", "denied"},
                             rules : SUBSET Actions]]
    /\ reply \in [Replies -> [at : {"off", "telling", "saving", "saved",
                                    "reading", "weighing", "passing", "over"},
                              on : Requests \cup {NoRequest}, answer : Answers,
                              rules : SUBSET Actions, seen : SUBSET Requests,
                              item : Requests \cup {NoRequest},
                              swept : SUBSET Requests]]
    /\ stale \in SUBSET Requests

PermInit ==
    /\ saved = {}
    /\ pending = {}
    /\ settled = [q \in Requests |-> "open"]
    /\ ask = [q \in Requests |-> [at |-> "off", rules |-> {}]]
    /\ reply = [r \in Replies |-> NoReply]
    /\ stale = {}

-----------------------------------------------------------------------------
(* evaluate, for a request and a set of saved rules: the last rule that    *)
(* matches decides, and saved rules come after the configured ones, but a  *)
(* configured deny is looked at first.                                     *)
Allows(q, rules) ==
    /\ Configured[q] # "deny"
    /\ Configured[q] = "allow" \/ ActionOf[q] \in rules

AskGoes(q, at) == ask' = [ask EXCEPT ![q] = [at |-> at, rules |-> {}]]

(* Mutant: the request stays when it is answered or its call is gone.      *)
KeepsRequest(q) == pending

Without(q) == pending \ {q}

(* evaluateInput, up to its read of the saved rules,                       *)
Evaluates(q) ==
    /\ ask[q].at = "off"
    /\ ask' = [ask EXCEPT ![q] =
                 [at |-> IF Configured[q] = "deny" THEN "denied" ELSE "evaluated",
                  rules |-> saved]]
    /\ UNCHANGED <<saved, pending, settled, reply, stale>>

(* and what assert does with the answer.                                   *)
Decides(q) ==
    /\ ask[q].at = "evaluated"
    /\ \/ /\ Allows(q, ask[q].rules)
          /\ AskGoes(q, "allowed")
          /\ UNCHANGED <<pending, stale>>
       \/ /\ ~Allows(q, ask[q].rules)
          /\ AskGoes(q, "asking")
          /\ pending' = pending \cup {q}
          /\ stale' = IF Allows(q, saved) THEN stale \cup {q} ELSE stale
    /\ UNCHANGED <<saved, settled, reply>>

(* create has published the request.                                       *)
Asked(q) ==
    /\ ask[q].at = "asking"
    /\ AskGoes(q, "waiting")
    /\ UNCHANGED <<saved, pending, settled, reply, stale>>

Answered(q) ==
    /\ ask[q].at = "waiting"
    /\ settled[q] # "open"
    /\ AskGoes(q, IF settled[q] = "approved" THEN "allowed" ELSE "denied")
    /\ pending' = Without(q)
    /\ UNCHANGED <<saved, settled, reply, stale>>

(* The tool call is interrupted while it waits.                            *)
GivesUp(q) ==
    /\ ask[q].at = "waiting"
    /\ AskGoes(q, "denied")
    /\ pending' = Without(q)
    /\ UNCHANGED <<saved, settled, reply, stale>>

AskNext(q) == Evaluates(q) \/ Decides(q) \/ Asked(q) \/ Answered(q)

-----------------------------------------------------------------------------
Settle(q, outcome) ==
    settled' = [settled EXCEPT ![q] = IF @ = "open" THEN outcome ELSE @]

OfSession(s) == {q \in pending : SessionOf[q] = s}

(* reply looks the request up and publishes.                               *)
Replied(r, q, answer) ==
    /\ reply[r].at = "off"
    /\ q \in pending
    /\ reply' = [reply EXCEPT ![r] = [NoReply EXCEPT !.at = "telling", !.on = q,
                                                     !.answer = answer]]
    /\ UNCHANGED <<saved, pending, settled, ask, stale>>

(* The walk through the map comes to one entry after another, those added  *)
(* meanwhile included, those deleted not, until none is left: the set of   *)
(* what a step of it may lead to.                                          *)
Ahead(r, rest) ==
    {q \in rest \ reply[r].seen :
        reply[r].answer = "reject" => SessionOf[q] = SessionOf[reply[r].on]}

Over(r) == [NoReply EXCEPT !.at = "over", !.swept = reply[r].swept]

(* Mutant: the walk passes over entries that follow one it deletes.        *)
WalksOver(r, rest, at) ==
    {Over(r)} \cup
        {[reply[r] EXCEPT !.at = at, !.item = q, !.seen = Ahead(r, rest)] :
            q \in {p \in Ahead(r, rest) : Ahead(r, rest) # {p}}}

Walks(r, rest, at) ==
    IF Ahead(r, rest) = {} THEN {Over(r)}
    ELSE {[reply[r] EXCEPT !.at = at, !.item = q, !.seen = @ \cup {q}] :
            q \in Ahead(r, rest)}

ReplyGoes(r, to) == reply' = [reply EXCEPT ![r] = to]

Resolves(q, outcome) == Settle(q, outcome) /\ pending' = Without(q)

(* Once Replied is published: the request is settled, unless another reply *)
(* or the call itself came first.                                          *)
Rejects(r) ==
    /\ reply[r].at = "telling" /\ reply[r].answer = "reject"
    /\ Resolves(reply[r].on, "rejected")
    /\ \E to \in Walks(r, Without(reply[r].on), "passing") :
          ReplyGoes(r, [to EXCEPT !.swept = OfSession(SessionOf[reply[r].on])])
    /\ UNCHANGED <<saved, ask, stale>>

AllowsOnce(r) ==
    /\ reply[r].at = "telling" /\ reply[r].answer = "once"
    /\ Resolves(reply[r].on, "approved")
    /\ ReplyGoes(r, Over(r))
    /\ UNCHANGED <<saved, ask, stale>>

AllowsAlways(r) ==
    /\ reply[r].at = "telling" /\ reply[r].answer = "always"
    /\ saved' = saved \cup {ActionOf[reply[r].on]}
    /\ ReplyGoes(r, [reply[r] EXCEPT !.at = "saved"])
    /\ UNCHANGED <<pending, settled, ask, stale>>

Saves(r) ==
    /\ reply[r].at = "saved"
    /\ Resolves(reply[r].on, "approved")
    /\ ReplyGoes(r, [reply[r] EXCEPT !.at = "reading"])
    /\ UNCHANGED <<saved, ask, stale>>

(* The saved rules are read again, and the walk begins.                    *)
Remembers(r) ==
    /\ reply[r].at = "reading"
    /\ \E to \in Walks(r, pending, "weighing") :
          ReplyGoes(r, [to EXCEPT !.rules = saved])
    /\ UNCHANGED <<saved, pending, settled, ask, stale>>

(* always reads the configured rules of each request it comes to,          *)
Weighs(r) ==
    /\ reply[r].at = "weighing"
    /\ \/ /\ Allows(reply[r].item, reply[r].rules)
          /\ ReplyGoes(r, [reply[r] EXCEPT !.at = "passing"])
       \/ /\ ~Allows(reply[r].item, reply[r].rules)
          /\ \E to \in Walks(r, pending, "weighing") : ReplyGoes(r, to)
    /\ UNCHANGED <<saved, pending, settled, ask, stale>>

(* and both publish, and settle the request.                               *)
Passes(r) ==
    /\ reply[r].at = "passing"
    /\ Resolves(reply[r].item,
               IF reply[r].answer = "reject" THEN "rejected" ELSE "approved")
    /\ \E to \in Walks(r, Without(reply[r].item),
                       IF reply[r].answer = "reject" THEN "passing" ELSE "weighing") :
          ReplyGoes(r, to)
    /\ UNCHANGED <<saved, ask, stale>>

ReplyNext(r) ==
    \/ Rejects(r) \/ AllowsOnce(r) \/ AllowsAlways(r) \/ Saves(r)
    \/ Remembers(r) \/ Weighs(r) \/ Passes(r)

PermNext ==
    \/ \E q \in Requests : AskNext(q) \/ GivesUp(q)
    \/ \E r \in Replies :
          \/ ReplyNext(r)
          \/ \E q \in Requests, answer \in Answers : Replied(r, q, answer)

PermSpec == PermInit /\ [][PermNext]_permVars

-----------------------------------------------------------------------------
(* Properties.                                                             *)

Waiting(q) == ask[q].at \in {"asking", "waiting"} /\ settled[q] = "open"

(* What a client is shown is what can be answered: the open requests are   *)
(* those of calls that wait for a reply, and no call waits for a request   *)
(* that no reply can find.                                                 *)
PendingIsWaiting == pending = {q \in Requests : Waiting(q)}

(* Once a reject is over, none of the requests its session had open when   *)
(* it settled waits any more, whatever came and went during the walk.      *)
RejectSweeps ==
    \A r \in Replies : reply[r].at = "over" =>
        \A q \in reply[r].swept : ~Waiting(q)

(* No call waits for what a rule saved in its Location allows, but while a *)
(* reply that saved the rule is on its way to it, and unless it read the   *)
(* rules before that one was saved and asked after.                        *)
WillCome(r, q) ==
    /\ reply[r].answer = "always"
    /\ \/ reply[r].at \in {"saved", "reading"}
       \/ /\ reply[r].at \in {"weighing", "passing"}
          /\ Allows(q, reply[r].rules)
          /\ q = reply[r].item \/ q \notin reply[r].seen

OnItsWay(q) == \E r \in Replies : WillCome(r, q)

AlwaysIsRemembered ==
    \A q \in Requests :
        Waiting(q) /\ Allows(q, saved) => q \in stale \/ OnItsWay(q)
=============================================================================
