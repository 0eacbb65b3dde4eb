----------------------------- MODULE RelayProofs -----------------------------
(***************************************************************************)
(* Proofs about the relay: type correctness, that HandlePoll never sleeps  *)
(* through a message, that Forget leaves nothing for the polls of a        *)
(* deleted agent, that a webhook runs once at most on an agent, that a     *)
(* refusal is final, and that all of it implements Delivery.               *)
(***************************************************************************)
EXTENDS Relay, SequenceTheorems, FiniteSetTheorems, TLAPS

(* The steps that serve a webhook without touching queues or polls.        *)
Serving(m) ==
  \/ Receive(m) \/ List(m) \/ ListNone(m) \/ Collect(m)
  \/ RelayDone(m) \/ RelayTimeout(m)

(* The newest messages of a queue are a queue no longer than the cap.      *)
LEMMA NewestType ==
  ASSUME NEW S, NEW s \in Seq(S)
  PROVE  Newest(s) \in Seq(S) /\ Len(Newest(s)) <= MaxQueue
<1> USE MaxQueueAssumption
<1>1. CASE Len(s) <= MaxQueue BY <1>1 DEF Newest
<1>2. CASE Len(s) > MaxQueue
  <2> DEFINE k == Len(s) - MaxQueue + 1
  <2>1. k \in 1..Len(s) /\ Len(s) \in Nat BY <1>2
  <2>2. SubSeq(s, k, Len(s)) \in Seq(S) /\ Len(SubSeq(s, k, Len(s))) = MaxQueue
    BY <2>1, SubSeqProperties
  <2> QED BY <1>2, <2>2 DEF Newest
<1> QED BY <1>1, <1>2

(* Hub.conn of an agent is a conn.                                         *)
LEMMA ConnOfType == ASSUME NEW a \in Agents PROVE ConnOf(a) \in Conns
BY DEF ConnOf, Conns

(* The initial states are well typed.                                      *)
LEMMA InitType == ASSUME Init PROVE TypeOK
BY MaxQueueAssumption DEF Init, TypeOK, NewRequest, Request, RequestPCs, Outcomes, Statuses, None

(* Answering a webhook leaves a request in its place.                      *)
LEMMA AnswerType ==
  ASSUME TypeOK, NEW m \in Messages, NEW outcomes, Answer(m, outcomes)
  PROVE  request' \in [Messages -> Request]
<1>1. PICK local \in {"accepted", "ok", None} : request' = [request EXCEPT ![m] =
         [NewRequest EXCEPT !.pc = "answered", !.answer = Combine(local, outcomes)]]
  BY DEF Answer
<1>2. Combine(local, outcomes) \in Outcomes BY DEF Combine, Outcomes, Statuses
<1>3. [NewRequest EXCEPT !.pc = "answered", !.answer = Combine(local, outcomes)] \in Request
  BY <1>2 DEF NewRequest, Request, RequestPCs, Outcomes, Statuses, None
<1> QED BY <1>1, <1>3 DEF TypeOK

(* A poll of p's agent in any state of its handler is a poll.              *)
LEMMA PollFields ==
  ASSUME NEW t \in Poll, NEW pc \in PollPCs, NEW c \in Conns,
         NEW batch \in SUBSET Messages
  PROVE  /\ [t EXCEPT !.pc = pc] \in Poll
         /\ [t EXCEPT !.pc = pc, !.conn = c] \in Poll
         /\ [t EXCEPT !.batch = batch, !.pc = pc] \in Poll
         /\ [t EXCEPT !.alive = FALSE] \in Poll
BY DEF Poll

(* A poll that is on the hub has an agent and a conn.                      *)
LEMMA PollFacts ==
  ASSUME TypeOK, NEW p \in Polls, poll[p].pc # "off"
  PROVE  poll[p] \in Poll /\ poll[p].agent \in Agents /\ poll[p].conn \in Conns
         /\ poll[p].batch \subseteq Messages
<1>1. poll[p] \in Poll BY DEF TypeOK, NoPoll
<1> QED BY <1>1 DEF Poll

(* Serving a webhook changes its request and nothing else.                 *)
LEMMA ServingType ==
  ASSUME TypeOK, NEW m \in Messages, Serving(m)
  PROVE  /\ request' \in [Messages -> Request]
         /\ UNCHANGED <<agents, hub, poll, client>>
<1>0. request[m] \in Request BY DEF TypeOK
<1>1. CASE Receive(m)
  BY <1>0, <1>1 DEF TypeOK, Receive, Request, RequestPCs
<1>2. CASE List(m)
  BY <1>0, <1>2 DEF TypeOK, List, Request, RequestPCs
<1>3. CASE ListNone(m)
  BY <1>3, AnswerType DEF ListNone, Answer
<1>4. CASE Collect(m)
  <2>1. PICK r \in request[m].chan :
          request' = [request EXCEPT ![m].chan = @ \ {r}, ![m].got[r[1]] = r[2]]
    BY <1>4 DEF Collect
  <2>2. r \in Agents \X Outcomes /\ request[m].got \in [Agents -> Outcomes]
    BY <1>0 DEF Request
  <2>3. [request[m].got EXCEPT ![r[1]] = r[2]] \in [Agents -> Outcomes]
    BY <2>2 DEF Outcomes
  <2>4. [request[m] EXCEPT !.chan = @ \ {r},
                           !.got = [request[m].got EXCEPT ![r[1]] = r[2]]] \in Request
    BY <1>0, <2>3 DEF Request
  <2>5. request' = [request EXCEPT ![m] =
          [request[m] EXCEPT !.chan = @ \ {r},
                             !.got = [request[m].got EXCEPT ![r[1]] = r[2]]]]
    BY <2>1, <1>0 DEF TypeOK, Request
  <2> QED BY <1>4, <2>4, <2>5 DEF TypeOK, Collect
<1>5. CASE RelayDone(m)
  BY <1>5, AnswerType DEF RelayDone, Answer
<1>6. CASE RelayTimeout(m)
  BY <1>6, AnswerType DEF RelayTimeout, Answer
<1> QED BY <1>1, <1>2, <1>3, <1>4, <1>5, <1>6 DEF Serving

(* Queueing a webhook keeps every queue within its cap.                    *)
LEMMA QueueForType ==
  ASSUME TypeOK, NEW m \in Messages, QueueFor(m) PROVE TypeOK'
<1> DEFINE cs == {ConnOf(a) : a \in request[m].listed}
<1>0. request[m] \in Request BY DEF TypeOK
<1>1. queue' \in [Conns -> Seq(Messages)] /\ \A c \in Conns : Len(queue'[c]) <= MaxQueue
  <2>1. queue' = [c \in Conns |->
          IF c \in cs THEN Newest(Append(queue[c], m)) ELSE queue[c]]
    BY DEF QueueFor
  <2>2. ASSUME NEW c \in Conns
        PROVE  /\ Newest(Append(queue[c], m)) \in Seq(Messages)
               /\ Len(Newest(Append(queue[c], m))) <= MaxQueue
               /\ queue[c] \in Seq(Messages) /\ Len(queue[c]) <= MaxQueue
    <3>1. queue[c] \in Seq(Messages) /\ Len(queue[c]) <= MaxQueue BY DEF TypeOK
    <3>2. Append(queue[c], m) \in Seq(Messages) BY <3>1
    <3> QED BY <3>1, <3>2, NewestType
  <2> QED BY <2>1, <2>2
<1>2. wake' \in [Conns -> BOOLEAN] BY DEF TypeOK, QueueFor
<1>3. request' \in [Messages -> Request]
  <2>1. PICK online \in ConnectedAmong(request[m].listed) :
          request' = [request EXCEPT ![m].pc = "wait", ![m].awaited = online]
    BY DEF QueueFor
  <2>2. online \subseteq Agents BY <1>0, <2>1 DEF ConnectedAmong, Request
  <2> QED BY <1>0, <2>1, <2>2 DEF TypeOK, Request, RequestPCs
<1> QED BY <1>1, <1>2, <1>3 DEF TypeOK, QueueFor, client

(* The steps of a HandlePoll keep the types.                               *)
LEMMA PollType == ASSUME TypeOK, NEW p \in Polls, PollStep(p) PROVE TypeOK'
<1> USE DEF hub, client
<1>1. CASE \E a \in Agents : StartPoll(a, p)
  <2>1. PICK a \in Agents : StartPoll(a, p) BY <1>1
  <2>2. [pc |-> "auth", agent |-> a, conn |-> <<a, 0>>, alive |-> TRUE, batch |-> {}] \in Poll
    BY DEF Poll, PollPCs, Conns
  <2> QED BY <2>1, <2>2 DEF TypeOK, StartPoll
<1>2. CASE PollAuth(p)
  <2>1. poll[p] \in Poll BY <1>2, PollFacts DEF PollAuth
  <2>2. [poll[p] EXCEPT !.pc = "enter"] \in Poll BY <2>1 DEF Poll, PollPCs
  <2> QED BY <1>2, <2>2 DEF TypeOK, PollAuth
<1>3. CASE PollEnter(p)
  <2>1. poll[p] \in Poll /\ ConnOf(poll[p].agent) \in Conns
    BY <1>3, PollFacts, ConnOfType DEF PollEnter
  <2>2. [poll[p] EXCEPT !.pc = "take", !.conn = ConnOf(poll[p].agent)] \in Poll
    BY <2>1 DEF Poll, PollPCs
  <2> QED BY <1>3, <2>1, <2>2 DEF TypeOK, PollEnter
<1>4. CASE PollTake(p)
  <2> DEFINE c == poll[p].conn
  <2>1. poll[p] \in Poll /\ c \in Conns BY <1>4, PollFacts DEF PollTake
  <2>2. queue[c] \in Seq(Messages) BY <2>1 DEF TypeOK
  <2>3. Queued(c) \subseteq Messages BY <2>2 DEF Queued
  <2>4. PICK expired \in Expired(c) :
          poll' = [poll EXCEPT
            ![p].batch = Queued(c) \ expired,
            ![p].pc = IF Queued(c) \ expired = {} THEN "select" ELSE "reply"]
    BY <1>4 DEF PollTake
  <2> DEFINE pc == IF Queued(c) \ expired = {} THEN "select" ELSE "reply"
  <2>5. pc \in PollPCs BY DEF PollPCs
  <2>6. [poll[p] EXCEPT !.batch = Queued(c) \ expired, !.pc = pc] \in Poll
    BY <2>1, <2>3, <2>5 DEF Poll
  <2>7. poll' \in [Polls -> Poll \cup {NoPoll}] BY <2>4, <2>6 DEF TypeOK
  <2>8. queue' = [queue EXCEPT ![c] = <<>>] BY <1>4 DEF PollTake, Untaken
  <2>9. queue' \in [Conns -> Seq(Messages)] /\ \A d \in Conns : Len(queue'[d]) <= MaxQueue
    BY <2>1, <2>8, MaxQueueAssumption DEF TypeOK
  <2> QED BY <1>4, <2>7, <2>9 DEF TypeOK, PollTake
<1>5. CASE PollWoken(p)
  <2>1. poll[p] \in Poll /\ poll[p].conn \in Conns BY <1>5, PollFacts DEF PollWoken
  <2>2. [poll[p] EXCEPT !.pc = "take"] \in Poll BY <2>1 DEF Poll, PollPCs
  <2> QED BY <1>5, <2>1, <2>2 DEF TypeOK, PollWoken
<1>6. CASE PollEmpty(p)
  BY <1>6, PollFacts DEF TypeOK, PollEmpty, Leave
<1>7. CASE PollDelivers(p)
  <2>1. poll[p].agent \in Agents /\ poll[p].batch \subseteq Messages
    BY <1>7, PollFacts DEF PollDelivers
  <2>2. inbox' \subseteq Agents \X Messages BY <1>7, <2>1 DEF TypeOK, PollDelivers
  <2> QED BY <1>7, <2>2 DEF TypeOK, PollDelivers, Leave
<1>8. CASE PollLoses(p)
  BY <1>8, PollFacts DEF TypeOK, PollLoses, Leave
<1>9. CASE PollAbandoned(p)
  <2>1. poll[p] \in Poll BY <1>9, PollFacts DEF PollAbandoned
  <2>2. [poll[p] EXCEPT !.alive = FALSE] \in Poll BY <2>1 DEF Poll
  <2> QED BY <1>9, <2>2 DEF TypeOK, PollAbandoned
<1>10. CASE PollSleeps(p)
  <2>1. poll[p] \in Poll BY <1>10, PollFacts DEF PollSleeps
  <2>2. [poll[p] EXCEPT !.pc = "wait"] \in Poll BY <2>1 DEF Poll, PollPCs
  <2> QED BY <1>10, <2>2 DEF TypeOK, PollSleeps
<1> QED BY <1>1, <1>2, <1>3, <1>4, <1>5, <1>6, <1>7, <1>8, <1>9,
           <1>10 DEF PollStep

(* So do the steps of an agent.                                            *)
LEMMA AgentType == ASSUME TypeOK, NEW a \in Agents, AgentStep(a) PROVE TypeOK'
<1> USE DEF hub, client
<1>1. ASSUME NEW m \in Messages, Run(a, m) PROVE TypeOK'
  <2>1. PICK s \in Statuses : ran' = [ran EXCEPT ![a][m] = s] BY <1>1 DEF Run
  <2>2. ran' \in [Agents -> [Messages -> Outcomes]] BY <2>1 DEF TypeOK, Outcomes
  <2> QED BY <1>1, <2>2 DEF TypeOK, Run
<1>2. ASSUME NEW m \in Messages, Post(a, m) PROVE TypeOK'
  <2>1. request[m] \in Request /\ ran[a][m] \in Outcomes /\ ConnOf(a) \in Conns
    BY ConnOfType DEF TypeOK
  <2>2. CASE request' = request
    BY <1>2, <2>1, <2>2 DEF TypeOK, Post
  <2>3. CASE /\ request[m].pc = "wait"
             /\ request' = [request EXCEPT ![m].chan = @ \cup {<<a, ran[a][m]>>}]
    <3>1. [request[m] EXCEPT !.chan = @ \cup {<<a, ran[a][m]>>}] \in Request
      BY <2>1 DEF Request
    <3>2. request' \in [Messages -> Request] BY <2>1, <2>3, <3>1 DEF TypeOK
    <3> QED BY <1>2, <2>1, <3>2 DEF TypeOK, Post
  <2> QED BY <1>2, <2>2, <2>3 DEF Post
<1>3. ASSUME NEW m \in Messages, PostFails(a, m) PROVE TypeOK'
  BY <1>3 DEF TypeOK, PostFails
<1>4. CASE AgentRestarts(a)
  <2>1. ASSUME NEW p \in Polls
        PROVE  (IF poll[p].pc # "off" /\ poll[p].agent = a
                THEN [poll[p] EXCEPT !.alive = FALSE] ELSE poll[p]) \in Poll \cup {NoPoll}
    <3>1. CASE poll[p].pc # "off"
      <4>1. poll[p] \in Poll BY <3>1, PollFacts
      <4>2. [poll[p] EXCEPT !.alive = FALSE] \in Poll BY <4>1 DEF Poll
      <4> QED BY <4>1, <4>2
    <3>2. CASE poll[p].pc = "off" BY <3>2 DEF TypeOK
    <3> QED BY <3>1, <3>2
  <2>2. poll' \in [Polls -> Poll \cup {NoPoll}] BY <1>4, <2>1 DEF AgentRestarts
  <2> QED BY <1>4, <2>2 DEF TypeOK, AgentRestarts
<1> QED BY <1>1, <1>2, <1>3, <1>4 DEF AgentStep

(* So do administration and restarts of the hub.                           *)
LEMMA HubType == ASSUME TypeOK, HubStep PROVE TypeOK'
<1> USE DEF hub, client
<1>1. ASSUME NEW a \in Agents, DeleteAgent(a) PROVE TypeOK'
  BY <1>1 DEF TypeOK, DeleteAgent
<1>2. ASSUME NEW a \in Agents, Forget(a) PROVE TypeOK'
  <2>1. queue' = [queue EXCEPT ![ConnOf(a)] = <<>>] BY <1>2 DEF Forget, Dropped
  <2>2. queue' \in [Conns -> Seq(Messages)] /\ \A c \in Conns : Len(queue'[c]) <= MaxQueue
    BY <2>1, ConnOfType, MaxQueueAssumption DEF TypeOK
  <2> QED BY <1>2, <2>2 DEF TypeOK, Forget
<1>3. CASE HubRestarts
  <2>1. ASSUME NEW m \in Messages PROVE request'[m] \in Request
    <3>1. [NewRequest EXCEPT !.pc = "cut"] \in Request
      BY DEF NewRequest, Request, RequestPCs, Outcomes, Statuses, None
    <3> QED BY <1>3, <3>1 DEF HubRestarts, TypeOK
  <2>2. request' \in [Messages -> Request] BY <1>3, <2>1 DEF HubRestarts
  <2>3. queue' \in [Conns -> Seq(Messages)] /\ \A c \in Conns : Len(queue'[c]) <= MaxQueue
    BY <1>3, MaxQueueAssumption DEF HubRestarts
  <2> QED BY <1>3, <2>2, <2>3 DEF TypeOK, HubRestarts
<1> QED BY <1>1, <1>2, <1>3 DEF HubStep

(* Every step keeps the types.                                             *)
LEMMA TypeStep == ASSUME TypeOK, [Next]_vars PROVE TypeOK'
<1>1. CASE UNCHANGED vars
  BY <1>1 DEF vars, hub, client, TypeOK
<1>2. ASSUME NEW m \in Messages, Serving(m) PROVE TypeOK'
  BY <1>2, ServingType DEF TypeOK, hub, client
<1>3. CASE Next
  BY <1>2, <1>3, QueueForType, PollType, AgentType, HubType DEF Next, RelayStep, Serving
<1> QED BY <1>1, <1>3

(* Every reachable state is well typed: no agent's queue outgrows its cap. *)
THEOREM TypeCorrect == Spec => []TypeOK
BY InitType, TypeStep, PTL DEF Spec

(***************************************************************************)
(* No lost wake-up.  The step that needs care is QueueFor: its signal      *)
(* stays in conn.wake for the poll that is between take and the select.    *)
(***************************************************************************)

(* A step that puts no poll to sleep, fills no queue, takes no signal and  *)
(* stops no poll that is about to take.                                    *)
LEMMA WakeupFrame ==
  ASSUME TypeOK, NoLostWakeup,
         \A p \in Polls : poll'[p].pc \in {"select", "wait"} =>
           poll[p].pc \in {"select", "wait"} /\ poll'[p].conn = poll[p].conn,
         \A p \in Polls : poll[p].pc = "take" =>
           poll'[p].pc = "take" /\ poll'[p].conn = poll[p].conn,
         \A c \in Conns : queue[c] = <<>> => queue'[c] = <<>>,
         wake' = wake
  PROVE  NoLostWakeup'
<1> SUFFICES ASSUME NEW p \in Polls, poll'[p].pc \in {"select", "wait"}, queue'[poll'[p].conn] # <<>>
             PROVE  \/ wake'[poll'[p].conn]
                    \/ \E q \in Polls : /\ poll'[q].conn = poll'[p].conn
                                        /\ poll'[q].pc = "take"
  BY DEF NoLostWakeup, Inside
<1>1. poll[p].pc \in {"select", "wait"} /\ poll'[p].conn = poll[p].conn OBVIOUS
<1>2. poll[p].conn \in Conns BY <1>1, PollFacts
<1>3. queue[poll[p].conn] # <<>> BY <1>1, <1>2
<1>4. CASE wake[poll[p].conn] BY <1>1, <1>4
<1>5. CASE \E q \in Inside(poll[p].conn) : poll[q].pc = "take"
  <2>1. PICK q \in Polls : poll[q].conn = poll[p].conn /\ poll[q].pc = "take"
    BY <1>5 DEF Inside
  <2> QED BY <1>1, <2>1
<1> QED BY <1>1, <1>3, <1>4, <1>5 DEF NoLostWakeup

(* Queueing a webhook: whoever sleeps on a queue it fills finds the signal.*)
LEMMA WakeupQueueFor ==
  ASSUME TypeOK, NoLostWakeup, NEW m \in Messages, QueueFor(m)
  PROVE  NoLostWakeup'
<1> DEFINE cs == {ConnOf(a) : a \in request[m].listed}
<1>1. /\ poll' = poll
      /\ \A c \in Conns : c \in cs => wake'[c]
      /\ \A c \in Conns : c \notin cs => queue'[c] = queue[c] /\ wake'[c] = wake[c]
  BY DEF QueueFor, Signalled
<1> SUFFICES ASSUME NEW p \in Polls, poll[p].pc \in {"select", "wait"}, queue'[poll[p].conn] # <<>>
             PROVE  \/ wake'[poll[p].conn]
                    \/ \E q \in Inside(poll[p].conn) : poll[q].pc = "take"
  BY <1>1 DEF NoLostWakeup, Inside
<1>2. poll[p].conn \in Conns BY PollFacts
<1> QED BY <1>1, <1>2 DEF NoLostWakeup

(* Hub.take: a poll that goes to sleep after it leaves its queue empty.    *)
LEMMA WakeupTake ==
  ASSUME TypeOK, NoLostWakeup, NEW p \in Polls, PollTake(p)
  PROVE  NoLostWakeup'
<1> DEFINE c == poll[p].conn
<1>1. /\ \A q \in Polls \ {p} : poll'[q] = poll[q]
      /\ poll'[p].conn = c
      /\ poll[p].pc = "take"
  <2>1. poll[p] \in Poll BY PollFacts DEF PollTake
  <2> QED BY <2>1 DEF PollTake, TypeOK, Poll
<1>2. c \in Conns BY <1>1, PollFacts
<1>3. queue'[c] = <<>> /\ \A d \in Conns \ {c} : queue'[d] = queue[d]
  BY <1>2 DEF PollTake, Untaken, TypeOK
<1>4. wake' = wake BY DEF PollTake
<1> SUFFICES ASSUME NEW q \in Polls, poll'[q].pc \in {"select", "wait"}, queue'[poll'[q].conn] # <<>>
             PROVE  \/ wake'[poll'[q].conn]
                    \/ \E r \in Polls : /\ poll'[r].conn = poll'[q].conn
                                        /\ poll'[r].pc = "take"
  BY DEF NoLostWakeup, Inside
<1>5. q # p BY <1>1, <1>3
<1>6. poll'[q] = poll[q] /\ poll[q].conn # c BY <1>1, <1>3, <1>5
<1>7. poll[q].conn \in Conns BY <1>6, PollFacts
<1>8. queue[poll[q].conn] # <<>> BY <1>3, <1>6, <1>7
<1>9. CASE wake[poll[q].conn] BY <1>4, <1>6, <1>9
<1>10. CASE \E r \in Inside(poll[q].conn) : poll[r].pc = "take"
  <2>1. PICK r \in Polls : poll[r].conn = poll[q].conn /\ poll[r].pc = "take"
    BY <1>10 DEF Inside
  <2>2. r # p BY <2>1, <1>6
  <2> QED BY <1>1, <1>6, <2>1, <2>2
<1> QED BY <1>6, <1>8, <1>9, <1>10 DEF NoLostWakeup

(* The poll that takes the signal is about to take the messages.           *)
LEMMA WakeupWoken ==
  ASSUME TypeOK, NoLostWakeup, NEW p \in Polls, PollWoken(p)
  PROVE  NoLostWakeup'
<1> DEFINE c == poll[p].conn
<1>1. /\ \A q \in Polls \ {p} : poll'[q] = poll[q]
      /\ poll'[p].conn = c /\ poll'[p].pc = "take"
      /\ poll[p].pc = "wait"
  <2>1. poll[p] \in Poll BY PollFacts DEF PollWoken
  <2> QED BY <2>1 DEF PollWoken, TypeOK, Poll
<1>2. c \in Conns BY <1>1, PollFacts
<1>3. queue' = queue /\ \A d \in Conns \ {c} : wake'[d] = wake[d]
  BY <1>2 DEF PollWoken, TypeOK
<1> SUFFICES ASSUME NEW q \in Polls, poll'[q].pc \in {"select", "wait"}, queue'[poll'[q].conn] # <<>>
             PROVE  \/ wake'[poll'[q].conn]
                    \/ \E r \in Polls : /\ poll'[r].conn = poll'[q].conn
                                        /\ poll'[r].pc = "take"
  BY DEF NoLostWakeup, Inside
<1>4. q # p /\ poll'[q] = poll[q] BY <1>1
<1>5. CASE poll[q].conn = c BY <1>1, <1>4, <1>5
<1>6. CASE poll[q].conn # c
  <2>1. poll[q].conn \in Conns BY <1>4, PollFacts
  <2>2. CASE wake[poll[q].conn] BY <1>3, <1>4, <1>6, <2>1, <2>2
  <2>3. CASE \E r \in Inside(poll[q].conn) : poll[r].pc = "take"
    <3>1. PICK r \in Polls : poll[r].conn = poll[q].conn /\ poll[r].pc = "take"
      BY <2>3 DEF Inside
    <3>2. r # p BY <1>1, <3>1
    <3> QED BY <1>1, <1>4, <3>1, <3>2
  <2> QED BY <1>3, <1>4, <2>2, <2>3 DEF NoLostWakeup
<1> QED BY <1>5, <1>6

(* The other steps of a HandlePoll and of its agent's side.                *)
LEMMA WakeupPoll ==
  ASSUME TypeOK, NoLostWakeup, NEW p \in Polls, PollStep(p)
  PROVE  NoLostWakeup'
<1> USE DEF hub
<1>1. CASE \E a \in Agents : StartPoll(a, p)
  <2>1. /\ poll[p].pc = "off" /\ poll'[p].pc = "auth"
        /\ \A q \in Polls \ {p} : poll'[q] = poll[q]
        /\ queue' = queue /\ wake' = wake
    BY <1>1 DEF StartPoll, TypeOK
  <2> QED BY <2>1, WakeupFrame
<1>2. CASE PollAuth(p)
  <2>1. poll[p] \in Poll BY <1>2, PollFacts DEF PollAuth
  <2>2. /\ poll[p].pc = "auth" /\ poll'[p].pc \in {"enter", "off"}
        /\ \A q \in Polls \ {p} : poll'[q] = poll[q]
        /\ queue' = queue /\ wake' = wake
    BY <1>2, <2>1 DEF PollAuth, TypeOK, Poll, NoPoll
  <2> QED BY <2>2, WakeupFrame
<1>3. CASE PollEnter(p)
  <2>1. poll[p] \in Poll BY <1>3, PollFacts DEF PollEnter
  <2>2. /\ poll[p].pc = "enter" /\ poll'[p].pc = "take"
        /\ \A q \in Polls \ {p} : poll'[q] = poll[q]
        /\ queue' = queue /\ wake' = wake
    BY <1>3, <2>1 DEF PollEnter, TypeOK, Poll
  <2> QED BY <2>2, WakeupFrame
<1>4. CASE PollTake(p) BY <1>4, WakeupTake
<1>5. CASE PollWoken(p) BY <1>5, WakeupWoken
<1>6. ASSUME Leave(p), poll[p].pc \in {"wait", "reply"} PROVE NoLostWakeup'
  <2>1. /\ poll'[p].pc = "off"
        /\ \A q \in Polls \ {p} : poll'[q] = poll[q]
        /\ queue' = queue /\ wake' = wake
    BY <1>6 DEF Leave, TypeOK, NoPoll
  <2> QED BY <1>6, <2>1, WakeupFrame
<1>7. CASE PollAbandoned(p)
  <2>1. poll[p] \in Poll BY <1>7, PollFacts DEF PollAbandoned
  <2>2. /\ poll'[p].pc = poll[p].pc /\ poll'[p].conn = poll[p].conn
        /\ \A q \in Polls \ {p} : poll'[q] = poll[q]
        /\ queue' = queue /\ wake' = wake
    BY <1>7, <2>1 DEF PollAbandoned, TypeOK, Poll
  <2> QED BY <2>2, WakeupFrame
<1>8. CASE PollSleeps(p)
  <2>1. poll[p] \in Poll BY <1>8, PollFacts DEF PollSleeps
  <2>2. /\ poll[p].pc = "select" /\ poll'[p].pc = "wait" /\ poll'[p].conn = poll[p].conn
        /\ \A q \in Polls \ {p} : poll'[q] = poll[q]
        /\ queue' = queue /\ wake' = wake
    BY <1>8, <2>1 DEF PollSleeps, TypeOK, Poll
  <2> QED BY <2>2, WakeupFrame
<1> QED BY <1>1, <1>2, <1>3, <1>4, <1>5, <1>6, <1>7, <1>8
        DEF PollStep, PollEmpty, PollDelivers, PollLoses

(* Every step keeps it.                                                    *)
LEMMA WakeupStep ==
  ASSUME TypeOK, NoLostWakeup, [Next]_vars PROVE NoLostWakeup'
<1>1. CASE UNCHANGED <<queue, wake, poll>>
  BY <1>1, WakeupFrame
<1>2. ASSUME NEW m \in Messages, RelayStep(m) PROVE NoLostWakeup'
  BY <1>1, <1>2, ServingType, WakeupQueueFor DEF RelayStep, Serving, hub
<1>3. ASSUME NEW p \in Polls, PollStep(p) PROVE NoLostWakeup'
  BY <1>3, WakeupPoll
<1>4. ASSUME NEW a \in Agents, AgentStep(a) PROVE NoLostWakeup'
  <2>1. CASE \E m \in Messages : Run(a, m) \/ Post(a, m) \/ PostFails(a, m)
    BY <1>1, <2>1 DEF Run, Post, PostFails, hub
  <2>2. CASE AgentRestarts(a)
    <3>1. ASSUME NEW p \in Polls
          PROVE  poll'[p].pc = poll[p].pc
                 /\ (poll[p].pc # "off" => poll'[p].conn = poll[p].conn)
      <4>1. poll[p].pc # "off" => poll[p] \in Poll BY PollFacts
      <4> QED BY <2>2, <4>1 DEF AgentRestarts, Poll
    <3>2. queue' = queue /\ wake' = wake BY <2>2 DEF AgentRestarts, hub
    <3> QED BY <3>1, <3>2, WakeupFrame
  <2> QED BY <1>4, <2>1, <2>2 DEF AgentStep
<1>5. CASE HubStep
  <2>1. ASSUME NEW a \in Agents, DeleteAgent(a) PROVE NoLostWakeup'
    BY <1>1, <2>1 DEF DeleteAgent
  <2>2. ASSUME NEW a \in Agents, Forget(a) PROVE NoLostWakeup'
    <3>1. /\ poll' = poll /\ wake' = wake
          /\ \A c \in Conns : queue[c] = <<>> => queue'[c] = <<>>
      BY <2>2 DEF Forget, Dropped, TypeOK
    <3> QED BY <3>1, WakeupFrame
  <2>3. CASE HubRestarts
    <3>1. \A p \in Polls : poll'[p].pc = "off" BY <2>3 DEF HubRestarts, NoPoll
    <3> QED BY <3>1 DEF NoLostWakeup
  <2> QED BY <1>5, <2>1, <2>2, <2>3 DEF HubStep
<1>6. CASE UNCHANGED vars BY <1>1, <1>6 DEF vars, hub
<1> QED BY <1>2, <1>3, <1>4, <1>5, <1>6 DEF Next

(* HandlePoll's select and Hub.take: no agent sleeps in a poll through a   *)
(* webhook that is queued for it, whatever the number of agents, polls and *)
(* webhooks and however they interleave.                                   *)
THEOREM NoSleepThroughMessage == Spec => []NoLostWakeup
<1>1. Init => NoLostWakeup BY DEF Init, NoLostWakeup, NoPoll
<1>2. TypeOK /\ NoLostWakeup /\ [Next]_vars => NoLostWakeup' BY WakeupStep
<1> QED BY <1>1, <1>2, TypeCorrect, PTL DEF Spec

(***************************************************************************)
(* Forget.  Not inductive as it stands: a poll on a conn that is not its   *)
(* agent's any more must be known to be on the one that was forgotten.     *)
(***************************************************************************)

(* A poll holds a conn of its own agent, and the second one only after the *)
(* first was forgotten, ...                                                *)
PollsHoldOwnConn ==
  \A p \in Polls :
    poll[p].pc \in {"take", "select", "wait", "reply"} =>
      \/ poll[p].conn = <<poll[p].agent, 0>>
      \/ poll[p].conn = <<poll[p].agent, 1>> /\ poll[p].agent \in forgotten

(* ... which gets no messages.                                             *)
ForgottenConnsEmpty == \A a \in forgotten : queue[<<a, 0>>] = <<>>

ForgetInv == PollsHoldOwnConn /\ ForgottenConnsEmpty

(* It is what makes the property hold.                                     *)
LEMMA ForgetSuffices ==
  ASSUME ForgetInv PROVE ForgottenGetsNothing
BY DEF ForgetInv, PollsHoldOwnConn, ForgottenConnsEmpty, ForgottenGetsNothing, ConnOf

(* A poll keeps what it holds across a step in which it stays where it is, *)
(* or moves on without changing its conn.                                  *)
LEMMA HoldFrame ==
  ASSUME PollsHoldOwnConn, forgotten \subseteq forgotten',
         \A p \in Polls : poll'[p].pc \in {"take", "select", "wait", "reply"} =>
           /\ poll[p].pc \in {"take", "select", "wait", "reply"}
           /\ poll'[p].conn = poll[p].conn
           /\ poll'[p].agent = poll[p].agent
  PROVE  PollsHoldOwnConn'
BY DEF PollsHoldOwnConn

(* The steps of a HandlePoll keep it.                                      *)
LEMMA ForgetPoll ==
  ASSUME TypeOK, ForgetInv, NEW p \in Polls, PollStep(p) PROVE ForgetInv'
<1> USE DEF hub
<1>1. forgotten' = forgotten
  BY DEF PollStep, StartPoll, PollAuth, PollEnter, PollTake, PollSleeps, PollWoken,
         PollEmpty, PollDelivers, PollLoses, PollAbandoned, Leave
<1>2. ForgottenConnsEmpty'
  <2>1. CASE PollTake(p)
    <3>1. queue' = [queue EXCEPT ![poll[p].conn] = <<>>] BY <2>1 DEF PollTake, Untaken
    <3> QED BY <1>1, <3>1 DEF ForgetInv, ForgottenConnsEmpty, TypeOK, Conns
  <2>2. CASE ~PollTake(p)
    <3>1. queue' = queue
      BY <2>2 DEF PollStep, StartPoll, PollAuth, PollEnter, PollSleeps, PollWoken,
                  PollEmpty, PollDelivers, PollLoses, PollAbandoned, Leave
    <3> QED BY <1>1, <3>1 DEF ForgetInv, ForgottenConnsEmpty
  <2> QED BY <2>1, <2>2
<1>3. PollsHoldOwnConn'
  <2> DEFINE Moves == /\ \A q \in Polls \ {p} : poll'[q] = poll[q]
                      /\ poll'[p].pc \in {"take", "select", "wait", "reply"} =>
                           /\ poll[p].pc \in {"take", "select", "wait", "reply"}
                           /\ poll'[p].conn = poll[p].conn
                           /\ poll'[p].agent = poll[p].agent
  <2>0. ASSUME Moves PROVE PollsHoldOwnConn'
    BY <1>1, <2>0, HoldFrame DEF ForgetInv
  <2>1. CASE \E a \in Agents : StartPoll(a, p)
    <3>1. Moves BY <2>1 DEF StartPoll, TypeOK
    <3> QED BY <2>0, <3>1
  <2>2. CASE PollAuth(p)
    <3>1. poll[p] \in Poll BY <2>2, PollFacts DEF PollAuth
    <3>2. Moves BY <2>2, <3>1 DEF PollAuth, TypeOK, Poll, NoPoll
    <3> QED BY <2>0, <3>2
  <2>3. CASE PollEnter(p)
    <3>1. poll[p] \in Poll BY <2>3, PollFacts DEF PollEnter
    <3>2. /\ \A q \in Polls \ {p} : poll'[q] = poll[q]
          /\ poll'[p].agent = poll[p].agent
          /\ poll'[p].conn = ConnOf(poll[p].agent)
      BY <2>3, <3>1 DEF PollEnter, TypeOK, Poll
    <3> QED BY <1>1, <3>2 DEF ForgetInv, PollsHoldOwnConn, ConnOf
  <2>4. CASE PollTake(p)
    <3>1. poll[p] \in Poll BY <2>4, PollFacts DEF PollTake
    <3>2. Moves BY <2>4, <3>1 DEF PollTake, TypeOK, Poll
    <3> QED BY <2>0, <3>2
  <2>5. CASE PollWoken(p)
    <3>1. poll[p] \in Poll BY <2>5, PollFacts DEF PollWoken
    <3>2. Moves BY <2>5, <3>1 DEF PollWoken, TypeOK, Poll
    <3> QED BY <2>0, <3>2
  <2>6. CASE Leave(p)
    <3>1. Moves BY <2>6 DEF Leave, TypeOK, NoPoll
    <3> QED BY <2>0, <3>1
  <2>7. CASE PollAbandoned(p)
    <3>1. poll[p] \in Poll BY <2>7, PollFacts DEF PollAbandoned
    <3>2. Moves BY <2>7, <3>1 DEF PollAbandoned, TypeOK, Poll
    <3> QED BY <2>0, <3>2
  <2>8. CASE PollSleeps(p)
    <3>1. poll[p] \in Poll BY <2>8, PollFacts DEF PollSleeps
    <3>2. Moves BY <2>8, <3>1 DEF PollSleeps, TypeOK, Poll
    <3> QED BY <2>0, <3>2
  <2> QED BY <2>1, <2>2, <2>3, <2>4, <2>5, <2>6, <2>7, <2>8
          DEF PollStep, PollEmpty, PollDelivers, PollLoses
<1> QED BY <1>2, <1>3 DEF ForgetInv

(* Queueing a webhook puts nothing into a conn that was forgotten.         *)
LEMMA ForgetQueueFor ==
  ASSUME TypeOK, ForgetInv, NEW m \in Messages, QueueFor(m) PROVE ForgetInv'
<1> DEFINE cs == {ConnOf(a) : a \in request[m].listed}
<1>1. /\ poll' = poll /\ forgotten' = forgotten
      /\ queue' = [c \in Conns |->
           IF c \in cs THEN Newest(Append(queue[c], m)) ELSE queue[c]]
  BY DEF QueueFor
<1>2. ASSUME NEW a \in forgotten PROVE queue'[<<a, 0>>] = <<>>
  <2>1. <<a, 0>> \in Conns BY DEF TypeOK, Conns
  <2>2. <<a, 0>> \notin cs BY DEF ConnOf
  <2> QED BY <1>1, <2>1, <2>2 DEF ForgetInv, ForgottenConnsEmpty
<1> QED BY <1>1, <1>2 DEF ForgetInv, PollsHoldOwnConn, ForgottenConnsEmpty

(* Every step keeps it.                                                    *)
LEMMA ForgetStep ==
  ASSUME TypeOK, ForgetInv, [Next]_vars PROVE ForgetInv'
<1>1. CASE UNCHANGED <<forgotten, queue, poll>>
  BY <1>1 DEF ForgetInv, PollsHoldOwnConn, ForgottenConnsEmpty
<1>2. ASSUME NEW m \in Messages, RelayStep(m) PROVE ForgetInv'
  BY <1>1, <1>2, ServingType, ForgetQueueFor DEF RelayStep, Serving, hub
<1>3. ASSUME NEW p \in Polls, PollStep(p) PROVE ForgetInv'
  BY <1>3, ForgetPoll
<1>4. ASSUME NEW a \in Agents, AgentStep(a) PROVE ForgetInv'
  <2>1. CASE \E m \in Messages : Run(a, m) \/ Post(a, m) \/ PostFails(a, m)
    BY <1>1, <2>1 DEF Run, Post, PostFails, hub
  <2>2. CASE AgentRestarts(a)
    <3>1. ASSUME NEW p \in Polls, poll[p].pc # "off"
          PROVE  /\ poll'[p].pc = poll[p].pc
                 /\ poll'[p].conn = poll[p].conn
                 /\ poll'[p].agent = poll[p].agent
      <4>1. poll[p] \in Poll BY <3>1, PollFacts
      <4> QED BY <2>2, <4>1 DEF AgentRestarts, Poll
    <3>2. \A p \in Polls : poll[p].pc = "off" => poll'[p].pc = "off"
      BY <2>2 DEF AgentRestarts
    <3>3. forgotten' = forgotten /\ queue' = queue BY <2>2 DEF AgentRestarts, hub
    <3> QED BY <3>1, <3>2, <3>3, HoldFrame DEF ForgetInv, ForgottenConnsEmpty
  <2> QED BY <1>4, <2>1, <2>2 DEF AgentStep
<1>5. CASE HubStep
  <2>1. ASSUME NEW a \in Agents, DeleteAgent(a) PROVE ForgetInv'
    BY <1>1, <2>1 DEF DeleteAgent
  <2>2. ASSUME NEW a \in Agents, Forget(a) PROVE ForgetInv'
    <3>1. /\ poll' = poll /\ forgotten' = forgotten \cup {a}
          /\ queue' = [queue EXCEPT ![ConnOf(a)] = <<>>]
      BY <2>2 DEF Forget, Dropped
    <3>2. ASSUME NEW b \in forgotten' PROVE queue'[<<b, 0>>] = <<>>
      <4>1. <<b, 0>> \in Conns BY <3>1 DEF TypeOK, Conns
      <4>2. CASE b \in forgotten
        BY <3>1, <4>1, <4>2 DEF ForgetInv, ForgottenConnsEmpty, TypeOK
      <4>3. CASE b \notin forgotten
        <5>1. b = a /\ ConnOf(a) = <<b, 0>> BY <3>1, <4>3 DEF ConnOf
        <5> QED BY <3>1, <4>1, <5>1 DEF TypeOK
      <4> QED BY <4>2, <4>3
    <3> QED BY <3>1, <3>2, HoldFrame DEF ForgetInv, ForgottenConnsEmpty
  <2>3. CASE HubRestarts
    <3>1. /\ \A p \in Polls : poll'[p].pc = "off"
          /\ \A c \in Conns : queue'[c] = <<>>
          /\ forgotten' = forgotten
      BY <2>3 DEF HubRestarts, NoPoll
    <3> QED BY <3>1 DEF ForgetInv, PollsHoldOwnConn, ForgottenConnsEmpty, TypeOK, Conns
  <2> QED BY <1>5, <2>1, <2>2, <2>3 DEF HubStep
<1>6. CASE UNCHANGED vars BY <1>1, <1>6 DEF vars, hub
<1> QED BY <1>2, <1>3, <1>4, <1>5, <1>6 DEF Next

(* Polls hold their agents' conns, and a forgotten conn stays empty.       *)
LEMMA ForgetInvariant == Spec => []ForgetInv
<1>1. Init => ForgetInv
  BY DEF Init, ForgetInv, PollsHoldOwnConn, ForgottenConnsEmpty, NoPoll
<1> QED BY <1>1, ForgetStep, TypeCorrect, PTL DEF Spec

(* Forget's comment: a poll that is blocked for a deleted agent returns    *)
(* empty.  No webhook is queued in the conn that the poll still holds.     *)
THEOREM DeletedAgentGetsNothing == Spec => []ForgottenGetsNothing
BY ForgetInvariant, ForgetSuffices, PTL

(***************************************************************************)
(* One copy.  The invariant says where a copy can be, place by place; the  *)
(* hub queues a webhook once, and every step after that moves the copy or  *)
(* loses it.                                                               *)
(***************************************************************************)

QueuedAt(a, m, e, i) ==
  i \in DOMAIN queue[<<a, e>>] /\ queue[<<a, e>>][i] = m

Batched(p, a, m) ==
  poll[p].pc = "reply" /\ poll[p].agent = a /\ m \in poll[p].batch

InQueue(a, m) == \E e \in {0, 1}, i \in 1..MaxQueue : QueuedAt(a, m, e, i)

InBatch(a, m) == \E p \in Polls : Batched(p, a, m)

InHand(a, m) == <<a, m>> \in inbox

Somewhere(a, m) == InQueue(a, m) \/ InBatch(a, m) \/ InHand(a, m)

(* There is one copy at most, and none once it ran.                        *)
OneCopy(a, m) ==
  /\ \A e, f \in {0, 1}, i, j \in 1..MaxQueue :
       QueuedAt(a, m, e, i) /\ QueuedAt(a, m, f, j) => e = f /\ i = j
  /\ \A p, q \in Polls : Batched(p, a, m) /\ Batched(q, a, m) => p = q
  /\ InQueue(a, m) => ~InBatch(a, m) /\ ~InHand(a, m)
  /\ InBatch(a, m) => ~InHand(a, m)
  /\ ran[a][m] # None => ~Somewhere(a, m)

(* The agent has nothing to do with the webhook (yet).                     *)
Untouched(a, m) == ~Somewhere(a, m) /\ ran[a][m] = None

(* Before it is queued nobody has it, then those who were listed; what     *)
(* Relay hears of an agent is what came out there.                         *)
Heard(a, m) ==
  LET q == request[m] IN
  /\ q.pc \in {"new", "list", "queue"} => Untouched(a, m)
  /\ q.pc = "wait" /\ a \notin q.listed => Untouched(a, m)
  /\ q.got[a] \in {None, ran[a][m]}
  /\ \A r \in q.chan : r[1] = a => r[2] \in {None, ran[a][m]}

(* The sender was refused for good.                                        *)
Refused(a, m) ==
  request[m].pc = "answered" /\ request[m].answer # "accepted" =>
    ~Somewhere(a, m) /\ ran[a][m] # "accepted"

CopyInv ==
  \A a \in Agents, m \in Messages : OneCopy(a, m) /\ Heard(a, m) /\ Refused(a, m)

(* Nothing is in Waiting that is not in one of the places.                 *)
LEMMA WaitingSomewhere ==
  ASSUME NEW a \in Agents, NEW m \in Messages, ~Somewhere(a, m)
  PROVE  Waiting(a, m) = {}
BY DEF Waiting, Slots, Somewhere, InQueue, InBatch, InHand, QueuedAt, Batched

(* The places of one copy are one element of Waiting at most.              *)
LEMMA OneWaiting ==
  ASSUME NEW a \in Agents, NEW m \in Messages, OneCopy(a, m)
  PROVE  \A x, y \in Waiting(a, m) : x = y
<1> DEFINE InSlots == {s \in Slots(a) :
             LET q == queue[<<s[1], s[2]>>] IN s[3] \in DOMAIN q /\ q[s[3]] = m}
           OnPolls == {<<p>> : p \in {p \in Polls : Batched(p, a, m)}}
           OnAgent == {x \in inbox : x = <<a, m>>}
<1>1. Waiting(a, m) = InSlots \cup OnPolls \cup OnAgent
  BY DEF Waiting, Batched
<1>2. ASSUME NEW x \in InSlots
      PROVE  \E e \in {0, 1}, i \in 1..MaxQueue : x = <<a, e, i>> /\ QueuedAt(a, m, e, i)
  BY DEF Slots, QueuedAt
<1>3. \A x \in OnPolls : \E p \in Polls : x = <<p>> /\ Batched(p, a, m)
  OBVIOUS
<1>4. \A x \in OnAgent : x = <<a, m>> /\ InHand(a, m)
  BY DEF InHand
<1>5. \A x, y \in InSlots : x = y
  <2> HIDE DEF InSlots
  <2> QED BY <1>2 DEF OneCopy
<1>6. \A x, y \in OnPolls : x = y
  <2> HIDE DEF OnPolls
  <2> QED BY <1>3 DEF OneCopy
<1>7. InSlots # {} => OnPolls = {} /\ OnAgent = {}
  <2> HIDE DEF InSlots, OnPolls, OnAgent
  <2> QED BY <1>2, <1>3, <1>4 DEF OneCopy, InQueue, InBatch
<1>8. OnPolls # {} => OnAgent = {}
  <2> HIDE DEF InSlots, OnPolls, OnAgent
  <2> QED BY <1>3, <1>4 DEF OneCopy, InBatch
<1> HIDE DEF InSlots, OnPolls, OnAgent
<1>9. \A x, y \in OnAgent : x = y
  BY <1>4
<1> QED BY <1>1, <1>5, <1>6, <1>7, <1>8, <1>9

(* It is what makes the properties hold.                                   *)
LEMMA CopySuffices ==
  ASSUME TypeOK, CopyInv
  PROVE  AtMostOnce /\ RefusalIsFinal
<1>1. ASSUME NEW a \in Agents, NEW m \in Messages
      PROVE  Cardinality(Waiting(a, m)) + (IF ran[a][m] = None THEN 0 ELSE 1) <= 1
  <2>1. OneCopy(a, m)
    BY DEF CopyInv
  <2>2. CASE Waiting(a, m) = {}
    BY <2>2, FS_EmptySet
  <2>3. CASE Waiting(a, m) # {}
    <3>1. PICK x : x \in Waiting(a, m)
      BY <2>3
    <3>2. Waiting(a, m) = {x}
      BY <2>1, <3>1, OneWaiting
    <3>3. Cardinality(Waiting(a, m)) = 1
      BY <3>2, FS_Singleton
    <3>4. ran[a][m] = None
      BY <2>1, <2>3, WaitingSomewhere DEF OneCopy
    <3> QED BY <3>3, <3>4
  <2> QED BY <2>2, <2>3
<1>2. RefusalIsFinal
  BY WaitingSomewhere DEF CopyInv, Refused, RefusalIsFinal
<1> QED BY <1>1, <1>2 DEF AtMostOnce

(* What a step does not do to a webhook: bring a copy of it to an agent,   *)
(* or run it where there is none.                                          *)
Keeps(a, m) ==
  /\ Somewhere(a, m)' => Somewhere(a, m)
  /\ ran'[a][m] # ran[a][m] => Somewhere(a, m) /\ ran[a][m] = None

(* Copies that only get lost.                                              *)
LEMMA CopiesLost ==
  ASSUME NEW a \in Agents, NEW m \in Messages, OneCopy(a, m),
         \A e \in {0, 1} : queue'[<<a, e>>] \in {queue[<<a, e>>], <<>>},
         \A p \in Polls : Batched(p, a, m)' => Batched(p, a, m),
         InHand(a, m)' => InHand(a, m),
         ran'[a][m] = ran[a][m]
  PROVE  OneCopy(a, m)' /\ Keeps(a, m)
<1>1. \A e \in {0, 1}, i \in 1..MaxQueue : QueuedAt(a, m, e, i)' => QueuedAt(a, m, e, i)
  BY DEF QueuedAt
<1>2. InQueue(a, m)' => InQueue(a, m)
  BY <1>1 DEF InQueue
<1>3. InBatch(a, m)' => InBatch(a, m)
  BY DEF InBatch
<1>4. Somewhere(a, m)' => Somewhere(a, m)
  BY <1>2, <1>3 DEF Somewhere
<1> QED BY <1>1, <1>2, <1>3, <1>4 DEF OneCopy, Keeps

(* Where the hub's and the agents' books are left alone.                   *)
LEMMA CopiesStay ==
  ASSUME NEW a \in Agents, NEW m \in Messages, OneCopy(a, m),
         UNCHANGED <<queue, poll, inbox, ran>>
  PROVE  OneCopy(a, m)' /\ Keeps(a, m)
<1>1. \A p \in Polls : Batched(p, a, m)' => Batched(p, a, m)
  BY DEF Batched
<1> QED BY <1>1, CopiesLost DEF InHand

(* What the cap leaves of a queue is its end.                              *)
LEMMA NewestPlaces ==
  ASSUME NEW s \in Seq(Messages)
  PROVE  \E k \in Nat : \A i \in DOMAIN Newest(s) : i + k \in DOMAIN s /\ Newest(s)[i] = s[i + k]
<1> USE MaxQueueAssumption
<1>1. CASE Len(s) <= MaxQueue
  <2>1. Newest(s) = s
    BY <1>1 DEF Newest
  <2>2. \A i \in DOMAIN s : i + 0 = i
    OBVIOUS
  <2> QED BY <2>1, <2>2
<1>2. CASE Len(s) > MaxQueue
  <2> DEFINE k == Len(s) - MaxQueue
  <2>1. k + 1 \in 1..Len(s) /\ Len(s) \in Nat /\ k \in Nat
    BY <1>2
  <2>2. Newest(s) = SubSeq(s, k + 1, Len(s))
    BY <1>2 DEF Newest
  <2>3. Len(Newest(s)) = MaxQueue /\ Newest(s) \in Seq(Messages)
        /\ \A i \in 1..MaxQueue : Newest(s)[i] = s[(k + 1) + i - 1]
    BY <2>1, <2>2, SubSeqProperties
  <2>4. \A i \in 1..MaxQueue : (k + 1) + i - 1 = i + k /\ i + k \in 1..Len(s)
    BY <2>1
  <2>5. DOMAIN Newest(s) = 1..MaxQueue /\ DOMAIN s = 1..Len(s)
    BY <2>3
  <2> HIDE DEF k
  <2>6. \A i \in DOMAIN Newest(s) : i + k \in DOMAIN s /\ Newest(s)[i] = s[i + k]
    BY <2>3, <2>4, <2>5
  <2> QED BY <2>1, <2>6
<1> QED BY <1>1, <1>2

(* Queueing adds one copy at the end, of a webhook that was not there.     *)
LEMMA QueueEnd ==
  ASSUME NEW s \in Seq(Messages), NEW m \in Messages, NEW n \in Messages
  PROVE  \E k \in Nat : \A i \in DOMAIN Newest(Append(s, n)) :
           Newest(Append(s, n))[i] = m => (i + k \in 1..Len(s) /\ s[i + k] = m) \/ (m = n /\ i + k = Len(s) + 1)
<1> DEFINE t == Newest(Append(s, n))
<1>1. Append(s, n) \in Seq(Messages) /\ Len(Append(s, n)) = Len(s) + 1 /\ Len(s) \in Nat
  OBVIOUS
<1>2. PICK k \in Nat : \A i \in DOMAIN t :
        i + k \in DOMAIN Append(s, n) /\ t[i] = Append(s, n)[i + k]
  BY <1>1, NewestPlaces
<1>3. ASSUME NEW i \in DOMAIN t, t[i] = m
      PROVE  (i + k \in 1..Len(s) /\ s[i + k] = m) \/ (m = n /\ i + k = Len(s) + 1)
  <2>1. i + k \in 1..(Len(s) + 1) /\ Append(s, n)[i + k] = m
    BY <1>1, <1>2, <1>3
  <2>2. CASE i + k = Len(s) + 1
    <3>1. Append(s, n)[Len(s) + 1] = n
      OBVIOUS
    <3> QED BY <2>1, <2>2, <3>1
  <2>3. CASE i + k \in 1..Len(s)
    <3>1. \A j \in 1..Len(s) : Append(s, n)[j] = s[j]
      OBVIOUS
    <3> QED BY <2>1, <2>3, <3>1
  <2> QED BY <1>1, <2>1, <2>2, <2>3
<1> QED BY <1>3

(* What is in a queue after QueueFor(n) was there before, k places behind, *)
(* or is n, which is its last.                                             *)
Came(a, m, n, e, k) ==
  \A i \in 1..MaxQueue : QueuedAt(a, m, e, i)' =>
    \/ i + k \in 1..MaxQueue /\ QueuedAt(a, m, e, i + k)
    \/ /\ m = n /\ a \in request[n].listed /\ <<a, e>> = ConnOf(a)
       /\ i + k = Len(queue[<<a, e>>]) + 1

(* So it is, whatever the cap has dropped.                                 *)
LEMMA QueuedBefore ==
  ASSUME TypeOK, NEW n \in Messages, QueueFor(n), NEW a \in Agents, NEW m \in Messages,
         NEW e \in {0, 1}
  PROVE  \E k \in Nat : Came(a, m, n, e, k)
<1> DEFINE c == <<a, e>>
           cs == {ConnOf(b) : b \in request[n].listed}
<1>1. c \in Conns
  BY DEF Conns
<1>2. queue'[c] = IF c \in cs THEN Newest(Append(queue[c], n)) ELSE queue[c]
  BY <1>1 DEF QueueFor
<1>3. queue[c] \in Seq(Messages) /\ Len(queue[c]) <= MaxQueue /\ Len(queue[c]) \in Nat
  BY <1>1 DEF TypeOK
<1>4. CASE c \notin cs
  <2>1. \A i \in 1..MaxQueue :
          QueuedAt(a, m, e, i)' => i + 0 \in 1..MaxQueue /\ QueuedAt(a, m, e, i + 0)
    BY <1>2, <1>4 DEF QueuedAt
  <2>2. Came(a, m, n, e, 0)
    BY <2>1 DEF Came
  <2> QED BY <2>2
<1>5. CASE c \in cs
  <2> DEFINE s == queue[c]
             t == Newest(Append(s, n))
  <2>0. queue'[c] = t /\ s \in Seq(Messages)
    BY <1>2, <1>3, <1>5
  <2>1. PICK k \in Nat : \A i \in DOMAIN queue'[c] :
          queue'[c][i] = m =>
            (i + k \in 1..Len(queue[c]) /\ queue[c][i + k] = m)
            \/ (m = n /\ i + k = Len(queue[c]) + 1)
    <3>1. \E k \in Nat : \A i \in DOMAIN t :
            t[i] = m => (i + k \in 1..Len(s) /\ s[i + k] = m) \/ (m = n /\ i + k = Len(s) + 1)
      <4> HIDE DEF s
      <4> QED BY <2>0, QueueEnd
    <3> HIDE DEF t
    <3> QED BY <2>0, <3>1
  <2>2. a \in request[n].listed /\ c = ConnOf(a)
    BY <1>5 DEF ConnOf
  <2>3. ASSUME NEW i \in 1..MaxQueue, QueuedAt(a, m, e, i)'
        PROVE  \/ i + k \in 1..MaxQueue /\ QueuedAt(a, m, e, i + k)
               \/ m = n /\ i + k = Len(queue[c]) + 1
    <3>1. i \in DOMAIN queue'[c] /\ queue'[c][i] = m
      BY <2>3 DEF QueuedAt
    <3>2. CASE i + k \in 1..Len(queue[c]) /\ queue[c][i + k] = m
      <4>1. i + k \in DOMAIN queue[c]
        BY <1>3, <3>2
      <4>2. i + k \in 1..MaxQueue
        BY <1>3, <3>2, MaxQueueAssumption
      <4> QED BY <3>2, <4>1, <4>2 DEF QueuedAt
    <3> QED BY <2>1, <3>1, <3>2
  <2>4. Came(a, m, n, e, k)
    BY <2>2, <2>3 DEF Came
  <2> QED BY <2>4
<1> QED BY <1>4, <1>5

(* Queueing a webhook that nobody has makes one copy for each agent.       *)
LEMMA CopyQueueFor ==
  ASSUME TypeOK, CopyInv, NEW n \in Messages, QueueFor(n), NEW a \in Agents, NEW m \in Messages
  PROVE  OneCopy(a, m)' /\ (m # n \/ a \notin request[n].listed => Keeps(a, m))
<1>1. UNCHANGED <<poll, inbox, ran>> /\ request[n].pc = "queue"
  BY DEF QueueFor, client
<1>2. OneCopy(a, m) /\ (m = n => ~Somewhere(a, m) /\ ran[a][m] = None)
  BY <1>1 DEF CopyInv, Heard, Untouched
<1>3. \A p \in Polls : Batched(p, a, m)' <=> Batched(p, a, m)
  BY <1>1 DEF Batched
<1>4. (InBatch(a, m)' <=> InBatch(a, m)) /\ (InHand(a, m)' <=> InHand(a, m))
  BY <1>1, <1>3 DEF InBatch, InHand
<1>5. m # n \/ a \notin request[n].listed => (InQueue(a, m)' => InQueue(a, m))
  <2>1. ASSUME NEW e \in {0, 1}, NEW i \in 1..MaxQueue, QueuedAt(a, m, e, i)',
               m # n \/ a \notin request[n].listed
        PROVE  InQueue(a, m)
    <3>1. PICK k \in Nat : Came(a, m, n, e, k)
      BY QueuedBefore
    <3> QED BY <2>1, <3>1 DEF Came, InQueue
  <2> QED BY <2>1 DEF InQueue
<1>6. ASSUME NEW e \in {0, 1}, NEW f \in {0, 1}, NEW i \in 1..MaxQueue, NEW j \in 1..MaxQueue,
             QueuedAt(a, m, e, i)', QueuedAt(a, m, f, j)'
      PROVE  e = f /\ i = j
  <2>1. PICK k \in Nat : Came(a, m, n, e, k)
    BY QueuedBefore
  <2>2. PICK l \in Nat : Came(a, m, n, f, l)
    BY QueuedBefore
  <2>3. e = f
    <3>1. CASE m = n
      <4>1. <<a, e>> = ConnOf(a) /\ <<a, f>> = ConnOf(a)
        BY <1>2, <1>6, <2>1, <2>2, <3>1 DEF Came, Somewhere, InQueue
      <4> QED BY <4>1
    <3>2. CASE m # n
      BY <1>2, <1>6, <2>1, <2>2, <3>2 DEF Came, OneCopy
    <3> QED BY <3>1, <3>2
  <2>4. QueuedAt(a, m, e, j)'
    BY <1>6, <2>3
  <2>5. CASE m = n
    <3>1. i + k = Len(queue[<<a, e>>]) + 1 /\ j + k = Len(queue[<<a, e>>]) + 1
      BY <1>2, <1>6, <2>1, <2>4, <2>5 DEF Came, Somewhere, InQueue
    <3> QED BY <2>3, <3>1
  <2>6. CASE m # n
    <3>1. i + k \in 1..MaxQueue /\ QueuedAt(a, m, e, i + k)
          /\ j + k \in 1..MaxQueue /\ QueuedAt(a, m, e, j + k)
      BY <1>6, <2>1, <2>4, <2>6 DEF Came
    <3>2. i + k = j + k
      BY <1>2, <3>1 DEF OneCopy
    <3> QED BY <2>3, <3>2
  <2> QED BY <2>5, <2>6
<1>7. m = n => ~InBatch(a, m)' /\ ~InHand(a, m)' /\ ran'[a][m] = None
  BY <1>1, <1>2, <1>4 DEF Somewhere
<1>8. m # n \/ a \notin request[n].listed => Keeps(a, m)
  BY <1>1, <1>4, <1>5 DEF Keeps, Somewhere
<1>9. OneCopy(a, m)'
  <2>1. CASE m = n
    BY <1>2, <1>3, <1>6, <1>7, <2>1 DEF OneCopy
  <2>2. CASE m # n
    BY <1>1, <1>2, <1>3, <1>4, <1>5, <1>6, <2>2 DEF OneCopy, Somewhere
  <2> QED BY <2>1, <2>2
<1> QED BY <1>8, <1>9

(* Hub.take moves the copies of its conn's agent to the poll's batch.      *)
LEMMA CopyTake ==
  ASSUME TypeOK, CopyInv, PollsHoldOwnConn, NEW p \in Polls, PollTake(p),
         NEW a \in Agents, NEW m \in Messages
  PROVE  OneCopy(a, m)' /\ Keeps(a, m)
<1>1. poll[p] \in Poll /\ poll[p].pc = "take"
  BY PollFacts DEF PollTake
<1>2. PICK d \in {0, 1} : poll[p].conn = <<poll[p].agent, d>>
  BY <1>1 DEF PollsHoldOwnConn
<1> DEFINE b == poll[p].agent
           c == <<b, d>>
<1>3. c \in Conns /\ b \in Agents /\ queue[c] \in Seq(Messages) /\ Len(queue[c]) <= MaxQueue
  BY <1>1, <1>2 DEF Conns, TypeOK, Poll
<1>4. /\ queue' = [queue EXCEPT ![c] = <<>>]
      /\ UNCHANGED <<inbox, ran>>
      /\ poll'[p].agent = b /\ poll'[p].batch \subseteq Queued(c)
      /\ \A q \in Polls \ {p} : poll'[q] = poll[q]
  BY <1>1, <1>2 DEF PollTake, Untaken, TypeOK, Poll, client
<1>5. \A e \in {0, 1} : <<a, e>> \in Conns
        /\ queue'[<<a, e>>] = IF a = b /\ e = d THEN <<>> ELSE queue[<<a, e>>]
  BY <1>3, <1>4 DEF Conns, TypeOK
<1>6. OneCopy(a, m) /\ ~Batched(p, a, m)
  BY <1>1 DEF CopyInv, Batched
<1>7. \A q \in Polls \ {p} : Batched(q, a, m)' <=> Batched(q, a, m)
  BY <1>4 DEF Batched
<1>8. CASE ~Batched(p, a, m)'
  <2>1. \A q \in Polls : Batched(q, a, m)' => Batched(q, a, m)
    BY <1>7, <1>8
  <2>2. \A e \in {0, 1} : queue'[<<a, e>>] \in {queue[<<a, e>>], <<>>}
    BY <1>5
  <2>3. (InHand(a, m)' => InHand(a, m)) /\ ran'[a][m] = ran[a][m]
    BY <1>4 DEF InHand
  <2> QED BY <1>6, <2>1, <2>2, <2>3, CopiesLost
<1>9. CASE Batched(p, a, m)'
  <2>1. a = b /\ m \in Queued(c)
    BY <1>4, <1>9 DEF Batched
  <2>2. PICK i \in 1..MaxQueue : QueuedAt(a, m, d, i)
    <3>1. PICK i \in DOMAIN queue[c] : queue[c][i] = m
      BY <2>1 DEF Queued
    <3>2. i \in 1..MaxQueue
      BY <1>3, MaxQueueAssumption
    <3> QED BY <2>1, <3>1, <3>2 DEF QueuedAt
  <2>3. InQueue(a, m) /\ Somewhere(a, m) /\ ~InBatch(a, m) /\ ~InHand(a, m) /\ ran[a][m] = None
    BY <1>6, <2>2 DEF InQueue, OneCopy, Somewhere
  <2>4. \A e \in {0, 1}, j \in 1..MaxQueue : ~QueuedAt(a, m, e, j)'
    <3>1. ASSUME NEW e \in {0, 1}, NEW j \in 1..MaxQueue, QueuedAt(a, m, e, j)'
          PROVE  FALSE
      <4>1. e # d /\ QueuedAt(a, m, e, j)
        BY <1>5, <2>1, <3>1 DEF QueuedAt
      <4> QED BY <1>6, <2>2, <4>1 DEF OneCopy
    <3> QED BY <3>1
  <2>5. ~InQueue(a, m)' /\ ~InHand(a, m)' /\ ran'[a][m] = None
    BY <1>4, <2>3, <2>4 DEF InQueue, InHand
  <2>6. \A q \in Polls : Batched(q, a, m)' => q = p
    BY <1>7, <2>3 DEF InBatch
  <2> QED BY <1>4, <2>3, <2>4, <2>5, <2>6 DEF OneCopy, Keeps
<1> QED BY <1>8, <1>9

(* A delivery moves the copies of the batch to the agent.                  *)
LEMMA CopyDelivers ==
  ASSUME TypeOK, CopyInv, NEW p \in Polls, PollDelivers(p),
         NEW a \in Agents, NEW m \in Messages
  PROVE  OneCopy(a, m)' /\ Keeps(a, m)
<1>1. /\ poll[p].pc = "reply"
      /\ inbox' = inbox \cup ({poll[p].agent} \X poll[p].batch)
      /\ UNCHANGED <<queue, ran>>
      /\ poll'[p] = NoPoll
      /\ \A q \in Polls \ {p} : poll'[q] = poll[q]
  BY DEF PollDelivers, Leave, TypeOK
<1>2. OneCopy(a, m)
  BY DEF CopyInv
<1>3. \A q \in Polls : Batched(q, a, m)' => q # p /\ Batched(q, a, m)
  BY <1>1 DEF Batched, NoPoll
<1>4. InHand(a, m)' <=> InHand(a, m) \/ Batched(p, a, m)
  BY <1>1 DEF InHand, Batched
<1>5. CASE ~Batched(p, a, m)
  <2>1. \A e \in {0, 1} : queue'[<<a, e>>] \in {queue[<<a, e>>], <<>>}
    BY <1>1
  <2> QED BY <1>1, <1>2, <1>3, <1>4, <1>5, <2>1, CopiesLost
<1>6. CASE Batched(p, a, m)
  <2>1. InBatch(a, m) /\ Somewhere(a, m) /\ ~InQueue(a, m) /\ ran[a][m] = None
    BY <1>2, <1>6 DEF InBatch, OneCopy, Somewhere
  <2>2. \A q \in Polls : ~Batched(q, a, m)'
    BY <1>2, <1>3, <1>6 DEF OneCopy
  <2>3. \A e \in {0, 1}, i \in 1..MaxQueue : ~QueuedAt(a, m, e, i)'
    BY <1>1, <2>1 DEF InQueue, QueuedAt
  <2>4. ~InQueue(a, m)' /\ ~InBatch(a, m)' /\ ran'[a][m] = None
    BY <1>1, <2>1, <2>2, <2>3 DEF InQueue, InBatch
  <2> QED BY <1>1, <2>1, <2>2, <2>3, <2>4 DEF OneCopy, Keeps
<1> QED BY <1>5, <1>6

(* The agent's copy ends when it runs.                                     *)
LEMMA CopyRuns ==
  ASSUME TypeOK, CopyInv, NEW b \in Agents, NEW n \in Messages, Run(b, n),
         NEW a \in Agents, NEW m \in Messages
  PROVE  OneCopy(a, m)' /\ Keeps(a, m)
<1>1. OneCopy(a, m) /\ InHand(b, n) /\ inbox' = inbox \ {<<b, n>>} /\ UNCHANGED <<queue, poll>>
  BY DEF CopyInv, Run, InHand, hub
<1>2. CASE a = b /\ m = n
  <2>1. InHand(a, m) /\ ~InHand(a, m)' /\ Somewhere(a, m) /\ ran[a][m] = None
        /\ ~InQueue(a, m) /\ ~InBatch(a, m)
    BY <1>1, <1>2 DEF InHand, Somewhere, OneCopy
  <2>2. (InQueue(a, m)' <=> InQueue(a, m)) /\ (InBatch(a, m)' <=> InBatch(a, m))
    BY <1>1 DEF InQueue, InBatch, QueuedAt, Batched
  <2>3. \A e, f \in {0, 1}, i, j \in 1..MaxQueue : ~QueuedAt(a, m, e, i)'
    BY <2>1, <2>2 DEF InQueue
  <2>4. \A q \in Polls : ~Batched(q, a, m)'
    BY <2>1, <2>2 DEF InBatch
  <2> QED BY <2>1, <2>2, <2>3, <2>4 DEF OneCopy, Somewhere, Keeps
<1>3. CASE ~(a = b /\ m = n)
  <2>1. ran'[a][m] = ran[a][m]
    BY <1>3 DEF Run, TypeOK
  <2>2. \A q \in Polls : Batched(q, a, m)' => Batched(q, a, m)
    BY <1>1 DEF Batched
  <2>3. InHand(a, m)' => InHand(a, m)
    BY <1>1 DEF InHand
  <2>4. \A e \in {0, 1} : queue'[<<a, e>>] \in {queue[<<a, e>>], <<>>}
    BY <1>1
  <2> QED BY <1>1, <2>1, <2>2, <2>3, <2>4, CopiesLost
<1> QED BY <1>2, <1>3

(* The other steps of a HandlePoll put nothing into a batch.               *)
LEMMA CopyPoll ==
  ASSUME TypeOK, CopyInv, PollsHoldOwnConn, NEW p \in Polls, PollStep(p),
         NEW a \in Agents, NEW m \in Messages
  PROVE  OneCopy(a, m)' /\ Keeps(a, m)
<1> USE DEF hub, client
<1>1. CASE PollTake(p)
  BY <1>1, CopyTake
<1>2. CASE PollDelivers(p)
  BY <1>2, CopyDelivers
<1>3. ASSUME \A q \in Polls \ {p} : poll'[q] = poll[q],
             poll'[p].pc = "reply" => /\ poll[p].pc = "reply"
                                      /\ poll'[p].agent = poll[p].agent
                                      /\ poll'[p].batch = poll[p].batch,
             UNCHANGED <<queue, inbox, ran>>
      PROVE  OneCopy(a, m)' /\ Keeps(a, m)
  <2>1. \A q \in Polls : Batched(q, a, m)' => Batched(q, a, m)
    BY <1>3 DEF Batched
  <2>2. (InHand(a, m)' => InHand(a, m)) /\ ran'[a][m] = ran[a][m]
        /\ \A e \in {0, 1} : queue'[<<a, e>>] \in {queue[<<a, e>>], <<>>}
    BY <1>3 DEF InHand
  <2>3. OneCopy(a, m)
    BY DEF CopyInv
  <2> QED BY <2>1, <2>2, <2>3, CopiesLost
<1>4. CASE \E b \in Agents : StartPoll(b, p)
  BY <1>3, <1>4 DEF StartPoll, TypeOK
<1>5. CASE PollAuth(p)
  <2>1. poll[p] \in Poll
    BY <1>5, PollFacts DEF PollAuth
  <2>2. poll'[p].pc # "reply" /\ \A q \in Polls \ {p} : poll'[q] = poll[q]
    BY <1>5, <2>1 DEF PollAuth, TypeOK, Poll, NoPoll
  <2> QED BY <1>3, <1>5, <2>2 DEF PollAuth
<1>6. CASE PollEnter(p)
  <2>1. poll[p] \in Poll
    BY <1>6, PollFacts DEF PollEnter
  <2>2. poll'[p].pc # "reply" /\ \A q \in Polls \ {p} : poll'[q] = poll[q]
    BY <1>6, <2>1 DEF PollEnter, TypeOK, Poll
  <2> QED BY <1>3, <1>6, <2>2 DEF PollEnter
<1>7. CASE PollSleeps(p) \/ PollWoken(p)
  <2>1. poll[p] \in Poll
    BY <1>7, PollFacts DEF PollSleeps, PollWoken
  <2>2. poll'[p].pc # "reply" /\ \A q \in Polls \ {p} : poll'[q] = poll[q]
    BY <1>7, <2>1 DEF PollSleeps, PollWoken, TypeOK, Poll
  <2> QED BY <1>3, <1>7, <2>2 DEF PollSleeps, PollWoken
<1>8. CASE PollEmpty(p) \/ PollLoses(p)
  <2>1. poll'[p].pc # "reply" /\ \A q \in Polls \ {p} : poll'[q] = poll[q]
    BY <1>8 DEF PollEmpty, PollLoses, Leave, TypeOK, NoPoll
  <2> QED BY <1>3, <1>8, <2>1 DEF PollEmpty, PollLoses, Leave
<1>9. CASE PollAbandoned(p)
  <2>1. poll[p] \in Poll
    BY <1>9, PollFacts DEF PollAbandoned
  <2>2. /\ poll'[p].pc = poll[p].pc /\ poll'[p].agent = poll[p].agent
        /\ poll'[p].batch = poll[p].batch
        /\ \A q \in Polls \ {p} : poll'[q] = poll[q]
    BY <1>9, <2>1 DEF PollAbandoned, TypeOK, Poll
  <2> QED BY <1>3, <1>9, <2>2 DEF PollAbandoned
<1> QED BY <1>1, <1>2, <1>4, <1>5, <1>6, <1>7, <1>8, <1>9 DEF PollStep

(* Agents and administration.                                              *)
LEMMA CopyOthers ==
  ASSUME TypeOK, CopyInv, NEW a \in Agents, NEW m \in Messages,
         HubStep \/ \E b \in Agents : AgentStep(b)
  PROVE  OneCopy(a, m)' /\ Keeps(a, m)
<1> USE DEF hub, client
<1>1. OneCopy(a, m)
  BY DEF CopyInv
<1>2. ASSUME NEW b \in Agents, NEW n \in Messages, Run(b, n)
      PROVE  OneCopy(a, m)' /\ Keeps(a, m)
  BY <1>2, CopyRuns
<1>3. ASSUME NEW b \in Agents, NEW n \in Messages, Post(b, n) \/ PostFails(b, n)
      PROVE  OneCopy(a, m)' /\ Keeps(a, m)
  BY <1>1, <1>3, CopiesStay DEF Post, PostFails
<1>4. ASSUME NEW b \in Agents, AgentRestarts(b)
      PROVE  OneCopy(a, m)' /\ Keeps(a, m)
  <2>1. \A q \in Polls : Batched(q, a, m)' => Batched(q, a, m)
    <3>1. ASSUME NEW q \in Polls, Batched(q, a, m)' PROVE Batched(q, a, m)
      <4>1. CASE poll[q].pc = "off" \/ poll[q].agent # b
        BY <1>4, <3>1, <4>1 DEF AgentRestarts, Batched
      <4>2. CASE poll[q].pc # "off" /\ poll[q].agent = b
        <5>1. poll[q] \in Poll /\ poll'[q] = [poll[q] EXCEPT !.alive = FALSE]
          BY <1>4, <4>2, PollFacts DEF AgentRestarts
        <5> QED BY <3>1, <5>1 DEF Batched, Poll
      <4> QED BY <4>1, <4>2
    <3> QED BY <3>1
  <2>2. (InHand(a, m)' => InHand(a, m)) /\ ran'[a][m] = ran[a][m]
        /\ \A e \in {0, 1} : queue'[<<a, e>>] \in {queue[<<a, e>>], <<>>}
    BY <1>4 DEF AgentRestarts, InHand
  <2> QED BY <1>1, <2>1, <2>2, CopiesLost
<1>5. ASSUME NEW b \in Agents, DeleteAgent(b) PROVE OneCopy(a, m)' /\ Keeps(a, m)
  BY <1>1, <1>5, CopiesStay DEF DeleteAgent
<1>6. ASSUME \A e \in {0, 1} : queue'[<<a, e>>] \in {queue[<<a, e>>], <<>>},
             \A p \in Polls : poll'[p] \in {poll[p], NoPoll}, UNCHANGED client
      PROVE  OneCopy(a, m)' /\ Keeps(a, m)
  <2>1. \A p \in Polls : Batched(p, a, m)' => Batched(p, a, m)
    BY <1>6 DEF Batched, NoPoll
  <2>2. (InHand(a, m)' => InHand(a, m)) /\ ran'[a][m] = ran[a][m]
    BY <1>6 DEF InHand
  <2> QED BY <1>1, <1>6, <2>1, <2>2, CopiesLost
<1>7. ASSUME NEW b \in Agents, Forget(b) PROVE OneCopy(a, m)' /\ Keeps(a, m)
  <2>1. \A e \in {0, 1} : queue'[<<a, e>>] \in {queue[<<a, e>>], <<>>}
    BY <1>7 DEF Forget, Dropped, TypeOK, Conns
  <2> QED BY <1>6, <1>7, <2>1 DEF Forget
<1>8. CASE HubRestarts
  <2>1. \A e \in {0, 1} : queue'[<<a, e>>] = <<>>
    BY <1>8 DEF HubRestarts, Conns
  <2> QED BY <1>6, <1>8, <2>1 DEF HubRestarts
<1> QED BY <1>2, <1>3, <1>4, <1>5, <1>7, <1>8 DEF HubStep, AgentStep

(* All of them together: only QueueFor makes a copy.                       *)
LEMMA CopyStep ==
  ASSUME TypeOK, CopyInv, PollsHoldOwnConn, [Next]_vars, NEW a \in Agents, NEW m \in Messages
  PROVE  OneCopy(a, m)' /\ (Keeps(a, m) \/ (QueueFor(m) /\ a \in request[m].listed))
<1>1. CASE UNCHANGED <<queue, poll, inbox, ran>>
  BY <1>1, CopiesStay DEF CopyInv
<1>2. ASSUME NEW n \in Messages, RelayStep(n)
      PROVE  OneCopy(a, m)' /\ (Keeps(a, m) \/ (QueueFor(m) /\ a \in request[m].listed))
  <2>1. CASE QueueFor(n)
    BY <2>1, CopyQueueFor
  <2>2. CASE Serving(n)
    BY <1>1, <2>2, ServingType DEF hub, client
  <2> QED BY <1>2, <2>1, <2>2 DEF RelayStep, Serving
<1>3. ASSUME NEW p \in Polls, PollStep(p) PROVE OneCopy(a, m)' /\ Keeps(a, m)
  BY <1>3, CopyPoll
<1>4. CASE HubStep \/ \E b \in Agents : AgentStep(b)
  BY <1>4, CopyOthers
<1>5. CASE UNCHANGED vars
  BY <1>1, <1>5 DEF vars, hub, client
<1> QED BY <1>2, <1>3, <1>4, <1>5 DEF Next

(* A step that leaves the request alone.                                   *)
LEMMA HeardStill ==
  ASSUME NEW a \in Agents, NEW m \in Messages, Heard(a, m), Refused(a, m), Keeps(a, m),
         request'[m] = request[m]
  PROVE  Heard(a, m)' /\ Refused(a, m)'
<1>1. Untouched(a, m) => Untouched(a, m)'
  BY DEF Untouched, Keeps
<1>2. ~Somewhere(a, m) => ran'[a][m] = ran[a][m] /\ ~Somewhere(a, m)'
  BY DEF Keeps
<1>3. ran'[a][m] = ran[a][m] \/ ran[a][m] = None
  BY DEF Keeps
<1> QED BY <1>1, <1>2, <1>3 DEF Heard, Refused

(* A refusal says that every agent that was listed has reported, and none  *)
(* of them a deploy.                                                       *)
LEMMA RefusalMeans ==
  ASSUME NEW m \in Messages, NEW outcomes, Answer(m, outcomes), request \in [Messages -> Request],
         request'[m].answer # "accepted"
  PROVE  None \notin outcomes /\ "accepted" \notin outcomes
<1>1. PICK local \in {"accepted", "ok", None} : request' = [request EXCEPT ![m] =
         [NewRequest EXCEPT !.pc = "answered", !.answer = Combine(local, outcomes)]]
  BY DEF Answer
<1>2. request'[m].answer = Combine(local, outcomes)
  BY <1>1 DEF NewRequest
<1> QED BY <1>2 DEF Combine

(* What an answer leaves of a request.                                     *)
LEMMA AnswerLeaves ==
  ASSUME NEW m \in Messages, NEW outcomes, Answer(m, outcomes), request \in [Messages -> Request]
  PROVE  /\ request'[m].pc = "answered"
         /\ request'[m].chan = {}
         /\ request'[m].got = [a \in Agents |-> None]
         /\ \A n \in Messages \ {m} : request'[n] = request[n]
BY DEF Answer, NewRequest

(* The sender's answer.                                                    *)
LEMMA HeardAnswer ==
  ASSUME TypeOK, CopyInv, NEW a \in Agents, NEW m \in Messages, Keeps(a, m),
         ListNone(m) \/ RelayDone(m) \/ RelayTimeout(m)
  PROVE  Heard(a, m)' /\ Refused(a, m)'
<1>1. request \in [Messages -> Request]
  BY DEF TypeOK
<1>2. PICK outcomes : Answer(m, outcomes) /\ (outcomes = ReportsOf(m) \/ request[m].pc = "list")
  BY DEF ListNone, RelayDone, RelayTimeout
<1>3. request[m].pc \in {"list", "wait"}
  BY DEF ListNone, RelayDone, RelayTimeout, StillWaits
<1>4. /\ request'[m].pc = "answered" /\ request'[m].chan = {}
      /\ request'[m].got[a] = None
  BY <1>1, <1>2, AnswerLeaves
<1>5. Heard(a, m)'
  BY <1>4 DEF Heard
<1>6. ASSUME request'[m].answer # "accepted"
      PROVE  ~Somewhere(a, m) /\ ran[a][m] # "accepted"
  <2>1. None \notin outcomes /\ "accepted" \notin outcomes
    BY <1>1, <1>2, <1>6, RefusalMeans
  <2>2. Heard(a, m) /\ OneCopy(a, m)
    BY DEF CopyInv
  <2>3. CASE request[m].pc = "list" \/ a \notin request[m].listed
    BY <1>3, <2>2, <2>3 DEF Heard, Untouched, None
  <2>4. CASE request[m].pc = "wait" /\ a \in request[m].listed
    <3>1. request[m].got[a] \in outcomes
      BY <1>2, <2>4 DEF ReportsOf
    <3>2. ran[a][m] # None /\ ran[a][m] # "accepted"
      BY <2>1, <2>2, <3>1 DEF Heard
    <3> QED BY <2>2, <3>2 DEF OneCopy
  <2> QED BY <1>3, <2>3, <2>4
<1>7. Refused(a, m)'
  BY <1>6 DEF Refused, Keeps
<1> QED BY <1>5, <1>7

(* QueueFor's part of the request.                                         *)
LEMMA QueueForRequest ==
  ASSUME TypeOK, NEW m \in Messages, QueueFor(m)
  PROVE  /\ request[m].pc = "queue" /\ request'[m].pc = "wait"
         /\ request'[m].listed = request[m].listed
         /\ request'[m].got = request[m].got /\ request'[m].chan = request[m].chan
         /\ \A n \in Messages \ {m} : request'[n] = request[n]
         /\ ran' = ran
<1>1. request \in [Messages -> Request] /\ request[m] \in Request
  BY DEF TypeOK
<1>2. PICK online : request' = [request EXCEPT ![m].pc = "wait", ![m].awaited = online]
  BY DEF QueueFor
<1>3. request[m].pc = "queue" /\ ran' = ran
  BY DEF QueueFor, client
<1> QED BY <1>1, <1>2, <1>3 DEF Request

(* The other steps of the request.                                         *)
LEMMA HeardServing ==
  ASSUME TypeOK, CopyInv, NEW n \in Messages, Serving(n) \/ QueueFor(n),
         NEW a \in Agents, NEW m \in Messages,
         Keeps(a, m) \/ (QueueFor(m) /\ a \in request[m].listed)
  PROVE  Heard(a, m)' /\ Refused(a, m)'
<1>1. request \in [Messages -> Request] /\ request[m] \in Request /\ request[n] \in Request
  BY DEF TypeOK
<1>2. Heard(a, m) /\ Refused(a, m)
  BY DEF CopyInv
<1>3. QueueFor(m) => request[m].pc = "queue" /\ request'[m].pc = "wait"
  BY QueueForRequest
<1>4. CASE m # n
  <2>1. request'[m] = request[m]
    BY <1>4, <1>1, AnswerLeaves, QueueForRequest
       DEF Serving, Receive, List, ListNone, Collect, RelayDone, RelayTimeout
  <2>2. Keeps(a, m)
    BY <1>3, <2>1
  <2> QED BY <1>2, <2>1, <2>2, HeardStill
<1>5. CASE m = n /\ (ListNone(m) \/ RelayDone(m) \/ RelayTimeout(m))
  <2>1. request'[m].pc = "answered"
    BY <1>1, <1>5, AnswerLeaves DEF ListNone, RelayDone, RelayTimeout
  <2>2. Keeps(a, m)
    BY <1>3, <2>1
  <2> QED BY <1>5, <2>2, HeardAnswer
<1>6. CASE m = n /\ (Receive(m) \/ List(m))
  <2>1. /\ request[m].pc \in {"new", "list"} /\ request'[m].pc \in {"list", "queue"}
        /\ request'[m].got = request[m].got /\ request'[m].chan = request[m].chan
    BY <1>1, <1>6 DEF Receive, List, Request
  <2>2. Keeps(a, m)
    BY <1>3, <2>1
  <2>3. Untouched(a, m) /\ Untouched(a, m)' /\ ran'[a][m] = ran[a][m]
    BY <1>2, <2>1, <2>2 DEF Heard, Untouched, Keeps
  <2> QED BY <1>2, <2>1, <2>3 DEF Heard, Refused
<1>7. CASE m = n /\ Collect(m)
  <2>1. PICK r \in request[m].chan :
          request' = [request EXCEPT ![m].chan = @ \ {r}, ![m].got[r[1]] = r[2]]
    BY <1>7 DEF Collect
  <2>2. r \in Agents \X Outcomes /\ request[m].got \in [Agents -> Outcomes]
    BY <1>1, <2>1 DEF Request
  <2>3. /\ request'[m].pc = "wait" /\ request[m].pc = "wait"
        /\ request'[m].listed = request[m].listed
        /\ request'[m].chan \subseteq request[m].chan
        /\ request'[m].got = [request[m].got EXCEPT ![r[1]] = r[2]]
    BY <1>1, <1>7, <2>1 DEF Collect, StillWaits, Request
  <2>4. UNCHANGED <<queue, poll, inbox, ran>>
    BY <1>7 DEF Collect, hub, client
  <2>5. Keeps(a, m)
    BY <2>4, CopiesStay DEF CopyInv
  <2>6. request'[m].got[a] \in {None, ran[a][m]}
    BY <1>2, <2>1, <2>2, <2>3 DEF Heard
  <2>7. Untouched(a, m) => Untouched(a, m)'
    BY <2>5 DEF Untouched, Keeps
  <2> QED BY <1>2, <2>3, <2>4, <2>6, <2>7 DEF Heard, Refused
<1>8. CASE m = n /\ QueueFor(m)
  <2>1. /\ request[m].pc = "queue" /\ request'[m].pc = "wait"
        /\ request'[m].listed = request[m].listed
        /\ request'[m].got = request[m].got /\ request'[m].chan = request[m].chan
        /\ ran' = ran
    BY <1>8, QueueForRequest
  <2>2. a \notin request[m].listed => Untouched(a, m)'
    BY <1>2, <2>1 DEF Heard, Untouched, Keeps
  <2> QED BY <1>2, <2>1, <2>2 DEF Heard, Refused
<1> QED BY <1>4, <1>5, <1>6, <1>7, <1>8 DEF Serving

(* Results that are posted, and the restart of the hub.                    *)
LEMMA HeardOthers ==
  ASSUME TypeOK, CopyInv, NEW a \in Agents, NEW m \in Messages, Keeps(a, m),
         HubStep \/ \E b \in Agents : AgentStep(b)
  PROVE  Heard(a, m)' /\ Refused(a, m)'
<1>1. request \in [Messages -> Request] /\ request[m] \in Request
  BY DEF TypeOK
<1>2. Heard(a, m) /\ Refused(a, m)
  BY DEF CopyInv
<1>3. CASE request'[m] = request[m]
  BY <1>2, <1>3, HeardStill
<1>4. ASSUME NEW b \in Agents, NEW n \in Messages, Post(b, n)
      PROVE  Heard(a, m)' /\ Refused(a, m)'
  <2>1. CASE n = m /\ request[m].pc = "wait"
             /\ request' = [request EXCEPT ![m].chan = @ \cup {<<b, ran[b][m]>>}]
    <3>1. /\ request'[m].pc = "wait" /\ request'[m].listed = request[m].listed
          /\ request'[m].got = request[m].got
          /\ request'[m].chan = request[m].chan \cup {<<b, ran[b][m]>>}
          /\ ran' = ran
      BY <1>1, <1>4, <2>1 DEF Post, Request
    <3>2. \A r \in request'[m].chan : r[1] = a => r[2] \in {None, ran'[a][m]}
      BY <1>2, <3>1 DEF Heard
    <3>3. Untouched(a, m) => Untouched(a, m)'
      BY DEF Untouched, Keeps
    <3> QED BY <1>2, <2>1, <3>1, <3>2, <3>3 DEF Heard, Refused
  <2>2. CASE ~(n = m /\ request[m].pc = "wait"
               /\ request' = [request EXCEPT ![m].chan = @ \cup {<<b, ran[b][m]>>}])
    BY <1>1, <1>3, <1>4, <2>2 DEF Post
  <2> QED BY <2>1, <2>2
<1>5. CASE HubRestarts
  <2>1. CASE request[m].pc \in {"list", "queue", "wait"}
    <3>1. /\ request'[m].pc = "cut" /\ request'[m].chan = {}
          /\ request'[m].got[a] = None
      BY <1>5, <2>1 DEF HubRestarts, NewRequest
    <3> QED BY <3>1 DEF Heard, Refused
  <2>2. CASE request[m].pc \notin {"list", "queue", "wait"}
    BY <1>3, <1>5, <2>2 DEF HubRestarts
  <2> QED BY <2>1, <2>2
<1> QED BY <1>3, <1>4, <1>5
        DEF HubStep, AgentStep, Run, PostFails, AgentRestarts, DeleteAgent, Forget

(* Every step keeps the invariant.                                         *)
LEMMA CopyInvStep ==
  ASSUME TypeOK, CopyInv, ForgetInv, [Next]_vars PROVE CopyInv'
<1> SUFFICES ASSUME NEW a \in Agents, NEW m \in Messages
             PROVE  OneCopy(a, m)' /\ Heard(a, m)' /\ Refused(a, m)'
  BY DEF CopyInv
<1>1. OneCopy(a, m)' /\ (Keeps(a, m) \/ (QueueFor(m) /\ a \in request[m].listed))
  BY CopyStep DEF ForgetInv
<1>2. ASSUME NEW n \in Messages, RelayStep(n) PROVE Heard(a, m)' /\ Refused(a, m)'
  BY <1>1, <1>2, HeardServing DEF RelayStep, Serving
<1>3. ASSUME request' = request, ~QueueFor(m) PROVE Heard(a, m)' /\ Refused(a, m)'
  BY <1>1, <1>3, HeardStill DEF CopyInv
<1>4. request' = request => ~QueueFor(m)
  <2>1. QueueFor(m) => request[m].pc = "queue" /\ request'[m].pc = "wait"
    BY QueueForRequest
  <2> QED BY <2>1
<1>5. ASSUME NEW p \in Polls, PollStep(p) PROVE request' = request
  BY <1>5 DEF PollStep, StartPoll, PollAuth, PollEnter, PollTake, PollSleeps, PollWoken,
              PollEmpty, PollDelivers, PollLoses, PollAbandoned, Leave
<1>6. CASE HubStep \/ \E b \in Agents : AgentStep(b)
  <2>1. CASE QueueFor(m)
    BY <1>1, <2>1, HeardServing
  <2>2. CASE ~QueueFor(m)
    BY <1>1, <1>6, <2>2, HeardOthers
  <2> QED BY <2>1, <2>2
<1>7. CASE UNCHANGED vars
  <2>1. request' = request
    BY <1>7 DEF vars
  <2>2. ~QueueFor(m)
    BY <1>4, <2>1
  <2>3. Heard(a, m)' /\ Refused(a, m)'
    BY <1>3, <2>1, <2>2
  <2> QED BY <1>1, <2>3
<1>8. ASSUME NEW p \in Polls, PollStep(p) PROVE Heard(a, m)' /\ Refused(a, m)'
  BY <1>3, <1>4, <1>5, <1>8
<1> QED BY <1>1, <1>2, <1>6, <1>7, <1>8 DEF Next

(* Nobody has a webhook in the beginning.                                  *)
LEMMA CopyStarts == ASSUME Init PROVE CopyInv
<1>1. ASSUME NEW a \in Agents, NEW m \in Messages
      PROVE  OneCopy(a, m) /\ Heard(a, m) /\ Refused(a, m)
  <2>1. \A e \in {0, 1}, i \in 1..MaxQueue : ~QueuedAt(a, m, e, i)
    BY DEF Init, QueuedAt, Conns
  <2>2. \A p \in Polls : ~Batched(p, a, m)
    BY DEF Init, Batched, NoPoll
  <2>3. ~Somewhere(a, m)
    BY <2>1, <2>2 DEF Init, Somewhere, InQueue, InBatch, InHand
  <2>4. ran[a][m] = None /\ request[m].pc = "new" /\ request[m].got[a] = None
        /\ request[m].chan = {}
    BY DEF Init, NewRequest
  <2>5. OneCopy(a, m)
    BY <2>1, <2>2, <2>3, <2>4 DEF OneCopy, Somewhere
  <2> QED BY <2>3, <2>4, <2>5 DEF Heard, Untouched, Refused
<1> QED BY <1>1 DEF CopyInv

(* All of it.                                                              *)
LEMMA CopyInvariant == Spec => []CopyInv
BY CopyStarts, CopyInvStep, ForgetInvariant, TypeCorrect, PTL DEF Spec

(* Hub.take, HandlePoll and Client.process: whatever polls are given up,   *)
(* served twice or restarted, an agent runs a webhook once at most.        *)
THEOREM RunsOnce == Spec => []AtMostOnce
BY CopyInvariant, CopySuffices, TypeCorrect, PTL

(* relayResponse: a sender that was told anything but "accepted" can rely  *)
(* on it, although Relay counts answers and gives up after relayWait.      *)
THEOREM RefusedForGood == Spec => []RefusalIsFinal
BY CopyInvariant, CopySuffices, TypeCorrect, PTL

(***************************************************************************)
(* The relay implements Delivery.                                          *)
(***************************************************************************)

Early(m) == request[m].pc \in {"new", "list", "queue"}

(* A sender has one answer, at the end.                                    *)
AnsweredInv == \A m \in Messages : request[m].pc # "answered" => request[m].answer = None

(* The steps that answer a sender.                                         *)
Answering(m) == ListNone(m) \/ RelayDone(m) \/ RelayTimeout(m)

(* A request goes on: it is queued once, and has one answer, at the end.   *)
Serves(m) ==
  /\ Early(m)' => Early(m) /\ ~QueueFor(m)
  /\ request'[m].pc # "answered" => request[m].pc # "answered" /\ request'[m].answer = None
  /\ request'[m].answer = request[m].answer \/ Answering(m)

(* A copy is in one of the places.                                         *)
LEMMA HasCopySomewhere ==
  ASSUME TypeOK, NEW a \in Agents, NEW m \in Messages
  PROVE  HasCopy(a, m) <=> Somewhere(a, m)
<1>1. ASSUME NEW e \in {0, 1}
      PROVE  m \in Queued(<<a, e>>) <=> \E i \in 1..MaxQueue : QueuedAt(a, m, e, i)
  <2>1. <<a, e>> \in Conns /\ queue[<<a, e>>] \in Seq(Messages) /\ Len(queue[<<a, e>>]) <= MaxQueue
    BY DEF TypeOK, Conns
  <2>2. DOMAIN queue[<<a, e>>] \subseteq 1..MaxQueue
    BY <2>1, MaxQueueAssumption
  <2> QED BY <2>2 DEF Queued, QueuedAt
<1> QED BY <1>1 DEF HasCopy, Somewhere, InQueue, InBatch, InHand, Batched

(* The copies and the answers are what Delivery takes them for.            *)
LEMMA CopyOfType ==
  ASSUME TypeOK, NEW a \in Agents, NEW m \in Messages
  PROVE  CopyOf(a, m) \in {"unsent", "waiting", "gone"} \cup Statuses
BY DEF TypeOK, CopyOf, Outcomes

LEMMA CopyStateType == TypeOK => CopyState \in Copies!Copies
BY CopyOfType DEF CopyState, Copies!Copies

LEMMA CopyStateTypeThen == (TypeOK => CopyState \in Copies!Copies)'
BY CopyStateType, PTL

(* Every step serves the requests like that.                               *)
LEMMA RequestsServe ==
  ASSUME TypeOK, AnsweredInv, [Next]_vars, NEW m \in Messages
  PROVE  Serves(m)
<1>1. /\ request \in [Messages -> Request] /\ request[m] \in Request
      /\ request[m].pc # "answered" => request[m].answer = None
  BY DEF TypeOK, AnsweredInv
<1>2. CASE request'[m].pc = request[m].pc /\ request'[m].answer = request[m].answer
  <2>1. ~QueueFor(m)
    BY <1>2, QueueForRequest
  <2> QED BY <1>1, <1>2, <2>1 DEF Serves, Early
<1>3. ASSUME NEW n \in Messages, RelayStep(n) PROVE Serves(m)
  <2>1. CASE m # n
    <3>1. request'[m] = request[m]
      BY <1>1, <1>3, <2>1, AnswerLeaves, QueueForRequest
         DEF RelayStep, Receive, List, ListNone, Collect, RelayDone, RelayTimeout
    <3> QED BY <1>2, <3>1
  <2>2. CASE m = n /\ (Receive(m) \/ List(m))
    <3>1. /\ request[m].pc \in {"new", "list"} /\ request'[m].pc \in {"list", "queue"}
          /\ request'[m].answer = request[m].answer
      BY <1>1, <2>2 DEF Receive, List, Request
    <3>2. ~QueueFor(m)
      BY <3>1, QueueForRequest
    <3> QED BY <1>1, <3>1, <3>2 DEF Serves, Early
  <2>3. CASE m = n /\ QueueFor(m)
    <3>1. PICK online : request' = [request EXCEPT ![m].pc = "wait", ![m].awaited = online]
      BY <2>3 DEF QueueFor
    <3>2. request'[m].pc = "wait" /\ request'[m].answer = request[m].answer
      BY <1>1, <3>1 DEF Request
    <3>3. request[m].pc = "queue"
      BY <2>3 DEF QueueFor
    <3> QED BY <1>1, <3>2, <3>3 DEF Serves, Early
  <2>4. CASE m = n /\ Collect(m)
    <3>1. request'[m].pc = request[m].pc /\ request'[m].answer = request[m].answer
      BY <1>1, <2>4 DEF Collect, Request
    <3> QED BY <1>2, <3>1
  <2>5. CASE m = n /\ Answering(m)
    <3>1. request'[m].pc = "answered"
      BY <1>1, <2>5, AnswerLeaves DEF Answering, ListNone, RelayDone, RelayTimeout
    <3> QED BY <2>5, <3>1 DEF Serves, Early
  <2> QED BY <1>3, <2>1, <2>2, <2>3, <2>4, <2>5 DEF RelayStep, Answering
<1>4. ASSUME NEW p \in Polls, PollStep(p) PROVE Serves(m)
  BY <1>2, <1>4 DEF PollStep, StartPoll, PollAuth, PollEnter, PollTake, PollSleeps, PollWoken,
                    PollEmpty, PollDelivers, PollLoses, PollAbandoned, Leave
<1>5. ASSUME NEW b \in Agents, AgentStep(b) PROVE Serves(m)
  <2>1. ASSUME NEW n \in Messages, Post(b, n) PROVE Serves(m)
    <3>1. request'[m].pc = request[m].pc /\ request'[m].answer = request[m].answer
      BY <1>1, <2>1 DEF Post, Request
    <3> QED BY <1>2, <3>1
  <2> QED BY <1>2, <1>5, <2>1 DEF AgentStep, Run, PostFails, AgentRestarts
<1>6. CASE HubStep
  <2>1. CASE HubRestarts /\ request[m].pc \in {"list", "queue", "wait"}
    <3>1. request'[m].pc = "cut" /\ request'[m].answer = None
      BY <1>1, <2>1 DEF HubRestarts, NewRequest
    <3> QED BY <1>1, <2>1, <3>1 DEF Serves, Early
  <2>2. CASE HubRestarts /\ request[m].pc \notin {"list", "queue", "wait"}
    <3>1. request'[m] = request[m]
      BY <1>1, <2>2 DEF HubRestarts
    <3> QED BY <1>2, <3>1
  <2> QED BY <1>2, <1>6, <2>1, <2>2 DEF HubStep, DeleteAgent, Forget
<1>7. CASE UNCHANGED vars
  BY <1>2, <1>7 DEF vars
<1> QED BY <1>3, <1>4, <1>5, <1>6, <1>7 DEF Next

LEMMA AnsweredStep ==
  ASSUME TypeOK, AnsweredInv, [Next]_vars PROVE AnsweredInv'
BY RequestsServe DEF AnsweredInv, Serves

(***************************************************************************)
(* One copy under a step.                                                  *)
(***************************************************************************)

(* CopyOf in the words of CopyInv.                                         *)
CopyMeans(a, m) ==
  /\ ran[a][m] # None => CopyOf(a, m) = ran[a][m]
  /\ Somewhere(a, m) => CopyOf(a, m) = "waiting" /\ ran[a][m] = None
  /\ Early(m) => CopyOf(a, m) = "unsent" /\ Untouched(a, m)
  /\ ~Early(m) /\ Untouched(a, m) => CopyOf(a, m) = "gone"

LEMMA CopyOfMeans ==
  TypeOK /\ CopyInv => \A a \in Agents, m \in Messages : CopyMeans(a, m)
<1> SUFFICES ASSUME TypeOK, CopyInv, NEW a \in Agents, NEW m \in Messages
             PROVE  CopyMeans(a, m)
  OBVIOUS
<1>1. OneCopy(a, m) /\ Heard(a, m)
  BY DEF CopyInv
<1>2. HasCopy(a, m) <=> Somewhere(a, m)
  BY HasCopySomewhere
<1>3. Early(m) => Untouched(a, m)
  BY <1>1 DEF Heard, Early
<1>4. Somewhere(a, m) => ran[a][m] = None
  BY <1>1 DEF OneCopy
<1> QED BY <1>2, <1>3, <1>4 DEF CopyMeans, CopyOf, Untouched, Early

(* So it does in the next state.                                           *)
LEMMA CopyOfMeansThen ==
  (TypeOK /\ CopyInv => \A a \in Agents, m \in Messages : CopyMeans(a, m))'
BY CopyOfMeans, PTL

(* What a copy is not.                                                     *)
LEMMA CopyLevels ==
  ASSUME TypeOK, CopyInv, NEW a \in Agents, NEW m \in Messages
  PROVE  /\ CopyOf(a, m) = "unsent" <=> Early(m)
         /\ CopyOf(a, m) = "waiting" <=> Somewhere(a, m)
         /\ CopyOf(a, m) \in Statuses => ran[a][m] = CopyOf(a, m)
<1>1. CopyMeans(a, m) /\ ran[a][m] \in Outcomes
  BY CopyOfMeans DEF TypeOK
<1> QED BY <1>1 DEF CopyMeans, Untouched, Outcomes, Statuses, None

(* What was not run in a step stays or gets lost.                          *)
LEMMA CopyStaysOrGoes ==
  ASSUME TypeOK, TypeOK', CopyInv, CopyInv', NEW a \in Agents, NEW m \in Messages,
         Keeps(a, m), Serves(m), ran'[a][m] = ran[a][m]
  PROVE  \/ CopyOf(a, m)' = CopyOf(a, m)
         \/ CopyOf(a, m) \in {"unsent", "waiting"} /\ CopyOf(a, m)' = "gone"
<1>1. CopyMeans(a, m) /\ CopyMeans(a, m)'
  BY CopyOfMeans, CopyOfMeansThen
<1>2. CASE ran[a][m] # None
  BY <1>1, <1>2 DEF CopyMeans
<1>3. CASE ran[a][m] = None /\ Somewhere(a, m)'
  BY <1>1, <1>3 DEF CopyMeans, Keeps
<1>4. CASE ran[a][m] = None /\ ~Somewhere(a, m)'
  <2>1. Untouched(a, m)'
    BY <1>4 DEF Untouched
  <2>2. CASE Early(m)'
    BY <1>1, <2>2 DEF CopyMeans, Serves
  <2>3. CASE ~Early(m)'
    <3>1. CopyOf(a, m)' = "gone"
      BY <1>1, <2>1, <2>3 DEF CopyMeans
    <3>2. CopyOf(a, m) \in {"unsent", "waiting", "gone"}
      BY <1>1, <1>4 DEF CopyMeans, Untouched
    <3> QED BY <3>1, <3>2
  <2> QED BY <2>2, <2>3
<1> QED BY <1>2, <1>3, <1>4

(***************************************************************************)
(* The steps of the relay are steps of Delivery.                           *)
(***************************************************************************)

DeliveryNext == Copies!Next \/ UNCHANGED <<CopyState, Answers>>

(* An agent's copy in CopyState.                                           *)
LEMMA CopyStateAt ==
  /\ \A a \in Agents, m \in Messages : CopyState[a][m] = CopyOf(a, m)
  /\ \A a \in Agents, m \in Messages : CopyState'[a][m] = CopyOf(a, m)'
BY DEF CopyState

(* Nobody is told anything.                                                *)
LEMMA AnswersStay ==
  ASSUME \A m \in Messages : request'[m].answer = request[m].answer
  PROVE  Answers' = Answers
BY DEF Answers

(* Where copies stay or go.                                                *)
LEMMA CopyStays ==
  ASSUME TypeOK, TypeOK', CopyInv, CopyInv', NEW a \in Agents, NEW m \in Messages,
         Keeps(a, m), Serves(m), ran'[a][m] = ran[a][m]
  PROVE  Copies!StaysOrGoes(a, m)
BY CopyStaysOrGoes, CopyStateAt DEF Copies!StaysOrGoes

(* A step in which no agent runs anything and no webhook is queued.        *)
LEMMA StepLoses ==
  ASSUME TypeOK, TypeOK', CopyInv, CopyInv', ran' = ran,
         \A a \in Agents, m \in Messages : Keeps(a, m) /\ Serves(m),
         \A m \in Messages : request'[m].answer = request[m].answer
  PROVE  Copies!Lose
<1>1. Answers' = Answers
  BY AnswersStay
<1>2. CopyState' \in Copies!Copies
  BY CopyStateTypeThen
<1>3. \A a \in Agents, m \in Messages : Copies!StaysOrGoes(a, m)
  BY CopyStays
<1> QED BY <1>1, <1>2, <1>3 DEF Copies!Lose

(* Hub.Relay sends the webhook around.                                     *)
LEMMA StepSends ==
  ASSUME TypeOK, TypeOK', CopyInv, CopyInv', AnsweredInv, PollsHoldOwnConn, [Next]_vars,
         NEW n \in Messages, QueueFor(n)
  PROVE  Copies!Send(n)
<1>1. /\ request[n].pc = "queue" /\ request'[n].pc = "wait" /\ ran' = ran
      /\ \A m \in Messages \ {n} : request'[m] = request[m]
  BY QueueForRequest
<1>2. \A m \in Messages : Serves(m)
  BY RequestsServe
<1>3. Early(n) /\ ~Early(n)' /\ request[n].answer = None
  BY <1>1 DEF Early, AnsweredInv
<1>4. Answers' = Answers /\ Answers[n] = "none"
  <2>1. ASSUME NEW m \in Messages, Answering(m) PROVE FALSE
    <3>1. request'[m].pc = "answered" /\ request[m].pc \in {"list", "wait"}
      BY <2>1, AnswerLeaves
         DEF TypeOK, Answering, ListNone, RelayDone, RelayTimeout, StillWaits
    <3> QED BY <1>1, <3>1
  <2> QED BY <1>2, <1>3, <2>1, AnswersStay DEF Serves, Answers, None
<1>5. ASSUME NEW a \in Agents
      PROVE  CopyState[a][n] = "unsent" /\ CopyState'[a][n] \in {"waiting", "gone"}
  <2>1. CopyMeans(a, n) /\ CopyMeans(a, n)'
    BY CopyOfMeans, CopyOfMeansThen
  <2>2. ran'[a][n] = None
    BY <1>1, <1>3, <2>1 DEF CopyMeans, Untouched
  <2>3. CopyOf(a, n)' \in {"waiting", "gone"}
    BY <1>3, <2>1, <2>2 DEF CopyMeans, Untouched
  <2> QED BY <1>3, <2>1, <2>3, CopyStateAt DEF CopyMeans
<1>6. ASSUME NEW a \in Agents, NEW m \in Messages \ {n} PROVE Copies!StaysOrGoes(a, m)
  <2>1. ~QueueFor(m)
    <3>1. QueueFor(m) => request[m].pc = "queue" /\ request'[m].pc = "wait"
      BY QueueForRequest
    <3> QED BY <1>1, <3>1
  <2>2. Keeps(a, m)
    BY <2>1, CopyStep
  <2> QED BY <1>1, <1>2, <2>2, CopyStays
<1>7. CopyState' \in Copies!Copies
  BY CopyStateTypeThen
<1> QED BY <1>4, <1>5, <1>6, <1>7 DEF Copies!Send

(* The places of a copy depend on the queues, the polls and the inbox.     *)
LEMMA PlacesStay ==
  ASSUME NEW a \in Agents, NEW m \in Messages, UNCHANGED <<queue, poll, inbox>>
  PROVE  Somewhere(a, m)' <=> Somewhere(a, m)
BY DEF Somewhere, InQueue, InBatch, InHand, QueuedAt, Batched

(* The sender is told what came out.                                       *)
LEMMA StepTells ==
  ASSUME TypeOK, TypeOK', CopyInv, CopyInv', AnsweredInv, PollsHoldOwnConn, [Next]_vars,
         NEW n \in Messages, Answering(n)
  PROVE  \E v \in Statuses : Copies!Tell(n, v)
<1> DEFINE v == request'[n].answer
<1>1. PICK outcomes : Answer(n, outcomes)
  BY DEF Answering, ListNone, RelayDone, RelayTimeout
<1>2. request \in [Messages -> Request] /\ request' \in [Messages -> Request]
  BY DEF TypeOK
<1>3. /\ request'[n].pc = "answered" /\ UNCHANGED <<queue, poll, inbox, ran>>
      /\ \A m \in Messages \ {n} : request'[m] = request[m]
  BY <1>1, <1>2, AnswerLeaves DEF Answer, hub, client
<1>4. request[n].pc \in {"list", "wait"}
  BY DEF Answering, ListNone, RelayDone, RelayTimeout, StillWaits
<1>5. v \in Statuses
  <2>1. PICK local \in {"accepted", "ok", None} : request' = [request EXCEPT ![n] =
           [NewRequest EXCEPT !.pc = "answered", !.answer = Combine(local, outcomes)]]
    BY <1>1 DEF Answer
  <2>2. v = Combine(local, outcomes)
    BY <1>2, <2>1 DEF NewRequest
  <2> QED BY <2>2 DEF Combine, Statuses
<1>6. Answers[n] = "none" /\ Answers' = [Answers EXCEPT ![n] = v]
  BY <1>3, <1>4 DEF AnsweredInv, Answers, None
<1>7. ASSUME v # "accepted", NEW a \in Agents
      PROVE  CopyState[a][n] \notin {"waiting", "accepted"}
  <2>1. ~Somewhere(a, n)' /\ ran'[a][n] # "accepted"
    BY <1>3, <1>7 DEF CopyInv, Refused
  <2>2. ~Somewhere(a, n) /\ ran[a][n] # "accepted"
    BY <1>3, <2>1, PlacesStay
  <2> QED BY <2>2, CopyLevels, CopyStateAt DEF Statuses
<1>8. ASSUME NEW a \in Agents PROVE CopyState'[a][n] # "unsent"
  <2>1. CopyMeans(a, n)' /\ ran'[a][n] \in Outcomes
    BY CopyOfMeansThen DEF TypeOK
  <2>2. ~Early(n)'
    BY <1>3 DEF Early
  <2>3. CopyOf(a, n)' # "unsent"
    BY <2>1, <2>2 DEF CopyMeans, Untouched, Outcomes, Statuses, None
  <2> QED BY <2>3, CopyStateAt
<1>9. ASSUME NEW a \in Agents, NEW m \in Messages PROVE Copies!StaysOrGoes(a, m)
  <2>1. Keeps(a, m)
    BY <1>3, CopiesStay DEF CopyInv
  <2> QED BY <1>3, <2>1, RequestsServe, CopyStays
<1>10. CopyState' \in Copies!Copies
  BY CopyStateTypeThen
<1> HIDE DEF v
<1> QED BY <1>5, <1>6, <1>7, <1>8, <1>9, <1>10 DEF Copies!Tell

(* Client.process runs the copy that the agent has in hand.                *)
LEMMA StepRuns ==
  ASSUME TypeOK, CopyInv, NEW b \in Agents, NEW n \in Messages, Run(b, n)
  PROVE  Copies!RunCopy(b, n)
<1>1. PICK s \in Statuses : ran' = [ran EXCEPT ![b][n] = s]
  BY DEF Run
<1>2. /\ ran \in [Agents -> [Messages -> Outcomes]] /\ s # None
      /\ UNCHANGED <<queue, poll, request>> /\ inbox' = inbox \ {<<b, n>>}
  BY DEF TypeOK, Run, hub, Statuses, None
<1>3. CopyState[b][n] = "waiting"
  <2>1. Somewhere(b, n)
    BY DEF Run, Somewhere, InHand
  <2> QED BY <2>1, CopyLevels, CopyStateAt
<1>4. ASSUME NEW a \in Agents, NEW m \in Messages
      PROVE  CopyOf(a, m)' = IF a = b /\ m = n THEN s ELSE CopyOf(a, m)
  <2>1. CASE a = b /\ m = n
    <3>1. ran'[b][n] = s
      BY <1>1, <1>2
    <3> QED BY <1>2, <2>1, <3>1 DEF CopyOf
  <2>2. CASE ~(a = b /\ m = n)
    <3>1. ran'[a][m] = ran[a][m]
      BY <1>1, <1>2, <2>2
    <3>2. HasCopy(a, m)' <=> HasCopy(a, m)
      BY <1>2, <2>2 DEF HasCopy, Queued
    <3> QED BY <1>2, <2>2, <3>1, <3>2 DEF CopyOf
  <2> QED BY <2>1, <2>2
<1>5. CopyState' = [CopyState EXCEPT ![b][n] = s]
  BY <1>4 DEF CopyState
<1>6. Answers' = Answers
  BY <1>2 DEF Answers
<1> QED BY <1>1, <1>3, <1>5, <1>6 DEF Copies!RunCopy

(* Every step of the relay is a step of Delivery.                          *)
LEMMA DeliverySteps ==
  ASSUME TypeOK, TypeOK', CopyInv, CopyInv', AnsweredInv, PollsHoldOwnConn, [Next]_vars
  PROVE  DeliveryNext
<1>1. CASE \E n \in Messages : QueueFor(n)
  BY <1>1, StepSends DEF DeliveryNext, Copies!Next
<1>2. CASE \E n \in Messages : Answering(n)
  BY <1>2, StepTells DEF DeliveryNext, Copies!Next
<1>3. CASE \E b \in Agents, n \in Messages : Run(b, n)
  BY <1>3, StepRuns DEF DeliveryNext, Copies!Next
<1>4. CASE ran' = ran /\ \A m \in Messages : ~QueueFor(m) /\ ~Answering(m)
  <2>1. \A a \in Agents, m \in Messages : Keeps(a, m) /\ Serves(m)
    BY <1>4, CopyStep, RequestsServe
  <2>2. \A m \in Messages : request'[m].answer = request[m].answer
    BY <1>4, RequestsServe DEF Serves
  <2>3. Copies!Lose
    BY <1>4, <2>1, <2>2, StepLoses
  <2> QED BY <2>3 DEF DeliveryNext, Copies!Next
<1>5. ASSUME ~\E b \in Agents, n \in Messages : Run(b, n) PROVE ran' = ran
  <2>1. ASSUME NEW m \in Messages, RelayStep(m) PROVE ran' = ran
    BY <2>1, ServingType, QueueForRequest DEF RelayStep, Serving, client
  <2>2. ASSUME NEW p \in Polls, PollStep(p) PROVE ran' = ran
    BY <2>2 DEF PollStep, StartPoll, PollAuth, PollEnter, PollTake, PollSleeps, PollWoken,
                PollEmpty, PollDelivers, PollLoses, PollAbandoned, Leave, client
  <2>3. ASSUME NEW a \in Agents, AgentStep(a) PROVE ran' = ran
    BY <1>5, <2>3 DEF AgentStep, Post, PostFails, AgentRestarts
  <2>4. CASE HubStep
    BY <2>4 DEF HubStep, DeleteAgent, Forget, HubRestarts, client
  <2> QED BY <2>1, <2>2, <2>3, <2>4 DEF Next, vars, client
<1> QED BY <1>1, <1>2, <1>3, <1>4, <1>5

(* In the beginning nothing is sent and nobody is told anything.           *)
LEMMA DeliveryStarts == ASSUME Init PROVE Copies!Init /\ AnsweredInv
<1>1. ASSUME NEW a \in Agents, NEW m \in Messages PROVE CopyOf(a, m) = "unsent"
  <2>1. CopyMeans(a, m)
    BY InitType, CopyStarts, CopyOfMeans
  <2>2. Early(m)
    BY DEF Init, NewRequest, Early
  <2> QED BY <2>1, <2>2 DEF CopyMeans
<1>2. CopyState = [a \in Agents |-> [m \in Messages |-> "unsent"]]
  BY <1>1 DEF CopyState
<1>3. Answers = [m \in Messages |-> "none"] /\ AnsweredInv
  BY DEF Init, NewRequest, Answers, AnsweredInv, None
<1> QED BY <1>2, <1>3 DEF Copies!Init

(* Hub and agents deliver as Delivery promises: whatever polls overlap,    *)
(* answers come late, agents are deleted and processes restart, a webhook  *)
(* is sent around once, each copy of it is run once or lost for good, and  *)
(* the sender's one answer is true of every agent's copy.                  *)
THEOREM RelayImplements == Spec => ImplementsDelivery
<1>1. Init => Copies!Init /\ AnsweredInv
  BY DeliveryStarts
<1>2. TypeOK /\ AnsweredInv /\ [Next]_vars => AnsweredInv'
  BY AnsweredStep
<1>3. TypeOK /\ TypeOK' /\ CopyInv /\ CopyInv' /\ AnsweredInv /\ ForgetInv /\ [Next]_vars
        => [Copies!Next]_Copies!deliveryVars
  BY DeliverySteps DEF DeliveryNext, ForgetInv, Copies!deliveryVars
<1> QED BY <1>1, <1>2, <1>3, TypeCorrect, CopyInvariant, ForgetInvariant, PTL
        DEF Spec, ImplementsDelivery, Copies!Spec
=============================================================================
