-------------------------------- MODULE Relay --------------------------------
(***************************************************************************)
(* Webhook relaying: a hub (internal/relay/hub.go, and fanOut of           *)
(* internal/httpapi/hooks.go) queues every webhook for every registered    *)
(* agent; the agents (internal/relay/client.go) long-poll the hub, run the *)
(* webhook and post what came out of it; the webhook's sender is told the  *)
(* combined outcome.                                                       *)
(*                                                                         *)
(* Each action is one critical section of Hub.mu, one read of the agents   *)
(* table, or one message of a poll, between which any other goroutine,     *)
(* agent or fault can come in.  Row ids of agents are not reused here: an  *)
(* agent is registered from the start and may be deleted once.             *)
(*                                                                         *)
(* Hub.conns is a map from an agent id to a *conn.  Forget is the only     *)
(* operation that removes an entry, so agent a's conn is the object        *)
(* <<a, 0>> until Forget(a) and <<a, 1>> after it; an entry that is        *)
(* missing from the map and a fresh conn are the same thing.               *)
(***************************************************************************)
EXTENDS Naturals, Sequences, FiniteSets

CONSTANTS
  Agents,    (* agents, by id; their names are as unique.                  *)
  Messages,  (* the webhooks the hub receives, by message id.              *)
  Polls,     (* the hub's handler goroutines for GET /agent/v1/poll.       *)
  MaxQueue   (* undelivered messages kept per agent (100 in the code).     *)

ASSUME MaxQueueAssumption == MaxQueue \in Nat \ {0}

VARIABLES
  agents,    (* persistent: the rows of the agents table.                  *)
  doomed,    (* deleteAgent handlers between the DELETE and Forget.        *)
  forgotten, (* agents that Forget was called for.                         *)
  queue,     (* queue[c]: conn.queue.                                      *)
  wake,      (* wake[c]: whether the one slot of conn.wake is taken.       *)
  seen,      (* seen[c]: conn.lastSeen is set.                             *)
  poll,      (* poll[p]: a HandlePoll in progress.                         *)
  request,   (* request[m]: the webhook m and the Relay that serves it.    *)
  inbox,     (* <<a, m>>: agent a got m and has not run it.                *)
  posting,   (* <<a, m>>: agent a has run m and not yet posted the result. *)
  ran        (* ran[a][m]: the status of webhook m on agent a.             *)

hub == <<doomed, forgotten, queue, wake, seen>>

client == <<inbox, posting, ran>>

vars == <<agents, hub, poll, request, client>>

(***************************************************************************)
(* Types.                                                                  *)
(***************************************************************************)

Conns == Agents \X {0, 1}

(* What a webhook receiver answers: a deploy is on its way, nothing to do  *)
(* (or an error), no app for this webhook.                                 *)
Statuses == {"accepted", "ok", "notfound"}

None == "none"

Outcomes == Statuses \cup {None}

PollPCs == {"auth", "enter", "take", "select", "wait", "reply"}

Poll == [pc    : PollPCs,
         agent : Agents,
         conn  : Conns,
         alive : BOOLEAN,            (* the agent still reads the response *)
         batch : SUBSET Messages]

NoPoll == [pc |-> "off"]

RequestPCs == {"new", "list", "queue", "wait", "answered", "cut"}

(* awaited are the agents that Relay found connected; the code keeps their *)
(* number, `online`.                                                       *)
Request == [pc      : RequestPCs,
            listed  : SUBSET Agents,
            awaited : SUBSET Agents,
            chan    : SUBSET (Agents \X Outcomes),
            got     : [Agents -> Outcomes],
            answer  : Outcomes]

TypeOK ==
  /\ agents \subseteq Agents
  /\ doomed \subseteq Agents
  /\ forgotten \subseteq Agents
  /\ queue \in [Conns -> Seq(Messages)]
  /\ \A c \in Conns : Len(queue[c]) <= MaxQueue
  /\ wake \in [Conns -> BOOLEAN]
  /\ seen \in [Conns -> BOOLEAN]
  /\ poll \in [Polls -> Poll \cup {NoPoll}]
  /\ request \in [Messages -> Request]
  /\ inbox \subseteq Agents \X Messages
  /\ posting \subseteq Agents \X Messages
  /\ ran \in [Agents -> [Messages -> Outcomes]]

NewRequest ==
  [pc |-> "new", listed |-> {}, awaited |-> {}, chan |-> {},
   got |-> [a \in Agents |-> None], answer |-> None]

Init ==
  /\ agents = Agents
  /\ doomed = {}
  /\ forgotten = {}
  /\ queue = [c \in Conns |-> <<>>]
  /\ wake = [c \in Conns |-> FALSE]
  /\ seen = [c \in Conns |-> FALSE]
  /\ poll = [p \in Polls |-> NoPoll]
  /\ request = [m \in Messages |-> NewRequest]
  /\ inbox = {}
  /\ posting = {}
  /\ ran = [a \in Agents |-> [m \in Messages |-> None]]

(* The conn that Hub.conn(a) returns.                                      *)
ConnOf(a) == <<a, IF a \in forgotten THEN 1 ELSE 0>>

(* HandlePolls that count in conn.polling.                                 *)
Inside(c) ==
  {p \in Polls : /\ poll[p].pc \in {"take", "select", "wait", "reply"}
                 /\ poll[p].conn = c}

(* The agents of S that connected(c) finds connected: those with a poll on *)
(* the hub, and among those without one any that was seen, depending on    *)
(* whether that was less than 2*pollWait ago.                              *)
ConnectedAmong(S) ==
  LET polling == {a \in S : Inside(ConnOf(a)) # {}}
      known   == {a \in S : seen[ConnOf(a)]}
  IN  {T \in SUBSET S : polling \subseteq T /\ T \subseteq polling \cup known}

(***************************************************************************)
(* The webhook: hookDockerHub or hookGitHub, fanOut and Hub.Relay.         *)
(***************************************************************************)

(* The receiver finds that there are agents to relay to.                   *)
Receive(m) ==
  /\ request[m].pc = "new"
  /\ agents # {}
  /\ request' = [request EXCEPT ![m].pc = "list"]
  /\ UNCHANGED <<agents, hub, poll, client>>

(* Mutated form: an agent that has not answered does not count.            *)
CombineAnswered(local, outcomes) ==
  IF "accepted" \in outcomes \/ local = "accepted" THEN "accepted"
  ELSE IF local = "ok" \/ "ok" \in outcomes THEN "ok"
  ELSE "notfound"

(* relayResponse, from what the hub's own app made of the webhook (None    *)
(* without an app) and what each listed agent did (None without an answer).*)
Combine(local, outcomes) ==
  IF None \in outcomes \/ "accepted" \in outcomes \/ local = "accepted"
    THEN "accepted"
  ELSE IF local = "ok" \/ "ok" \in outcomes THEN "ok"
  ELSE "notfound"

(* The sender gets its answer, and Relay and its waiter are gone.  fanOut  *)
(* ran the webhook on the hub's own app in the meantime.                   *)
Answer(m, outcomes) ==
  /\ \E local \in {"accepted", "ok", None} :
       request' = [request EXCEPT ![m] =
         [NewRequest EXCEPT !.pc = "answered", !.answer = Combine(local, outcomes)]]
  /\ UNCHANGED <<agents, hub, poll, client>>

(* ListAgents, before Hub.mu is taken.                                     *)
List(m) ==
  /\ request[m].pc = "list"
  /\ agents # {}
  /\ request' = [request EXCEPT ![m].pc = "queue", ![m].listed = agents]
  /\ UNCHANGED <<agents, hub, poll, client>>

(* The last agent was deleted since the receiver looked.                   *)
ListNone(m) ==
  /\ request[m].pc = "list"
  /\ agents = {}
  /\ Answer(m, {})

(* Mutated form: the cap on an offline agent's queue is forgotten.         *)
Everything(s) == s

(* c.queue[len(c.queue)-maxQueue:], the newest of them.                    *)
Newest(s) ==
  IF Len(s) > MaxQueue THEN SubSeq(s, Len(s) - MaxQueue + 1, Len(s)) ELSE s

(* Mutated form: conn.wake is unbuffered, and the signal is lost unless a  *)
(* poll is in the select.                                                  *)
SignalledUnbuffered(c) == \E p \in Inside(c) : poll[p].pc = "wait"

(* The non-blocking send on conn.wake, whose one slot keeps the signal for *)
(* a poll that is on its way from take to the select.                      *)
Signalled(c) == TRUE

QueueFor(m) ==
  LET cs == {ConnOf(a) : a \in request[m].listed} IN
  /\ request[m].pc = "queue"
  /\ queue' = [c \in Conns |->
       IF c \in cs THEN Newest(Append(queue[c], m)) ELSE queue[c]]
  /\ wake' = [c \in Conns |->
       IF c \in cs /\ Signalled(c) THEN TRUE ELSE wake[c]]
  /\ \E online \in ConnectedAmong(request[m].listed) :
       request' = [request EXCEPT ![m].pc = "wait", ![m].awaited = online]
  /\ UNCHANGED <<agents, doomed, forgotten, seen, poll, client>>

GotFrom(m) == {a \in Agents : request[m].got[a] # None}

(* for len(got) < online.                                                  *)
StillWaits(m) ==
  /\ request[m].pc = "wait"
  /\ Cardinality(GotFrom(m)) < Cardinality(request[m].awaited)

Collect(m) ==
  /\ StillWaits(m)
  /\ \E r \in request[m].chan :
       request' = [request EXCEPT ![m].chan = @ \ {r}, ![m].got[r[1]] = r[2]]
  /\ UNCHANGED <<agents, hub, poll, client>>

ReportsOf(m) == {request[m].got[a] : a \in request[m].listed}

(* Relay has as many answers as there were connected agents.               *)
RelayDone(m) ==
  /\ request[m].pc = "wait"
  /\ ~StillWaits(m)
  /\ Answer(m, ReportsOf(m))

(* Mutated form: a webhook that was not answered in time is relayed anew.  *)
RelayTimeoutRetries(m) ==
  /\ StillWaits(m)
  /\ request' = [request EXCEPT ![m].pc = "list"]
  /\ UNCHANGED <<agents, hub, poll, client>>

(* relayWait is over.                                                      *)
RelayTimeout(m) ==
  /\ StillWaits(m)
  /\ Answer(m, ReportsOf(m))

(***************************************************************************)
(* The long poll: HandlePoll on the hub, Client.Run on the agent.          *)
(***************************************************************************)

(* Client.Run has one poll at a time.  The hub may still serve one that    *)
(* the agent has given up.                                                 *)
StartPoll(a, p) ==
  /\ poll[p].pc = "off"
  /\ \A q \in Polls : poll[q].pc # "off" /\ poll[q].agent = a => ~poll[q].alive
  /\ poll' = [poll EXCEPT ![p] =
       [pc |-> "auth", agent |-> a, conn |-> <<a, 0>>, alive |-> TRUE,
        batch |-> {}]]
  /\ UNCHANGED <<agents, hub, request, client>>

(* authAgent: a deleted agent is turned away.                              *)
PollAuth(p) ==
  /\ poll[p].pc = "auth"
  /\ poll' = [poll EXCEPT ![p] =
       IF @.agent \in agents THEN [@ EXCEPT !.pc = "enter"] ELSE NoPoll]
  /\ UNCHANGED <<agents, hub, request, client>>

PollEnter(p) ==
  LET c == ConnOf(poll[p].agent) IN
  /\ poll[p].pc = "enter"
  /\ poll' = [poll EXCEPT ![p].pc = "take", ![p].conn = c]
  /\ seen' = [seen EXCEPT ![c] = TRUE]
  /\ UNCHANGED <<agents, doomed, forgotten, queue, wake, request, client>>

Queued(c) == {queue[c][i] : i \in DOMAIN queue[c]}

(* Mutated form: take reads the queue and leaves it.                       *)
UntakenCopied(c) == queue[c]

(* The queue that Hub.take leaves.                                         *)
Untaken(c) == <<>>

(* The messages of c past queueTTL: the oldest, some or none, of webhooks  *)
(* that were answered long ago.                                            *)
Expired(c) ==
  {{queue[c][i] : i \in 1..n} : n \in
     {n \in 0..Len(queue[c]) :
        \A i \in 1..n : request[queue[c][i]].pc = "answered"}}

(* Hub.take drops what has expired and removes the rest.                   *)
PollTake(p) ==
  LET c == poll[p].conn IN
  /\ poll[p].pc = "take"
  /\ \E expired \in Expired(c) :
       LET batch == Queued(c) \ expired IN
       poll' = [poll EXCEPT ![p].batch = batch,
                            ![p].pc = IF batch = {} THEN "select" ELSE "reply"]
  /\ queue' = [queue EXCEPT ![c] = Untaken(c)]
  /\ UNCHANGED <<agents, doomed, forgotten, wake, seen, request, client>>

(* Hub.mu was released at the end of take; now the poll blocks.            *)
PollSleeps(p) ==
  /\ poll[p].pc = "select"
  /\ poll' = [poll EXCEPT ![p].pc = "wait"]
  /\ UNCHANGED <<agents, hub, request, client>>

PollWoken(p) ==
  LET c == poll[p].conn IN
  /\ poll[p].pc = "wait"
  /\ wake[c]
  /\ wake' = [wake EXCEPT ![c] = FALSE]
  /\ poll' = [poll EXCEPT ![p].pc = "take"]
  /\ UNCHANGED <<agents, doomed, forgotten, queue, seen, request, client>>

(* HandlePoll returns; its deferred function counts it out.                *)
Leave(p) ==
  /\ poll' = [poll EXCEPT ![p] = NoPoll]
  /\ seen' = [seen EXCEPT ![poll[p].conn] = TRUE]
  /\ UNCHANGED <<agents, doomed, forgotten, queue, wake, request>>

(* pollWait passes with an empty batch, or the agent's request is gone.    *)
PollEmpty(p) ==
  /\ poll[p].pc = "wait"
  /\ Leave(p)
  /\ UNCHANGED client

(* The batch is written and read: Client.Run starts a goroutine for each.  *)
PollDelivers(p) ==
  /\ poll[p].pc = "reply"
  /\ poll[p].alive
  /\ inbox' = inbox \cup ({poll[p].agent} \X poll[p].batch)
  /\ Leave(p)
  /\ UNCHANGED <<posting, ran>>

(* The batch is written to a connection that nobody reads any more, or     *)
(* breaks off in it: what was taken from the queue is gone.                *)
PollLoses(p) ==
  /\ poll[p].pc = "reply"
  /\ Leave(p)
  /\ UNCHANGED client

(* The agent's side of a poll ends: its timeout, a broken connection, or   *)
(* Manager.Apply, which cancels the client to start another one.           *)
PollAbandoned(p) ==
  /\ poll[p].pc # "off"
  /\ poll[p].alive
  /\ poll' = [poll EXCEPT ![p].alive = FALSE]
  /\ UNCHANGED <<agents, hub, request, client>>

(***************************************************************************)
(* The agent runs a webhook (Client.process) and reports (HandleResults).  *)
(***************************************************************************)

(* HandleRelayed, through the agent's own receivers.                       *)
Run(a, m) ==
  /\ <<a, m>> \in inbox
  /\ inbox' = inbox \ {<<a, m>>}
  /\ \E s \in Statuses : ran' = [ran EXCEPT ![a][m] = s]
  /\ posting' = posting \cup {<<a, m>>}
  /\ UNCHANGED <<agents, hub, poll, request>>

(* HandleResults: the send on the waiter's channel does not block.         *)
Post(a, m) ==
  LET q == request[m] IN
  /\ <<a, m>> \in posting
  /\ a \in agents
  /\ posting' = posting \ {<<a, m>>}
  /\ seen' = [seen EXCEPT ![ConnOf(a)] = TRUE]
  /\ request' =
       IF q.pc = "wait" /\ Cardinality(q.chan) < Cardinality(q.listed)
       THEN [request EXCEPT ![m].chan = @ \cup {<<a, ran[a][m]>>}]
       ELSE request
  /\ UNCHANGED <<agents, doomed, forgotten, queue, wake, poll, inbox, ran>>

(* The post fails, or the agent has been deleted.                          *)
PostFails(a, m) ==
  /\ <<a, m>> \in posting
  /\ posting' = posting \ {<<a, m>>}
  /\ UNCHANGED <<agents, hub, poll, request, inbox, ran>>

(* The agent's process ends with webhooks in hand.                         *)
AgentRestarts(a) ==
  /\ inbox' = {x \in inbox : x[1] # a}
  /\ posting' = {x \in posting : x[1] # a}
  /\ poll' = [p \in Polls |->
       IF poll[p].pc # "off" /\ poll[p].agent = a
       THEN [poll[p] EXCEPT !.alive = FALSE] ELSE poll[p]]
  /\ UNCHANGED <<agents, hub, request, ran>>

(***************************************************************************)
(* Administration and restarts of the hub.                                 *)
(***************************************************************************)

DeleteAgent(a) ==
  /\ a \in agents
  /\ agents' = agents \ {a}
  /\ doomed' = doomed \cup {a}
  /\ UNCHANGED <<forgotten, queue, wake, seen, poll, request, client>>

(* Mutated form: Forget only removes the entry of the map.                 *)
DroppedEntry(c) == queue[c]

(* The queue that Forget leaves in a conn that a poll may still hold.      *)
Dropped(c) == <<>>

Forget(a) ==
  LET c == ConnOf(a) IN
  /\ a \in doomed
  /\ doomed' = doomed \ {a}
  /\ forgotten' = forgotten \cup {a}
  /\ queue' = [queue EXCEPT ![c] = Dropped(c)]
  /\ UNCHANGED <<agents, wake, seen, poll, request, client>>

(* Queues, waiters and requests are in memory only.                        *)
HubRestarts ==
  /\ doomed' = {}
  /\ queue' = [c \in Conns |-> <<>>]
  /\ wake' = [c \in Conns |-> FALSE]
  /\ seen' = [c \in Conns |-> FALSE]
  /\ poll' = [p \in Polls |-> NoPoll]
  /\ request' = [m \in Messages |->
       IF request[m].pc \in {"list", "queue", "wait"}
       THEN [NewRequest EXCEPT !.pc = "cut"] ELSE request[m]]
  /\ UNCHANGED <<agents, forgotten, client>>

(***************************************************************************)
(* The specification.                                                      *)
(***************************************************************************)

RelayStep(m) ==
  \/ Receive(m)
  \/ List(m)
  \/ ListNone(m)
  \/ QueueFor(m)
  \/ Collect(m)
  \/ RelayDone(m)
  \/ RelayTimeout(m)

PollStep(p) ==
  \/ \E a \in Agents : StartPoll(a, p)
  \/ PollAuth(p)
  \/ PollEnter(p)
  \/ PollTake(p)
  \/ PollSleeps(p)
  \/ PollWoken(p)
  \/ PollEmpty(p)
  \/ PollDelivers(p)
  \/ PollLoses(p)
  \/ PollAbandoned(p)

AgentStep(a) ==
  \/ \E m \in Messages : Run(a, m) \/ Post(a, m) \/ PostFails(a, m)
  \/ AgentRestarts(a)

HubStep ==
  \/ \E a \in Agents : DeleteAgent(a) \/ Forget(a)
  \/ HubRestarts

Next ==
  \/ \E m \in Messages : RelayStep(m)
  \/ \E p \in Polls : PollStep(p)
  \/ \E a \in Agents : AgentStep(a)
  \/ HubStep

Spec == Init /\ [][Next]_vars

(***************************************************************************)
(* Safety.                                                                 *)
(***************************************************************************)

(* No wake-up is lost between Hub.take and the select of HandlePoll: while *)
(* a poll sleeps, or is about to, on a conn that has messages, the signal  *)
(* is in conn.wake, or another poll of the conn is about to take them.     *)
NoLostWakeup ==
  \A p \in Polls :
    poll[p].pc \in {"select", "wait"} /\ queue[poll[p].conn] # <<>> =>
      \/ wake[poll[p].conn]
      \/ \E q \in Inside(poll[p].conn) : poll[q].pc = "take"

(* Where agent a's copy of webhook m waits to be run: in a queue, in a     *)
(* batch that was taken from one, on the agent.                            *)
Slots(a) == {a} \X {0, 1} \X (1..MaxQueue)

Waiting(a, m) ==
  {s \in Slots(a) :
     LET q == queue[<<s[1], s[2]>>] IN s[3] \in DOMAIN q /\ q[s[3]] = m}
  \cup {<<p>> : p \in {p \in Polls : /\ poll[p].pc = "reply"
                                     /\ poll[p].agent = a
                                     /\ m \in poll[p].batch}}
  \cup {x \in inbox : x = <<a, m>>}

(* A webhook is run at most once on an agent, whatever polls are given up, *)
(* served twice or answered late: there is one copy, and none once it ran. *)
AtMostOnce ==
  \A a \in Agents, m \in Messages :
    Cardinality(Waiting(a, m)) + (IF ran[a][m] = None THEN 0 ELSE 1) <= 1

(* relayResponse: a sender that hears anything but "accepted" can rely on  *)
(* it.  No agent accepted the webhook, and none has a copy that it could   *)
(* still run.                                                              *)
RefusalIsFinal ==
  \A m \in Messages :
    request[m].pc = "answered" /\ request[m].answer # "accepted" =>
      \A a \in Agents : Waiting(a, m) = {} /\ ran[a][m] # "accepted"

(* A poll that is blocked for an agent when Forget is called returns empty *)
(* (Forget's comment): its conn gets no message any more.                  *)
ForgottenGetsNothing ==
  \A p \in Polls :
    /\ poll[p].pc \in {"take", "select", "wait"}
    /\ poll[p].conn # ConnOf(poll[p].agent)
    => queue[poll[p].conn] = <<>>

(* Relay's comment: the copy of an agent that did not answer in time is    *)
(* still delivered.  A poll that the agent has given up, which can't       *)
(* deliver it, must not take it while the agent sleeps in another one.     *)
OpenPollGetsIt ==
  [][\A p \in Polls :
       PollTake(p) /\ poll'[p].pc = "reply" /\ ~poll[p].alive =>
         ~\E q \in Inside(poll[p].conn) : poll[q].pc = "wait" /\ poll[q].alive]_vars

(***************************************************************************)
(* Refinement: the copies of the webhooks are a Delivery.                  *)
(***************************************************************************)

(* Some queue, batch or agent has a copy.                                  *)
HasCopy(a, m) ==
  \/ <<a, m>> \in inbox
  \/ \E e \in {0, 1} : m \in Queued(<<a, e>>)
  \/ \E p \in Polls : poll[p].pc = "reply" /\ poll[p].agent = a /\ m \in poll[p].batch

CopyOf(a, m) ==
  IF ran[a][m] # None THEN ran[a][m]
  ELSE IF HasCopy(a, m) THEN "waiting"
  ELSE IF request[m].pc \in {"new", "list", "queue"} THEN "unsent" ELSE "gone"

CopyState == [a \in Agents |-> [m \in Messages |-> CopyOf(a, m)]]

Answers == [m \in Messages |-> request[m].answer]

Copies == INSTANCE Delivery WITH copy <- CopyState, answer <- Answers

(* The relay implements Delivery.  A copy that was taken, dropped, expired *)
(* or refused is not sent again by anybody, and the sender's one answer is *)
(* true of every agent's copy, in spite of overlapping polls, answers that *)
(* come late, deletions and restarts on both sides.                        *)
ImplementsDelivery == Copies!Spec

=============================================================================
