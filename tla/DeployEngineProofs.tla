------------------------- MODULE DeployEngineProofs -------------------------
(***************************************************************************)
(* Theorems about DeployEngine for every value of its constants: its types *)
(* are respected, queues are drained before the process ends, events in    *)
(* flight have one owner and verdicts are final; and, when row ids are not *)
(* reused, deploys of one app exclude one another, the history is a        *)
(* DeployLog and what is recorded as a success is live, to the second.     *)
(***************************************************************************)
EXTENDS DeployEngine, SequenceTheorems, TLAPS

(* The points of a goroutine that has an app to deploy, before and after   *)
(* it holds the app's mutex.                                               *)
Queued == {"sync", "enqueue", "lock", "blocked"}

LockedAt == {"create"} \cup ActiveAt

Locked(r) == runner[r].pc \in LockedAt

HasJob(t) == t.app \in AppIds /\ t.act \in {"patch", "restart"}

JobInv ==
  \A r \in Runners : runner[r].pc \in Queued \cup LockedAt => HasJob(runner[r])

Exists(a) == IF a \in apps THEN 1 ELSE 0

(* Every ForgetApp of an id, done or still to come, was preceded by the    *)
(* deletion of one of the apps that had the id: the number of mutexes an   *)
(* id has had is bounded by the number of its apps.                        *)
Budget == \A a \in AppIds : epoch[a] + forgets[a] + Exists(a) <= gens[a]

TypeInv == TypeOK /\ JobInv /\ Budget

(***************************************************************************)
(* Lemmas about the records and sequences of the state.                    *)
(***************************************************************************)

(* Replacing an element keeps a sequence over its set, also when the index *)
(* is out of range.                                                        *)
LEMMA ReplaceSeq ==
  ASSUME NEW S, NEW seq \in Seq(S), NEW i, NEW x, i \in 1..Len(seq) => x \in S
  PROVE  [seq EXCEPT ![i] = x] \in Seq(S)
<1>1. CASE i \in 1..Len(seq) BY <1>1, ExceptSeq
<1>2. CASE i \notin 1..Len(seq)
  <2>1. seq \in [1..Len(seq) -> S] BY LenProperties
  <2>2. [seq EXCEPT ![i] = x] = seq BY <1>2, <2>1
  <2> QED BY <2>2
<1> QED BY <1>1, <1>2

(* A mapping over the indices of a sequence is a sequence.                 *)
LEMMA MapSeq ==
  ASSUME NEW S, NEW seq \in Seq(S), NEW f, DOMAIN f = DOMAIN seq,
         f = [i \in DOMAIN f |-> f[i]], \A i \in DOMAIN seq : f[i] \in S
  PROVE  f \in Seq(S)
<1>1. DOMAIN seq = 1..Len(seq) /\ Len(seq) \in Nat BY LenProperties
<1>2. f \in [1..Len(seq) -> S] BY <1>1
<1> QED BY <1>1, <1>2

(* The fields that a verdict, or the start of a rollout, overwrites keep   *)
(* an event an event.                                                      *)
LEMMA EventFields ==
  ASSUME NEW t \in Event, NEW status \in OpenStatus \cup TerminalStatus,
         NEW detail \in {"", "error", "canceled"}
  PROVE  /\ [t EXCEPT !.status = status, !.detail = detail] \in Event
         /\ [t EXCEPT !.status = status] \in Event
         /\ [t EXCEPT !.app = NoApp] \in Event
BY DEF Event

(* A verdict written over an event leaves a sequence of events.             *)
LEMMA SettleType ==
  ASSUME events \in Seq(Event), NEW e,
         NEW status \in OpenStatus \cup TerminalStatus,
         NEW detail \in {"", "error", "canceled"}, Settle(e, status, detail)
  PROVE  events' \in Seq(Event)
<1> DEFINE x == [events[e] EXCEPT !.status = status, !.detail = detail]
<1>1. events' = [events EXCEPT ![e] = x] BY DEF Settle
<1>2. ASSUME e \in 1..Len(events) PROVE x \in Event
  <2>1. events[e] \in Event BY <1>2, ElementOfSeq
  <2> QED BY <2>1, EventFields
<1> HIDE DEF x
<1> QED BY <1>1, <1>2, ReplaceSeq

(* The row that CreateEvent inserts is an event.                           *)
LEMMA NewEventType ==
  ASSUME NEW a \in AppIds, NEW act \in {"patch", "restart", "purge"},
         NEW ver \in Versions \cup {NoVersion}, NEW at \in Nat
  PROVE  NewEvent(a, act, ver, at) \in Event
BY DEF NewEvent, Event, OpenStatus

(* The clock shows a number of seconds.                                    *)
LEMMA ClockType ==
  ASSUME events \in Seq(Event) PROVE Clock \in Nat /\ Moments \subseteq Nat
<1>1. CASE events = <<>> BY <1>1 DEF Clock, Moments
<1>2. CASE events # <<>>
  <2>1. Len(events) \in 1..Len(events) BY <1>2, LenProperties, EmptySeq
  <2>2. events[Len(events)] \in Event BY <2>1, ElementOfSeq
  <2>3. Clock \in Nat BY <1>2, <2>2 DEF Clock, Event
  <2> QED BY <2>3 DEF Moments
<1> QED BY <1>1, <1>2

(* A goroutine given an app to deploy has well-typed locals.               *)
LEMMA TaskType ==
  ASSUME NEW pc \in PCs, NEW a \in AppIds \cup {NoApp},
         NEW act \in {"none", "patch", "restart"}, NEW ver \in Versions \cup {NoVersion}
  PROVE  Task(pc, a, act, ver) \in Runner
<1>1. 0 \in Epochs BY ConstantsAssumption DEF Epochs
<1> QED BY <1>1 DEF Task, Runner

(* So has one with nothing to do.                                          *)
LEMMA ParkedType ==
  /\ Parked("idle") \in Runner /\ Parked("idle").pc = "idle"
  /\ Parked("off") \in Runner /\ Parked("off").pc = "off"
<1>1. "idle" \in PCs /\ "off" \in PCs BY DEF PCs
<1> QED BY <1>1, TaskType DEF Parked, Task

(* The locals that a statement of Engine.run assigns keep their types.     *)
LEMMA RunnerFields ==
  ASSUME NEW t \in Runner, NEW pc \in PCs, NEW key \in Epochs, NEW n \in Nat
  PROVE  /\ [t EXCEPT !.pc = pc] \in Runner
         /\ [t EXCEPT !.pc = pc, !.key = key] \in Runner
         /\ [t EXCEPT !.ev = n, !.pc = pc] \in Runner
         /\ [t EXCEPT !.pc = pc, !.tgt = n] \in Runner
         /\ [t EXCEPT !.tgt = n, !.pc = pc] \in Runner
         /\ [t EXCEPT !.tgt = n] \in Runner
BY DEF Runner

(* A step that gives runner r the locals t, and t has a job if it needs    *)
(* one, keeps the part of the invariant about runners.                     *)
LEMMA RunnerStep ==
  ASSUME TypeInv, NEW r \in Runners, NEW t \in Runner,
         runner' = [runner EXCEPT ![r] = t], t.pc \in {"idle", "off"} \/ HasJob(t)
  PROVE  runner' \in [Runners -> Runner] /\ JobInv'
<1>1. runner \in [Runners -> Runner] /\ JobInv BY DEF TypeInv, TypeOK
<1>2. runner' \in [Runners -> Runner] BY <1>1
<1>3. ASSUME NEW s \in Runners, runner'[s].pc \in Queued \cup LockedAt
      PROVE  HasJob(runner'[s])
  <2>1. CASE s = r
    <3>1. runner'[s] = t BY <1>1, <2>1
    <3> QED BY <1>3, <3>1 DEF Queued, LockedAt, ActiveAt
  <2>2. CASE s # r
    <3>1. runner'[s] = runner[s] BY <1>1, <2>2
    <3> QED BY <1>1, <1>3, <3>1 DEF JobInv
  <2> QED BY <2>1, <2>2
<1> QED BY <1>2, <1>3 DEF JobInv, HasJob

(* What is known of a runner that has an app to deploy.                    *)
LEMMA RunnerFacts ==
  ASSUME TypeInv, NEW r \in Runners, runner[r].pc \in Queued \cup LockedAt
  PROVE  /\ runner[r] \in Runner
         /\ HasJob(runner[r])
         /\ runner[r].ver \in Versions \cup {NoVersion}
         /\ runner[r].key \in Epochs
         /\ LockOf(r) \in Objects
         /\ TargetCount[runner[r].app] \in Nat
         /\ runner[r].tgt \in Nat
<1>1. runner[r] \in Runner BY DEF TypeInv, TypeOK
<1>2. HasJob(runner[r]) BY DEF TypeInv, JobInv
<1> QED BY <1>1, <1>2, ConstantsAssumption DEF HasJob, Runner, LockOf, Objects

(* r goes to `pc` with its job.                                            *)
LEMMA GotoStep ==
  ASSUME TypeInv, NEW r \in Runners, runner[r].pc \in Queued \cup LockedAt,
         NEW pc \in PCs, Goto(r, pc)
  PROVE  runner' \in [Runners -> Runner] /\ JobInv'
<1> DEFINE t == [runner[r] EXCEPT !.pc = pc]
<1>1. t \in Runner /\ HasJob(t)
  <2>1. runner[r] \in Runner /\ HasJob(runner[r]) BY RunnerFacts
  <2>2. t \in Runner
    <3>1. 0 \in Epochs BY ConstantsAssumption DEF Epochs
    <3> QED BY <2>1, <3>1, RunnerFields
  <2>3. t.app = runner[r].app /\ t.act = runner[r].act BY <2>1 DEF Runner
  <2> QED BY <2>1, <2>2, <2>3 DEF HasJob
<1>2. runner' = [runner EXCEPT ![r] = t] BY DEF Goto
<1> HIDE DEF t
<1> QED BY <1>1, <1>2, RunnerStep

(* r goes to the next workload of its app, or past the last one.           *)
LEMMA NextTargetStep ==
  ASSUME TypeInv, NEW r \in Runners, runner[r].pc \in Queued \cup LockedAt,
         NEW next \in PCs, NextTarget(r, next)
  PROVE  runner' \in [Runners -> Runner] /\ JobInv'
<1>0. runner[r] \in Runner /\ HasJob(runner[r]) /\ runner[r].tgt \in Nat
  BY RunnerFacts
<1>1. CASE runner[r].tgt < TargetCount[runner[r].app]
  <2> DEFINE t == [runner[r] EXCEPT !.tgt = runner[r].tgt + 1]
  <2>1. t \in Runner /\ HasJob(t) BY <1>0 DEF Runner, HasJob
  <2>2. runner' = [runner EXCEPT ![r] = t] BY <1>1 DEF NextTarget
  <2> HIDE DEF t
  <2> QED BY <2>1, <2>2, RunnerStep
<1>2. CASE ~(runner[r].tgt < TargetCount[runner[r].app])
  <2> DEFINE t == [runner[r] EXCEPT !.tgt = 1, !.pc = next]
  <2>1. t \in Runner /\ HasJob(t) BY <1>0 DEF Runner, HasJob
  <2>2. runner' = [runner EXCEPT ![r] = t] BY <1>2 DEF NextTarget
  <2> HIDE DEF t
  <2> QED BY <2>1, <2>2, RunnerStep
<1> QED BY <1>1, <1>2

(* r returns from Engine.run and unlocks.                                  *)
LEMMA ReturnStep ==
  ASSUME TypeInv, NEW r \in Runners, Return(r)
  PROVE  runner' \in [Runners -> Runner] /\ JobInv' /\ held' \subseteq Objects
<1>1. runner' = [runner EXCEPT ![r] = Parked("idle")] BY DEF Return
<1>2. runner' \in [Runners -> Runner] /\ JobInv' BY <1>1, ParkedType, RunnerStep
<1>3. held' \subseteq Objects BY DEF Return, TypeInv, TypeOK
<1> QED BY <1>2, <1>3

(* r writes its verdict and returns.                                       *)
LEMMA FinishStep ==
  ASSUME TypeInv, NEW r \in Runners, NEW status \in TerminalStatus,
         NEW detail \in {"", "error", "canceled"}, Finish(r, status, detail)
  PROVE  /\ runner' \in [Runners -> Runner] /\ JobInv' /\ held' \subseteq Objects
         /\ events' \in Seq(Event)
<1>1. events \in Seq(Event) BY DEF TypeInv, TypeOK
<1>2. Settle(runner[r].ev, status, detail) /\ Return(r) BY DEF Finish
<1>3. events' \in Seq(Event) BY <1>1, <1>2, SettleType
<1> QED BY <1>2, <1>3, ReturnStep

(* A patch or a restart of a workload leaves a cluster of workloads.       *)
LEMMA AppliedType ==
  ASSUME TypeInv, NEW r \in Runners, runner[r].pc \in Queued \cup LockedAt
  PROVE  Applied(r) \in [Workloads -> Workload]
<1>1. cluster \in [Workloads -> Workload] /\ Len(events) \in Nat /\ Clock \in Nat
  BY LenProperties, ClockType DEF TypeInv, TypeOK
<1>2. runner[r].ver \in Versions \cup {NoVersion} BY RunnerFacts
<1>3. ASSUME NEW w \in Workloads
      PROVE  /\ [cluster[w] EXCEPT !.stamp = Clock, !.restarted = Len(events),
                                   !.health = "rolling"] \in Workload
             /\ [cluster[w] EXCEPT !.ver = runner[r].ver, !.health = "rolling"] \in Workload
  BY <1>1, <1>2 DEF Workload
<1> QED BY <1>1, <1>3 DEF Applied

(* Only creating, deleting and forgetting an app touch the budget of ids.  *)
LEMMA BudgetFrame ==
  ASSUME TypeInv, UNCHANGED <<apps, gens, epoch, forgets>> PROVE Budget'
BY DEF TypeInv, Budget, Exists

(***************************************************************************)
(* Type correctness.                                                       *)
(***************************************************************************)

(* The invariant holds of the process's first start.                       *)
LEMMA InitType == ASSUME Init PROVE TypeInv
<1> USE ConstantsAssumption, CallersAssumption
<1>1. runner \in [Runners -> Runner] /\ JobInv
  BY ParkedType DEF Init, FreshRunner, JobInv, Queued, LockedAt, ActiveAt
<1>2. cluster \in [Workloads -> Workload] BY DEF Init, Workload
<1>3. TypeOK
  <2>1. apps \subseteq AppIds /\ gens \in [AppIds -> 0..MaxGen]
    <3>1. PICK n \in 0..MaxId : apps = 1..n BY DEF Init
    <3> QED BY <3>1 DEF Init, AppIds
  <2> QED BY <1>1, <1>2, <2>1 DEF Init, TypeOK, Epochs, Modes
<1>4. Budget BY DEF Init, Budget, Exists
<1> QED BY <1>1, <1>3, <1>4 DEF TypeInv

(* Requests and the workers that receive them.                             *)
LEMMA RequestType ==
  ASSUME TypeInv,
         \/ \E c \in Callers : AskManual(c) \/ AskQueued(c) \/ CallerStep(c)
         \/ \E w \in Workers : WorkerStep(w)
  PROVE  TypeInv'
<1> USE ConstantsAssumption DEF stored, memory, bounds
<1>1. ASSUME NEW c \in Callers, AskManual(c) \/ AskQueued(c) PROVE TypeInv'
  <2> PICK a \in AppIds, act \in {"patch", "restart"},
           ver \in Versions \cup {NoVersion}, pc \in {"sync", "enqueue"} :
             Ask(c, pc, a, act, ver)
    BY <1>1 DEF AskManual, AskQueued
  <2>1. Task(pc, a, act, ver) \in Runner /\ HasJob(Task(pc, a, act, ver))
    <3>1. pc \in PCs BY DEF PCs
    <3> QED BY <3>1, TaskType DEF HasJob, Task
  <2>2. runner' \in [Runners -> Runner] /\ JobInv'
    BY <2>1, RunnerStep DEF Ask, Runners
  <2>3. TypeOK' BY <2>2 DEF Ask, TypeInv, TypeOK
  <2>4. Budget' BY BudgetFrame DEF Ask
  <2> QED BY <2>2, <2>3, <2>4 DEF TypeInv
<1>2. ASSUME NEW c \in Callers, Enqueue(c) PROVE TypeInv'
  <2> DEFINE q == CurrentQueue(runner[c].app)
  <2>1. HasJob(runner[c]) /\ JobOf(c) \in Job
    <3>1. runner[c].pc \in Queued \cup LockedAt /\ c \in Runners
      BY <1>2 DEF Enqueue, At, Queued, Runners
    <3> QED BY <3>1, RunnerFacts DEF JobOf, Job, HasJob
  <2>2. q \in Objects
    BY <2>1 DEF CurrentQueue, HasJob, Objects, TypeInv, TypeOK
  <2>3. runner' \in [Runners -> Runner] /\ JobInv'
    BY <1>2, ParkedType
    DEF Enqueue, TypeInv, TypeOK, JobInv, Queued, LockedAt, ActiveAt
  <2>4. /\ queue' \in [Objects -> Seq(Job)]
        /\ \A o \in Objects : Len(queue'[o]) <= QueueCap
    BY <1>2, <2>1, <2>2 DEF Enqueue, Accepts, TypeInv, TypeOK
  <2>5. TypeOK' BY <1>2, <2>3, <2>4 DEF Enqueue, TypeInv, TypeOK
  <2>6. Budget' BY <1>2, BudgetFrame DEF Enqueue
  <2> QED BY <2>3, <2>5, <2>6 DEF TypeInv
<1>3. ASSUME NEW c \in Callers, EnqueueDropped(c) PROVE TypeInv'
  <2>1. runner' \in [Runners -> Runner] /\ JobInv'
    BY <1>3, ParkedType, RunnerStep DEF EnqueueDropped, Runners
  <2>2. TypeOK' BY <1>3, <2>1 DEF EnqueueDropped, TypeInv, TypeOK
  <2>3. Budget' BY <1>3, BudgetFrame DEF EnqueueDropped
  <2> QED BY <2>1, <2>2, <2>3 DEF TypeInv
<1>4. ASSUME NEW c \in Callers, DeploySync(c) PROVE TypeInv'
  <2>1. runner' \in [Runners -> Runner] /\ JobInv'
    BY <1>4, GotoStep DEF DeploySync, At, Runners, PCs, Queued
  <2>2. TypeOK' BY <1>4, <2>1 DEF DeploySync, TypeInv, TypeOK
  <2>3. Budget' BY <1>4, BudgetFrame DEF DeploySync
  <2> QED BY <2>1, <2>2, <2>3 DEF TypeInv
<1>5. ASSUME NEW w \in Workers, Receive(w) PROVE TypeInv'
  <2> DEFINE job == Head(queue[w])
  <2>1. /\ job \in Job
        /\ queue' \in [Objects -> Seq(Job)]
        /\ \A o \in Objects : Len(queue'[o]) <= QueueCap
    BY <1>5 DEF Receive, TypeInv, TypeOK, Workers
  <2> DEFINE t == Task("lock", job.app, job.act, job.ver)
  <2>2. t \in Runner /\ HasJob(t)
    <3> HIDE DEF job
    <3>1. /\ job.app \in AppIds /\ job.act \in {"patch", "restart"}
          /\ job.ver \in Versions \cup {NoVersion} /\ "lock" \in PCs
      BY <2>1 DEF Job, PCs
    <3> QED BY <3>1, TaskType DEF HasJob, Task
  <2>3. runner' = [runner EXCEPT ![w] = t] BY <1>5 DEF Receive
  <2> HIDE DEF t
  <2>4. runner' \in [Runners -> Runner] /\ JobInv'
    BY <2>2, <2>3, RunnerStep DEF Runners
  <2>5. TypeOK' BY <1>5, <2>1, <2>4 DEF Receive, TypeInv, TypeOK
  <2>6. Budget' BY <1>5, BudgetFrame DEF Receive
  <2> QED BY <2>4, <2>5, <2>6 DEF TypeInv
<1>6. ASSUME NEW w \in Workers, WorkerExit(w) PROVE TypeInv'
  <2> DEFINE t == [runner[w] EXCEPT !.pc = "off"]
  <2>1. t \in Runner /\ t.pc = "off"
    BY DEF TypeInv, TypeOK, Runner, PCs, Runners
  <2>2. runner' = [runner EXCEPT ![w] = t] BY <1>6 DEF WorkerExit, Goto
  <2> HIDE DEF t
  <2>3. runner' \in [Runners -> Runner] /\ JobInv'
    BY <2>1, <2>2, RunnerStep DEF Runners
  <2>4. TypeOK' BY <1>6, <2>3 DEF WorkerExit, TypeInv, TypeOK
  <2>5. Budget' BY <1>6, BudgetFrame DEF WorkerExit
  <2> QED BY <2>3, <2>4, <2>5 DEF TypeInv
<1> QED BY <1>1, <1>2, <1>3, <1>4, <1>5, <1>6 DEF CallerStep, WorkerStep

(* The statements of Engine.run.                                           *)
LEMMA RunType == ASSUME TypeInv, NEW r \in Runners, RunStep(r) PROVE TypeInv'
<1> USE ConstantsAssumption DEF stored, memory, bounds
<1>0. /\ events \in Seq(Event) /\ Len(events) \in Nat
      /\ cluster \in [Workloads -> Workload] /\ held \subseteq Objects
      /\ epoch \in [AppIds -> Epochs] /\ purging \subseteq Nat
      /\ lastSeen \in [AppIds -> Versions \cup {NoVersion}] /\ apps \subseteq AppIds
  BY LenProperties DEF TypeInv, TypeOK
<1>a. /\ runner[r].pc \in Queued \cup LockedAt
      /\ UNCHANGED <<apps, gens, epoch, forgets, mode, chan, queue, issued, stops>>
  BY DEF RunStep, GetLock, Acquire, CreateEvent, CreateEventRefused,
         FinishUntargeted, StartRolling, ApplyTarget, ApplyFails, WaitDone,
         WaitFails, WaitInterrupted, RecordLastSeen, SchedulePurge,
         FinishSuccess, At, Queued, LockedAt, ActiveAt
<1>b. Budget' BY <1>a, BudgetFrame
<1>c. runner[r] \in Runner /\ HasJob(runner[r]) /\ LockOf(r) \in Objects
  BY <1>a, RunnerFacts
<1> SUFFICES /\ runner' \in [Runners -> Runner] /\ JobInv'
             /\ events' \in Seq(Event) /\ held' \subseteq Objects
             /\ cluster' \in [Workloads -> Workload]
             /\ lastSeen' \in [AppIds -> Versions \cup {NoVersion}]
             /\ purging' \subseteq Nat
  BY <1>a, <1>b DEF TypeInv, TypeOK
<1>1. CASE GetLock(r)
  <2> DEFINE t == [runner[r] EXCEPT !.pc = "blocked", !.key = epoch[runner[r].app]]
  <2>1. t \in Runner /\ HasJob(t)
    BY <1>0, <1>c DEF Runner, HasJob, PCs
  <2>2. runner' = [runner EXCEPT ![r] = t] BY <1>1 DEF GetLock
  <2> HIDE DEF t
  <2> QED BY <1>0, <1>1, <2>1, <2>2, RunnerStep DEF GetLock
<1>2. CASE Acquire(r)
  BY <1>0, <1>2, <1>a, <1>c, GotoStep DEF Acquire, PCs
<1>3. CASE CreateEvent(r)
  <2> DEFINE pc == IF TargetCount[runner[r].app] = 0 THEN "untargeted" ELSE "roll"
             t == [runner[r] EXCEPT !.ev = Len(events) + 1, !.pc = pc]
  <2>1. pc \in PCs BY DEF PCs, ActiveAt
  <2>2. t \in Runner /\ HasJob(t)
    <3> HIDE DEF pc
    <3>1. Len(events) + 1 \in Nat /\ 0 \in Epochs BY <1>0 DEF Epochs
    <3>2. t \in Runner BY <1>c, <2>1, <3>1, RunnerFields
    <3>3. t.app = runner[r].app /\ t.act = runner[r].act BY <1>c DEF Runner
    <3> QED BY <1>c, <3>2, <3>3 DEF HasJob
  <2>3. runner' = [runner EXCEPT ![r] = t] BY <1>3 DEF CreateEvent
  <2> HIDE DEF t
  <2>4. PICK at \in Moments :
          events' = Append(events, NewEvent(runner[r].app, runner[r].act, runner[r].ver, at))
    BY <1>3 DEF CreateEvent
  <2>5. events' \in Seq(Event)
    <3>1. at \in Nat BY <1>0, ClockType
    <3>2. NewEvent(runner[r].app, runner[r].act, runner[r].ver, at) \in Event
      BY <1>a, <1>c, <3>1, RunnerFacts, NewEventType DEF HasJob
    <3> QED BY <1>0, <2>4, <3>2
  <2> QED BY <1>0, <1>3, <2>2, <2>3, <2>5, RunnerStep DEF CreateEvent
<1>4. CASE CreateEventRefused(r)
  BY <1>0, <1>4, ReturnStep DEF CreateEventRefused
<1>5. CASE FinishUntargeted(r)
  BY <1>0, <1>5, FinishStep DEF FinishUntargeted, TerminalStatus
<1>6. CASE StartRolling(r)
  <2> DEFINE t == [runner[r] EXCEPT !.pc = "apply", !.tgt = 1]
             x == [events[runner[r].ev] EXCEPT !.status = "rolling"]
  <2>1. t \in Runner /\ HasJob(t) BY <1>c DEF Runner, HasJob, PCs, ActiveAt
  <2>2. runner' = [runner EXCEPT ![r] = t] BY <1>6 DEF StartRolling
  <2>3. ASSUME runner[r].ev \in 1..Len(events) PROVE x \in Event
    <3>1. events[runner[r].ev] \in Event BY <1>0, <2>3, ElementOfSeq
    <3> QED BY <3>1 DEF Event, OpenStatus
  <2>4. events' = [events EXCEPT ![runner[r].ev] = x] BY <1>6 DEF StartRolling
  <2> HIDE DEF t, x
  <2>5. events' \in Seq(Event) BY <1>0, <2>3, <2>4, ReplaceSeq
  <2> QED BY <1>0, <1>6, <2>1, <2>2, <2>5, RunnerStep DEF StartRolling
<1>7. CASE ApplyTarget(r)
  <2>1. "wait" \in PCs BY DEF PCs, ActiveAt
  <2> QED BY <1>0, <1>7, <1>a, <2>1, NextTargetStep, AppliedType DEF ApplyTarget
<1>8. CASE ApplyFails(r)
  BY <1>0, <1>8, <1>a, FinishStep, AppliedType DEF ApplyFails, TerminalStatus
<1>9. CASE WaitDone(r)
  <2>1. "record" \in PCs BY DEF PCs, ActiveAt
  <2> QED BY <1>0, <1>9, <1>a, <2>1, NextTargetStep DEF WaitDone
<1>10. CASE WaitFails(r)
  BY <1>0, <1>10, FinishStep DEF WaitFails, TerminalStatus
<1>11. CASE WaitInterrupted(r)
  BY <1>0, <1>11, ReturnStep DEF WaitInterrupted
<1>12. CASE RecordLastSeen(r)
  <2>1. "purge" \in PCs /\ "finish" \in PCs BY DEF PCs, ActiveAt
  <2>2. runner' \in [Runners -> Runner] /\ JobInv'
    BY <1>12, <1>a, <2>1, GotoStep DEF RecordLastSeen
  <2>3. lastSeen' \in [AppIds -> Versions \cup {NoVersion}]
    BY <1>0, <1>12, <1>a, RunnerFacts DEF RecordLastSeen
  <2> QED BY <1>0, <1>12, <2>2, <2>3 DEF RecordLastSeen
<1>13. CASE SchedulePurge(r)
  <2>1. "finish" \in PCs BY DEF PCs, ActiveAt
  <2>2. runner' \in [Runners -> Runner] /\ JobInv'
    BY <1>13, <1>a, <2>1, GotoStep DEF SchedulePurge
  <2>3. NewEvent(runner[r].app, "purge", NoVersion, Clock) \in Event
    BY <1>0, <1>c, ClockType, NewEventType DEF HasJob
  <2>4. events' \in Seq(Event) /\ purging' \subseteq Nat
    <3>1. CASE RowInserts(runner[r].app)
      <4>1. /\ events' = Append(events, NewEvent(runner[r].app, "purge", NoVersion, Clock))
            /\ purging' = purging \cup {Len(events) + 1}
        BY <1>13, <3>1 DEF SchedulePurge
      <4>2. events' \in Seq(Event) BY <1>0, <2>3, <4>1
      <4>3. purging' \subseteq Nat
        <5>1. Len(events) + 1 \in Nat BY <1>0
        <5> QED BY <1>0, <4>1, <5>1
      <4> QED BY <4>2, <4>3
    <3>2. CASE ~RowInserts(runner[r].app)
      BY <1>0, <1>13, <3>2 DEF SchedulePurge
    <3> QED BY <3>1, <3>2
  <2> QED BY <1>0, <1>13, <2>2, <2>4 DEF SchedulePurge
<1>14. CASE FinishSuccess(r)
  BY <1>0, <1>14, FinishStep DEF FinishSuccess, TerminalStatus
<1> QED BY <1>1, <1>2, <1>3, <1>4, <1>5, <1>6, <1>7, <1>8, <1>9, <1>10, <1>11,
           <1>12, <1>13, <1>14 DEF RunStep

(* Deletions, creations, purges and rollouts.                              *)
LEMMA AppType ==
  ASSUME TypeInv,
         \/ \E a \in AppIds : CreateApp(a) \/ DeleteApp(a) \/ ForgetApp(a)
         \/ \E e \in purging : PurgeDone(e)
         \/ \E w \in Workloads : RolloutEnds(w)
  PROVE  TypeInv'
<1> USE ConstantsAssumption DEF stored, memory, bounds
<1>0. /\ events \in Seq(Event) /\ cluster \in [Workloads -> Workload]
      /\ epoch \in [AppIds -> Epochs] /\ forgets \in [AppIds -> 0..MaxGen]
      /\ gens \in [AppIds -> 0..MaxGen] /\ apps \subseteq AppIds
      /\ Budget /\ JobInv
  BY DEF TypeInv, TypeOK
<1>1. ASSUME NEW a \in AppIds, CreateApp(a) PROVE TypeInv'
  <2>1. Budget' BY <1>0, <1>1 DEF CreateApp, Budget, Exists, Epochs
  <2>2. TypeOK' BY <1>0, <1>1 DEF CreateApp, TypeInv, TypeOK
  <2>3. JobInv' BY <1>0, <1>1 DEF CreateApp, JobInv
  <2> QED BY <2>1, <2>2, <2>3 DEF TypeInv
<1>2. ASSUME NEW a \in AppIds, DeleteApp(a) PROVE TypeInv'
  <2>1. Budget'
    <3> SUFFICES ASSUME NEW b \in AppIds
                 PROVE  epoch'[b] + forgets'[b] + Exists(b)' <= gens'[b]
      BY DEF Budget
    <3>1. /\ epoch[b] \in Nat /\ forgets[b] \in Nat /\ gens[b] \in Nat
          /\ epoch[b] + forgets[b] + Exists(b) <= gens[b]
      BY <1>0 DEF Budget, Epochs
    <3>2. epoch' = epoch /\ gens' = gens
      BY <1>2 DEF DeleteApp
    <3>3. CASE b = a
      <4>1. forgets'[b] = forgets[b] + 1 BY <1>0, <1>2, <3>3 DEF DeleteApp
      <4>2. Exists(b) = 1 /\ Exists(b)' = 0 BY <1>2, <3>3 DEF DeleteApp, Exists
      <4> QED BY <3>1, <3>2, <4>1, <4>2
    <3>4. CASE b # a
      <4>1. forgets'[b] = forgets[b] BY <1>0, <1>2, <3>4 DEF DeleteApp
      <4>2. Exists(b)' = Exists(b) BY <1>2, <3>4 DEF DeleteApp, Exists
      <4> QED BY <3>1, <3>2, <4>1, <4>2
    <3> QED BY <3>3, <3>4
  <2>2. forgets' \in [AppIds -> 0..MaxGen]
    BY <1>0, <1>2 DEF DeleteApp, Budget, Exists, Epochs
  <2>3. events' \in Seq(Event)
    <3>1. DOMAIN events = 1..Len(events) BY <1>0, LenProperties
    <3>2. ASSUME NEW e \in DOMAIN events PROVE events'[e] \in Event
      <4>1. events[e] \in Event BY <1>0, <3>1, ElementOfSeq
      <4> QED BY <1>2, <4>1 DEF DeleteApp, Event
    <3>3. DOMAIN events' = DOMAIN events /\ events' = [e \in DOMAIN events' |-> events'[e]]
      BY <1>2 DEF DeleteApp
    <3> QED BY <1>0, <3>2, <3>3, MapSeq
  <2>4. TypeOK' BY <1>0, <1>2, <2>2, <2>3 DEF DeleteApp, TypeInv, TypeOK
  <2>5. JobInv' BY <1>0, <1>2 DEF DeleteApp, JobInv
  <2> QED BY <2>1, <2>4, <2>5 DEF TypeInv
<1>3. ASSUME NEW a \in AppIds, ForgetApp(a) PROVE TypeInv'
  <2>1. Budget' BY <1>0, <1>3 DEF ForgetApp, Budget, Exists, Epochs
  <2>2. epoch' \in [AppIds -> Epochs] /\ forgets' \in [AppIds -> 0..MaxGen]
    <3>1. epoch[a] + forgets[a] <= MaxGen
      <4>1. epoch[a] + forgets[a] + Exists(a) <= gens[a] BY <1>0 DEF Budget
      <4>2. Exists(a) \in {0, 1} BY DEF Exists
      <4>3. /\ epoch[a] \in 0..MaxGen /\ forgets[a] \in 0..MaxGen
            /\ gens[a] \in 0..MaxGen
        BY <1>0 DEF Epochs
      <4> QED BY <4>1, <4>2, <4>3
    <3> QED BY <1>0, <1>3, <3>1 DEF ForgetApp, Epochs
  <2>3. chan' \in [Objects -> {"none", "open", "closed"}]
    BY <1>3 DEF ForgetApp, TypeInv, TypeOK
  <2>4. TypeOK' BY <1>0, <1>3, <2>2, <2>3 DEF ForgetApp, TypeInv, TypeOK
  <2>5. JobInv' BY <1>0, <1>3 DEF ForgetApp, JobInv
  <2> QED BY <2>1, <2>4, <2>5 DEF TypeInv
<1>4. ASSUME NEW e \in purging, PurgeDone(e) PROVE TypeInv'
  <2>1. events' \in Seq(Event)
    BY <1>0, <1>4, SettleType DEF PurgeDone, TerminalStatus
  <2>2. TypeOK' BY <1>4, <2>1 DEF PurgeDone, TypeInv, TypeOK
  <2>3. Budget' BY <1>4, BudgetFrame DEF PurgeDone
  <2>4. JobInv' BY <1>0, <1>4 DEF PurgeDone, JobInv
  <2> QED BY <2>2, <2>3, <2>4 DEF TypeInv
<1>5. ASSUME NEW w \in Workloads, RolloutEnds(w) PROVE TypeInv'
  <2>1. cluster' \in [Workloads -> Workload]
    <3> PICK h \in {"done", "failed"} : cluster' = [cluster EXCEPT ![w].health = h]
      BY <1>5 DEF RolloutEnds
    <3> DEFINE x == [cluster[w] EXCEPT !.health = h]
    <3>1. x \in Workload BY <1>0 DEF Workload
    <3>2. cluster' = [cluster EXCEPT ![w] = x] OBVIOUS
    <3> HIDE DEF x
    <3> QED BY <1>0, <3>1, <3>2
  <2>2. TypeOK' BY <1>5, <2>1 DEF RolloutEnds, TypeInv, TypeOK
  <2>3. Budget' BY <1>5, BudgetFrame DEF RolloutEnds
  <2>4. JobInv' BY <1>0, <1>5 DEF RolloutEnds, JobInv
  <2> QED BY <2>2, <2>3, <2>4 DEF TypeInv
<1> QED BY <1>1, <1>2, <1>3, <1>4, <1>5

(* A process that starts afresh has no queue, mutex or goroutine.          *)
LEMMA FreshType ==
  ASSUME TypeInv, FreshMemory, UNCHANGED <<stored, cluster, issued>>,
         mode' \in Modes, stops' \in Nat
  PROVE  TypeInv'
<1> USE ConstantsAssumption DEF stored
<1>1. runner' \in [Runners -> Runner] /\ JobInv'
  BY ParkedType DEF FreshMemory, FreshRunner, JobInv, Queued, LockedAt, ActiveAt
<1>2. TypeOK' BY <1>1 DEF FreshMemory, TypeInv, TypeOK, Epochs
<1>3. Budget'
  <2>1. \A a \in AppIds : /\ epoch[a] \in Nat /\ forgets[a] \in Nat /\ gens[a] \in Nat
                         /\ epoch[a] + forgets[a] + Exists(a) <= gens[a]
    BY DEF TypeInv, TypeOK, Budget, Epochs
  <2> QED BY <2>1 DEF FreshMemory, Budget, Exists
<1> QED BY <1>1, <1>2, <1>3 DEF TypeInv

(* Shutdown, crashes and startup.                                          *)
LEMMA ProcessType ==
  ASSUME TypeInv, ProcessStep \/ Sigterm \/ Crash PROVE TypeInv'
<1> USE ConstantsAssumption DEF bounds
<1>0. events \in Seq(Event) /\ stops \in Nat /\ JobInv BY DEF TypeInv, TypeOK
<1>1. CASE Sigterm
  <2>1. TypeOK' BY <1>1 DEF Sigterm, TypeInv, TypeOK, stored, memory, Modes
  <2>2. Budget' BY <1>1, BudgetFrame DEF Sigterm, stored, memory
  <2>3. JobInv' BY <1>0, <1>1 DEF Sigterm, JobInv
  <2> QED BY <2>1, <2>2, <2>3 DEF TypeInv
<1>2. CASE CloseEngine
  <2>1. chan' \in [Objects -> {"none", "open", "closed"}]
    BY <1>2 DEF CloseEngine, ChansClosed, TypeInv, TypeOK
  <2>2. TypeOK' BY <1>2, <2>1 DEF CloseEngine, TypeInv, TypeOK, stored, Modes
  <2>3. Budget' BY <1>2, BudgetFrame DEF CloseEngine, stored
  <2>4. JobInv' BY <1>0, <1>2 DEF CloseEngine, JobInv
  <2> QED BY <2>2, <2>3, <2>4 DEF TypeInv
<1>3. CASE CancelBase \/ Boot \/ StartServing
  <2>1. TypeOK'
    BY <1>3 DEF CancelBase, Boot, StartServing, TypeInv, TypeOK, stored, memory, Modes
  <2>2. Budget' BY <1>3, BudgetFrame DEF CancelBase, Boot, StartServing, stored, memory
  <2>3. JobInv' BY <1>0, <1>3 DEF CancelBase, Boot, StartServing, JobInv
  <2> QED BY <2>1, <2>2, <2>3 DEF TypeInv
<1>4. CASE Exit
  BY <1>0, <1>4, FreshType DEF Exit, Modes
<1>5. CASE Crash
  BY <1>0, <1>5, FreshType DEF Crash, Modes
<1>6. CASE BootSweep
  <2>1. events' \in Seq(Event)
    <3>1. DOMAIN events = 1..Len(events) BY <1>0, LenProperties
    <3>2. ASSUME NEW e \in DOMAIN events PROVE events'[e] \in Event
      <4>1. events[e] \in Event BY <1>0, <3>1, ElementOfSeq
      <4> QED BY <1>6, <4>1 DEF BootSweep, Event, TerminalStatus
    <3>3. DOMAIN events' = DOMAIN events /\ events' = [e \in DOMAIN events' |-> events'[e]]
      BY <1>6 DEF BootSweep
    <3> QED BY <1>0, <3>2, <3>3, MapSeq
  <2>2. TypeOK' BY <1>6, <2>1 DEF BootSweep, TypeInv, TypeOK, memory, Modes
  <2>3. Budget' BY <1>6, BudgetFrame DEF BootSweep, memory
  <2>4. JobInv' BY <1>0, <1>6 DEF BootSweep, JobInv
  <2> QED BY <2>2, <2>3, <2>4 DEF TypeInv
<1>7. ASSUME NEW e \in DOMAIN events, ReconcileEvent(e) PROVE TypeInv'
  <2>1. PICK v \in {"unknown", "failed", "success"} :
          Settle(e, v, IF v = "failed" THEN "error" ELSE "")
    BY <1>7 DEF ReconcileEvent, Verdicts
  <2>2. events' \in Seq(Event) BY <1>0, <2>1, SettleType DEF TerminalStatus
  <2>3. TypeOK' BY <1>7, <2>2 DEF ReconcileEvent, TypeInv, TypeOK, memory
  <2>4. Budget' BY <1>7, BudgetFrame DEF ReconcileEvent, memory
  <2>5. JobInv' BY <1>0, <1>7 DEF ReconcileEvent, JobInv
  <2> QED BY <2>3, <2>4, <2>5 DEF TypeInv
<1> QED BY <1>1, <1>2, <1>3, <1>4, <1>5, <1>6, <1>7 DEF ProcessStep

(* Every step keeps the invariant.                                         *)
LEMMA TypeStep == ASSUME TypeInv, [Next]_vars PROVE TypeInv'
<1>1. CASE UNCHANGED vars
  BY <1>1 DEF vars, stored, memory, bounds, TypeInv, TypeOK, JobInv, Budget, Exists
<1>2. CASE Next
  BY <1>2, RequestType, RunType, AppType, ProcessType DEF Next, GoroutineStep
<1> QED BY <1>1, <1>2

(* Every variable keeps its type: in particular no channel ever holds more *)
(* jobs than its capacity, and no id needs more mutexes than it has had    *)
(* apps.                                                                   *)
THEOREM TypeCorrect == Spec => []TypeOK
<1>1. TypeInv => TypeOK BY DEF TypeInv
<1> QED BY <1>1, InitType, TypeStep, PTL DEF Spec

(***************************************************************************)
(* Deploys of one app exclude one another.                                 *)
(***************************************************************************)

(* A goroutine past l.Lock() holds the mutex it chose, and alone.          *)
MutexInv ==
  \A r \in Runners :
    /\ runner[r].pc \in {"blocked"} \cup LockedAt =>
         runner[r].key <= epoch[runner[r].app]
    /\ Locked(r) => /\ LockOf(r) \in held
                    /\ \A s \in Runners \ {r} : Locked(s) => LockOf(s) # LockOf(r)

ExclusionInv == TypeInv /\ MutexInv /\ OneDeployPerApp

(* When no id is given to a second app, an app that was forgotten is gone: *)
(* its events can't be created any more.                                   *)
LEMMA ForgottenIsGone ==
  ASSUME TypeInv, MaxGen = 1, NEW a \in AppIds, epoch[a] # 0
  PROVE  a \notin apps
<1>1. epoch[a] + forgets[a] + Exists(a) <= gens[a] BY DEF TypeInv, Budget
<1>2. epoch[a] \in 0..1 /\ forgets[a] \in 0..1 /\ gens[a] \in 0..1
  BY DEF TypeInv, TypeOK, Epochs
<1> QED BY <1>1, <1>2 DEF Exists

(* A step that changes no runner that is past lockApp's first half, no     *)
(* mutex and no epoch.                                                     *)
LEMMA ExclusionFrame ==
  ASSUME ExclusionInv, epoch' = epoch, held' = held,
         \A r \in Runners :
           \/ runner'[r] = runner[r]
           \/ runner'[r].pc \notin {"blocked"} \cup LockedAt
  PROVE  MutexInv' /\ OneDeployPerApp'
<1>1. MutexInv'
  BY DEF ExclusionInv, MutexInv, Locked, LockOf
<1>2. OneDeployPerApp'
  BY DEF ExclusionInv, OneDeployPerApp, Active, LockedAt
<1> QED BY <1>1, <1>2

(* A step by which r, past l.Lock(), goes on or returns, keeping its mutex *)
(* or releasing it with the return.                                        *)
LEMMA ExclusionMove ==
  ASSUME ExclusionInv, NEW r \in Runners, epoch' = epoch, Active(r),
         NEW t, runner' = [runner EXCEPT ![r] = t],
         \/ /\ t.app = runner[r].app /\ t.key = runner[r].key /\ held' = held
         \/ t.pc = "idle" /\ held' = held \ {LockOf(r)}
  PROVE  MutexInv' /\ OneDeployPerApp'
<1>1. runner \in [Runners -> Runner] BY DEF ExclusionInv, TypeInv, TypeOK
<1>2. runner'[r] = t /\ \A s \in Runners \ {r} : runner'[s] = runner[s] BY <1>1
<1>3. "idle" \notin {"blocked"} \cup LockedAt BY DEF LockedAt, ActiveAt
<1>4. Locked(r) BY DEF Active, Locked, LockedAt
<1>5. MutexInv'
  BY <1>2, <1>3, <1>4 DEF ExclusionInv, MutexInv, Locked, LockOf, LockedAt
<1>6. OneDeployPerApp'
  BY <1>2, <1>3 DEF ExclusionInv, OneDeployPerApp, Active, LockedAt
<1> QED BY <1>5, <1>6

(* Exclusion holds of the first start: no goroutine deploys.               *)
LEMMA InitExclusion == ASSUME Init PROVE ExclusionInv
<1>1. MutexInv /\ OneDeployPerApp
  BY DEF Init, FreshRunner, Parked, Task, MutexInv, OneDeployPerApp, Active,
         Locked, LockedAt, ActiveAt
<1> QED BY <1>1, InitType DEF ExclusionInv

(* Only lockApp and CreateEvent do anything to the exclusion: the first    *)
(* because the mutex was free, the second because a run with another mutex *)
(* of the same app has outlived the app.                                   *)
LEMMA ExclusionRun ==
  ASSUME ExclusionInv, MaxGen = 1, NEW r \in Runners, RunStep(r)
  PROVE  MutexInv' /\ OneDeployPerApp'
<1> USE DEF memory, stored, bounds
<1>0. /\ runner \in [Runners -> Runner] /\ epoch \in [AppIds -> Epochs]
      /\ apps \subseteq AppIds /\ TypeInv /\ MutexInv /\ OneDeployPerApp
  BY DEF ExclusionInv, TypeInv, TypeOK
<1>1. CASE GetLock(r)
  <2> DEFINE a == runner[r].app
             t == [runner[r] EXCEPT !.pc = "blocked", !.key = epoch[a]]
  <2>1. runner' = [runner EXCEPT ![r] = t] /\ epoch' = epoch /\ held' = held
    BY <1>1 DEF GetLock
  <2>2. t.pc = "blocked" /\ t.key = epoch[a] /\ t.app = a
    BY <1>0 DEF Runner
  <2>3. a \in AppIds
    BY <1>0, <1>1, RunnerFacts DEF GetLock, At, Queued, HasJob
  <2>4. epoch[a] <= epoch[a] BY <1>0, <2>3 DEF Epochs
  <2> HIDE DEF t
  <2>5. runner'[r] = t /\ \A s \in Runners \ {r} : runner'[s] = runner[s]
    BY <1>0, <2>1
  <2>6. "blocked" \notin LockedAt BY DEF LockedAt, ActiveAt
  <2>7. MutexInv'
    BY <1>0, <2>1, <2>2, <2>4, <2>5, <2>6 DEF MutexInv, Locked, LockOf
  <2>8. OneDeployPerApp'
    BY <1>0, <2>2, <2>5, <2>6 DEF OneDeployPerApp, Active, LockedAt
  <2> QED BY <2>7, <2>8
<1>2. CASE Acquire(r)
  <2> DEFINE t == [runner[r] EXCEPT !.pc = "create"]
  <2>1. /\ runner' = [runner EXCEPT ![r] = t] /\ epoch' = epoch
        /\ held' = held \cup {LockOf(r)} /\ LockOf(r) \notin held
        /\ runner[r].pc = "blocked"
    BY <1>2 DEF Acquire, Goto, Unlocked, At
  <2>2. t.pc = "create" /\ t.key = runner[r].key /\ t.app = runner[r].app
    BY <1>0 DEF Runner
  <2> HIDE DEF t
  <2>3. runner'[r] = t /\ \A s \in Runners \ {r} : runner'[s] = runner[s]
    BY <1>0, <2>1
  <2>4. "create" \notin ActiveAt BY DEF ActiveAt
  <2>5. MutexInv'
    BY <1>0, <2>1, <2>2, <2>3 DEF MutexInv, Locked, LockOf
  <2>6. OneDeployPerApp'
    BY <1>0, <2>2, <2>3, <2>4 DEF OneDeployPerApp, Active
  <2> QED BY <2>5, <2>6
<1>3. CASE CreateEvent(r)
  <2> DEFINE a == runner[r].app
             pc == IF TargetCount[a] = 0 THEN "untargeted" ELSE "roll"
             t == [runner[r] EXCEPT !.ev = Len(events) + 1, !.pc = pc]
  <2>1. /\ runner' = [runner EXCEPT ![r] = t] /\ epoch' = epoch /\ held' = held
        /\ a \in apps /\ runner[r].pc = "create"
    BY <1>3 DEF CreateEvent, RowInserts, At
  <2>2. t.pc \in ActiveAt /\ t.key = runner[r].key /\ t.app = a
    BY <1>0 DEF Runner, ActiveAt
  <2>3. a \in AppIds /\ epoch[a] = 0
    BY <1>0, <2>1, ForgottenIsGone
  <2> HIDE DEF t
  <2>4. runner'[r] = t /\ \A s \in Runners \ {r} : runner'[s] = runner[s]
    BY <1>0, <2>1
  <2>5. MutexInv'
    BY <1>0, <2>1, <2>2, <2>4 DEF MutexInv, Locked, LockedAt, LockOf
  <2>6. ASSUME NEW s \in Runners \ {r}, Active(s) PROVE runner[s].app # a
    <3> SUFFICES ASSUME runner[s].app = a PROVE FALSE OBVIOUS
    <3>1. Locked(s) /\ Locked(r) /\ runner[s].pc \in LockedAt /\ runner[r].pc \in LockedAt
      BY <2>1, <2>6 DEF Active, Locked, LockedAt
    <3>2. LockOf(s) # LockOf(r) BY <1>0, <3>1 DEF MutexInv
    <3>3. runner[s].key <= 0 /\ runner[r].key <= 0 BY <1>0, <2>3, <3>1 DEF MutexInv
    <3>4. runner[s].key \in Nat /\ runner[r].key \in Nat
      BY <1>0, ConstantsAssumption DEF Runner, Epochs
    <3> QED BY <3>2, <3>3, <3>4 DEF LockOf
  <2>7. OneDeployPerApp'
    BY <1>0, <2>2, <2>4, <2>6 DEF OneDeployPerApp, Active
  <2> QED BY <2>5, <2>7
<1>4. CASE CreateEventRefused(r)
  <2>1. /\ runner' = [runner EXCEPT ![r] = Parked("idle")] /\ epoch' = epoch
        /\ held' = held \ {LockOf(r)} /\ runner[r].pc = "create"
    BY <1>4 DEF CreateEventRefused, Return, At
  <2>2. runner'[r] = Parked("idle") /\ \A s \in Runners \ {r} : runner'[s] = runner[s]
    BY <1>0, <2>1
  <2>3. Parked("idle").pc \notin {"blocked"} \cup LockedAt
    BY ParkedType DEF LockedAt, ActiveAt
  <2>4. MutexInv'
    BY <1>0, <2>1, <2>2, <2>3 DEF MutexInv, Locked, LockedAt, LockOf
  <2>5. OneDeployPerApp'
    BY <1>0, <2>2, <2>3 DEF OneDeployPerApp, Active, LockedAt
  <2> QED BY <2>4, <2>5
<1>5. CASE \/ FinishUntargeted(r) \/ ApplyFails(r) \/ WaitFails(r)
           \/ WaitInterrupted(r) \/ FinishSuccess(r)
  <2>1. /\ runner' = [runner EXCEPT ![r] = Parked("idle")] /\ epoch' = epoch
        /\ held' = held \ {LockOf(r)} /\ Active(r)
    BY <1>5 DEF FinishUntargeted, ApplyFails, WaitFails, WaitInterrupted,
                FinishSuccess, Finish, Return, At, Active, ActiveAt
  <2> QED BY <2>1, ParkedType, ExclusionMove
<1>6. CASE StartRolling(r)
  <2> DEFINE t == [runner[r] EXCEPT !.pc = "apply", !.tgt = 1]
  <2>1. /\ runner' = [runner EXCEPT ![r] = t] /\ epoch' = epoch /\ held' = held
        /\ Active(r)
    BY <1>6 DEF StartRolling, At, Active, ActiveAt
  <2>2. t.key = runner[r].key /\ t.app = runner[r].app BY <1>0 DEF Runner
  <2> HIDE DEF t
  <2> QED BY <2>1, <2>2, ExclusionMove
<1>7. CASE ApplyTarget(r) \/ WaitDone(r)
  <2> PICK pc \in PCs : NextTarget(r, pc) /\ epoch' = epoch /\ held' = held /\ Active(r)
    BY <1>7 DEF ApplyTarget, WaitDone, At, Active, ActiveAt, PCs
  <2>1. CASE runner[r].tgt < TargetCount[runner[r].app]
    <3> DEFINE t == [runner[r] EXCEPT !.tgt = runner[r].tgt + 1]
    <3>1. runner' = [runner EXCEPT ![r] = t] BY <2>1 DEF NextTarget
    <3>2. t.key = runner[r].key /\ t.app = runner[r].app BY <1>0 DEF Runner
    <3> HIDE DEF t
    <3> QED BY <3>1, <3>2, ExclusionMove
  <2>2. CASE ~(runner[r].tgt < TargetCount[runner[r].app])
    <3> DEFINE t == [runner[r] EXCEPT !.tgt = 1, !.pc = pc]
    <3>1. runner' = [runner EXCEPT ![r] = t] BY <2>2 DEF NextTarget
    <3>2. t.key = runner[r].key /\ t.app = runner[r].app BY <1>0 DEF Runner
    <3> HIDE DEF t
    <3> QED BY <3>1, <3>2, ExclusionMove
  <2> QED BY <2>1, <2>2
<1>8. CASE RecordLastSeen(r) \/ SchedulePurge(r)
  <2> PICK pc \in PCs : Goto(r, pc) /\ epoch' = epoch /\ held' = held /\ Active(r)
    BY <1>8 DEF RecordLastSeen, SchedulePurge, At, Active, ActiveAt, PCs
  <2> DEFINE t == [runner[r] EXCEPT !.pc = pc]
  <2>1. runner' = [runner EXCEPT ![r] = t] BY DEF Goto
  <2>2. t.key = runner[r].key /\ t.app = runner[r].app BY <1>0 DEF Runner
  <2> HIDE DEF t
  <2> QED BY <2>1, <2>2, ExclusionMove
<1> QED BY <1>1, <1>2, <1>3, <1>4, <1>5, <1>6, <1>7, <1>8 DEF RunStep

(* Every step keeps exclusion, as long as ids are not reused.              *)
LEMMA ExclusionStep ==
  ASSUME ExclusionInv, MaxGen = 1, [Next]_vars PROVE ExclusionInv'
<1> USE DEF memory, stored, bounds
<1>0. /\ runner \in [Runners -> Runner] /\ TypeInv /\ TypeInv'
      /\ epoch \in [AppIds -> Epochs]
  BY TypeStep DEF ExclusionInv, TypeInv, TypeOK
<1> SUFFICES MutexInv' /\ OneDeployPerApp' BY <1>0 DEF ExclusionInv
<1>a. {"idle", "off", "sync", "enqueue", "lock"} \cap ({"blocked"} \cup LockedAt) = {}
  BY DEF LockedAt, ActiveAt
<1>1. CASE \/ UNCHANGED vars
           \/ \E a \in AppIds : CreateApp(a) \/ DeleteApp(a)
           \/ \E e \in purging : PurgeDone(e)
           \/ \E w \in Workloads : RolloutEnds(w)
           \/ CloseEngine \/ CancelBase \/ Boot \/ BootSweep \/ StartServing
           \/ \E e \in DOMAIN events : ReconcileEvent(e)
           \/ Sigterm
  <2>1. UNCHANGED <<runner, epoch, held>>
    BY <1>1 DEF vars, CreateApp, DeleteApp, PurgeDone, RolloutEnds, CloseEngine,
                CancelBase, Boot, BootSweep, StartServing, ReconcileEvent, Sigterm
  <2> QED BY <2>1, ExclusionFrame
<1>2. ASSUME NEW c \in Callers, AskManual(c) \/ AskQueued(c)
      PROVE  MutexInv' /\ OneDeployPerApp'
  <2> PICK a \in AppIds, act \in {"patch", "restart"},
           ver \in Versions \cup {NoVersion}, pc \in {"sync", "enqueue"} :
             Ask(c, pc, a, act, ver)
    BY <1>2 DEF AskManual, AskQueued
  <2>1. /\ UNCHANGED <<epoch, held>>
        /\ \A r \in Runners : runner'[r] = runner[r] \/ runner'[r].pc = pc
    BY <1>0 DEF Ask, Task
  <2> QED BY <1>a, <2>1, ExclusionFrame
<1>3. ASSUME NEW c \in Callers, CallerStep(c) PROVE MutexInv' /\ OneDeployPerApp'
  <2>1. UNCHANGED <<epoch, held>>
    BY <1>3 DEF CallerStep, Enqueue, EnqueueDropped, DeploySync
  <2>2. \A r \in Runners : runner'[r] = runner[r] \/ runner'[r].pc \in {"idle", "lock"}
    BY <1>0, <1>3, ParkedType
    DEF CallerStep, Enqueue, EnqueueDropped, DeploySync, Goto, Runner
  <2> QED BY <1>a, <2>1, <2>2, ExclusionFrame
<1>4. ASSUME NEW w \in Workers, WorkerStep(w) PROVE MutexInv' /\ OneDeployPerApp'
  <2>1. UNCHANGED <<epoch, held>> BY <1>4 DEF WorkerStep, Receive, WorkerExit
  <2>2. \A r \in Runners : runner'[r] = runner[r] \/ runner'[r].pc \in {"off", "lock"}
    BY <1>0, <1>4 DEF WorkerStep, Receive, WorkerExit, Goto, Task, Runner
  <2> QED BY <1>a, <2>1, <2>2, ExclusionFrame
<1>5. ASSUME NEW r \in Runners, RunStep(r) PROVE MutexInv' /\ OneDeployPerApp'
  BY <1>5, ExclusionRun
<1>6. ASSUME NEW a \in AppIds, ForgetApp(a) PROVE MutexInv' /\ OneDeployPerApp'
  <2>1. /\ epoch' = [epoch EXCEPT ![a] = epoch[a] + 1]
        /\ UNCHANGED <<runner, held>>
    BY <1>6 DEF ForgetApp
  <2>2. OneDeployPerApp'
    BY <2>1 DEF ExclusionInv, OneDeployPerApp, Active
  <2>3. ASSUME NEW r \in Runners, runner[r].pc \in {"blocked"} \cup LockedAt
        PROVE  runner[r].key <= epoch'[runner[r].app]
    <3>1. runner[r].app \in AppIds /\ runner[r].key \in Nat
      BY <1>0, <2>3, RunnerFacts, ConstantsAssumption DEF Queued, HasJob, Epochs
    <3>2. runner[r].key <= epoch[runner[r].app]
      BY <2>3 DEF ExclusionInv, MutexInv
    <3>3. epoch[runner[r].app] \in Nat /\ epoch[a] \in Nat
      BY <1>0, <3>1, ConstantsAssumption DEF Epochs
    <3> QED BY <1>0, <2>1, <3>1, <3>2, <3>3
  <2>4. MutexInv'
    BY <2>1, <2>3 DEF ExclusionInv, MutexInv, Locked, LockOf
  <2> QED BY <2>2, <2>4
<1>7. CASE Exit \/ Crash
  <2>1. runner' = FreshRunner BY <1>7 DEF Exit, Crash, FreshMemory
  <2>2. \A r \in Runners : runner'[r].pc \in {"idle", "off"}
    BY <2>1, ParkedType DEF FreshRunner
  <2> QED BY <1>a, <2>2 DEF MutexInv, OneDeployPerApp, Active, Locked, LockedAt
<1> QED BY <1>1, <1>2, <1>3, <1>4, <1>5, <1>6, <1>7
        DEF Next, GoroutineStep, ProcessStep

(* A manual deploy never runs concurrently with a queued one of the same   *)
(* app, nor with another manual one, whatever is deleted meanwhile, as     *)
(* long as the row ids of deleted apps are not given to new ones.          *)
THEOREM Exclusion == ASSUME MaxGen = 1 PROVE Spec => []OneDeployPerApp
<1>1. Init => ExclusionInv BY InitExclusion
<1>2. ExclusionInv /\ [Next]_vars => ExclusionInv' BY ExclusionStep
<1>3. ExclusionInv => OneDeployPerApp BY DEF ExclusionInv
<1> QED BY <1>1, <1>2, <1>3, PTL DEF Spec

(***************************************************************************)
(* Queues are drained before the process ends.                             *)
(***************************************************************************)

(* A channel has a worker as long as something can be in it, and the       *)
(* current channel of an app is closed only once the engine is.            *)
WorkerInv ==
  \A q \in Workers :
    /\ chan[q] = "none" => runner[q].pc = "off"
    /\ chan[q] = "open" => runner[q].pc # "off"
    /\ runner[q].pc = "off" => queue[q] = <<>>
    /\ chan[q] # "none" => q[2] <= epoch[q[1]]
    /\ chan[q] = "closed" => q[2] < epoch[q[1]] \/ mode \in {"closed", "cancelled"}

(* The points of a run.                                                    *)
InRun == {"lock", "blocked"} \cup LockedAt

(* A statement of Engine.run moves its own runner, which goes on, or ends  *)
(* up idle, and touches no queue, no epoch and not the process.            *)
LEMMA RunMoves ==
  ASSUME NEW r \in Runners, RunStep(r)
  PROVE  /\ \E t : runner' = [runner EXCEPT ![r] = t]
         /\ runner[r].pc \in InRun
         /\ UNCHANGED <<apps, gens, mode, epoch, chan, queue, forgets, bounds>>
<1> USE DEF memory, stored, InRun, LockedAt, ActiveAt
<1>1. CASE ApplyTarget(r) \/ WaitDone(r)
  <2>1. \E t : runner' = [runner EXCEPT ![r] = t]
    BY <1>1 DEF ApplyTarget, WaitDone, NextTarget
  <2> QED BY <1>1, <2>1 DEF ApplyTarget, WaitDone, At
<1>2. CASE \/ GetLock(r) \/ Acquire(r) \/ CreateEvent(r) \/ CreateEventRefused(r)
           \/ FinishUntargeted(r) \/ StartRolling(r)
  <2>1. \E t : runner' = [runner EXCEPT ![r] = t]
    BY <1>2 DEF GetLock, Acquire, CreateEvent, CreateEventRefused, FinishUntargeted,
                StartRolling, Finish, Return, Goto
  <2> QED BY <1>2, <2>1 DEF GetLock, Acquire, CreateEvent, CreateEventRefused,
                            FinishUntargeted, StartRolling, At
<1>3. CASE \/ ApplyFails(r) \/ WaitFails(r) \/ WaitInterrupted(r) \/ RecordLastSeen(r)
           \/ SchedulePurge(r) \/ FinishSuccess(r)
  <2>1. \E t : runner' = [runner EXCEPT ![r] = t]
    BY <1>3 DEF ApplyFails, WaitFails, WaitInterrupted, RecordLastSeen, SchedulePurge,
                FinishSuccess, Finish, Return, Goto
  <2> QED BY <1>3, <2>1 DEF ApplyFails, WaitFails, WaitInterrupted, RecordLastSeen,
                            SchedulePurge, FinishSuccess, At
<1> QED BY <1>1, <1>2, <1>3 DEF RunStep

(* Where the statement leaves it.                                          *)
LEMMA RunLands ==
  ASSUME TypeInv, NEW r \in Runners, RunStep(r)
  PROVE  runner'[r].pc \in {"idle"} \cup InRun
<1>0. runner \in [Runners -> Runner] BY DEF TypeInv, TypeOK
<1> USE <1>0 DEF InRun, LockedAt, ActiveAt
<1>1. CASE ApplyTarget(r) \/ WaitDone(r)
  <2>1. PICK pc \in {"wait", "record"} : NextTarget(r, pc)
    BY <1>1 DEF ApplyTarget, WaitDone
  <2>2. runner[r].pc \in InRun BY <1>1 DEF ApplyTarget, WaitDone, At
  <2> QED BY <2>1, <2>2 DEF NextTarget, Runner
<1>2. CASE GetLock(r) \/ Acquire(r) \/ CreateEvent(r) \/ StartRolling(r)
  BY <1>2 DEF GetLock, Acquire, CreateEvent, StartRolling, Goto, Runner
<1>3. CASE \/ CreateEventRefused(r) \/ FinishUntargeted(r) \/ ApplyFails(r)
           \/ WaitFails(r) \/ WaitInterrupted(r) \/ FinishSuccess(r)
  BY <1>3, ParkedType
  DEF CreateEventRefused, FinishUntargeted, ApplyFails, WaitFails, WaitInterrupted,
      FinishSuccess, Finish, Return
<1>4. CASE RecordLastSeen(r) \/ SchedulePurge(r)
  BY <1>4 DEF RecordLastSeen, SchedulePurge, Goto, Runner
<1> QED BY <1>1, <1>2, <1>3, <1>4 DEF RunStep

(* A worker is named by an id and an epoch.                                *)
LEMMA WorkerIs ==
  ASSUME NEW q \in Workers
  PROVE  /\ q[1] \in AppIds /\ q[2] \in Epochs /\ q = <<q[1], q[2]>>
         /\ q[2] \in Nat /\ q \in Runners /\ q \in Objects /\ q \notin Callers
BY ConstantsAssumption, CallersAssumption DEF Workers, Objects, Runners, Epochs

(* What a step may do that concerns no queue.                              *)
LEMMA WorkerFrame ==
  ASSUME WorkerInv, UNCHANGED <<epoch, chan, queue>>,
         mode' = mode \/ mode \notin {"closed", "cancelled"} \/ mode' \in {"closed", "cancelled"},
         \A q \in Workers : runner'[q].pc = "off" <=> runner[q].pc = "off"
  PROVE  WorkerInv'
BY DEF WorkerInv

(* Each step keeps it.                                                     *)
LEMMA WorkerSteps == ASSUME TypeInv, WorkerInv, [Next]_vars PROVE WorkerInv'
<1> USE DEF memory, stored, bounds
<1>0. /\ runner \in [Runners -> Runner] /\ epoch \in [AppIds -> Epochs]
      /\ chan \in [Objects -> {"none", "open", "closed"}]
      /\ queue \in [Objects -> Seq(Job)]
  BY DEF TypeInv, TypeOK
<1>1. CASE \/ UNCHANGED vars
           \/ \E a \in AppIds : CreateApp(a) \/ DeleteApp(a)
           \/ \E e \in purging : PurgeDone(e)
           \/ \E w \in Workloads : RolloutEnds(w)
           \/ CancelBase \/ Boot \/ BootSweep \/ StartServing
           \/ \E e \in DOMAIN events : ReconcileEvent(e)
           \/ Sigterm
  <2>1. UNCHANGED <<runner, epoch, chan, queue>>
    BY <1>1 DEF vars, CreateApp, DeleteApp, PurgeDone, RolloutEnds,
                CancelBase, Boot, BootSweep, StartServing, ReconcileEvent, Sigterm
  <2>2. mode' = mode \/ mode \notin {"closed", "cancelled"} \/ mode' \in {"closed", "cancelled"}
    BY <1>1 DEF vars, CreateApp, DeleteApp, PurgeDone, RolloutEnds,
                CancelBase, Boot, BootSweep, StartServing, ReconcileEvent, Sigterm
  <2> QED BY <2>1, <2>2, WorkerFrame
<1>2. ASSUME NEW c \in Callers, AskManual(c) \/ AskQueued(c) \/ EnqueueDropped(c) \/ DeploySync(c)
      PROVE  WorkerInv'
  <2>1. \E t : runner' = [runner EXCEPT ![c] = t]
    BY <1>2 DEF AskManual, AskQueued, Ask, EnqueueDropped, DeploySync, Goto
  <2>2. UNCHANGED <<mode, epoch, chan, queue>>
    BY <1>2 DEF AskManual, AskQueued, Ask, EnqueueDropped, DeploySync
  <2>3. \A q \in Workers : runner'[q] = runner[q] BY <1>0, <2>1, WorkerIs
  <2> QED BY <2>2, <2>3, WorkerFrame
<1>3. ASSUME NEW c \in Callers, Enqueue(c) PROVE WorkerInv'
  <2> DEFINE a == runner[c].app
             o == CurrentQueue(a)
  <2>1. a \in AppIds /\ o \in Workers /\ o = <<a, epoch[a]>>
    <3>1. c \in Runners /\ runner[c].pc \in Queued \cup LockedAt
      BY <1>3 DEF Enqueue, At, Runners, Queued
    <3> QED BY <1>0, <3>1, RunnerFacts DEF HasJob, CurrentQueue, Workers, Objects
  <2>2. chan[o] # "closed"
    <3>1. mode \in {"up", "stopping"} BY <1>3 DEF Enqueue, Accepts
    <3>2. o[1] = a /\ o[2] = epoch[a] /\ epoch[a] \in Nat
      BY <1>0, <2>1, ConstantsAssumption DEF Epochs
    <3> HIDE DEF a, o
    <3>3. chan[o] = "closed" => o[2] < epoch[o[1]]
      BY <2>1, <3>1 DEF WorkerInv
    <3> QED BY <3>2, <3>3
  <2>3. /\ chan' = [chan EXCEPT ![o] = "open"] /\ UNCHANGED <<mode, epoch>>
        /\ \A q \in Workers \ {o} : queue'[q] = queue[q] /\ runner'[q] = runner[q]
        /\ runner'[o] = IF chan[o] = "none" THEN Parked("idle") ELSE runner[o]
    BY <1>0, <1>3, <2>1, WorkerIs DEF Enqueue
  <2>4. runner'[o].pc # "off"
    BY <1>0, <2>1, <2>2, <2>3, ParkedType DEF WorkerInv, Workers
  <2>5. ASSUME NEW q \in Workers
        PROVE  /\ chan'[q] = "none" => runner'[q].pc = "off"
               /\ chan'[q] = "open" => runner'[q].pc # "off"
               /\ runner'[q].pc = "off" => queue'[q] = <<>>
               /\ chan'[q] # "none" => q[2] <= epoch'[q[1]]
               /\ chan'[q] = "closed" =>
                    q[2] < epoch'[q[1]] \/ mode' \in {"closed", "cancelled"}
    <3>1. CASE q = o
      <4>1. chan'[q] = "open" /\ q[2] = epoch[q[1]] /\ epoch[q[1]] \in Nat
        BY <1>0, <2>1, <2>3, <3>1, WorkerIs, ConstantsAssumption DEF Epochs
      <4> QED BY <2>3, <2>4, <3>1, <4>1
    <3>2. CASE q # o
      <4>1. chan'[q] = chan[q] BY <1>0, <2>3, <3>2, WorkerIs
      <4> HIDE DEF o
      <4> QED BY <2>3, <3>2, <4>1 DEF WorkerInv
    <3> QED BY <3>1, <3>2
  <2> QED BY <2>5 DEF WorkerInv
<1>4. ASSUME NEW w \in Workers, Receive(w) PROVE WorkerInv'
  <2>1. /\ runner'[w].pc = "lock" /\ runner[w].pc = "idle"
        /\ \A q \in Workers \ {w} : queue'[q] = queue[q] /\ runner'[q] = runner[q]
        /\ UNCHANGED <<mode, epoch, chan>>
    BY <1>0, <1>4, WorkerIs DEF Receive, At, Task
  <2> QED BY <2>1 DEF WorkerInv
<1>5. ASSUME NEW w \in Workers, WorkerExit(w) PROVE WorkerInv'
  <2>1. /\ runner'[w].pc = "off" /\ chan[w] = "closed" /\ queue[w] = <<>>
        /\ \A q \in Workers \ {w} : runner'[q] = runner[q]
        /\ UNCHANGED <<mode, epoch, chan, queue>>
    BY <1>0, <1>5, WorkerIs DEF WorkerExit, Exits, Goto, Runner
  <2> QED BY <2>1 DEF WorkerInv
<1>6. ASSUME NEW r \in Runners, RunStep(r) PROVE WorkerInv'
  <2>1. "off" \notin {"idle"} \cup InRun BY DEF InRun, LockedAt, ActiveAt
  <2>2. \A q \in Workers : runner'[q].pc = "off" <=> runner[q].pc = "off"
    <3>1. PICK t : runner' = [runner EXCEPT ![r] = t] BY <1>6, RunMoves
    <3>2. runner[r].pc # "off" /\ runner'[r].pc # "off" BY <1>6, <2>1, RunMoves, RunLands
    <3> QED BY <1>0, <3>1, <3>2, WorkerIs
  <2> QED BY <1>6, <2>2, RunMoves, WorkerFrame
<1>7. ASSUME NEW a \in AppIds, ForgetApp(a) PROVE WorkerInv'
  <2> SUFFICES ASSUME NEW q \in Workers
               PROVE  /\ chan'[q] = "none" => runner'[q].pc = "off"
                      /\ chan'[q] = "open" => runner'[q].pc # "off"
                      /\ runner'[q].pc = "off" => queue'[q] = <<>>
                      /\ chan'[q] # "none" => q[2] <= epoch'[q[1]]
                      /\ chan'[q] = "closed" =>
                           q[2] < epoch'[q[1]] \/ mode' \in {"closed", "cancelled"}
    BY DEF WorkerInv
  <2> DEFINE o == CurrentQueue(a)
  <2>1. /\ UNCHANGED <<mode, queue, runner>>
        /\ epoch' = [epoch EXCEPT ![a] = epoch[a] + 1]
        /\ chan' = [chan EXCEPT ![o] = IF chan[o] = "open" THEN "closed" ELSE chan[o]]
    BY <1>7 DEF ForgetApp
  <2>2. /\ chan[q] = "none" => runner[q].pc = "off"
        /\ chan[q] = "open" => runner[q].pc # "off"
        /\ runner[q].pc = "off" => queue[q] = <<>>
        /\ chan[q] # "none" => q[2] <= epoch[q[1]]
        /\ chan[q] = "closed" => q[2] < epoch[q[1]] \/ mode \in {"closed", "cancelled"}
    BY DEF WorkerInv
  <2>3. /\ q[1] \in AppIds /\ q[2] \in Nat /\ q \in Objects /\ epoch[q[1]] \in Nat
        /\ q[1] = a => epoch'[q[1]] = epoch[q[1]] + 1
        /\ q[1] # a => epoch'[q[1]] = epoch[q[1]]
    BY <1>0, <2>1, WorkerIs, ConstantsAssumption DEF Epochs
  <2>4. CASE q = o
    <3>1. q[1] = a /\ q[2] = epoch[q[1]] BY <2>4 DEF CurrentQueue
    <3>2. chan'[q] = IF chan[q] = "open" THEN "closed" ELSE chan[q]
      BY <1>0, <2>1, <2>3, <2>4
    <3> HIDE DEF o
    <3> QED BY <2>1, <2>2, <2>3, <3>1, <3>2
  <2>5. CASE q # o
    <3>1. chan'[q] = chan[q] BY <1>0, <2>1, <2>3, <2>5
    <3> HIDE DEF o
    <3> QED BY <2>1, <2>2, <2>3, <3>1
  <2> QED BY <2>4, <2>5
<1>8. CASE CloseEngine
  <2>1. /\ UNCHANGED <<epoch, queue, runner>> /\ mode' = "closed"
        /\ \A q \in Workers : chan'[q] = IF chan[q] = "open" THEN "closed" ELSE chan[q]
    BY <1>0, <1>8, WorkerIs DEF CloseEngine, ChansClosed
  <2> QED BY <2>1 DEF WorkerInv
<1>9. CASE Exit \/ Crash
  <2>1. \A q \in Workers : chan'[q] = "none" /\ queue'[q] = <<>> /\ runner'[q].pc = "off"
    BY <1>9, WorkerIs, ParkedType DEF Exit, Crash, FreshMemory, FreshRunner
  <2> QED BY <2>1 DEF WorkerInv
<1> QED BY <1>1, <1>2, <1>3, <1>4, <1>5, <1>6, <1>7, <1>8, <1>9
        DEF Next, GoroutineStep, ProcessStep, CallerStep, WorkerStep

(* The process starts without queues.                                      *)
LEMMA InitWorkers == ASSUME Init PROVE WorkerInv
<1>1. \A q \in Workers : chan[q] = "none" /\ queue[q] = <<>> /\ runner[q].pc = "off"
  BY WorkerIs, ParkedType DEF Init, FreshRunner
<1> QED BY <1>1 DEF WorkerInv

(* Engine.Shutdown returns only after every job that was accepted has been *)
(* taken from its queue, also those that ForgetApp has dropped from the    *)
(* map, for any number of apps, callers and capacities.                    *)
THEOREM NothingLeftQueued == Spec => ShutdownDrains
<1>1. WorkerInv => [(Exit /\ stops' = stops) => \A q \in Objects : queue[q] = << >>]_vars
  BY DEF WorkerInv, Exit, WorkersDone, Workers
<1> QED BY <1>1, InitType, TypeStep, InitWorkers, WorkerSteps, PTL DEF Spec, ShutdownDrains

(***************************************************************************)
(* An event in flight is the event of one goroutine.                       *)
(***************************************************************************)

Serving == mode \in {"up", "stopping", "closed"}

Owned(e) == e \in purging \/ \E r \in Runners : Active(r) /\ runner[r].ev = e

(* OpenEventOwned, made inductive: between the drain deadline and the end  *)
(* of the process a run may leave its event, but none loses the event it   *)
(* has, and a process that starts has neither runs nor purges.             *)
OwnInv ==
  /\ mode \in {"down", "booting"} => purging = {} /\ \A r \in Runners : ~Active(r)
  /\ Serving => \A e \in InFlight : Owned(e)
  /\ purging \subseteq InFlight
  /\ \A r \in Runners : Active(r) => runner[r].ev \in InFlight \ purging
  /\ \A r, s \in Runners :
       Active(r) /\ Active(s) /\ runner[r].ev = runner[s].ev => r = s

(* No run begins, ends or changes its app or its event.                    *)
SameOwners ==
  \A r \in Runners :
    /\ Active(r)' <=> Active(r)
    /\ Active(r) => runner'[r].ev = runner[r].ev /\ runner'[r].app = runner[r].app

(* The steps of a run that neither begin nor end it.                       *)
GoesOn(r) ==
  \/ GetLock(r) \/ Acquire(r) \/ CreateEventRefused(r) \/ StartRolling(r)
  \/ ApplyTarget(r) \/ WaitDone(r) \/ RecordLastSeen(r) \/ SchedulePurge(r)

(* Those of them, and of the requests and the workers, that leave the      *)
(* history alone.                                                          *)
Quiet ==
  \/ \E c \in Callers : AskManual(c) \/ AskQueued(c) \/ CallerStep(c)
  \/ \E w \in Workers : WorkerStep(w)
  \/ \E r \in Runners : \/ GetLock(r) \/ Acquire(r) \/ CreateEventRefused(r)
                        \/ ApplyTarget(r) \/ WaitDone(r) \/ RecordLastSeen(r)

(* A new event is in flight under an id of its own.                        *)
LEMMA EventAppended ==
  ASSUME TypeInv, NEW x, x.status \in OpenStatus, events' = Append(events, x)
  PROVE  /\ Len(events) + 1 \notin DOMAIN events
         /\ InFlight' = InFlight \cup {Len(events) + 1}
         /\ DOMAIN events' = DOMAIN events \cup {Len(events) + 1}
         /\ \A e \in DOMAIN events : events'[e] = events[e]
         /\ events'[Len(events) + 1] = x
<1>1. events \in Seq(Event) /\ Len(events) \in Nat /\ DOMAIN events = 1..Len(events)
  BY LenProperties DEF TypeInv, TypeOK
<1>2. /\ DOMAIN events' = 1..(Len(events) + 1)
      /\ \A e \in DOMAIN events : events'[e] = events[e]
      /\ events'[Len(events) + 1] = x
  BY <1>1
<1>3. DOMAIN events' = DOMAIN events \cup {Len(events) + 1} /\ Len(events) + 1 \notin DOMAIN events
  BY <1>1, <1>2
<1> QED BY <1>2, <1>3 DEF InFlight

(* A verdict ends the flight of one event and leaves the others alone.     *)
LEMMA EventSettled ==
  ASSUME TypeInv, NEW e \in DOMAIN events, NEW status, NEW detail, Settle(e, status, detail)
  PROVE  /\ DOMAIN events' = DOMAIN events
         /\ events'[e] = [events[e] EXCEPT !.status = status, !.detail = detail]
         /\ events'[e].status = status
         /\ \A f \in DOMAIN events \ {e} : events'[f] = events[f]
         /\ status \in TerminalStatus => InFlight' = InFlight \ {e}
<1>1. events \in Seq(Event) BY DEF TypeInv, TypeOK
<1>2. DOMAIN events = 1..Len(events) /\ events[e] \in Event
  BY <1>1, LenProperties, ElementOfSeq
<1>3. /\ DOMAIN events' = DOMAIN events
      /\ events'[e] = [events[e] EXCEPT !.status = status, !.detail = detail]
      /\ \A f \in DOMAIN events \ {e} : events'[f] = events[f]
  BY <1>1 DEF Settle
<1>4. events'[e].status = status BY <1>2, <1>3 DEF Event
<1>5. status \in TerminalStatus => status \notin OpenStatus
  BY DEF TerminalStatus, OpenStatus
<1> QED BY <1>3, <1>4, <1>5 DEF InFlight

(* A statement of a run that goes on keeps its app and its event.          *)
LEMMA RunGoesOn ==
  ASSUME TypeInv, NEW r \in Runners, GoesOn(r)
  PROVE  SameOwners
<1> USE DEF ActiveAt
<1>0. runner \in [Runners -> Runner] BY DEF TypeInv, TypeOK
<1>1. \A s \in Runners \ {r} : runner'[s] = runner[s]
  <2>1. RunStep(r) BY DEF GoesOn, RunStep
  <2> QED BY <1>0, <2>1, RunMoves
<1>2. CASE GetLock(r) \/ Acquire(r) \/ CreateEventRefused(r)
  <2>1. runner[r].pc \notin ActiveAt /\ runner'[r].pc \notin ActiveAt
    BY <1>0, <1>2, ParkedType
    DEF GetLock, Acquire, CreateEventRefused, Return, Goto, At, Runner
  <2> QED BY <1>1, <2>1 DEF SameOwners, Active
<1>3. CASE \/ StartRolling(r) \/ ApplyTarget(r) \/ WaitDone(r) \/ RecordLastSeen(r)
           \/ SchedulePurge(r)
  <2>1. /\ runner[r].pc \in ActiveAt /\ runner'[r].pc \in ActiveAt
        /\ runner'[r].ev = runner[r].ev /\ runner'[r].app = runner[r].app
    <3>1. CASE StartRolling(r) BY <1>0, <3>1 DEF StartRolling, At, Runner
    <3>2. CASE ~StartRolling(r)
      <4>1. PICK pc \in ActiveAt : NextTarget(r, pc) \/ Goto(r, pc)
        BY <1>3, <3>2 DEF ApplyTarget, WaitDone, RecordLastSeen, SchedulePurge
      <4>2. runner[r].pc \in ActiveAt /\ runner[r] \in Runner
        BY <1>0, <1>3 DEF StartRolling, ApplyTarget, WaitDone, RecordLastSeen,
                          SchedulePurge, At
      <4> QED BY <1>0, <4>1, <4>2 DEF NextTarget, Goto, Runner
    <3> QED BY <3>1, <3>2
  <2> QED BY <1>1, <2>1 DEF SameOwners, Active
<1> QED BY <1>2, <1>3 DEF GoesOn

(* Neither does anything else that leaves the history alone.  A worker     *)
(* that Enqueue starts was not running.                                    *)
LEMMA QuietSteps ==
  ASSUME TypeInv, WorkerInv, Quiet
  PROVE  SameOwners /\ UNCHANGED <<mode, events, purging>>
<1> USE DEF memory, stored, bounds
<1>0. runner \in [Runners -> Runner] BY DEF TypeInv, TypeOK
<1>1. {"off", "idle", "sync", "enqueue", "lock"} \cap ActiveAt = {} BY DEF ActiveAt
<1>2. ASSUME \A r \in Runners :
               \/ runner'[r] = runner[r]
               \/ runner[r].pc \notin ActiveAt /\ runner'[r].pc \notin ActiveAt
      PROVE  SameOwners
  BY <1>2 DEF SameOwners, Active
<1>3. ASSUME NEW c \in Callers, Enqueue(c) PROVE SameOwners
  <2> DEFINE q == CurrentQueue(runner[c].app)
  <2>1. q \in Workers
    <3>1. c \in Runners /\ runner[c].pc \in Queued \cup LockedAt
      BY <1>3 DEF Enqueue, At, Runners, Queued
    <3> QED BY <3>1, RunnerFacts DEF HasJob, CurrentQueue, Workers, Objects, TypeInv, TypeOK
  <2>2. chan[q] = "none" => runner[q].pc = "off" BY <2>1 DEF WorkerInv
  <2> QED BY <1>0, <1>1, <1>2, <1>3, <2>2, ParkedType DEF Enqueue, At
<1>4. ASSUME NEW c \in Callers, EnqueueDropped(c) \/ DeploySync(c) PROVE SameOwners
  BY <1>0, <1>1, <1>2, <1>4, ParkedType DEF EnqueueDropped, DeploySync, Goto, At, Runner
<1>5. ASSUME NEW c \in Callers, AskManual(c) \/ AskQueued(c) PROVE SameOwners
  BY <1>0, <1>1, <1>2, <1>5 DEF AskManual, AskQueued, Ask, Task
<1>6. ASSUME NEW w \in Workers, WorkerStep(w) PROVE SameOwners
  BY <1>0, <1>1, <1>2, <1>6 DEF WorkerStep, Receive, WorkerExit, At, Goto, Task, Runner
<1>7. SameOwners BY <1>3, <1>4, <1>5, <1>6, RunGoesOn DEF Quiet, GoesOn, CallerStep
<1>8. UNCHANGED <<mode, events, purging>>
  BY DEF Quiet, AskManual, AskQueued, Ask, CallerStep, Enqueue, EnqueueDropped, DeploySync,
         WorkerStep, Receive, WorkerExit, GetLock, Acquire, CreateEventRefused,
         ApplyTarget, WaitDone, RecordLastSeen
<1> QED BY <1>7, <1>8

(* What else leaves runs and history alone.                                *)
LEMMA AsideSteps ==
  ASSUME \/ UNCHANGED vars
         \/ \E a \in AppIds : CreateApp(a) \/ ForgetApp(a)
         \/ \E w \in Workloads : RolloutEnds(w)
         \/ Sigterm \/ CloseEngine \/ CancelBase \/ Boot \/ StartServing
  PROVE  /\ SameOwners /\ UNCHANGED <<events, purging>>
         /\ mode' \in {"down", "booting"} => mode \in {"down", "booting"}
         /\ Serving' => Serving \/ InFlight = {}
BY DEF vars, CreateApp, ForgetApp, RolloutEnds, Sigterm, CloseEngine, CancelBase, Boot,
       StartServing, SameOwners, Active, Serving, InFlight, Interrupted, memory, stored, bounds

(* A step that begins and ends nothing.                                    *)
LEMMA OwnFrame ==
  ASSUME OwnInv, SameOwners, InFlight' = InFlight, purging' = purging,
         mode' \in {"down", "booting"} => mode \in {"down", "booting"},
         Serving' => Serving \/ InFlight = {}
  PROVE  OwnInv'
BY DEF OwnInv, SameOwners, Owned

(* A run that writes its verdict and returns.                              *)
LEMMA OwnEnds ==
  ASSUME TypeInv, OwnInv, NEW r \in Runners, Active(r), mode' = mode, purging' = purging,
         NEW status \in TerminalStatus, NEW detail, Finish(r, status, detail)
  PROVE  OwnInv'
<1> DEFINE e == runner[r].ev
<1>1. runner \in [Runners -> Runner] BY DEF TypeInv, TypeOK
<1>2. e \in InFlight \ purging /\ e \in DOMAIN events BY DEF OwnInv, InFlight
<1>3. InFlight' = InFlight \ {e} BY <1>2, EventSettled DEF Finish
<1>4. runner' = [runner EXCEPT ![r] = Parked("idle")] BY DEF Finish, Return
<1>5. ~Active(r)' /\ \A s \in Runners \ {r} : runner'[s] = runner[s]
  BY <1>1, <1>4, ParkedType DEF Active, ActiveAt
<1>6. mode \notin {"down", "booting"} BY DEF OwnInv
<1> HIDE DEF e
<1>7. \A s \in Runners \ {r} : (Active(s)' <=> Active(s)) /\ (Active(s) => runner[s].ev # e)
  BY <1>5 DEF OwnInv, Active, e
<1> QED BY <1>2, <1>3, <1>5, <1>6, <1>7 DEF OwnInv, Owned, Serving, e

(* The statements of a run.                                                *)
LEMMA OwnRun == ASSUME TypeInv, OwnInv, NEW r \in Runners, RunStep(r) PROVE OwnInv'
<1> USE DEF memory, stored, bounds
<1>0. runner \in [Runners -> Runner] /\ mode' = mode
  BY RunMoves DEF TypeInv, TypeOK
<1>a. mode \notin {"down", "booting"}
  BY DEF RunStep, GetLock, Acquire, CreateEvent, CreateEventRefused,
         FinishUntargeted, StartRolling, ApplyTarget, ApplyFails, WaitDone,
         WaitFails, WaitInterrupted, RecordLastSeen, SchedulePurge,
         FinishSuccess, At, Running
<1>b. \A s \in Runners \ {r} : runner'[s] = runner[s] BY <1>0, RunMoves
<1>c. GoesOn(r) => SameOwners BY RunGoesOn
<1>1. CASE \/ GetLock(r) \/ Acquire(r) \/ CreateEventRefused(r) \/ ApplyTarget(r)
           \/ WaitDone(r) \/ RecordLastSeen(r)
  <2>1. UNCHANGED <<events, purging>>
    BY <1>1 DEF GetLock, Acquire, CreateEventRefused, ApplyTarget, WaitDone, RecordLastSeen
  <2> QED BY <1>0, <1>1, <1>c, <2>1, OwnFrame DEF Serving, InFlight, GoesOn
<1>2. CASE CreateEvent(r)
  <2>0. PICK at \in Moments :
          events' = Append(events, NewEvent(runner[r].app, runner[r].act, runner[r].ver, at))
    BY <1>2 DEF CreateEvent
  <2> DEFINE e == Len(events) + 1
             x == NewEvent(runner[r].app, runner[r].act, runner[r].ver, at)
  <2>1. x.status \in OpenStatus BY DEF NewEvent, OpenStatus
  <2>2. events' = Append(events, x) /\ purging' = purging BY <1>2, <2>0 DEF CreateEvent
  <2> HIDE DEF x
  <2>3. e \notin DOMAIN events /\ InFlight' = InFlight \cup {e}
    BY <2>1, <2>2, EventAppended
  <2>4. runner'[r].ev = e /\ Active(r)'
    BY <1>0, <1>2 DEF CreateEvent, Active, ActiveAt, Runner
  <2>5. ~Active(r) BY <1>2 DEF CreateEvent, At, Active, ActiveAt
  <2> HIDE DEF e
  <2>6. e \notin InFlight BY <2>3 DEF InFlight
  <2>7. \A s \in Runners \ {r} : Active(s)' <=> Active(s) BY <1>b DEF Active
  <2> QED BY <1>0, <1>a, <1>b, <2>2, <2>3, <2>4, <2>5, <2>6, <2>7 DEF OwnInv, Owned, Serving
<1>3. CASE \/ FinishUntargeted(r) \/ ApplyFails(r) \/ WaitFails(r) \/ FinishSuccess(r)
  <2>1. Active(r) /\ purging' = purging
    BY <1>3 DEF FinishUntargeted, ApplyFails, WaitFails, FinishSuccess, At, Active, ActiveAt
  <2>2. PICK status \in TerminalStatus, detail \in {"", "error", "canceled"} :
          Finish(r, status, detail)
    BY <1>3 DEF FinishUntargeted, ApplyFails, WaitFails, FinishSuccess, TerminalStatus
  <2> QED BY <1>0, <2>1, <2>2, OwnEnds
<1>4. CASE StartRolling(r)
  <2> DEFINE e == runner[r].ev
  <2>1. Active(r) /\ purging' = purging /\ Active(r)' /\ runner'[r].ev = e
    BY <1>0, <1>4 DEF StartRolling, At, Active, ActiveAt, Runner
  <2>2. e \in InFlight /\ e \in DOMAIN events BY <2>1 DEF OwnInv, InFlight
  <2>3. InFlight' = InFlight
    <3>1. events \in Seq(Event) BY DEF TypeInv, TypeOK
    <3>2. events[e] \in Event BY <2>2, <3>1, LenProperties, ElementOfSeq
    <3>3. events' = [events EXCEPT ![e].status = "rolling"] BY <1>4 DEF StartRolling
    <3> HIDE DEF e
    <3>4. /\ DOMAIN events' = DOMAIN events
          /\ events'[e].status = "rolling"
          /\ \A f \in DOMAIN events \ {e} : events'[f] = events[f]
      BY <2>2, <3>1, <3>2, <3>3 DEF Event
    <3>5. "rolling" \in OpenStatus BY DEF OpenStatus
    <3> QED BY <2>2, <3>4, <3>5 DEF InFlight
  <2> QED BY <1>0, <1>4, <1>c, <2>1, <2>3, OwnFrame DEF Serving, GoesOn
<1>5. CASE WaitInterrupted(r)
  <2>1. /\ ~Serving /\ UNCHANGED <<events, purging>> /\ ~Active(r)'
    BY <1>0, <1>5, ParkedType DEF WaitInterrupted, Serving, Return, Active, ActiveAt
  <2>2. \A s \in Runners : Active(s)' => Active(s) /\ runner'[s] = runner[s]
    BY <1>b, <2>1 DEF Active
  <2> QED BY <1>0, <1>a, <2>1, <2>2 DEF OwnInv, Serving, InFlight
<1>6. CASE SchedulePurge(r)
  <2>2. SameOwners BY <1>6, <1>c DEF GoesOn
  <2>3. CASE ~RowInserts(runner[r].app)
    BY <1>0, <1>6, <2>2, <2>3, OwnFrame DEF SchedulePurge, Serving, InFlight
  <2>4. CASE RowInserts(runner[r].app)
    <3> DEFINE e == Len(events) + 1
               x == NewEvent(runner[r].app, "purge", NoVersion, Clock)
    <3>1. x.status \in OpenStatus BY DEF NewEvent, OpenStatus
    <3>2. events' = Append(events, x) /\ purging' = purging \cup {e}
      BY <1>6, <2>4 DEF SchedulePurge
    <3> HIDE DEF x
    <3>3. e \notin DOMAIN events /\ InFlight' = InFlight \cup {e}
      BY <3>1, <3>2, EventAppended
    <3> HIDE DEF e
    <3>4. e \notin InFlight BY <3>3 DEF InFlight
    <3> QED BY <1>0, <1>a, <2>2, <3>2, <3>3, <3>4 DEF OwnInv, Owned, Serving, SameOwners
  <2> QED BY <2>3, <2>4
<1> QED BY <1>1, <1>2, <1>3, <1>4, <1>5, <1>6 DEF RunStep

(* Deletions and the reconciliation of another start change no status of   *)
(* an event that is not theirs.                                            *)
LEMMA EventsMapped ==
  ASSUME TypeInv, DOMAIN events' = DOMAIN events,
         \A e \in DOMAIN events : events'[e].status = events[e].status
  PROVE  InFlight' = InFlight
BY DEF InFlight

(* Every step keeps the invariant.                                         *)
LEMMA OwnSteps ==
  ASSUME TypeInv, WorkerInv, OwnInv, [Next]_vars PROVE OwnInv'
<1> USE DEF memory, stored, bounds
<1>0. runner \in [Runners -> Runner] /\ events \in Seq(Event) BY DEF TypeInv, TypeOK
<1>a. runner' = runner => SameOwners BY DEF SameOwners, Active
<1>b. events' = events => InFlight' = InFlight BY DEF InFlight
<1>c. {"off", "idle", "sync", "enqueue", "lock"} \cap ActiveAt = {} BY DEF ActiveAt
<1>1. CASE \/ UNCHANGED vars
           \/ \E a \in AppIds : CreateApp(a) \/ ForgetApp(a)
           \/ \E w \in Workloads : RolloutEnds(w)
           \/ Sigterm \/ CloseEngine \/ CancelBase \/ Boot \/ StartServing
  BY <1>1, <1>b, AsideSteps, OwnFrame
<1>2. CASE Quiet
  BY <1>2, <1>b, QuietSteps, OwnFrame DEF Serving
<1>3. ASSUME NEW r \in Runners, RunStep(r) PROVE OwnInv'
  BY <1>3, OwnRun
<1>4. ASSUME NEW e \in purging, PurgeDone(e) PROVE OwnInv'
  <2>1. e \in InFlight /\ e \in DOMAIN events BY DEF OwnInv, InFlight
  <2>2. PICK status \in TerminalStatus, detail \in {"", "error", "canceled"} :
          Settle(e, status, detail)
    BY <1>4 DEF PurgeDone, TerminalStatus
  <2>3. InFlight' = InFlight \ {e} BY <2>1, <2>2, EventSettled
  <2>4. purging' = purging \ {e} /\ UNCHANGED <<runner, mode>> BY <1>4 DEF PurgeDone
  <2>5. \A r \in Runners : Active(r)' <=> Active(r) BY <2>4 DEF Active
  <2>6. mode \notin {"down", "booting"} BY DEF OwnInv
  <2>7. \A r \in Runners : Active(r) => runner[r].ev # e BY DEF OwnInv
  <2>8. Serving' => \A f \in InFlight' : Owned(f)'
    BY <2>3, <2>4, <2>5 DEF OwnInv, Owned, Serving
  <2> QED BY <2>3, <2>4, <2>5, <2>6, <2>7, <2>8 DEF OwnInv
<1>5. ASSUME NEW a \in AppIds, DeleteApp(a) PROVE OwnInv'
  <2>1. UNCHANGED <<runner, mode, purging>> BY <1>5 DEF DeleteApp
  <2>2. ASSUME NEW e \in DOMAIN events PROVE events'[e].status = events[e].status
    <3>1. events[e] \in Event BY <1>0, LenProperties, ElementOfSeq
    <3> QED BY <1>5, <3>1 DEF DeleteApp, Event
  <2>3. InFlight' = InFlight BY <1>5, <2>2, EventsMapped DEF DeleteApp
  <2> QED BY <1>a, <2>1, <2>3, OwnFrame DEF Serving
<1>6. ASSUME BootSweep \/ \E e \in DOMAIN events : ReconcileEvent(e) PROVE OwnInv'
  <2>1. /\ mode \in {"down", "booting"} /\ UNCHANGED <<runner, purging>>
        /\ purging = {} /\ \A r \in Runners : ~Active(r)
    BY <1>6 DEF BootSweep, ReconcileEvent, OwnInv
  <2>2. \A r \in Runners : ~Active(r)' BY <2>1 DEF Active
  <2>3. CASE BootSweep
    <3>1. ASSUME NEW e \in DOMAIN events' PROVE events'[e].status \notin OpenStatus
      <4>1. events[e] \in Event /\ e \in DOMAIN events
        BY <1>0, <2>3, <3>1, LenProperties, ElementOfSeq DEF BootSweep
      <4>2. CASE e \in Interrupted
        BY <2>3, <4>1, <4>2 DEF BootSweep, Event, OpenStatus
      <4>3. CASE e \notin Interrupted
        BY <2>3, <4>1, <4>3 DEF BootSweep, Interrupted
      <4> QED BY <4>2, <4>3
    <3>2. InFlight' = {} BY <3>1 DEF InFlight
    <3> QED BY <2>1, <2>2, <3>2 DEF OwnInv
  <2>4. CASE \E e \in DOMAIN events : ReconcileEvent(e)
    <3>1. ~Serving' BY <2>4 DEF ReconcileEvent, Serving
    <3> QED BY <2>1, <2>2, <3>1 DEF OwnInv
  <2> QED BY <1>6, <2>3, <2>4
<1>7. CASE Exit \/ Crash
  <2>1. mode' = "down" /\ purging' = {} /\ events' = events /\ runner' = FreshRunner
    BY <1>7 DEF Exit, Crash, FreshMemory
  <2>2. \A r \in Runners : ~Active(r)'
    BY <1>c, <2>1, ParkedType DEF FreshRunner, Active
  <2> QED BY <2>1, <2>2 DEF OwnInv, Serving
<1> QED BY <1>1, <1>2, <1>3, <1>4, <1>5, <1>6, <1>7
        DEF Next, GoroutineStep, ProcessStep, Quiet

(* The history is empty at first.                                          *)
LEMMA InitOwn == ASSUME Init PROVE OwnInv
<1>1. InFlight = {} /\ purging = {} /\ mode = "up" BY DEF Init, InFlight
<1>2. \A r \in Runners : ~Active(r)
  BY ParkedType DEF Init, FreshRunner, Active, ActiveAt
<1> QED BY <1>1, <1>2 DEF OwnInv

(* What the ownership of events rests on.                                  *)
HistoryInv == TypeInv /\ WorkerInv /\ OwnInv

(* It holds in every reachable state.                                      *)
LEMMA HistoryInvariant == Spec => []HistoryInv
<1>1. Init => HistoryInv BY InitType, InitWorkers, InitOwn DEF HistoryInv
<1>2. HistoryInv /\ [Next]_vars => HistoryInv'
  BY TypeStep, WorkerSteps, OwnSteps DEF HistoryInv
<1> QED BY <1>1, <1>2, PTL DEF Spec

(* While requests are served, an event in flight is the event of exactly   *)
(* one run or purge, that will settle it, for any number of apps, deploys, *)
(* deletions, crashes and restarts, reused row ids included.               *)
THEOREM EventsAreOwned == Spec => []OpenEventOwned
<1>1. HistoryInv => OpenEventOwned
  BY DEF HistoryInv, OwnInv, Owned, OpenEventOwned, Serving
<1> QED BY <1>1, HistoryInvariant, PTL

(***************************************************************************)
(* A verdict is final.                                                     *)
(***************************************************************************)

(* What makes an event a success.                                          *)
SuccessOf(e) ==
  \/ e \in purging
  \/ ReconcileEvent(e)
  \/ \E r \in Runners : FinishSuccess(r) /\ runner[r].ev = e

(* What a step may do to an event: it keeps what it is about, but for the  *)
(* app that is deleted, and a new status is that of an open one.           *)
Changed(e) ==
  /\ e \in DOMAIN events'
  /\ events'[e].act = events[e].act /\ events'[e].ver = events[e].ver
  /\ events'[e].at = events[e].at
  /\ events'[e].app \in {events[e].app, NoApp}
  /\ \/ events'[e].status = events[e].status /\ events'[e].detail = events[e].detail
     \/ e \in InFlight /\ (events'[e].status = "success" => SuccessOf(e))

(* Nothing but the settlement of an open event, the start of its rollout   *)
(* and the sweep of open events writes a status.                           *)
LEMMA EventChanges ==
  ASSUME HistoryInv, [Next]_vars, NEW e \in DOMAIN events
  PROVE  Changed(e)
<1> USE DEF memory, stored, bounds
<1>0. /\ events \in Seq(Event) /\ events[e] \in Event
      /\ TypeInv /\ WorkerInv /\ OwnInv
  BY LenProperties, ElementOfSeq DEF HistoryInv, TypeInv, TypeOK
<1>a. events'[e] = events[e] /\ DOMAIN events \subseteq DOMAIN events' => Changed(e)
  BY DEF Changed
<1>1. CASE \/ UNCHANGED vars \/ Quiet
           \/ \E r \in Runners : WaitInterrupted(r)
           \/ \E a \in AppIds : CreateApp(a) \/ ForgetApp(a)
           \/ \E w \in Workloads : RolloutEnds(w)
           \/ Sigterm \/ CloseEngine \/ CancelBase \/ Boot \/ StartServing \/ Exit \/ Crash
  <2>1. events' = events
    BY <1>0, <1>1, QuietSteps, AsideSteps DEF WaitInterrupted, Exit, Crash
  <2> QED BY <1>a, <2>1
<1>2. ASSUME NEW r \in Runners, CreateEvent(r) \/ SchedulePurge(r) PROVE Changed(e)
  <2>1. \/ events' = events
        \/ \E x : x.status \in OpenStatus /\ events' = Append(events, x)
    <3>1. /\ \A at : NewEvent(runner[r].app, runner[r].act, runner[r].ver, at).status
                      \in OpenStatus
          /\ NewEvent(runner[r].app, "purge", NoVersion, Clock).status \in OpenStatus
      BY DEF NewEvent, OpenStatus
    <3> QED BY <1>2, <3>1 DEF CreateEvent, SchedulePurge
  <2> QED BY <1>0, <1>a, <2>1, EventAppended
<1>3. ASSUME NEW f \in InFlight, NEW status, NEW detail, Settle(f, status, detail),
             status = "success" => SuccessOf(f)
      PROVE  Changed(e)
  <2>1. f \in DOMAIN events BY DEF InFlight
  <2>2. /\ DOMAIN events' = DOMAIN events
        /\ events'[f] = [events[f] EXCEPT !.status = status, !.detail = detail]
        /\ events'[f].status = status
        /\ \A g \in DOMAIN events \ {f} : events'[g] = events[g]
    BY <1>0, <1>3, <2>1, EventSettled
  <2>3. CASE e = f
    <3>1. /\ events'[e].act = events[e].act /\ events'[e].ver = events[e].ver
          /\ events'[e].app = events[e].app /\ events'[e].at = events[e].at
      BY <1>0, <2>2, <2>3 DEF Event
    <3> QED BY <1>3, <2>2, <2>3, <3>1 DEF Changed
  <2>4. CASE e # f BY <1>a, <2>2, <2>4
  <2> QED BY <2>3, <2>4
<1>4. ASSUME NEW r \in Runners,
             FinishUntargeted(r) \/ ApplyFails(r) \/ WaitFails(r) \/ FinishSuccess(r)
      PROVE  Changed(e)
  <2>1. runner[r].ev \in InFlight
    BY <1>0, <1>4 DEF FinishUntargeted, ApplyFails, WaitFails, FinishSuccess, At,
                      OwnInv, Active, ActiveAt
  <2>2. CASE FinishSuccess(r)
    <3>1. Settle(runner[r].ev, "success", "") BY <2>2 DEF FinishSuccess, Finish
    <3> QED BY <1>3, <2>1, <2>2, <3>1 DEF SuccessOf
  <2>3. CASE ~FinishSuccess(r)
    <3>1. \E detail : Settle(runner[r].ev, "failed", detail)
      BY <1>4, <2>3 DEF FinishUntargeted, ApplyFails, WaitFails, Finish
    <3> QED BY <1>3, <2>1, <3>1
  <2> QED BY <2>2, <2>3
<1>5. ASSUME NEW r \in Runners, StartRolling(r) PROVE Changed(e)
  <2> DEFINE f == runner[r].ev
  <2>1. f \in InFlight
    BY <1>0, <1>5 DEF StartRolling, At, OwnInv, Active, ActiveAt
  <2>2. events' = [events EXCEPT ![f].status = "rolling"] BY <1>5 DEF StartRolling
  <2> HIDE DEF f
  <2>3. DOMAIN events' = DOMAIN events BY <1>0, <2>2
  <2>4. CASE e = f
    <3>1. events'[e] = [events[e] EXCEPT !.status = "rolling"] BY <1>0, <2>2, <2>4
    <3>2. /\ events'[e].act = events[e].act /\ events'[e].ver = events[e].ver
          /\ events'[e].at = events[e].at
          /\ events'[e].app = events[e].app /\ events'[e].status = "rolling"
      BY <1>0, <3>1 DEF Event
    <3> QED BY <2>1, <2>3, <2>4, <3>2 DEF Changed
  <2>5. CASE e # f BY <1>0, <1>a, <2>2, <2>3, <2>5
  <2> QED BY <2>4, <2>5
<1>6. ASSUME NEW f \in purging, PurgeDone(f) PROVE Changed(e)
  <2>1. f \in InFlight /\ SuccessOf(f) BY <1>0 DEF OwnInv, SuccessOf
  <2>2. \E status, detail : Settle(f, status, detail) BY <1>6 DEF PurgeDone
  <2> QED BY <1>3, <2>1, <2>2
<1>7. ASSUME NEW f \in DOMAIN events, ReconcileEvent(f) PROVE Changed(e)
  <2>1. f \in InFlight /\ SuccessOf(f)
    BY <1>7 DEF ReconcileEvent, Interrupted, InFlight, SuccessOf
  <2>2. \E status, detail : Settle(f, status, detail) BY <1>7 DEF ReconcileEvent
  <2> QED BY <1>3, <2>1, <2>2
<1>8. CASE BootSweep
  <2>1. DOMAIN events' = DOMAIN events BY <1>8 DEF BootSweep
  <2>2. CASE e \in Interrupted
    <3>1. events'[e] = [events[e] EXCEPT !.status = "unknown"] BY <1>8, <2>2 DEF BootSweep
    <3>2. /\ events'[e].act = events[e].act /\ events'[e].ver = events[e].ver
          /\ events'[e].at = events[e].at
          /\ events'[e].app = events[e].app /\ events'[e].status = "unknown"
      BY <1>0, <3>1 DEF Event
    <3> QED BY <2>1, <2>2, <3>2 DEF Changed, Interrupted, InFlight
  <2>3. CASE e \notin Interrupted
    BY <1>8, <1>a, <2>1, <2>3 DEF BootSweep
  <2> QED BY <2>2, <2>3
<1>9. ASSUME NEW a \in AppIds, DeleteApp(a) PROVE Changed(e)
  <2>1. /\ DOMAIN events' = DOMAIN events
        /\ events'[e] = IF events[e].app = a THEN [events[e] EXCEPT !.app = NoApp]
                        ELSE events[e]
    BY <1>9 DEF DeleteApp
  <2> QED BY <1>0, <2>1 DEF Changed, Event
<1>10. ASSUME NEW r \in Runners, GoroutineStep(r) PROVE Changed(e)
  <2>1. CASE RunStep(r) BY <1>1, <1>2, <1>4, <1>5, <2>1 DEF RunStep, Quiet
  <2>2. CASE ~RunStep(r) BY <1>1, <1>10, <2>2 DEF GoroutineStep, Quiet
  <2> QED BY <2>1, <2>2
<1>11. CASE ProcessStep BY <1>1, <1>7, <1>8, <1>11 DEF ProcessStep
<1> QED BY <1>1, <1>6, <1>9, <1>10, <1>11 DEF Next, Quiet

(* No later step of a run, a purge, a deletion or a startup reconciliation *)
(* overwrites the verdict of an event.                                     *)
THEOREM VerdictsAreFinal == Spec => VerdictIsFinal
<1>1. TerminalStatus \cap OpenStatus = {} BY DEF TerminalStatus, OpenStatus
<1>2. HistoryInv /\ [Next]_vars =>
        [\A e \in DOMAIN events :
           events[e].status \in TerminalStatus =>
             /\ events'[e].status = events[e].status
             /\ events'[e].detail = events[e].detail]_vars
  BY <1>1, EventChanges DEF Changed, InFlight
<1> QED BY <1>2, HistoryInvariant, PTL DEF Spec, VerdictIsFinal

(***************************************************************************)
(* The engine implements DeployLog, when row ids are not reused.           *)
(***************************************************************************)

(* LogStatus and LogCurrent of any events and any runners: the event of    *)
(* the only run of an app.                                                 *)
StatusOf(evs) ==
  [e \in DOMAIN evs |-> IF evs[e].status \in OpenStatus THEN "open" ELSE evs[e].status]

RunsOn(run, a) == {r \in Runners : run[r].pc \in ActiveAt /\ run[r].app = a}

CurrentOf(run, a) ==
  IF RunsOn(run, a) = {} THEN 0 ELSE run[CHOOSE r \in RunsOn(run, a) : TRUE].ev

(* The mapping, in the old and in the new state.                           *)
LEMMA LogIs ==
  /\ LogStatus = StatusOf(events) /\ LogStatus' = StatusOf(events')
  /\ LogCurrent = [a \in AppIds |-> CurrentOf(runner, a)]
  /\ LogCurrent' = [a \in AppIds |-> CurrentOf(runner', a)]
BY DEF LogStatus, StatusOf, LogCurrent, CurrentOf, ActiveOn, RunsOn, Active

(* Of the runs of an app there is one.                                     *)
LEMMA CurrentIs ==
  ASSUME NEW run, NEW a
  PROVE  /\ (\A r \in Runners : run[r].pc \in ActiveAt => run[r].app # a)
              => CurrentOf(run, a) = 0
         /\ \A r \in Runners :
              /\ run[r].pc \in ActiveAt /\ run[r].app = a
              /\ \A s \in Runners : run[s].pc \in ActiveAt /\ run[s].app = a => s = r
              => CurrentOf(run, a) = run[r].ev
<1>1. ASSUME \A r \in Runners : run[r].pc \in ActiveAt => run[r].app # a
      PROVE  CurrentOf(run, a) = 0
  <2>1. RunsOn(run, a) = {} BY <1>1 DEF RunsOn
  <2> QED BY <2>1 DEF CurrentOf
<1>2. ASSUME NEW r \in Runners, run[r].pc \in ActiveAt, run[r].app = a,
             \A s \in Runners : run[s].pc \in ActiveAt /\ run[s].app = a => s = r
      PROVE  CurrentOf(run, a) = run[r].ev
  <2>1. RunsOn(run, a) = {r} BY <1>2 DEF RunsOn
  <2>2. (CHOOSE s \in {r} : TRUE) = r OBVIOUS
  <2> QED BY <2>1, <2>2 DEF CurrentOf
<1> QED BY <1>1, <1>2

(* What LogCurrent says of an app, now and after a step.                   *)
LEMMA LogCurrentIs ==
  ASSUME OneDeployPerApp, OneDeployPerApp', NEW a \in AppIds
  PROVE  /\ (\A r \in Runners : Active(r) => runner[r].app # a) => LogCurrent[a] = 0
         /\ \A r \in Runners : Active(r) /\ runner[r].app = a => LogCurrent[a] = runner[r].ev
         /\ (\A r \in Runners : Active(r)' => runner'[r].app # a) => LogCurrent'[a] = 0
         /\ \A r \in Runners :
              Active(r)' /\ runner'[r].app = a => LogCurrent'[a] = runner'[r].ev
<1>1. LogCurrent[a] = CurrentOf(runner, a) /\ LogCurrent'[a] = CurrentOf(runner', a)
  BY LogIs
<1>2. \A r, s \in Runners :
        runner[r].pc \in ActiveAt /\ runner[s].pc \in ActiveAt /\ runner[r].app = runner[s].app
          => r = s
  BY DEF OneDeployPerApp, Active
<1>3. \A r, s \in Runners :
        runner'[r].pc \in ActiveAt /\ runner'[s].pc \in ActiveAt
        /\ runner'[r].app = runner'[s].app => r = s
  BY DEF OneDeployPerApp, Active
<1> QED BY <1>1, <1>2, <1>3, CurrentIs DEF Active

(* A step of the engine maps to a step of the log.                         *)
LogNext == Log!Next \/ UNCHANGED <<LogStatus, LogCurrent>>

LogInv == HistoryInv /\ ExclusionInv

(* When no run begins or ends, no deploy does.                             *)
LEMMA SameCurrent ==
  ASSUME OneDeployPerApp, OneDeployPerApp', SameOwners PROVE LogCurrent' = LogCurrent
<1>1. ASSUME NEW a \in AppIds PROVE LogCurrent'[a] = LogCurrent[a]
  BY LogCurrentIs DEF SameOwners
<1> QED BY <1>1, LogIs

(* When runs only end, deploys are cut off.                                *)
LEMMA RunsEnd ==
  ASSUME OneDeployPerApp, OneDeployPerApp', events' = events,
         \A r \in Runners : Active(r)' => Active(r) /\ runner'[r] = runner[r]
  PROVE  LogNext
<1> DEFINE S == {a \in AppIds : \A r \in Runners : Active(r)' => runner'[r].app # a}
<1>1. ASSUME NEW a \in AppIds
      PROVE  LogCurrent'[a] = IF a \in S THEN 0 ELSE LogCurrent[a]
  BY LogCurrentIs
<1>2. LogCurrent' = [a \in AppIds |-> IF a \in S THEN 0 ELSE LogCurrent[a]]
  BY <1>1, LogIs
<1>3. LogStatus' = LogStatus BY LogIs
<1> HIDE DEF S
<1>4. S \in SUBSET AppIds BY DEF S
<1> QED BY <1>2, <1>3, <1>4 DEF LogNext, Log!Next, Log!CutOff

(* A new event is a new open entry.                                        *)
LEMMA EntryAppended ==
  ASSUME TypeInv, NEW x, x.status \in OpenStatus, events' = Append(events, x)
  PROVE  LogStatus' = Append(LogStatus, "open") /\ Len(LogStatus) = Len(events)
<1>1. events \in Seq(Event) /\ Len(events) \in Nat /\ DOMAIN events = 1..Len(events)
  BY LenProperties DEF TypeInv, TypeOK
<1>2. LogStatus \in Seq({"open"} \cup TerminalStatus) /\ Len(LogStatus) = Len(events)
  <2>1. ASSUME NEW e \in DOMAIN events
        PROVE  LogStatus[e] \in {"open"} \cup TerminalStatus
    <3>1. events[e] \in Event BY <1>1, ElementOfSeq
    <3> QED BY <3>1 DEF LogStatus, Event
  <2>2. LogStatus \in [1..Len(events) -> {"open"} \cup TerminalStatus]
    BY <1>1, <2>1 DEF LogStatus
  <2> QED BY <1>1, <2>2
<1>3. DOMAIN events' = 1..(Len(events) + 1)
      /\ (\A e \in 1..Len(events) : events'[e] = events[e]) /\ events'[Len(events) + 1] = x
  BY <1>1
<1>4. /\ DOMAIN LogStatus' = 1..(Len(events) + 1)
      /\ \A e \in 1..Len(events) : LogStatus'[e] = LogStatus[e]
      /\ LogStatus'[Len(events) + 1] = "open"
  <2>1. DOMAIN LogStatus' = 1..(Len(events) + 1) BY <1>3 DEF LogStatus
  <2>2. ASSUME NEW e \in 1..Len(events) PROVE LogStatus'[e] = LogStatus[e]
    <3>1. e \in DOMAIN events /\ e \in DOMAIN events' BY <1>1, <1>3
    <3> QED BY <1>3, <3>1 DEF LogStatus
  <2>3. LogStatus'[Len(events) + 1] = "open"
    <3>1. Len(events) + 1 \in DOMAIN events' BY <1>1, <1>3
    <3> QED BY <1>3, <3>1 DEF LogStatus
  <2> QED BY <2>1, <2>2, <2>3
<1> DEFINE T == {"open"} \cup TerminalStatus
           app == Append(LogStatus, "open")
<1>5. app \in Seq(T) /\ Len(app) = Len(events) + 1
      /\ (\A e \in 1..Len(events) : app[e] = LogStatus[e])
      /\ app[Len(events) + 1] = "open"
  BY <1>1, <1>2
<1> HIDE DEF app, T
<1>6. app \in [1..(Len(events) + 1) -> T] BY <1>5, LenProperties
<1>7. \A e \in 1..(Len(events) + 1) : LogStatus'[e] = app[e]
  BY <1>1, <1>4, <1>5
<1>8. LogStatus' \in [1..(Len(events) + 1) -> T]
  <2>1. LogStatus' = [e \in DOMAIN LogStatus' |-> LogStatus'[e]] BY DEF LogStatus
  <2> QED BY <1>4, <1>6, <1>7, <2>1
<1>9. LogStatus' = app BY <1>6, <1>7, <1>8
<1> QED BY <1>2, <1>9 DEF app

(* A verdict is written into its entry.                                    *)
LEMMA EntrySettled ==
  ASSUME TypeInv, NEW e \in DOMAIN events, NEW status \in TerminalStatus, NEW detail,
         Settle(e, status, detail)
  PROVE  LogStatus' = [LogStatus EXCEPT ![e] = status]
<1>1. /\ DOMAIN events' = DOMAIN events /\ events'[e].status = status
      /\ \A f \in DOMAIN events \ {e} : events'[f] = events[f]
  BY EventSettled
<1>2. status \notin OpenStatus BY DEF TerminalStatus, OpenStatus
<1> QED BY <1>1, <1>2 DEF LogStatus

(* Verdicts on events that no run has.                                     *)
LEMMA EntriesResolved ==
  ASSUME LogInv, OneDeployPerApp', SameOwners, DOMAIN events' = DOMAIN events,
         \A e \in DOMAIN events :
           \/ events'[e].status = events[e].status
           \/ /\ e \in InFlight
              /\ events'[e].status \in TerminalStatus
              /\ \A r \in Runners : Active(r) => runner[r].ev # e
  PROVE  LogNext
<1>0. TypeInv /\ OneDeployPerApp BY DEF LogInv, HistoryInv, ExclusionInv
<1>1. LogCurrent' = LogCurrent BY <1>0, SameCurrent
<1>2. DOMAIN LogStatus = DOMAIN events /\ DOMAIN LogStatus' = DOMAIN LogStatus
  BY DEF LogStatus
<1>3. ASSUME NEW e \in DOMAIN events
      PROVE  \/ LogStatus'[e] = LogStatus[e]
             \/ /\ LogStatus[e] = "open" /\ LogStatus'[e] \in TerminalStatus
                /\ \A a \in AppIds : LogCurrent[a] # e
  <2>1. CASE events'[e].status = events[e].status BY <2>1 DEF LogStatus
  <2>2. CASE /\ e \in InFlight
             /\ events'[e].status \in TerminalStatus
             /\ \A r \in Runners : Active(r) => runner[r].ev # e
    <3>1. LogStatus[e] = "open" BY <2>2 DEF LogStatus, InFlight
    <3>2. LogStatus'[e] \in TerminalStatus
      BY <2>2 DEF LogStatus, TerminalStatus, OpenStatus
    <3>3. e # 0
      <4>1. DOMAIN events = 1..Len(events) /\ Len(events) \in Nat
        BY <1>0, LenProperties DEF TypeInv, TypeOK
      <4> QED BY <4>1
    <3>4. ASSUME NEW a \in AppIds PROVE LogCurrent[a] # e
      BY <1>0, <2>2, <3>3, LogCurrentIs
    <3> QED BY <3>1, <3>2, <3>4
  <2> QED BY <2>1, <2>2
<1> QED BY <1>1, <1>2, <1>3 DEF LogNext, Log!Next, Log!Resolve, Log!Open

(* A run that creates its event begins a deploy of its app: it is alone.   *)
LEMMA RunBegins ==
  ASSUME LogInv, LogInv', NEW r \in Runners, CreateEvent(r) PROVE LogNext
<1>a. PICK at \in Moments :
        events' = Append(events, NewEvent(runner[r].app, runner[r].act, runner[r].ver, at))
  BY DEF CreateEvent
<1> DEFINE a == runner[r].app
           n == Len(events) + 1
           x == NewEvent(a, runner[r].act, runner[r].ver, at)
<1>0. /\ TypeInv /\ OneDeployPerApp /\ OneDeployPerApp'
      /\ runner \in [Runners -> Runner]
  BY DEF LogInv, HistoryInv, ExclusionInv, TypeInv, TypeOK
<1>1. x.status \in OpenStatus BY DEF NewEvent, OpenStatus
<1>2. events' = Append(events, x) BY <1>a
<1> HIDE DEF x
<1>3. LogStatus' = Append(LogStatus, "open") /\ Len(LogStatus) + 1 = n
  BY <1>0, <1>1, <1>2, EntryAppended
<1>4. /\ Active(r)' /\ runner'[r].ev = n /\ runner'[r].app = a /\ ~Active(r)
      /\ \A s \in Runners \ {r} : runner'[s] = runner[s]
  BY <1>0 DEF CreateEvent, At, Active, ActiveAt, Runner
<1>5. a \in AppIds
  BY <1>0, RunnerFacts DEF CreateEvent, At, LockedAt, HasJob
<1> HIDE DEF n, a
<1>6. \A s \in Runners \ {r} : (Active(s)' <=> Active(s)) /\ (Active(s) => runner[s].app # a)
  BY <1>0, <1>4 DEF Active, OneDeployPerApp
<1>7. LogCurrent[a] = 0 /\ LogCurrent'[a] = n
  BY <1>0, <1>4, <1>5, <1>6, LogCurrentIs
<1>8. ASSUME NEW b \in AppIds, b # a PROVE LogCurrent'[b] = LogCurrent[b]
  <2>1. CASE \E s \in Runners : Active(s) /\ runner[s].app = b
    <3>1. PICK s \in Runners : Active(s) /\ runner[s].app = b BY <2>1
    <3>2. s # r BY <1>4, <3>1
    <3> QED BY <1>0, <1>4, <1>6, <3>1, <3>2, LogCurrentIs
  <2>2. CASE ~ \E s \in Runners : Active(s) /\ runner[s].app = b
    <3>1. \A s \in Runners : Active(s)' => runner'[s].app # b
      BY <1>4, <1>6, <1>8, <2>2
    <3> QED BY <1>0, <2>2, <3>1, LogCurrentIs
  <2> QED BY <2>1, <2>2
<1>9. LogCurrent' = [LogCurrent EXCEPT ![a] = n] BY <1>5, <1>7, <1>8, LogIs
<1> QED BY <1>3, <1>5, <1>7, <1>9 DEF LogNext, Log!Next, Log!Begin, Log!Open

(* One that writes its verdict ends it.                                    *)
LEMMA RunEnds ==
  ASSUME LogInv, LogInv', NEW r \in Runners, Active(r),
         NEW status \in TerminalStatus, NEW detail, Finish(r, status, detail)
  PROVE  LogNext
<1> DEFINE a == runner[r].app
           e == runner[r].ev
<1>0. /\ TypeInv /\ OneDeployPerApp /\ OneDeployPerApp' /\ OwnInv
      /\ runner \in [Runners -> Runner]
  BY DEF LogInv, HistoryInv, ExclusionInv, TypeInv, TypeOK
<1>1. a \in AppIds BY <1>0, RunnerFacts DEF Active, LockedAt, HasJob
<1>2. e \in InFlight /\ e \in DOMAIN events /\ e # 0
  <2>1. e \in InFlight /\ e \in DOMAIN events BY <1>0 DEF OwnInv, InFlight
  <2>2. DOMAIN events = 1..Len(events) /\ Len(events) \in Nat
    BY <1>0, LenProperties DEF TypeInv, TypeOK
  <2> QED BY <2>1, <2>2
<1>3. LogStatus[e] = "open" BY <1>2 DEF LogStatus, InFlight
<1>4. LogStatus' = [LogStatus EXCEPT ![e] = status]
  BY <1>0, <1>2, EntrySettled DEF Finish
<1>5. ~Active(r)' /\ \A s \in Runners \ {r} : runner'[s] = runner[s]
  BY <1>0, ParkedType DEF Finish, Return, Active, ActiveAt
<1>6. LogCurrent[a] = e BY <1>0, <1>1, LogCurrentIs
<1> HIDE DEF e
<1>7. ASSUME NEW b \in AppIds
      PROVE  LogCurrent'[b] = IF b = a THEN 0 ELSE LogCurrent[b]
  <2>1. CASE \E s \in Runners \ {r} : Active(s) /\ runner[s].app = b
    <3>1. PICK s \in Runners \ {r} : Active(s) /\ runner[s].app = b BY <2>1
    <3>2. b # a BY <1>0, <3>1 DEF OneDeployPerApp
    <3>3. Active(s)' /\ runner'[s] = runner[s] BY <1>5, <3>1 DEF Active
    <3> QED BY <1>0, <3>1, <3>2, <3>3, LogCurrentIs
  <2>2. CASE ~ \E s \in Runners \ {r} : Active(s) /\ runner[s].app = b
    <3>1. \A s \in Runners : Active(s)' => runner'[s].app # b
      BY <1>5, <2>2 DEF Active
    <3>2. LogCurrent'[b] = 0 BY <1>0, <3>1, LogCurrentIs
    <3>3. b # a => LogCurrent[b] = 0 BY <1>0, <2>2, LogCurrentIs
    <3> QED BY <3>2, <3>3
  <2> QED BY <2>1, <2>2
<1> HIDE DEF a
<1>8. LogCurrent' = [LogCurrent EXCEPT ![a] = 0] BY <1>1, <1>7, LogIs
<1> QED BY <1>1, <1>2, <1>3, <1>4, <1>6, <1>8 DEF LogNext, Log!Next, Log!End, Log!Open

(* Every step of the engine is a step of the log, or none.                 *)
LEMMA LogSteps == ASSUME LogInv, LogInv', [Next]_vars PROVE LogNext
<1> USE DEF memory, stored, bounds
<1>0. /\ TypeInv /\ WorkerInv /\ OwnInv /\ OneDeployPerApp /\ OneDeployPerApp'
      /\ runner \in [Runners -> Runner] /\ events \in Seq(Event)
  BY DEF LogInv, HistoryInv, ExclusionInv, TypeInv, TypeOK
<1>a. SameOwners /\ events' = events => LogNext
  BY <1>0, SameCurrent, LogIs DEF LogNext
<1>b. runner' = runner => SameOwners BY DEF SameOwners, Active
<1>1. CASE \/ UNCHANGED vars \/ Quiet
           \/ \E a \in AppIds : CreateApp(a) \/ ForgetApp(a)
           \/ \E w \in Workloads : RolloutEnds(w)
           \/ Sigterm \/ CloseEngine \/ CancelBase \/ Boot \/ StartServing
  BY <1>0, <1>1, <1>a, QuietSteps, AsideSteps
<1>2. ASSUME NEW r \in Runners, CreateEvent(r) PROVE LogNext
  BY <1>2, RunBegins
<1>3. ASSUME NEW r \in Runners,
             FinishUntargeted(r) \/ ApplyFails(r) \/ WaitFails(r) \/ FinishSuccess(r)
      PROVE  LogNext
  <2>1. Active(r)
    BY <1>3 DEF FinishUntargeted, ApplyFails, WaitFails, FinishSuccess, At, Active, ActiveAt
  <2>2. PICK status \in TerminalStatus, detail \in {"", "error", "canceled"} :
          Finish(r, status, detail)
    BY <1>3 DEF FinishUntargeted, ApplyFails, WaitFails, FinishSuccess, TerminalStatus
  <2> QED BY <2>1, <2>2, RunEnds
<1>4. ASSUME NEW r \in Runners, StartRolling(r) PROVE LogNext
  <2> DEFINE e == runner[r].ev
  <2>1. SameOwners BY <1>0, <1>4, RunGoesOn DEF GoesOn
  <2>2. e \in InFlight BY <1>0, <1>4 DEF OwnInv, StartRolling, At, Active, ActiveAt
  <2>3. e \in DOMAIN events /\ events[e] \in Event
    BY <1>0, <2>2, LenProperties, ElementOfSeq DEF InFlight
  <2>4. events' = [events EXCEPT ![e].status = "rolling"] BY <1>4 DEF StartRolling
  <2> HIDE DEF e
  <2>5. /\ DOMAIN events' = DOMAIN events /\ events'[e].status = "rolling"
        /\ \A f \in DOMAIN events \ {e} : events'[f] = events[f]
    BY <1>0, <2>3, <2>4 DEF Event
  <2>6. LogStatus' = LogStatus
    <3>1. \A f \in DOMAIN events : LogStatus'[f] = LogStatus[f]
      BY <2>2, <2>5 DEF LogStatus, InFlight, OpenStatus
    <3> QED BY <2>5, <3>1 DEF LogStatus
  <2> QED BY <1>0, <2>1, <2>6, SameCurrent DEF LogNext
<1>5. ASSUME NEW r \in Runners, SchedulePurge(r) PROVE LogNext
  <2> DEFINE x == NewEvent(runner[r].app, "purge", NoVersion, Clock)
  <2>1. SameOwners BY <1>0, <1>5, RunGoesOn DEF GoesOn
  <2>2. x.status \in OpenStatus BY DEF NewEvent, OpenStatus
  <2>3. events' = events \/ events' = Append(events, x) BY <1>5 DEF SchedulePurge
  <2> HIDE DEF x
  <2>4. CASE events' = events BY <1>a, <2>1, <2>4
  <2>5. CASE events' = Append(events, x)
    <3>1. LogStatus' = Append(LogStatus, "open") BY <1>0, <2>2, <2>5, EntryAppended
    <3>2. LogCurrent' = LogCurrent BY <1>0, <2>1, SameCurrent
    <3> QED BY <3>1, <3>2 DEF LogNext, Log!Next, Log!BeginBackground, Log!Open
  <2> QED BY <2>3, <2>4, <2>5
<1>6. CASE (\E r \in Runners : WaitInterrupted(r)) \/ Exit \/ Crash
  <2>1. \A r \in Runners : Active(r)' => Active(r) /\ runner'[r] = runner[r]
    <3>1. CASE \E r \in Runners : WaitInterrupted(r)
      BY <1>0, <3>1, ParkedType DEF WaitInterrupted, Return, Active, ActiveAt
    <3>2. CASE Exit \/ Crash
      <4>1. runner' = FreshRunner BY <3>2 DEF Exit, Crash, FreshMemory
      <4> QED BY <4>1, ParkedType DEF FreshRunner, Active, ActiveAt
    <3> QED BY <1>6, <3>1, <3>2
  <2>2. events' = events BY <1>6 DEF WaitInterrupted, Exit, Crash
  <2> QED BY <1>0, <2>1, <2>2, RunsEnd
<1>7. ASSUME NEW e \in InFlight, NEW status \in TerminalStatus, NEW detail,
             Settle(e, status, detail), runner' = runner,
             \A r \in Runners : Active(r) => runner[r].ev # e
      PROVE  LogNext
  <2>1. e \in DOMAIN events BY DEF InFlight
  <2>2. /\ DOMAIN events' = DOMAIN events /\ events'[e].status = status
        /\ \A f \in DOMAIN events \ {e} : events'[f] = events[f]
    BY <1>0, <1>7, <2>1, EventSettled
  <2> QED BY <1>0, <1>7, <1>b, <2>2, EntriesResolved
<1>8. ASSUME NEW e \in purging, PurgeDone(e) PROVE LogNext
  <2>1. PICK status \in TerminalStatus, detail \in {"", "error", "canceled"} :
          Settle(e, status, detail)
    BY <1>8 DEF PurgeDone, TerminalStatus
  <2>2. e \in InFlight /\ \A r \in Runners : Active(r) => runner[r].ev # e
    BY <1>0 DEF OwnInv
  <2>3. runner' = runner BY <1>8 DEF PurgeDone
  <2> QED BY <1>7, <2>1, <2>2, <2>3
<1>9. ASSUME NEW e \in DOMAIN events, ReconcileEvent(e) PROVE LogNext
  <2>1. PICK status \in TerminalStatus, detail \in {"", "error"} : Settle(e, status, detail)
    BY <1>9 DEF ReconcileEvent, Verdicts, TerminalStatus
  <2>2. e \in InFlight /\ \A r \in Runners : ~Active(r)
    BY <1>0, <1>9 DEF OwnInv, ReconcileEvent, Interrupted, InFlight
  <2>3. runner' = runner BY <1>9 DEF ReconcileEvent
  <2> QED BY <1>7, <2>1, <2>2, <2>3
<1>10. CASE BootSweep
  <2>1. SameOwners /\ \A r \in Runners : ~Active(r)
    BY <1>0, <1>10, <1>b DEF BootSweep, OwnInv
  <2>2. DOMAIN events' = DOMAIN events BY <1>10 DEF BootSweep
  <2>3. ASSUME NEW e \in DOMAIN events
        PROVE  \/ events'[e].status = events[e].status
               \/ e \in InFlight /\ events'[e].status \in TerminalStatus
    <3>1. events[e] \in Event BY <1>0, LenProperties, ElementOfSeq
    <3>2. CASE e \in Interrupted
      BY <1>10, <3>1, <3>2 DEF BootSweep, Interrupted, InFlight, Event, TerminalStatus
    <3>3. CASE e \notin Interrupted BY <1>10, <3>3 DEF BootSweep
    <3> QED BY <3>2, <3>3
  <2> QED BY <1>0, <2>1, <2>2, <2>3, EntriesResolved
<1>11. ASSUME NEW a \in AppIds, DeleteApp(a) PROVE LogNext
  <2>1. SameOwners /\ DOMAIN events' = DOMAIN events BY <1>11, <1>b DEF DeleteApp
  <2>2. ASSUME NEW e \in DOMAIN events PROVE events'[e].status = events[e].status
    <3>1. events[e] \in Event BY <1>0, LenProperties, ElementOfSeq
    <3> QED BY <1>11, <3>1 DEF DeleteApp, Event
  <2> QED BY <1>0, <2>1, <2>2, EntriesResolved
<1>12. ASSUME NEW r \in Runners, GoroutineStep(r) PROVE LogNext
  <2>1. CASE RunStep(r)
    BY <1>1, <1>2, <1>3, <1>4, <1>5, <1>6, <2>1 DEF RunStep, Quiet
  <2>2. CASE ~RunStep(r) BY <1>1, <1>12, <2>2 DEF GoroutineStep, Quiet
  <2> QED BY <2>1, <2>2
<1>13. CASE ProcessStep BY <1>1, <1>6, <1>9, <1>10, <1>13 DEF ProcessStep
<1> QED BY <1>1, <1>6, <1>8, <1>11, <1>12, <1>13 DEF Next, Quiet

(* The engine implements the log: one deploy of an app at a time, one      *)
(* verdict per event, and events that the end of a process has cut off     *)
(* resolved later, as long as the row ids of deleted apps are not given    *)
(* to new ones.                                                            *)
THEOREM EngineImplementsLog == ASSUME MaxGen = 1 PROVE Spec => ImplementsLog
<1>1. Init => Log!Init
  <2> SUFFICES ASSUME Init PROVE Log!Init OBVIOUS
  <2>1. LogStatus = <<>> BY DEF Init, LogStatus
  <2>2. \A r \in Runners : runner[r].pc \notin ActiveAt
    BY ParkedType DEF Init, FreshRunner, ActiveAt
  <2>3. \A a \in AppIds : CurrentOf(runner, a) = 0 BY <2>2, CurrentIs
  <2>4. LogCurrent = [a \in AppIds |-> 0] BY <2>3, LogIs
  <2> QED BY <2>1, <2>4 DEF Log!Init
<1>2. LogInv /\ LogInv' /\ [Next]_vars => [Log!Next]_Log!logVars
  BY LogSteps DEF LogNext, Log!logVars
<1>3. Init => ExclusionInv BY InitExclusion
<1>4. ExclusionInv /\ [Next]_vars => ExclusionInv' BY ExclusionStep
<1>5. HistoryInv /\ ExclusionInv => LogInv BY DEF LogInv
<1> QED BY <1>1, <1>2, <1>3, <1>4, <1>5, HistoryInvariant, PTL
        DEF Spec, ImplementsLog, Log!Spec

(***************************************************************************)
(* A success is live, when row ids are not reused.                         *)
(***************************************************************************)

WorkloadsOf(r) == {<<runner[r].app, i>> : i \in 1..TargetCount[runner[r].app]}

(* The workloads that r has patched or restarted.                          *)
Reached(r) ==
  {<<runner[r].app, i>> : i \in {i \in 1..TargetCount[runner[r].app] :
     \/ runner[r].pc \in {"wait", "record", "purge", "finish"}
     \/ runner[r].pc = "apply" /\ i < runner[r].tgt}}

(* A run's event says what the run does, the run is at one of its targets, *)
(* and those behind it carry what it asked for.                            *)
RunLive(r) ==
  /\ events[runner[r].ev].act = runner[r].act
  /\ events[runner[r].ev].ver = runner[r].ver
  /\ events[runner[r].ev].app \in {runner[r].app, NoApp}
  /\ runner[r].pc = "roll" => TargetCount[runner[r].app] # 0
  /\ runner[r].pc \in {"apply", "wait"} => runner[r].tgt \in 1..TargetCount[runner[r].app]
  /\ \A w \in Reached(r) : Carries(runner[r].ev, w)

LiveInv ==
  /\ \A e \in purging : events[e].act = "purge"
  /\ \A r \in Runners : Active(r) => RunLive(r)

(* Only the runs of an app touch its workloads, and there is one at most.  *)
LEMMA ClusterKeeps ==
  ASSUME LogInv, [Next]_vars, NEW r \in Runners, Active(r), ~RunStep(r),
         NEW w \in WorkloadsOf(r)
  PROVE  cluster'[w].ver = cluster[w].ver /\ cluster'[w].restarted = cluster[w].restarted
<1> USE DEF memory, stored, bounds
<1>0. /\ TypeInv /\ OneDeployPerApp /\ cluster \in [Workloads -> Workload]
      /\ runner[r].app \in AppIds
  <2>1. TypeInv /\ OneDeployPerApp BY DEF LogInv, HistoryInv, ExclusionInv
  <2> QED BY <2>1, RunnerFacts DEF TypeInv, TypeOK, Active, LockedAt, HasJob
<1>1. w \in Workloads /\ cluster[w] \in Workload /\ w[1] = runner[r].app
  BY <1>0 DEF WorkloadsOf, Workloads
<1>2. ASSUME NEW s \in Runners, RunStep(s) PROVE cluster'[w] = cluster[w]
  <2>1. CASE ApplyTarget(s) \/ ApplyFails(s)
    <3>1. Active(s) /\ s # r BY <1>2, <2>1 DEF ApplyTarget, ApplyFails, At, Active, ActiveAt
    <3>2. TargetOf(s) # w
      BY <1>0, <1>1, <3>1 DEF OneDeployPerApp, TargetOf
    <3>3. Applied(s)[w] = cluster[w] BY <1>0, <3>2 DEF Applied
    <3> QED BY <2>1, <3>3 DEF ApplyTarget, ApplyFails
  <2>2. CASE ~(ApplyTarget(s) \/ ApplyFails(s))
    BY <1>2, <2>2 DEF RunStep, GetLock, Acquire, CreateEvent, CreateEventRefused,
          FinishUntargeted, StartRolling, WaitDone, WaitFails, WaitInterrupted,
          RecordLastSeen, SchedulePurge, FinishSuccess
  <2> QED BY <2>1, <2>2
<1>3. ASSUME NEW v \in Workloads, RolloutEnds(v)
      PROVE  cluster'[w].ver = cluster[w].ver /\ cluster'[w].restarted = cluster[w].restarted
  <2>1. PICK h \in {"done", "failed"} : cluster' = [cluster EXCEPT ![v].health = h]
    BY <1>3 DEF RolloutEnds
  <2>2. cluster'[w] = cluster[w] \/ cluster'[w] = [cluster[w] EXCEPT !.health = h]
    BY <1>0, <1>1, <2>1
  <2> QED BY <1>1, <2>2 DEF Workload
<1>4. CASE \/ UNCHANGED vars
           \/ \E c \in Callers : AskManual(c) \/ AskQueued(c) \/ CallerStep(c)
           \/ \E q \in Workers : WorkerStep(q)
           \/ \E e \in purging : PurgeDone(e)
           \/ \E a \in AppIds : CreateApp(a) \/ DeleteApp(a) \/ ForgetApp(a)
           \/ ProcessStep \/ Sigterm \/ Crash
  BY <1>4 DEF vars, AskManual, AskQueued, Ask, CallerStep, Enqueue, EnqueueDropped,
       DeploySync, WorkerStep, Receive, WorkerExit, PurgeDone, CreateApp, DeleteApp,
       ForgetApp, ProcessStep, CloseEngine, CancelBase, Exit, Boot, BootSweep,
       ReconcileEvent, StartServing, Sigterm, Crash
<1> QED BY <1>2, <1>3, <1>4 DEF Next, GoroutineStep

(* Only its own statements change the locals of a run.                     *)
LEMMA RunnerKeeps ==
  ASSUME TypeInv, [Next]_vars, NEW r \in Runners, Active(r)', ~RunStep(r)
  PROVE  runner'[r] = runner[r]
<1> USE DEF memory, stored, bounds
<1>0. runner \in [Runners -> Runner] BY DEF TypeInv, TypeOK
<1>1. {"off", "idle", "sync", "enqueue", "lock"} \cap ActiveAt = {} BY DEF ActiveAt
<1>2. runner'[r].pc \in ActiveAt BY DEF Active
<1>3. ASSUME NEW s \in Runners, RunStep(s) PROVE runner'[r] = runner[r]
  BY <1>0, <1>3, RunMoves
<1>4. ASSUME NEW c \in Callers, AskManual(c) \/ AskQueued(c) \/ CallerStep(c)
      PROVE  runner'[r] = runner[r]
  <2>1. CASE AskManual(c) \/ AskQueued(c)
    BY <1>0, <1>1, <1>2, <2>1 DEF AskManual, AskQueued, Ask, Task
  <2>2. CASE Enqueue(c)
    BY <1>0, <1>1, <1>2, <2>2, ParkedType DEF Enqueue
  <2>3. CASE EnqueueDropped(c) \/ DeploySync(c)
    BY <1>0, <1>1, <1>2, <2>3, ParkedType DEF EnqueueDropped, DeploySync, Goto, Runner
  <2> QED BY <1>4, <2>1, <2>2, <2>3 DEF CallerStep
<1>5. ASSUME NEW w \in Workers, WorkerStep(w) PROVE runner'[r] = runner[r]
  BY <1>0, <1>1, <1>2, <1>5 DEF WorkerStep, Receive, WorkerExit, Goto, Task, Runner
<1>6. CASE Exit \/ Crash
  <2>1. runner' = FreshRunner BY <1>6 DEF Exit, Crash, FreshMemory
  <2> QED BY <1>1, <1>2, <2>1, ParkedType DEF FreshRunner
<1>7. CASE \/ UNCHANGED vars
           \/ \E e \in purging : PurgeDone(e)
           \/ \E a \in AppIds : CreateApp(a) \/ DeleteApp(a) \/ ForgetApp(a)
           \/ \E w \in Workloads : RolloutEnds(w)
           \/ CloseEngine \/ CancelBase \/ Boot \/ BootSweep
           \/ \E e \in DOMAIN events : ReconcileEvent(e)
           \/ StartServing \/ Sigterm
  BY <1>7 DEF vars, PurgeDone, CreateApp, DeleteApp, ForgetApp, RolloutEnds, CloseEngine,
              CancelBase, Boot, BootSweep, ReconcileEvent, StartServing, Sigterm
<1> QED BY <1>3, <1>4, <1>5, <1>6, <1>7 DEF Next, GoroutineStep, ProcessStep

(* A run that does not move stays live.                                    *)
LEMMA LiveKept ==
  ASSUME LogInv, [Next]_vars, NEW r \in Runners, Active(r)', ~RunStep(r),
         RunLive(r)
  PROVE  RunLive(r)'
<1>0. TypeInv /\ HistoryInv /\ OwnInv BY DEF LogInv, HistoryInv
<1>1. runner'[r] = runner[r] /\ Active(r) BY <1>0, RunnerKeeps DEF Active
<1>2. runner[r].ev \in DOMAIN events BY <1>0, <1>1 DEF OwnInv, InFlight
<1>3. Changed(runner[r].ev) BY <1>0, <1>2, EventChanges
<1>4. Reached(r)' = Reached(r) /\ Reached(r) \subseteq WorkloadsOf(r)
  BY <1>1 DEF Reached, WorkloadsOf
<1>5. \A w \in Reached(r) :
        cluster'[w].ver = cluster[w].ver /\ cluster'[w].restarted = cluster[w].restarted
  BY <1>1, <1>4, ClusterKeeps
<1>6. ASSUME NEW w \in Reached(r) PROVE Carries(runner[r].ev, w)'
  <2>1. PICK e : e = runner[r].ev OBVIOUS
  <2>2. runner'[r].ev = e BY <1>1, <2>1
  <2>3. Carries(e, w) BY <2>1 DEF RunLive
  <2>4. Carries(e, w)' BY <1>3, <1>5, <2>1, <2>3 DEF Carries, Changed
  <2> QED BY <2>2, <2>4 DEF Carries
<1> QED BY <1>1, <1>3, <1>4, <1>6 DEF RunLive, Changed

(* A target that is patched or restarted carries what the run asked for,   *)
(* and the other targets what they carried.                                *)
LEMMA AppliedIsLive ==
  ASSUME LogInv, NEW r \in Runners, At(r, "apply"), RunLive(r),
         cluster' = Applied(r), events' = events,
         NEW e, e = runner[r].ev, NEW w, w = TargetOf(r)
  PROVE  /\ Carries(e, w)'
         /\ \A v \in Workloads \ {w} : cluster'[v] = cluster[v]
<1>0. /\ TypeInv /\ OwnInv /\ cluster \in [Workloads -> Workload] /\ Active(r)
      /\ events \in Seq(Event)
  BY DEF LogInv, HistoryInv, TypeInv, TypeOK, At, Active, ActiveAt
<1>1. HasJob(runner[r]) BY <1>0, RunnerFacts DEF Active, LockedAt
<1>2. e \in 1..Len(events) /\ Len(events) \in Nat
  BY <1>0, LenProperties DEF OwnInv, InFlight
<1>3. w \in Workloads
  BY <1>1 DEF TargetOf, Workloads, HasJob, RunLive, At
<1>4. \A v \in Workloads \ {w} : cluster'[v] = cluster[v]
  BY <1>0 DEF Applied
<1>5. CASE runner[r].act = "restart"
  <2>1. cluster'[w] = [cluster[w] EXCEPT !.stamp = Clock, !.restarted = Len(events),
                                         !.health = "rolling"]
    BY <1>0, <1>3, <1>5 DEF Applied
  <2>2. cluster'[w].restarted = Len(events) BY <1>0, <1>3, <2>1 DEF Workload
  <2>3. events[e].act = "restart" BY <1>5 DEF RunLive
  <2>4. cluster'[w].restarted >= e BY <1>2, <2>2
  <2> QED BY <1>4, <2>3, <2>4 DEF Carries
<1>6. CASE runner[r].act = "patch"
  <2>1. cluster'[w].ver = runner[r].ver
    <3>1. CASE cluster[w].ver = runner[r].ver
      BY <1>6, <3>1 DEF Applied
    <3>2. CASE cluster[w].ver # runner[r].ver
      <4>1. cluster'[w] = [cluster[w] EXCEPT !.ver = runner[r].ver, !.health = "rolling"]
        BY <1>0, <1>3, <1>6, <3>2 DEF Applied
      <4> QED BY <1>0, <1>3, <4>1 DEF Workload
    <3> QED BY <3>1, <3>2
  <2>2. /\ events[e].act = "patch" /\ events[e].ver = runner[r].ver
    BY <1>6 DEF RunLive
  <2> QED BY <1>4, <2>1, <2>2 DEF Carries
<1> QED BY <1>1, <1>5, <1>6 DEF HasJob

(* What a statement of a run leaves it with.                               *)
LEMMA LiveRun ==
  ASSUME LogInv, LiveInv, [Next]_vars, NEW r \in Runners, RunStep(r), Active(r)'
  PROVE  RunLive(r)'
<1> USE DEF memory, stored, bounds
<1>0. /\ TypeInv /\ HistoryInv /\ OwnInv /\ runner \in [Runners -> Runner]
      /\ runner'[r].pc \in ActiveAt /\ runner[r] \in Runner
  BY DEF LogInv, HistoryInv, TypeInv, TypeOK, Active
<1>1. CASE CreateEvent(r)
  <2>0. PICK at \in Moments :
          events' = Append(events, NewEvent(runner[r].app, runner[r].act, runner[r].ver, at))
    BY <1>1 DEF CreateEvent
  <2> DEFINE a == runner[r].app
             x == NewEvent(a, runner[r].act, runner[r].ver, at)
  <2>1. x.status \in OpenStatus /\ x.act = runner[r].act /\ x.ver = runner[r].ver /\ x.app = a
    BY DEF NewEvent, OpenStatus
  <2>2. events' = Append(events, x) BY <2>0
  <2> HIDE DEF x
  <2>3. events'[Len(events) + 1] = x BY <1>0, <2>1, <2>2, EventAppended
  <2>4. /\ runner'[r].ev = Len(events) + 1 /\ runner'[r].act = runner[r].act
        /\ runner'[r].ver = runner[r].ver /\ runner'[r].app = a
        /\ runner'[r].pc = IF TargetCount[a] = 0 THEN "untargeted" ELSE "roll"
    BY <1>0, <1>1 DEF CreateEvent, Runner
  <2>5. runner'[r].pc \notin {"apply", "wait", "record", "purge", "finish"} BY <2>4
  <2>6. Reached(r)' = {} BY <2>5 DEF Reached
  <2> QED BY <2>1, <2>3, <2>4, <2>5, <2>6 DEF RunLive
<1>2. CASE GetLock(r) \/ Acquire(r) \/ CreateEventRefused(r)
  <2>1. runner'[r].pc \in {"blocked", "create", "idle"}
    BY <1>0, <1>2, ParkedType DEF GetLock, Acquire, CreateEventRefused, Goto, Return, Runner
  <2> QED BY <1>0, <2>1 DEF ActiveAt
<1>3. CASE \/ FinishUntargeted(r) \/ ApplyFails(r) \/ WaitFails(r) \/ WaitInterrupted(r)
           \/ FinishSuccess(r)
  <2>1. runner'[r].pc = "idle"
    BY <1>0, <1>3, ParkedType DEF FinishUntargeted, ApplyFails, WaitFails, WaitInterrupted,
                                  FinishSuccess, Finish, Return
  <2> QED BY <1>0, <2>1 DEF ActiveAt
<1>4. ASSUME \/ StartRolling(r) \/ ApplyTarget(r) \/ WaitDone(r) \/ RecordLastSeen(r)
             \/ SchedulePurge(r)
      PROVE  RunLive(r)'
  <2>1. Active(r) /\ RunLive(r)
    BY <1>4 DEF StartRolling, ApplyTarget, WaitDone, RecordLastSeen, SchedulePurge, At,
                Active, ActiveAt, LiveInv
  <2>2. PICK e \in DOMAIN events : e = runner[r].ev BY <1>0, <2>1 DEF OwnInv, InFlight
  <2>3. Changed(e) BY <1>0, EventChanges
  <2>4. /\ runner'[r].ev = e /\ runner'[r].app = runner[r].app
        /\ runner'[r].act = runner[r].act /\ runner'[r].ver = runner[r].ver
    <3>1. CASE StartRolling(r) BY <1>0, <2>2, <3>1 DEF StartRolling, Runner
    <3>2. CASE ~StartRolling(r)
      <4>1. PICK pc \in PCs : NextTarget(r, pc) \/ Goto(r, pc)
        BY <1>4, <3>2 DEF ApplyTarget, WaitDone, RecordLastSeen, SchedulePurge, PCs, ActiveAt
      <4> QED BY <1>0, <2>2, <4>1 DEF NextTarget, Goto, Runner
    <3> QED BY <3>1, <3>2
  <2>5. /\ events'[e].act = runner'[r].act /\ events'[e].ver = runner'[r].ver
        /\ events'[e].app \in {runner'[r].app, NoApp}
    BY <2>1, <2>2, <2>3, <2>4 DEF RunLive, Changed
  <2> SUFFICES /\ runner'[r].pc = "roll" => TargetCount[runner'[r].app] # 0
               /\ runner'[r].pc \in {"apply", "wait"} =>
                    runner'[r].tgt \in 1..TargetCount[runner'[r].app]
               /\ \A w \in Reached(r)' : Carries(e, w)'
    BY <2>4, <2>5 DEF RunLive, Carries
  <2>6. /\ runner[r].tgt \in Nat /\ TargetCount[runner[r].app] \in Nat
        /\ WorkloadsOf(r) \subseteq Workloads
    BY <1>0, <2>1, RunnerFacts DEF Active, LockedAt, WorkloadsOf, Workloads, HasJob
  <2>7. ASSUME NEW w, Carries(e, w), cluster'[w] = cluster[w] PROVE Carries(e, w)'
    BY <2>3, <2>7 DEF Carries, Changed
  <2>8. CASE StartRolling(r)
    <3>1. /\ runner'[r].pc = "apply" /\ runner'[r].tgt = 1 /\ runner[r].pc = "roll"
      BY <1>0, <2>8 DEF StartRolling, At, Runner
    <3>2. Reached(r)' = {} BY <2>4, <2>6, <3>1 DEF Reached
    <3>3. 1 \in 1..TargetCount[runner[r].app] BY <2>1, <2>6, <3>1 DEF RunLive
    <3> QED BY <2>4, <3>1, <3>2, <3>3
  <2>9. CASE ApplyTarget(r)
    <3> DEFINE n == TargetCount[runner[r].app]
               t == runner[r].tgt
    <3>1. At(r, "apply") /\ cluster' = Applied(r) /\ events' = events /\ NextTarget(r, "wait")
      BY <2>9 DEF ApplyTarget
    <3>2. runner[r].pc = "apply" /\ t \in 1..n BY <2>1, <3>1 DEF At, RunLive
    <3>3. \/ t < n /\ runner'[r].pc = "apply" /\ runner'[r].tgt = t + 1
          \/ t = n /\ runner'[r].pc = "wait" /\ runner'[r].tgt = 1
      BY <1>0, <2>6, <3>1, <3>2 DEF NextTarget, Runner
    <3>4. runner'[r].pc \in {"apply", "wait"} /\ runner'[r].tgt \in 1..n
      BY <2>6, <3>2, <3>3
    <3>5. ASSUME NEW w \in Reached(r)' PROVE w = TargetOf(r) \/ w \in Reached(r)
      <4>1. PICK i \in 1..n : /\ w = <<runner[r].app, i>>
                              /\ runner'[r].pc = "apply" => i < runner'[r].tgt
        BY <2>4, <3>4 DEF Reached
      <4>2. i = t \/ i < t BY <2>6, <3>2, <3>3, <4>1
      <4> QED BY <3>2, <4>1, <4>2 DEF Reached, TargetOf
    <3>6. ASSUME NEW w \in Reached(r)' PROVE Carries(e, w)'
      <4>1. CASE w = TargetOf(r) BY <2>1, <2>2, <3>1, <4>1, AppliedIsLive
      <4>2. CASE w # TargetOf(r)
        <5>1. w \in Reached(r) /\ w \in Workloads
          BY <2>6, <3>5, <4>2 DEF Reached, WorkloadsOf
        <5>2. PICK v : v = TargetOf(r) OBVIOUS
        <5>3. cluster'[w] = cluster[w] BY <2>1, <2>2, <3>1, <4>2, <5>1, <5>2, AppliedIsLive
        <5> QED BY <2>1, <2>2, <2>7, <5>1, <5>3 DEF RunLive
      <4> QED BY <4>1, <4>2
    <3> QED BY <2>4, <3>4, <3>6
  <2>10. CASE WaitDone(r) \/ RecordLastSeen(r) \/ SchedulePurge(r)
    <3>1. cluster' = cluster BY <2>10 DEF WaitDone, RecordLastSeen, SchedulePurge
    <3>2. runner[r].pc \in {"wait", "record", "purge", "finish"}
      BY <2>10 DEF WaitDone, RecordLastSeen, SchedulePurge, At
    <3>3. /\ runner'[r].pc \in {"wait", "record", "purge", "finish"}
          /\ runner'[r].pc = "wait" => runner'[r].tgt \in 1..TargetCount[runner[r].app]
      <4>1. CASE WaitDone(r)
        <5>1. runner[r].tgt \in 1..TargetCount[runner[r].app] /\ runner[r].pc = "wait"
          BY <2>1, <4>1 DEF RunLive, WaitDone, At
        <5> QED BY <1>0, <2>6, <4>1, <5>1 DEF WaitDone, NextTarget, Runner
      <4>2. CASE RecordLastSeen(r) \/ SchedulePurge(r)
        BY <1>0, <4>2 DEF RecordLastSeen, SchedulePurge, Goto, Runner
      <4> QED BY <2>10, <4>1, <4>2
    <3>4. Reached(r)' = Reached(r)
      <4>1. Reached(r) = WorkloadsOf(r) BY <3>2 DEF Reached, WorkloadsOf
      <4>2. Reached(r)' = WorkloadsOf(r) BY <2>4, <3>3 DEF Reached, WorkloadsOf
      <4> QED BY <4>1, <4>2
    <3>5. ASSUME NEW w \in Reached(r)' PROVE Carries(e, w)'
      BY <2>1, <2>2, <2>7, <3>1, <3>4 DEF RunLive
    <3> QED BY <2>4, <3>3, <3>5
  <2> QED BY <1>4, <2>8, <2>9, <2>10
<1> QED BY <1>1, <1>2, <1>3, <1>4 DEF RunStep

(* Every step keeps the invariant.                                         *)
LEMMA LiveSteps == ASSUME LogInv, LiveInv, [Next]_vars PROVE LiveInv'
<1> USE DEF memory, stored, bounds
<1>0. TypeInv /\ HistoryInv /\ OwnInv BY DEF LogInv, HistoryInv
<1>1. ASSUME NEW r \in Runners, Active(r)' PROVE RunLive(r)'
  <2>1. CASE RunStep(r) BY <1>1, <2>1, LiveRun
  <2>2. CASE ~RunStep(r)
    <3>1. runner'[r] = runner[r] BY <1>0, <1>1, <2>2, RunnerKeeps
    <3>2. RunLive(r) BY <1>1, <3>1 DEF LiveInv, Active
    <3> QED BY <1>1, <2>2, <3>2, LiveKept
  <2> QED BY <2>1, <2>2
<1>2. ASSUME NEW e \in purging' PROVE events'[e].act = "purge"
  <2>1. CASE e \in purging
    <3>1. e \in DOMAIN events /\ events[e].act = "purge"
      BY <1>0, <2>1 DEF OwnInv, InFlight, LiveInv
    <3> QED BY <1>0, <3>1, EventChanges DEF Changed
  <2>2. CASE e \notin purging
    <3>1. PICK r \in Runners : SchedulePurge(r)
      <4>1. ASSUME NEW r \in Runners, RunStep(r), ~SchedulePurge(r)
            PROVE  purging' = purging
        BY <4>1 DEF RunStep, GetLock, Acquire, CreateEvent, CreateEventRefused,
             FinishUntargeted, StartRolling, ApplyTarget, ApplyFails, WaitDone, WaitFails,
             WaitInterrupted, RecordLastSeen, FinishSuccess
      <4>2. CASE \/ UNCHANGED vars \/ Quiet
                 \/ \E a \in AppIds : CreateApp(a) \/ ForgetApp(a)
                 \/ \E w \in Workloads : RolloutEnds(w)
                 \/ Sigterm \/ CloseEngine \/ CancelBase \/ Boot \/ StartServing
        BY <1>0, <1>2, <2>2, <4>2, QuietSteps, AsideSteps DEF HistoryInv
      <4>3. CASE \/ \E a \in AppIds : DeleteApp(a)
                 \/ \E f \in purging : PurgeDone(f)
                 \/ BootSweep \/ Exit \/ Crash
                 \/ \E f \in DOMAIN events : ReconcileEvent(f)
        BY <1>2, <2>2, <4>3 DEF DeleteApp, PurgeDone, BootSweep, ReconcileEvent, Exit, Crash,
                                FreshMemory
      <4>4. CASE \E r \in Runners : RunStep(r) BY <1>2, <2>2, <4>1, <4>4
      <4> QED BY <4>2, <4>3, <4>4 DEF Next, GoroutineStep, ProcessStep, Quiet
    <3> DEFINE x == NewEvent(runner[r].app, "purge", NoVersion, Clock)
    <3>2. x.status \in OpenStatus /\ x.act = "purge" BY DEF NewEvent, OpenStatus
    <3>3. events' = Append(events, x) /\ e = Len(events) + 1
      BY <1>2, <2>2, <3>1 DEF SchedulePurge
    <3> HIDE DEF x
    <3> QED BY <1>0, <3>2, <3>3, EventAppended
  <2> QED BY <2>1, <2>2
<1> QED BY <1>1, <1>2 DEF LiveInv

(* Started-at times do not decrease from one event to the next, and what a *)
(* restart writes is the time of the newest event that there was.          *)
Timely ==
  /\ \A e \in DOMAIN events : events[e].at >= 1
  /\ \A e, f \in DOMAIN events : e <= f => events[e].at <= events[f].at

Stamped(w) ==
  \/ cluster[w].stamp = 0
  \/ /\ cluster[w].restarted \in DOMAIN events
     /\ cluster[w].stamp = events[cluster[w].restarted].at

ClockInv == Timely /\ \A w \in Workloads : Stamped(w)

(* A step creates one event, at a moment of the clock, or none.            *)
LEMMA EventsGrow ==
  ASSUME HistoryInv, [Next]_vars
  PROVE  \/ DOMAIN events' = DOMAIN events
         \/ \E x : x.at \in Moments /\ events' = Append(events, x)
<1> USE DEF memory, stored, bounds
<1>0. /\ TypeInv /\ WorkerInv /\ OwnInv /\ events \in Seq(Event)
      /\ Clock \in Moments
  BY DEF HistoryInv, TypeInv, TypeOK, Moments
<1>1. CASE \/ UNCHANGED vars \/ Quiet
           \/ \E a \in AppIds : CreateApp(a) \/ ForgetApp(a)
           \/ \E w \in Workloads : RolloutEnds(w)
           \/ Sigterm \/ CloseEngine \/ CancelBase \/ Boot \/ StartServing
  BY <1>0, <1>1, QuietSteps, AsideSteps
<1>2. CASE \/ \E a \in AppIds : DeleteApp(a)
           \/ \E f \in purging : PurgeDone(f)
           \/ BootSweep \/ Exit \/ Crash
           \/ \E f \in DOMAIN events : ReconcileEvent(f)
  BY <1>2 DEF DeleteApp, PurgeDone, BootSweep, ReconcileEvent, Exit, Crash, Settle
<1>3. ASSUME NEW r \in Runners, CreateEvent(r)
      PROVE  \E x : x.at \in Moments /\ events' = Append(events, x)
  <2>1. PICK at \in Moments :
          events' = Append(events, NewEvent(runner[r].app, runner[r].act, runner[r].ver, at))
    BY <1>3 DEF CreateEvent
  <2>2. NewEvent(runner[r].app, runner[r].act, runner[r].ver, at).at = at BY DEF NewEvent
  <2> QED BY <2>1, <2>2
<1>4. ASSUME NEW r \in Runners, SchedulePurge(r), events' # events
      PROVE  \E x : x.at \in Moments /\ events' = Append(events, x)
  <2>1. events' = Append(events, NewEvent(runner[r].app, "purge", NoVersion, Clock))
    BY <1>4 DEF SchedulePurge
  <2>2. NewEvent(runner[r].app, "purge", NoVersion, Clock).at = Clock BY DEF NewEvent
  <2> QED BY <1>0, <2>1, <2>2
<1>5. ASSUME NEW r \in Runners, RunStep(r), ~CreateEvent(r), ~SchedulePurge(r)
      PROVE  DOMAIN events' = DOMAIN events
  BY <1>5 DEF RunStep, GetLock, Acquire, CreateEventRefused, FinishUntargeted,
       StartRolling, ApplyTarget, ApplyFails, WaitDone, WaitFails, WaitInterrupted,
       RecordLastSeen, FinishSuccess, Finish, Settle
<1> QED BY <1>1, <1>2, <1>3, <1>4, <1>5 DEF Next, GoroutineStep, ProcessStep, Quiet

(* Every step keeps the times in order.                                    *)
LEMMA TimelySteps ==
  ASSUME HistoryInv, Timely, [Next]_vars
  PROVE  /\ Timely'
         /\ \A e \in DOMAIN events : e \in DOMAIN events' /\ events'[e].at = events[e].at
<1>0. events \in Seq(Event) /\ \A e \in DOMAIN events : events[e].at \in Nat
  <2>1. events \in Seq(Event) BY DEF HistoryInv, TypeInv, TypeOK
  <2>2. ASSUME NEW e \in DOMAIN events PROVE events[e].at \in Nat
    <3>1. events[e] \in Event BY <2>1, LenProperties, ElementOfSeq
    <3> QED BY <3>1 DEF Event
  <2> QED BY <2>1, <2>2
<1>1. \A e \in DOMAIN events : e \in DOMAIN events' /\ events'[e].at = events[e].at
  BY EventChanges DEF Changed
<1>2. CASE DOMAIN events' = DOMAIN events
  BY <1>1, <1>2 DEF Timely
<1>3. ASSUME NEW x, x.at \in Moments, events' = Append(events, x) PROVE Timely'
  <2> DEFINE n == Len(events) + 1
  <2>1. /\ DOMAIN events = 1..Len(events) /\ Len(events) \in Nat
        /\ DOMAIN events' = 1..n /\ events'[n] = x
    BY <1>0, <1>3, LenProperties
  <2>2. x.at \in Nat /\ x.at >= 1 /\ \A e \in DOMAIN events : events[e].at <= x.at
    <3>1. CASE events = <<>>
      BY <1>3, <3>1 DEF Moments, Clock
    <3>2. CASE events # <<>>
      <4>1. Len(events) \in DOMAIN events BY <1>0, <2>1, <3>2, EmptySeq
      <4>2. Clock = events[Len(events)].at BY <3>2 DEF Clock
      <4>3. \A e \in DOMAIN events : events[e].at <= Clock BY <2>1, <4>1, <4>2 DEF Timely
      <4>4. Clock \in Nat /\ Clock >= 1 BY <1>0, <4>1, <4>2 DEF Timely
      <4>5. x.at = Clock \/ x.at = Clock + 1 BY <1>3 DEF Moments
      <4> QED BY <1>0, <4>3, <4>4, <4>5
    <3> QED BY <3>1, <3>2
  <2> HIDE DEF n
  <2>3. \A e \in DOMAIN events' : e = n \/ e \in DOMAIN events BY <2>1 DEF n
  <2>4. \A e \in DOMAIN events : ~(n <= e) BY <2>1 DEF n
  <2> QED BY <1>0, <1>1, <2>1, <2>2, <2>3, <2>4 DEF Timely
<1> QED BY <1>1, <1>2, <1>3, EventsGrow

(* Only a restart stamps a workload.                                       *)
LEMMA StampChanges ==
  ASSUME LogInv, [Next]_vars, NEW w \in Workloads
  PROVE  \/ cluster'[w].stamp = cluster[w].stamp /\ cluster'[w].restarted = cluster[w].restarted
         \/ /\ cluster'[w].stamp = Clock /\ cluster'[w].restarted = Len(events)
            /\ events # <<>>
<1> USE DEF memory, stored, bounds
<1>0. /\ TypeInv /\ OwnInv /\ cluster \in [Workloads -> Workload] /\ cluster[w] \in Workload
  BY DEF LogInv, HistoryInv, TypeInv, TypeOK
<1>1. ASSUME NEW s \in Runners, ApplyTarget(s) \/ ApplyFails(s),
             cluster'[w].stamp # cluster[w].stamp \/ cluster'[w].restarted # cluster[w].restarted
      PROVE  /\ cluster'[w].stamp = Clock /\ cluster'[w].restarted = Len(events)
             /\ events # <<>>
  <2>1. cluster' = Applied(s) BY <1>1 DEF ApplyTarget, ApplyFails
  <2>2. events # <<>>
    <3>1. runner[s].ev \in DOMAIN events
      BY <1>0, <1>1 DEF ApplyTarget, ApplyFails, At, Active, ActiveAt, OwnInv, InFlight
    <3> QED BY <3>1
  <2>3. CASE runner[s].act = "restart"
    <3>1. cluster'[w] = cluster[w]
            \/ cluster'[w] = [cluster[w] EXCEPT !.stamp = Clock, !.restarted = Len(events),
                                                !.health = "rolling"]
      BY <1>0, <2>1, <2>3 DEF Applied
    <3> QED BY <1>0, <1>1, <2>2, <3>1 DEF Workload
  <2>4. CASE runner[s].act # "restart"
    <3>1. cluster'[w] = cluster[w]
            \/ cluster'[w] = [cluster[w] EXCEPT !.ver = runner[s].ver, !.health = "rolling"]
      BY <1>0, <2>1, <2>4 DEF Applied
    <3> QED BY <1>0, <1>1, <3>1 DEF Workload
  <2> QED BY <2>3, <2>4
<1>2. ASSUME NEW s \in Runners, RunStep(s), ~(ApplyTarget(s) \/ ApplyFails(s))
      PROVE  cluster' = cluster
  BY <1>2 DEF RunStep, GetLock, Acquire, CreateEvent, CreateEventRefused,
        FinishUntargeted, StartRolling, WaitDone, WaitFails, WaitInterrupted,
        RecordLastSeen, SchedulePurge, FinishSuccess
<1>3. ASSUME NEW v \in Workloads, RolloutEnds(v)
      PROVE  cluster'[w].stamp = cluster[w].stamp /\ cluster'[w].restarted = cluster[w].restarted
  <2>1. PICK h \in {"done", "failed"} : cluster' = [cluster EXCEPT ![v].health = h]
    BY <1>3 DEF RolloutEnds
  <2>2. cluster'[w] = cluster[w] \/ cluster'[w] = [cluster[w] EXCEPT !.health = h]
    BY <1>0, <2>1
  <2> QED BY <1>0, <2>2 DEF Workload
<1>4. CASE \/ UNCHANGED vars
           \/ \E c \in Callers : AskManual(c) \/ AskQueued(c) \/ CallerStep(c)
           \/ \E q \in Workers : WorkerStep(q)
           \/ \E e \in purging : PurgeDone(e)
           \/ \E a \in AppIds : CreateApp(a) \/ DeleteApp(a) \/ ForgetApp(a)
           \/ ProcessStep \/ Sigterm \/ Crash
  BY <1>4 DEF vars, AskManual, AskQueued, Ask, CallerStep, Enqueue, EnqueueDropped,
       DeploySync, WorkerStep, Receive, WorkerExit, PurgeDone, CreateApp, DeleteApp,
       ForgetApp, ProcessStep, CloseEngine, CancelBase, Exit, Boot, BootSweep,
       ReconcileEvent, StartServing, Sigterm, Crash
<1> QED BY <1>1, <1>2, <1>3, <1>4 DEF Next, GoroutineStep

(* Every step keeps the clock, the events and the stamps together.         *)
LEMMA ClockSteps == ASSUME LogInv, ClockInv, [Next]_vars PROVE ClockInv'
<1>0. HistoryInv /\ events \in Seq(Event)
  BY DEF LogInv, HistoryInv, TypeInv, TypeOK
<1>1. /\ Timely'
      /\ \A e \in DOMAIN events : e \in DOMAIN events' /\ events'[e].at = events[e].at
  BY <1>0, TimelySteps DEF ClockInv
<1>2. ASSUME NEW w \in Workloads PROVE Stamped(w)'
  <2>1. CASE /\ cluster'[w].stamp = cluster[w].stamp
             /\ cluster'[w].restarted = cluster[w].restarted
    BY <1>1, <2>1 DEF ClockInv, Stamped
  <2>2. CASE /\ cluster'[w].stamp = Clock /\ cluster'[w].restarted = Len(events)
             /\ events # <<>>
    <3>1. Len(events) \in DOMAIN events BY <1>0, <2>2, LenProperties, EmptySeq
    <3>2. Clock = events[Len(events)].at BY <2>2 DEF Clock
    <3> QED BY <1>1, <2>2, <3>1, <3>2 DEF Stamped
  <2> QED BY <2>1, <2>2, StampChanges
<1> QED BY <1>1, <1>2 DEF ClockInv

(* A deploy is recorded as success, by its run or by the reconciliation of *)
(* a later process, only when every workload of its app is what it asked   *)
(* for, whatever else is deployed, deleted or cut off, as long as row ids  *)
(* are not reused; but for a reconciled restart that an earlier restart of *)
(* the second it was asked for in stands in for.                           *)
THEOREM SuccessesAreLiveToTheSecond ==
  ASSUME MaxGen = 1 PROVE Spec => SuccessIsLiveToTheSecond
<1>1. Init => LiveInv /\ ClockInv
  BY ParkedType
  DEF Init, LiveInv, ClockInv, Timely, Stamped, FreshRunner, Active, ActiveAt
<1>2. LogInv /\ LiveInv /\ [Next]_vars => LiveInv' BY LiveSteps
<1>3. LogInv /\ LiveInv /\ ClockInv /\ [Next]_vars =>
        [\A e \in DOMAIN events :
           /\ events[e].status # "success"
           /\ events'[e].status = "success"
           /\ events[e].act # "purge"
           /\ events[e].app # NoApp
           => \A w \in TargetsOf(events[e].app) :
                Carries(e, w) \/ (mode = "booting" /\ SameSecond(e, w))]_vars
  <2> SUFFICES ASSUME LogInv, LiveInv, ClockInv, Next, NEW e \in DOMAIN events,
                      events[e].status # "success", events'[e].status = "success",
                      events[e].act # "purge", events[e].app # NoApp,
                      NEW w \in TargetsOf(events[e].app)
               PROVE  Carries(e, w) \/ (mode = "booting" /\ SameSecond(e, w))
    BY DEF vars
  <2>0. HistoryInv /\ TypeInv /\ OwnInv BY DEF LogInv, HistoryInv
  <2>1. SuccessOf(e) BY <2>0, EventChanges DEF Changed
  <2>2. e \notin purging BY DEF LiveInv
  <2>3. CASE ReconcileEvent(e)
    <3>1. PICK v \in Verdicts(e) : Settle(e, v, IF v = "failed" THEN "error" ELSE "")
      BY <2>3 DEF ReconcileEvent
    <3>2. v = "success" BY <2>0, <3>1, EventSettled
    <3>3. Live(e, w) /\ mode = "booting" BY <2>3, <3>1, <3>2 DEF Verdicts, ReconcileEvent
    <3>4. CASE events[e].act # "restart" BY <3>3, <3>4 DEF Live, Carries
    <3>5. CASE events[e].act = "restart"
      <4>1. /\ events \in Seq(Event) /\ Timely /\ Stamped(w)
            /\ cluster[w] \in Workload
        BY <2>0 DEF ClockInv, TargetsOf, TypeInv, TypeOK
      <4>2. DOMAIN events = 1..Len(events) /\ Len(events) \in Nat BY <4>1, LenProperties
      <4>3. /\ cluster[w].stamp \in Nat /\ events[e].at \in Nat
            /\ cluster[w].stamp >= events[e].at
        <5>1. events[e] \in Event BY <4>1, <4>2, ElementOfSeq
        <5> QED BY <3>3, <3>5, <4>1, <5>1 DEF Live, Workload, Event
      <4>4. /\ cluster[w].restarted \in DOMAIN events
            /\ cluster[w].stamp = events[cluster[w].restarted].at
        BY <4>1, <4>3 DEF Stamped, Timely
      <4>5. CASE cluster[w].restarted >= e BY <3>5, <4>5 DEF Carries
      <4>6. CASE ~(cluster[w].restarted >= e)
        <5>1. cluster[w].restarted <= e BY <4>2, <4>4, <4>6
        <5>2. cluster[w].stamp <= events[e].at BY <4>1, <4>4, <5>1 DEF Timely
        <5> QED BY <3>3, <3>5, <4>3, <5>2 DEF SameSecond
      <4> QED BY <4>5, <4>6
    <3> QED BY <3>4, <3>5
  <2>4. CASE \E r \in Runners : FinishSuccess(r) /\ runner[r].ev = e
    <3>1. PICK r \in Runners : FinishSuccess(r) /\ runner[r].ev = e BY <2>4
    <3>2. runner[r].pc = "finish" /\ Active(r) BY <3>1 DEF FinishSuccess, At, Active, ActiveAt
    <3>3. RunLive(r) BY <3>2 DEF LiveInv
    <3>4. events[e].app = runner[r].app BY <3>1, <3>3 DEF RunLive
    <3>5. w \in Reached(r)
      <4>1. w \in Workloads /\ w[1] = runner[r].app BY <3>4 DEF TargetsOf
      <4>2. PICK a \in AppIds : w \in {a} \X (1..TargetCount[a]) BY <4>1 DEF Workloads
      <4>3. a = runner[r].app /\ w = <<a, w[2]>> /\ w[2] \in 1..TargetCount[a]
        BY <4>1, <4>2
      <4> QED BY <3>2, <4>3 DEF Reached
    <3> QED BY <3>1, <3>3, <3>5 DEF RunLive
  <2> QED BY <2>1, <2>2, <2>3, <2>4 DEF SuccessOf
<1>4. Init => ExclusionInv BY InitExclusion
<1>5. ExclusionInv /\ [Next]_vars => ExclusionInv' BY ExclusionStep
<1>6. HistoryInv /\ ExclusionInv => LogInv BY DEF LogInv
<1>7. LogInv /\ ClockInv /\ [Next]_vars => ClockInv' BY ClockSteps
<1> QED BY <1>1, <1>2, <1>3, <1>4, <1>5, <1>6, <1>7, HistoryInvariant, PTL
        DEF Spec, SuccessIsLiveToTheSecond

=============================================================================
