---------------------------- MODULE DeployEngine ----------------------------
(***************************************************************************)
(* The deploy engine of tagalong (internal/deploy/engine.go) with the rows *)
(* of the SQLite store it writes (internal/store), the handlers that feed  *)
(* it (internal/httpapi), the workloads it patches, and the life of the    *)
(* process that runs it (cmd/tagalong/main.go).                            *)
(*                                                                         *)
(* A "runner" is a goroutine that can be inside Engine.run: the worker of  *)
(* an app's queue, or a handler goroutine executing a manual deploy.  Each *)
(* action is one handler step between two points where another goroutine,  *)
(* the cluster or a crash can come in: one store statement, one call to    *)
(* the Kubernetes API, one critical section of Engine.mu.                  *)
(*                                                                         *)
(* Engine.queues and Engine.locks are maps from an app id to a channel and *)
(* to a mutex.  ForgetApp is the only operation that removes an app's      *)
(* entries while the process runs, so the objects an id has had are        *)
(* numbered by how often the id was forgotten: its epoch.  The current     *)
(* entry of id a is the object <<a, epoch[a]>>; older objects live on in   *)
(* the goroutines that still hold a reference to them.                     *)
(***************************************************************************)
EXTENDS Naturals, Sequences, FiniteSets

CONSTANTS
  MaxId,         (* app row ids are 1..MaxId.  Bounds the model.            *)
  TargetCount,   (* TargetCount[a]: the workloads app a deploys to.         *)
  Versions,      (* what a deploy asks for: a tag to patch to, or a digest  *)
                 (* or tag to record after a restart.                       *)
  NoVersion,     (* a restart that records nothing; also "never seen".      *)
  Callers,       (* handler and poller goroutines that ask for deploys.     *)
  QueueCap,      (* capacity of an app's channel (8 in the code).           *)
  PurgeEnabled,  (* whether apps have a Cloudflare purge configured.        *)
  MaxGen,        (* how many apps may successively get the same row id.     *)
  MaxRequests,   (* deploy requests made.  Bounds the model.                *)
  MaxStops       (* crashes and shutdowns.  Bounds the model.               *)

NoApp == 0

AppIds == 1..MaxId

Epochs == 0..MaxGen

(* A mutex of Engine.locks, and a channel of Engine.queues.                *)
Objects == AppIds \X Epochs

(* The worker goroutine started for a channel is named by its channel.     *)
Workers == Objects

Runners == Workers \cup Callers

Workloads == UNION {{a} \X (1..TargetCount[a]) : a \in AppIds}

ASSUME ConstantsAssumption ==
  /\ MaxId \in Nat
  /\ TargetCount \in [AppIds -> Nat]
  /\ NoVersion \notin Versions
  /\ QueueCap \in Nat \ {0}
  /\ PurgeEnabled \in BOOLEAN
  /\ MaxGen \in Nat \ {0}
  /\ MaxRequests \in Nat
  /\ MaxStops \in Nat

ASSUME CallersAssumption == Callers \cap Workers = {}

VARIABLES
  apps,      (* persistent: ids with a row in apps.                        *)
  gens,      (* gens[a]: how many apps have had row id a.                  *)
  lastSeen,  (* persistent: apps.last_seen_tag / last_seen_digest.         *)
  events,    (* persistent: the rows of deploy_events, by id.              *)
  cluster,   (* the workloads, as the Kubernetes API reports them.         *)
  mode,      (* where the process is in main().                            *)
  epoch,     (* epoch[a]: how often ForgetApp(a) ran in this process.      *)
  chan,      (* chan[q]: "none", "open" (in Engine.queues) or "closed".    *)
  queue,     (* queue[q]: the jobs buffered in channel q.                  *)
  held,      (* the mutexes of Engine.locks, present and past, now locked. *)
  runner,    (* runner[r]: program counter and locals of Engine.run.       *)
  forgets,   (* forgets[a]: deleteApp handlers between the DELETE and      *)
             (* ForgetApp.                                                 *)
  purging,   (* events with a sleeping schedulePurge goroutine.            *)
  issued,    (* requests made so far.                                      *)
  stops      (* crashes and shutdowns so far.                              *)

stored == <<apps, gens, lastSeen, events>>

memory == <<epoch, chan, queue, held, forgets, purging>>

bounds == <<issued, stops>>

vars == <<stored, cluster, mode, memory, runner, bounds>>

(***************************************************************************)
(* Types.                                                                  *)
(***************************************************************************)

Modes == {"up", "stopping", "closed", "cancelled", "down", "booting"}

(* model.Status*, without the skipped status that webhooks record.         *)
OpenStatus == {"pending", "rolling"}

TerminalStatus == {"success", "failed", "unknown"}

(* detail keeps of deploy_events.detail only why a failed event failed.    *)
(* at: started_at, a date and time that datetime('now') writes in seconds. *)
Event == [app    : AppIds \cup {NoApp},
          at     : Nat,
          act    : {"patch", "restart", "purge"},
          ver    : Versions \cup {NoVersion},
          status : OpenStatus \cup TerminalStatus,
          detail : {"", "error", "canceled"}]

(* stamp: the annotation that a restart writes, RFC 3339 in seconds; 0     *)
(* where there is none.  restarted: history, the newest event that there   *)
(* was at the last restart.                                                *)
Workload == [ver       : Versions \cup {NoVersion},
             stamp     : Nat,
             restarted : Nat,
             health    : {"rolling", "done", "failed"}]

(* deploy.Job: the app snapshot (its id), the action and what to record.   *)
Job == [app : AppIds,
        act : {"patch", "restart"},
        ver : Versions \cup {NoVersion}]

(* The points of Engine.run at which a runner has created its event.       *)
ActiveAt == {"roll", "untargeted", "apply", "wait", "record", "purge",
             "finish"}

PCs == {"off", "idle", "sync", "enqueue", "lock", "blocked", "create"}
         \cup ActiveAt

Runner == [pc  : PCs,
           app : AppIds \cup {NoApp},
           act : {"none", "patch", "restart"},
           ver : Versions \cup {NoVersion},
           key : Epochs,
           ev  : Nat,
           tgt : Nat]

TypeOK ==
  /\ apps \subseteq AppIds
  /\ gens \in [AppIds -> 0..MaxGen]
  /\ lastSeen \in [AppIds -> Versions \cup {NoVersion}]
  /\ events \in Seq(Event)
  /\ cluster \in [Workloads -> Workload]
  /\ mode \in Modes
  /\ epoch \in [AppIds -> Epochs]
  /\ chan \in [Objects -> {"none", "open", "closed"}]
  /\ queue \in [Objects -> Seq(Job)]
  /\ \A q \in Objects : Len(queue[q]) <= QueueCap
  /\ held \subseteq Objects
  /\ runner \in [Runners -> Runner]
  /\ forgets \in [AppIds -> 0..MaxGen]
  /\ purging \subseteq Nat
  /\ issued \in Nat
  /\ stops \in Nat

(* A goroutine about to deploy at `pc`, and one with no deploy to run.      *)
Task(pc, app, act, ver) ==
  [pc |-> pc, app |-> app, act |-> act, ver |-> ver, key |-> 0, ev |-> 0, tgt |-> 0]

Parked(pc) == Task(pc, NoApp, "none", NoVersion)

(* The memory of a process that has just started: no queue, no lock, no    *)
(* goroutine but the callers.                                              *)
FreshRunner == [r \in Runners |-> Parked(IF r \in Callers THEN "idle" ELSE "off")]

FreshMemory ==
  /\ epoch' = [a \in AppIds |-> 0]
  /\ chan' = [q \in Objects |-> "none"]
  /\ queue' = [q \in Objects |-> <<>>]
  /\ held' = {}
  /\ runner' = FreshRunner
  /\ forgets' = [a \in AppIds |-> 0]
  /\ purging' = {}

(* A process that has started with the apps of an earlier one.             *)
Init ==
  /\ \E n \in 0..MaxId : apps = 1..n
  /\ gens = [a \in AppIds |-> IF a \in apps THEN 1 ELSE 0]
  /\ lastSeen = [a \in AppIds |-> NoVersion]
  /\ events = <<>>
  /\ cluster = [w \in Workloads |->
                  [ver |-> NoVersion, stamp |-> 0, restarted |-> 0, health |-> "done"]]
  /\ mode = "up"
  /\ epoch = [a \in AppIds |-> 0]
  /\ chan = [q \in Objects |-> "none"]
  /\ queue = [q \in Objects |-> <<>>]
  /\ held = {}
  /\ runner = FreshRunner
  /\ forgets = [a \in AppIds |-> 0]
  /\ purging = {}
  /\ issued = 0
  /\ stops = 0

(***************************************************************************)
(* Helpers on a runner's locals.                                           *)
(***************************************************************************)

Running == mode \in {"up", "stopping", "closed", "cancelled"}

At(r, pc) == Running /\ runner[r].pc = pc

Active(r) == runner[r].pc \in ActiveAt

LockOf(r) == <<runner[r].app, runner[r].key>>

TargetOf(r) == <<runner[r].app, runner[r].tgt>>

Goto(r, pc) == runner' = [runner EXCEPT ![r].pc = pc]

(* After a target: the next one at the same point, or the first at `next`. *)
NextTarget(r, next) ==
  IF runner[r].tgt < TargetCount[runner[r].app]
  THEN runner' = [runner EXCEPT ![r].tgt = @ + 1]
  ELSE runner' = [runner EXCEPT ![r].tgt = 1, ![r].pc = next]

(* Engine.Shutdown's last resort: the context of every worker is done.     *)
BaseDone(r) == mode = "cancelled" /\ r \in Workers

(* Mutated form: the deferred unlock is lost.                              *)
ReturnKeepingLock(r) ==
  /\ runner' = [runner EXCEPT ![r] = Parked("idle")]
  /\ held' = held

(* return from Engine.run: the deferred unlock, then the worker's range    *)
(* loop or the end of the handler.                                         *)
Return(r) ==
  /\ runner' = [runner EXCEPT ![r] = Parked("idle")]
  /\ held' = held \ {LockOf(r)}

Settle(e, status, detail) ==
  events' = [events EXCEPT ![e].status = status, ![e].detail = detail]

(* Engine.finish, the last statement of every path of run that ends with a *)
(* verdict.                                                                *)
Finish(r, status, detail) ==
  /\ Settle(runner[r].ev, status, detail)
  /\ Return(r)

(***************************************************************************)
(* Requests: handlers and pollers load an app and ask for a deploy of it.  *)
(***************************************************************************)

Ask(c, pc, a, act, ver) ==
  /\ mode = "up"
  /\ runner[c].pc = "idle"
  /\ a \in apps
  /\ issued < MaxRequests
  /\ runner' = [runner EXCEPT ![c] = Task(pc, a, act, ver)]
  /\ issued' = issued + 1
  /\ UNCHANGED <<stored, cluster, mode, memory, stops>>

(* deployApp: a tag patches, an empty body restarts and records nothing.   *)
AskManual(c) ==
  \E a \in AppIds, ver \in Versions \cup {NoVersion} :
    Ask(c, "sync", a, IF ver = NoVersion THEN "restart" ELSE "patch", ver)

(* A webhook or a poll that decided to deploy the app it has loaded.       *)
AskQueued(c) ==
  \E a \in AppIds, act \in {"patch", "restart"}, ver \in Versions :
    Ask(c, "enqueue", a, act, ver)

JobOf(c) == [app |-> runner[c].app, act |-> runner[c].act, ver |-> runner[c].ver]

CurrentQueue(a) == <<a, epoch[a]>>

(* Mutated form: nothing looks at the room left in the channel.            *)
AcceptsAny(q) == mode \in {"up", "stopping"}

(* The select of Enqueue: not closed, and room in the channel.             *)
Accepts(q) == mode \in {"up", "stopping"} /\ Len(queue[q]) < QueueCap

(* Engine.Enqueue, all of it under Engine.mu.  The caller hears nothing of *)
(* a job that is dropped: the channel is full or the engine closed.        *)
Enqueue(c) ==
  LET q == CurrentQueue(runner[c].app) IN
  /\ At(c, "enqueue")
  /\ Accepts(q)
  /\ chan' = [chan EXCEPT ![q] = "open"]
  /\ queue' = [queue EXCEPT ![q] = Append(@, JobOf(c))]
  /\ runner' = [r \in Runners |->
       CASE r = c -> Parked("idle")
         [] r = q /\ chan[q] = "none" -> Parked("idle")
         [] OTHER -> runner[r]]
  /\ UNCHANGED <<stored, cluster, mode, epoch, held, forgets, purging, bounds>>

EnqueueDropped(c) ==
  /\ At(c, "enqueue")
  /\ ~Accepts(CurrentQueue(runner[c].app))
  /\ runner' = [runner EXCEPT ![c] = Parked("idle")]
  /\ UNCHANGED <<stored, cluster, mode, memory, bounds>>

(* DeploySync: run in the caller's own goroutine.                          *)
DeploySync(c) ==
  /\ At(c, "sync")
  /\ Goto(c, "lock")
  /\ UNCHANGED <<stored, cluster, mode, memory, bounds>>

(***************************************************************************)
(* Engine.worker: for job := range q.                                      *)
(***************************************************************************)

Receive(w) ==
  LET job == Head(queue[w]) IN
  /\ At(w, "idle")
  /\ queue[w] # <<>>
  /\ queue' = [queue EXCEPT ![w] = Tail(@)]
  /\ runner' = [runner EXCEPT ![w] = Task("lock", job.app, job.act, job.ver)]
  /\ UNCHANGED <<stored, cluster, mode, epoch, chan, held, forgets, purging,
                 bounds>>

(* Mutated form: the worker stops at the close without draining.           *)
ExitsUndrained(w) == chan[w] = "closed"

(* A range over a closed channel ends only once the buffer is empty.       *)
Exits(w) == chan[w] = "closed" /\ queue[w] = <<>>

WorkerExit(w) ==
  /\ At(w, "idle")
  /\ Exits(w)
  /\ Goto(w, "off")
  /\ UNCHANGED <<stored, cluster, mode, memory, bounds>>

(***************************************************************************)
(* Engine.run.                                                             *)
(***************************************************************************)

(* lockApp, under Engine.mu: which mutex this run is going to lock.        *)
GetLock(r) ==
  /\ At(r, "lock")
  /\ runner' = [runner EXCEPT ![r].pc = "blocked",
                              ![r].key = epoch[runner[r].app]]
  /\ UNCHANGED <<stored, cluster, mode, memory, bounds>>

(* Mutated form: manual deploys do not take the lock.                      *)
QueuedLockOnly(r) == r \in Callers \/ LockOf(r) \notin held

Unlocked(r) == LockOf(r) \notin held

(* lockApp, after Engine.mu is released: l.Lock().                         *)
Acquire(r) ==
  /\ At(r, "blocked")
  /\ Unlocked(r)
  /\ held' = held \cup {LockOf(r)}
  /\ Goto(r, "create")
  /\ UNCHANGED <<stored, cluster, mode, epoch, chan, queue, forgets, purging,
                 bounds>>

(* Mutated form: the store was opened without PRAGMA foreign_keys.         *)
AnyRowInserts(a) == a \in AppIds

(* deploy_events.app_id REFERENCES apps(id), foreign_keys ON.              *)
RowInserts(a) == a \in apps

(* The clock, in seconds.  Only the order of a restart and the creation of *)
(* a later event is ever asked for, so it need advance at creations only:  *)
(* a second has begun since the last restart, or has not.                  *)
Clock == IF events = <<>> THEN 1 ELSE events[Len(events)].at

Moments == IF events = <<>> THEN {Clock} ELSE {Clock, Clock + 1}

NewEvent(a, act, ver, at) ==
  [app |-> a, at |-> at, act |-> act, ver |-> ver, status |-> "pending", detail |-> ""]

CreateEvent(r) ==
  LET a == runner[r].app IN
  /\ At(r, "create")
  /\ RowInserts(a)
  /\ \E at \in Moments :
       events' = Append(events, NewEvent(a, runner[r].act, runner[r].ver, at))
  /\ runner' = [runner EXCEPT
       ![r].ev = Len(events) + 1,
       ![r].pc = IF TargetCount[a] = 0 THEN "untargeted" ELSE "roll"]
  /\ UNCHANGED <<apps, gens, lastSeen, cluster, mode, memory, bounds>>

(* CreateEvent fails: the app was deleted since the request loaded it.     *)
CreateEventRefused(r) ==
  /\ At(r, "create")
  /\ ~RowInserts(runner[r].app)
  /\ Return(r)
  /\ UNCHANGED <<stored, cluster, mode, epoch, chan, queue, forgets, purging,
                 bounds>>

FinishUntargeted(r) ==
  /\ At(r, "untargeted")
  /\ Finish(r, "failed", "error")
  /\ UNCHANGED <<apps, gens, lastSeen, cluster, mode, epoch, chan, queue,
                 forgets, purging, bounds>>

StartRolling(r) ==
  /\ At(r, "roll")
  /\ events' = [events EXCEPT ![runner[r].ev].status = "rolling"]
  /\ runner' = [runner EXCEPT ![r].pc = "apply", ![r].tgt = 1]
  /\ UNCHANGED <<apps, gens, lastSeen, cluster, mode, memory, bounds>>

(* RestartRollout writes the current time into the pod template, without   *)
(* its fraction of a second.  PatchImage to the image that is already set  *)
(* changes nothing and starts no rollout.                                  *)
Applied(r) ==
  LET w == TargetOf(r) IN
  IF runner[r].act = "restart"
  THEN [cluster EXCEPT ![w] = [@ EXCEPT !.stamp = Clock,
                                        !.restarted = Len(events),
                                        !.health = "rolling"]]
  ELSE IF cluster[w].ver = runner[r].ver THEN cluster
  ELSE [cluster EXCEPT ![w] = [@ EXCEPT !.ver = runner[r].ver,
                                        !.health = "rolling"]]

ApplyTarget(r) ==
  /\ At(r, "apply")
  /\ ~BaseDone(r)
  /\ cluster' = Applied(r)
  /\ NextTarget(r, "wait")
  /\ UNCHANGED <<stored, mode, memory, bounds>>

(* The request fails, before or after the API server carried it out.       *)
ApplyFails(r) ==
  /\ At(r, "apply")
  /\ cluster' \in {cluster, Applied(r)}
  /\ Finish(r, "failed", IF BaseDone(r) THEN "canceled" ELSE "error")
  /\ UNCHANGED <<apps, gens, lastSeen, mode, epoch, chan, queue, forgets,
                 purging, bounds>>

WaitDone(r) ==
  /\ At(r, "wait")
  /\ ~BaseDone(r)
  /\ cluster[TargetOf(r)].health = "done"
  /\ NextTarget(r, "record")
  /\ UNCHANGED <<stored, cluster, mode, memory, bounds>>

(* Mutated form: the error of one target does not end the run.             *)
WaitFailsGoesOn(r) ==
  /\ At(r, "wait")
  /\ ~BaseDone(r)
  /\ Settle(runner[r].ev, "failed", "error")
  /\ NextTarget(r, "record")
  /\ held' = held
  /\ UNCHANGED <<apps, gens, lastSeen, cluster, mode, epoch, chan, queue,
                 forgets, purging, bounds>>

(* WaitForRollout returns an error: the rollout is reported as failed, its *)
(* five minutes are over, the API call failed, or the client of a manual   *)
(* deploy went away.                                                       *)
WaitFails(r) ==
  /\ At(r, "wait")
  /\ ~BaseDone(r)
  /\ Finish(r, "failed", "error")
  /\ UNCHANGED <<apps, gens, lastSeen, cluster, mode, epoch, chan, queue,
                 forgets, purging, bounds>>

(* context.Canceled with baseCtx done (for a manual deploy: its client     *)
(* went away as well): run returns and leaves the event in rolling.        *)
WaitInterrupted(r) ==
  /\ At(r, "wait")
  /\ mode = "cancelled"
  /\ Return(r)
  /\ UNCHANGED <<stored, cluster, mode, epoch, chan, queue, forgets, purging,
                 bounds>>

(* SetLastSeen: an UPDATE that finds no row once the app is deleted.       *)
RecordLastSeen(r) ==
  LET a == runner[r].app IN
  /\ At(r, "record")
  /\ lastSeen' = IF runner[r].ver # NoVersion /\ a \in apps
                 THEN [lastSeen EXCEPT ![a] = runner[r].ver]
                 ELSE lastSeen
  /\ Goto(r, IF PurgeEnabled THEN "purge" ELSE "finish")
  /\ UNCHANGED <<apps, gens, events, cluster, mode, memory, bounds>>

(* schedulePurge: its own event, and a goroutine that outlives the run; or *)
(* neither, when the app is gone.                                          *)
SchedulePurge(r) ==
  LET a == runner[r].app IN
  /\ At(r, "purge")
  /\ IF RowInserts(a)
     THEN /\ events' = Append(events, NewEvent(a, "purge", NoVersion, Clock))
          /\ purging' = purging \cup {Len(events) + 1}
     ELSE UNCHANGED <<events, purging>>
  /\ Goto(r, "finish")
  /\ UNCHANGED <<apps, gens, lastSeen, cluster, mode, epoch, chan, queue, held,
                 forgets, bounds>>

FinishSuccess(r) ==
  /\ At(r, "finish")
  /\ Finish(r, "success", "")
  /\ UNCHANGED <<apps, gens, lastSeen, cluster, mode, epoch, chan, queue,
                 forgets, purging, bounds>>

(* The goroutine of schedulePurge wakes up and purges.                     *)
PurgeDone(e) ==
  /\ Running
  /\ e \in purging
  /\ \E status \in {"success", "failed"} :
       Settle(e, status, IF status = "failed" THEN "error" ELSE "")
  /\ purging' = purging \ {e}
  /\ UNCHANGED <<apps, gens, lastSeen, cluster, mode, epoch, chan, queue, held,
                 runner, forgets, bounds>>

(***************************************************************************)
(* Creating and deleting apps while deploys are queued and running.        *)
(***************************************************************************)

(* apps.id is INTEGER PRIMARY KEY without AUTOINCREMENT: the next id is    *)
(* one more than the largest in the table.                                 *)
NextId(a) == (\A b \in apps : b < a) /\ (a = 1 \/ a - 1 \in apps)

CreateApp(a) ==
  /\ mode = "up"
  /\ NextId(a)
  /\ gens[a] < MaxGen
  /\ apps' = apps \cup {a}
  /\ gens' = [gens EXCEPT ![a] = @ + 1]
  /\ UNCHANGED <<lastSeen, events, cluster, mode, memory, runner, bounds>>

(* store.DeleteApp: ON DELETE SET NULL detaches the app's history.         *)
DeleteApp(a) ==
  /\ mode = "up"
  /\ a \in apps
  /\ apps' = apps \ {a}
  /\ lastSeen' = [lastSeen EXCEPT ![a] = NoVersion]
  /\ events' = [e \in DOMAIN events |->
       IF events[e].app = a THEN [events[e] EXCEPT !.app = NoApp] ELSE events[e]]
  /\ forgets' = [forgets EXCEPT ![a] = @ + 1]
  /\ UNCHANGED <<gens, cluster, mode, epoch, chan, queue, held, runner, purging,
                 bounds>>

(* Engine.ForgetApp, all of it under Engine.mu.                            *)
ForgetApp(a) ==
  LET q == CurrentQueue(a) IN
  /\ Running
  /\ forgets[a] > 0
  /\ forgets' = [forgets EXCEPT ![a] = @ - 1]
  /\ chan' = [chan EXCEPT ![q] = IF @ = "open" THEN "closed" ELSE @]
  /\ epoch' = [epoch EXCEPT ![a] = @ + 1]
  /\ UNCHANGED <<stored, cluster, mode, queue, held, runner, purging, bounds>>

(***************************************************************************)
(* The cluster.                                                            *)
(***************************************************************************)

(* A rollout ends, well or badly, whatever tagalong does.                  *)
RolloutEnds(w) ==
  /\ cluster[w].health = "rolling"
  /\ \E h \in {"done", "failed"} : cluster' = [cluster EXCEPT ![w].health = h]
  /\ UNCHANGED <<stored, mode, memory, runner, bounds>>

(***************************************************************************)
(* The life of the process.                                                *)
(***************************************************************************)

(* SIGTERM: no new request is served; handlers that have begun go on.      *)
Sigterm ==
  /\ mode = "up"
  /\ stops < MaxStops
  /\ mode' = "stopping"
  /\ stops' = stops + 1
  /\ UNCHANGED <<stored, cluster, memory, runner, issued>>

(* Mutated form: Shutdown forgets to close the channels.                   *)
ChansLeftOpen == chan

ChansClosed == [q \in Objects |-> IF chan[q] = "open" THEN "closed" ELSE chan[q]]

(* Engine.Shutdown: closed is set and every queue is closed.               *)
CloseEngine ==
  /\ mode = "stopping"
  /\ mode' = "closed"
  /\ chan' = ChansClosed
  /\ UNCHANGED <<stored, cluster, epoch, queue, held, runner, forgets, purging,
                 bounds>>

WorkersDone == \A w \in Workers : runner[w].pc = "off"

(* The drain deadline passes: cancelBase.                                  *)
CancelBase ==
  /\ mode = "closed"
  /\ ~WorkersDone
  /\ mode' = "cancelled"
  /\ UNCHANGED <<stored, cluster, memory, runner, bounds>>

(* Shutdown returns when every worker has, and main returns after it.      *)
Exit ==
  /\ mode \in {"closed", "cancelled"}
  /\ WorkersDone
  /\ mode' = "down"
  /\ FreshMemory
  /\ UNCHANGED <<stored, cluster, bounds>>

(* The process is killed: a crash, or a deploy of tagalong by itself.      *)
Crash ==
  /\ mode # "down"
  /\ stops < MaxStops
  /\ mode' = "down"
  /\ stops' = stops + 1
  /\ FreshMemory
  /\ UNCHANGED <<stored, cluster, issued>>

(* Mutated form: an event that had not reached rolling is not listed.      *)
RollingOnly == {e \in DOMAIN events : events[e].status = "rolling"}

(* store.ListInterrupted, and the WHERE of store.SweepStale.               *)
Interrupted == {e \in DOMAIN events : events[e].status \in OpenStatus}

Boot ==
  /\ mode = "down"
  /\ mode' = "booting"
  /\ UNCHANGED <<stored, cluster, memory, runner, bounds>>

(* ReconcileStartup without a cluster: store.SweepStale, one UPDATE.       *)
BootSweep ==
  /\ mode = "down"
  /\ mode' = "up"
  /\ events' = [e \in DOMAIN events |->
       IF e \in Interrupted THEN [events[e] EXCEPT !.status = "unknown"]
       ELSE events[e]]
  /\ UNCHANGED <<apps, gens, lastSeen, cluster, memory, runner, bounds>>

TargetsOf(a) == {w \in Workloads : w[1] = a}

(* Mutated form: a restart of any time counts.                             *)
LiveRestartedOnce(e, w) ==
  IF events[e].act = "restart" THEN cluster[w].stamp # 0
  ELSE events[e].act = "patch" /\ cluster[w].ver = events[e].ver

(* The workload's spec carries what the event asked for, as far as its     *)
(* image and its annotation tell: a restart that is not older, in seconds, *)
(* than the event (!ra.Before(ev.StartedAt)).  A purge event has no image, *)
(* which never matches.                                                    *)
Live(e, w) ==
  IF events[e].act = "restart" THEN cluster[w].stamp >= events[e].at
  ELSE events[e].act = "patch" /\ cluster[w].ver = events[e].ver

(* reconcileEvent.  Each of its reads of the API can fail: a rollout       *)
(* status that can't be read counts as not failed, an image or annotation  *)
(* that can't be read as not applied.                                      *)
Verdicts(e) ==
  LET ts == IF events[e].app = NoApp THEN {} ELSE TargetsOf(events[e].app) IN
  {"unknown"}
    \cup {v \in {"failed"} : \E w \in ts : cluster[w].health = "failed"}
    \cup {v \in {"success"} : ts # {} /\ \A w \in ts : Live(e, w)}

(* One turn of ReconcileStartup's loop, oldest event first.                *)
ReconcileEvent(e) ==
  /\ mode = "booting"
  /\ e \in Interrupted
  /\ \A f \in Interrupted : e <= f
  /\ \E v \in Verdicts(e) : Settle(e, v, IF v = "failed" THEN "error" ELSE "")
  /\ UNCHANGED <<apps, gens, lastSeen, cluster, mode, memory, runner, bounds>>

(* main goes on to start the poller and the HTTP servers.                  *)
StartServing ==
  /\ mode = "booting"
  /\ Interrupted = {}
  /\ mode' = "up"
  /\ UNCHANGED <<stored, cluster, memory, runner, bounds>>

(***************************************************************************)
(* The specification.                                                      *)
(***************************************************************************)

(* The statements of Engine.run.                                           *)
RunStep(r) ==
  \/ GetLock(r)
  \/ Acquire(r)
  \/ CreateEvent(r)
  \/ CreateEventRefused(r)
  \/ FinishUntargeted(r)
  \/ StartRolling(r)
  \/ ApplyTarget(r)
  \/ ApplyFails(r)
  \/ WaitDone(r)
  \/ WaitFails(r)
  \/ WaitInterrupted(r)
  \/ RecordLastSeen(r)
  \/ SchedulePurge(r)
  \/ FinishSuccess(r)

CallerStep(c) == Enqueue(c) \/ EnqueueDropped(c) \/ DeploySync(c)

WorkerStep(w) == Receive(w) \/ WorkerExit(w)

(* What a goroutine does next, requests apart.                             *)
GoroutineStep(r) ==
  \/ r \in Callers /\ CallerStep(r)
  \/ r \in Workers /\ WorkerStep(r)
  \/ RunStep(r)

ProcessStep ==
  \/ CloseEngine
  \/ CancelBase
  \/ Exit
  \/ Boot
  \/ BootSweep
  \/ \E e \in DOMAIN events : ReconcileEvent(e)
  \/ StartServing

Next ==
  \/ \E c \in Callers : AskManual(c) \/ AskQueued(c)
  \/ \E r \in Runners : GoroutineStep(r)
  \/ \E e \in purging : PurgeDone(e)
  \/ \E a \in AppIds : CreateApp(a) \/ DeleteApp(a) \/ ForgetApp(a)
  \/ \E w \in Workloads : RolloutEnds(w)
  \/ ProcessStep
  \/ Sigterm
  \/ Crash

Spec == Init /\ [][Next]_vars

(* A goroutine that can go on does; one that waits for a mutex that is     *)
(* released again and again gets it (sync.Mutex's starvation mode), which  *)
(* is why this is strong fairness.  A purge's sleep ends; a handler that   *)
(* deleted an app goes on to ForgetApp; shutdown and startup go on, and a  *)
(* stopped process is started again.  Nothing is assumed of requests,      *)
(* deletions, crashes or rollouts: a wait that sees no end times out.      *)
Fairness ==
  /\ \A r \in Runners : SF_vars(GoroutineStep(r))
  /\ WF_vars(\E e \in purging : PurgeDone(e))
  /\ WF_vars(\E a \in AppIds : ForgetApp(a))
  /\ WF_vars(ProcessStep)

FairSpec == Spec /\ Fairness
(***************************************************************************)
(* Safety.                                                                 *)
(***************************************************************************)

(* At most one deploy of an app is between CreateEvent and its verdict,    *)
(* queued or manual (DeploySync's comment in engine.go), however requests, *)
(* DeleteApp and ForgetApp interleave: a run that locks a mutex made after *)
(* ForgetApp finds the app's row gone.  It rests on ids not being reused,  *)
(* MaxGen = 1.                                                             *)
OneDeployPerApp ==
  \A r, s \in Runners :
    Active(r) /\ Active(s) /\ runner[r].app = runner[s].app => r = s

InFlight == {e \in DOMAIN events : events[e].status \in OpenStatus}

(* The same of the rows: no two deploys in flight are recorded for one app *)
(* row.  It fails when MaxGen > 1: an app is deleted and ForgetApp drops   *)
(* its mutex while a deploy waits for it, and a new app gets the row id.   *)
OneDeployInHistory ==
  mode \in {"up", "stopping", "closed"} =>
    \A e, f \in {e \in InFlight : events[e].act # "purge"} :
      events[e].app = events[f].app /\ events[e].app # NoApp => e = f

(* While requests are served, an event in pending or rolling is the event  *)
(* of exactly one goroutine, a run or a sleeping purge, that will settle   *)
(* it, and a run's event is never settled behind its back: what the        *)
(* history page shows as in flight is in flight, after any number of       *)
(* restarts.                                                               *)
OpenEventOwned ==
  mode \in {"up", "stopping", "closed"} =>
    /\ \A e \in InFlight :
         e \in purging \/ \E r \in Runners : Active(r) /\ runner[r].ev = e
    /\ purging \subseteq InFlight
    /\ \A r \in Runners :
         Active(r) => /\ runner[r].ev \in InFlight \ purging
                      /\ \A s \in Runners \ {r} :
                           Active(s) => runner[s].ev # runner[r].ev

(* A verdict is final: no later step of a run, a purge, a deletion or a    *)
(* startup reconciliation overwrites a terminal event.                     *)
VerdictIsFinal ==
  [][\A e \in DOMAIN events :
       events[e].status \in TerminalStatus =>
         /\ events'[e].status = events[e].status
         /\ events'[e].detail = events[e].detail]_vars

(* The workload is what the event asked for: it has its image, or has been *)
(* restarted since the event was created.                                  *)
Carries(e, w) ==
  IF events[e].act = "restart" THEN cluster[w].restarted >= e
  ELSE cluster[w].ver = events[e].ver

(* The workload's last restart and the event are of the same second.       *)
SameSecond(e, w) == events[e].act = "restart" /\ cluster[w].stamp = events[e].at

(* A deploy is recorded as success only when every workload of the app is  *)
(* what it asked for: by its run, always; by the reconciliation of a later *)
(* process, unless it is a restart, cut off before it happened, in the     *)
(* second of an earlier event's restart, which is taken for it.            *)
SuccessIsLiveToTheSecond ==
  [][\A e \in DOMAIN events :
       /\ events[e].status # "success"
       /\ events'[e].status = "success"
       /\ events[e].act # "purge"
       /\ events[e].app # NoApp
       => \A w \in TargetsOf(events[e].app) :
            Carries(e, w) \/ (mode = "booting" /\ SameSecond(e, w))]_vars

(* Engine.Shutdown returns only after every job a webhook was told is      *)
(* deploying has been taken from its queue, those of deleted apps too.     *)
ShutdownDrains ==
  [][(Exit /\ stops' = stops) => \A q \in Objects : queue[q] = << >>]_vars

(***************************************************************************)
(* Liveness, under FairSpec.                                               *)
(***************************************************************************)

(* Each request creates at most one event, and one for its purge.          *)
EventIds == 1..(IF PurgeEnabled THEN 2 ELSE 1) * MaxRequests

(* Every event reaches a terminal status, in the process that created it   *)
(* or through the reconciliation of a later one.                           *)
EventSettles ==
  \A e \in EventIds :
    e \in InFlight
      ~> e \in DOMAIN events /\ events[e].status \in TerminalStatus

(* An accepted job does not stay in its channel: a worker takes it, also   *)
(* after ForgetApp closed the channel, or the process ends.                *)
JobsAreTaken ==
  \A q \in Objects : queue[q] # <<>> ~> queue[q] = <<>>

(* A request returns: nobody waits for an app's mutex forever.             *)
CallReturns ==
  \A c \in Callers : runner[c].pc # "idle" ~> runner[c].pc = "idle"

(* SIGTERM ends the process, whatever is queued or in flight.              *)
ShutdownEnds == mode = "stopping" ~> mode = "down"

(***************************************************************************)
(* Refinement: the history is a DeployLog.                                 *)
(***************************************************************************)

LogStatus == [e \in DOMAIN events |->
  IF events[e].status \in OpenStatus THEN "open" ELSE events[e].status]

ActiveOn(a) == {r \in Runners : Active(r) /\ runner[r].app = a}

(* The event of the run in progress for each app.                          *)
LogCurrent == [a \in AppIds |->
  IF ActiveOn(a) = {} THEN 0 ELSE runner[CHOOSE r \in ActiveOn(a) : TRUE].ev]

Log == INSTANCE DeployLog WITH
  Apps <- AppIds, Outcomes <- TerminalStatus,
  log <- LogStatus, current <- LogCurrent

(* The engine implements DeployLog: one deploy of an app at a time, and    *)
(* one verdict per event, through deletions, shutdowns and crashes.        *)
ImplementsLog == Log!Spec

=============================================================================
