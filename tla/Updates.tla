------------------------------- MODULE Updates -------------------------------
(***************************************************************************)
(* How an image that is pushed to a registry gets deployed: the registry   *)
(* poller (internal/poller/poller.go), the webhook receivers               *)
(* (handleTrigger of internal/httpapi/hooks.go) and the decision they      *)
(* share (internal/strategy/strategy.go), with the app's row, the engine's *)
(* queue and the workload that they read at different times.               *)
(*                                                                         *)
(* One app, whose tag strategy is chosen in the initial state.  Versions   *)
(* are numbers.  For the strategy "latest" they are the digests that the   *)
(* tracked tag has had, in the order of the pushes; for "semver" they are  *)
(* tags in the order of their versions, for "exact" (and its alias         *)
(* "regex") tags in the order of their build times, pushed in any order.   *)
(* The engine is cut down to what DeployEngine shows of one app: a channel *)
(* and one run at a time.                                                  *)
(***************************************************************************)
EXTENDS Naturals, Sequences, FiniteSets

CONSTANTS
  Strategies,      (* the tag strategies that the app may have.            *)
  MaxVersion,      (* images pushed, at most.  Bounds the model.           *)
  Allowed,         (* Allowed[s]: the tags that the app's constraint or    *)
                   (* pattern admits.                                      *)
  HookStrategies,  (* strategies for which a push also sends a webhook.    *)
  QueueCap,        (* capacity of the app's channel (8 in the code).       *)
  MaxFaults        (* failed calls and crashes.  Bounds the model.         *)

Versions == 1..MaxVersion

(* What the workload runs at first, before any push.                       *)
Initial == 0

(* No digest is recorded; no tag could be read.                            *)
Unknown == MaxVersion + 1

ASSUME UpdatesAssumption ==
  /\ Strategies \subseteq {"latest", "semver", "exact"}
  /\ HookStrategies \subseteq Strategies
  /\ MaxVersion \in Nat
  /\ Allowed \in [Strategies -> SUBSET Versions]
  /\ QueueCap \in Nat \ {0}
  /\ MaxFaults \in Nat

VARIABLES
  strategy,  (* apps.tag_strategy, which nobody edits here.                *)
  pushed,    (* the versions in the registry.                              *)
  head,      (* the digest of the tracked tag, for "latest".               *)
  live,      (* the version that the workload's spec names, for "latest"   *)
             (* the one that its pods run.                                 *)
  pulling,   (* pods of a restarted workload are still to pull the tag.    *)
  lastSeen,  (* persistent: apps.last_seen_digest.                         *)
  queue,     (* the app's channel in Engine.queues.                        *)
  run,       (* Engine.run of the app's worker.                            *)
  poller,    (* Poller.pollApp.                                            *)
  hook,      (* hook[v]: the webhook of the push of v, and its handler.    *)
  faults     (* faults so far.                                             *)

registry == <<pushed, head>>

workload == <<live, pulling>>

engine == <<queue, run>>

vars == <<strategy, registry, workload, lastSeen, engine, poller, hook, faults>>

(***************************************************************************)
(* Types.                                                                  *)
(***************************************************************************)

Digests == 0..Unknown

(* deploy.Job: the tag to patch to, or a restart; the digest to record.    *)
Job == [image : 0..Unknown, digest : Digests]

Restart(digest) == [image |-> Unknown, digest |-> digest]

Patch(v) == [image |-> v, digest |-> Unknown]

Run == [pc : {"idle", "apply", "wait", "record"}, job : Job]

Idle == [pc |-> "idle", job |-> Restart(Unknown)]

Poller == [pc   : {"idle", "ask", "seed", "current", "enqueue"},
           seen : Digests,    (* LastSeenDigest of the row it has loaded.  *)
           got  : Digests]    (* what the registry answered.               *)

Asleep == [pc |-> "idle", seen |-> Unknown, got |-> Unknown]

TypeOK ==
  /\ strategy \in Strategies
  /\ pushed \subseteq Versions
  /\ head \in 0..MaxVersion
  /\ live \in 0..MaxVersion
  /\ pulling \in BOOLEAN
  /\ lastSeen \in Digests
  /\ queue \in Seq(Job) /\ Len(queue) <= QueueCap
  /\ run \in Run
  /\ poller \in Poller
  /\ hook \in [Versions -> {"none", "sent", "enqueue", "done"}]
  /\ faults \in 0..MaxFaults

(* An app that has just been created for a workload.                       *)
Init ==
  /\ strategy \in Strategies
  /\ pushed = {}
  /\ head = Initial
  /\ live = Initial
  /\ pulling = FALSE
  /\ lastSeen = Unknown
  /\ queue = <<>>
  /\ run = Idle
  /\ poller = Asleep
  /\ hook = [v \in Versions |-> "none"]
  /\ faults = 0

(* A call of the registry or of the Kubernetes API fails.                  *)
Fault == faults < MaxFaults /\ faults' = faults + 1

(***************************************************************************)
(* The registry and the workload.                                          *)
(***************************************************************************)

(* An image is pushed.  The first push of a "latest" app waits for the     *)
(* poller's first look, which takes what it finds for deployed             *)
(* (TestPollLatestFirstObservationSeedsWithoutDeploy).                     *)
Push(v) ==
  /\ v \notin pushed
  /\ strategy = "latest" => v = head + 1 /\ (v = 1 => lastSeen # Unknown)
  /\ pushed' = pushed \cup {v}
  /\ head' = v
  /\ hook' = [hook EXCEPT ![v] = IF strategy \in HookStrategies THEN "sent" ELSE "done"]
  /\ UNCHANGED <<strategy, workload, lastSeen, engine, poller, faults>>

(* The pods of a restarted workload pull the tracked tag                   *)
(* (imagePullPolicy: Always).                                              *)
Pull ==
  /\ pulling
  /\ pulling' = FALSE
  /\ live' = head
  /\ UNCHANGED <<strategy, registry, lastSeen, engine, poller, hook, faults>>

(***************************************************************************)
(* The decision, and the engine's queue.                                   *)
(***************************************************************************)

(* Mutated form: a workload whose tag can't be read takes any tag.         *)
DecideUnread(v, current) ==
  \/ current = Unknown
  \/ v \in Allowed[strategy] /\ IF strategy = "semver" THEN v > current ELSE v # current

(* strategy.decideSemver and decideExact, of a tag with the workload's     *)
(* current tag, which may be unknown.                                      *)
Decide(v, current) ==
  /\ v \in Allowed[strategy]
  /\ IF strategy = "semver" THEN current = Unknown \/ v > current ELSE v # current

(* K8s.CurrentImage, which can fail.                                       *)
CurrentTag(current) ==
  \/ current = live /\ UNCHANGED faults
  \/ current = Unknown /\ Fault

(* Mutated form: nothing looks at the room left in the channel.            *)
QueuedAlways(job) == Append(queue, job)

(* Engine.Enqueue: a job that finds the channel full is dropped.           *)
Queued(job) == IF Len(queue) < QueueCap THEN Append(queue, job) ELSE queue

(***************************************************************************)
(* Webhooks: resolveDockerHub or resolveGitHub, then handleTrigger.        *)
(***************************************************************************)

(* decideLatest takes every push of the tracked tag; the other strategies  *)
(* look at the workload's tag, or go on without it if the call fails.      *)
HookDecides(v) ==
  /\ hook[v] = "sent"
  /\ \E current \in {live, Unknown} :
       /\ CurrentTag(current)
       /\ hook' = [hook EXCEPT ![v] =
            IF strategy = "latest" \/ Decide(v, current) THEN "enqueue" ELSE "done"]
  /\ UNCHANGED <<strategy, registry, workload, lastSeen, engine, poller>>

(* A webhook knows no digest.                                              *)
HookEnqueues(v) ==
  /\ hook[v] = "enqueue"
  /\ queue' = Queued(IF strategy = "latest" THEN Restart(Unknown) ELSE Patch(v))
  /\ hook' = [hook EXCEPT ![v] = "done"]
  /\ UNCHANGED <<strategy, registry, workload, lastSeen, run, poller, faults>>

(* Senders do not retry a webhook that tagalong does not answer.           *)
HookLost(v) ==
  /\ hook[v] = "sent"
  /\ hook' = [hook EXCEPT ![v] = "done"]
  /\ UNCHANGED <<strategy, registry, workload, lastSeen, engine, poller, faults>>

(***************************************************************************)
(* The poller: checkDue and pollApp, one app after the other.              *)
(***************************************************************************)

(* store.ListApps; the app is due.                                         *)
PollStarts ==
  /\ poller.pc = "idle"
  /\ poller' = [poller EXCEPT !.pc = "ask", !.seen = lastSeen]
  /\ UNCHANGED <<strategy, registry, workload, lastSeen, engine, hook, faults>>

(* pollLatest: HeadManifest against the digest of the row.                 *)
PollHead ==
  /\ strategy = "latest"
  /\ poller.pc = "ask"
  /\ poller' = IF head = poller.seen THEN Asleep
               ELSE [poller EXCEPT !.pc = IF poller.seen = Unknown THEN "seed" ELSE "enqueue",
                                   !.got = head]
  /\ UNCHANGED <<strategy, registry, workload, lastSeen, engine, hook, faults>>

(* The first digest ever seen, or the first since a run without one, is    *)
(* recorded and not deployed.                                              *)
PollSeeds ==
  /\ poller.pc = "seed"
  /\ lastSeen' = poller.got
  /\ poller' = Asleep
  /\ UNCHANGED <<strategy, registry, workload, engine, hook, faults>>

(* Mutated form: the oldest build time sorts first.                        *)
FirstOldest(S) == CHOOSE v \in S : \A w \in S : v <= w

(* sort.Slice by build time, newest first; the highest version.            *)
First(S) == CHOOSE v \in S : \A w \in S : w <= v

Found(v) == poller' = [poller EXCEPT !.pc = "current", !.got = v]

(* pollSemver picks the highest tag of the registry, and leaves the        *)
(* constraint to the decision; pollExact picks the newest of those that    *)
(* match the pattern, or an older one when newer ones can't be dated.      *)
PollTags ==
  LET matching == pushed \cap Allowed[strategy] IN
  /\ poller.pc = "ask"
  /\ \/ strategy = "semver" /\ pushed # {} /\ Found(First(pushed)) /\ UNCHANGED faults
     \/ strategy = "exact" /\ matching # {} /\ Found(First(matching)) /\ UNCHANGED faults
     \/ strategy = "exact" /\ Fault /\ \E v \in matching : Found(v)
  /\ UNCHANGED <<strategy, registry, workload, lastSeen, engine, hook>>

(* No tag to deploy.                                                       *)
PollNothing ==
  /\ poller.pc = "ask"
  /\ \/ strategy = "semver" /\ pushed = {}
     \/ strategy = "exact" /\ pushed \cap Allowed[strategy] = {}
  /\ poller' = Asleep
  /\ UNCHANGED <<strategy, registry, workload, lastSeen, engine, hook, faults>>

(* The registry can't be asked.                                            *)
PollFails ==
  /\ poller.pc = "ask"
  /\ Fault
  /\ poller' = Asleep
  /\ UNCHANGED <<strategy, registry, workload, lastSeen, engine, hook>>

(* decideAndEnqueue, up to the decision.                                   *)
PollDecides ==
  /\ poller.pc = "current"
  /\ \E current \in {live, Unknown} :
       /\ CurrentTag(current)
       /\ poller' = IF Decide(poller.got, current) THEN [poller EXCEPT !.pc = "enqueue"]
                    ELSE Asleep
  /\ UNCHANGED <<strategy, registry, workload, lastSeen, engine, hook>>

PollEnqueues ==
  /\ poller.pc = "enqueue"
  /\ queue' = Queued(IF strategy = "latest" THEN Restart(poller.got) ELSE Patch(poller.got))
  /\ poller' = Asleep
  /\ UNCHANGED <<strategy, registry, workload, lastSeen, run, hook, faults>>

(***************************************************************************)
(* The engine: see DeployEngine.                                           *)
(***************************************************************************)

RunStarts ==
  /\ run.pc = "idle"
  /\ queue # <<>>
  /\ run' = [pc |-> "apply", job |-> Head(queue)]
  /\ queue' = Tail(queue)
  /\ UNCHANGED <<strategy, registry, workload, lastSeen, poller, hook, faults>>

(* PatchImage or RestartRollout.                                           *)
RunApplies ==
  /\ run.pc = "apply"
  /\ IF run.job.image = Unknown
     THEN pulling' = TRUE /\ UNCHANGED live
     ELSE live' = run.job.image /\ UNCHANGED pulling
  /\ run' = [run EXCEPT !.pc = "wait"]
  /\ UNCHANGED <<strategy, registry, lastSeen, queue, poller, hook, faults>>

(* Mutated form: the status is read before the controller has observed     *)
(* the restart.                                                            *)
RolledOutStale == TRUE

(* The rollout is done: no pod is left that has not been replaced.         *)
RolledOut == ~pulling

RunWaits ==
  /\ run.pc = "wait"
  /\ RolledOut
  /\ run' = [run EXCEPT !.pc = "record"]
  /\ UNCHANGED <<strategy, registry, workload, lastSeen, queue, poller, hook, faults>>

(* A patch or a rollout that fails, or that isn't done in time.  Nothing   *)
(* is recorded.                                                            *)
RunFails ==
  /\ run.pc \in {"apply", "wait"}
  /\ Fault
  /\ run' = Idle
  /\ UNCHANGED <<strategy, registry, workload, lastSeen, queue, poller, hook>>

(* Mutated form: the run writes back the row's own digest, as a save of    *)
(* the whole app would.                                                    *)
RecordedRow(job) == lastSeen

(* SetLastSeen(tag, digest) with both fields of the job.                   *)
Recorded(job) == job.digest

RunRecords ==
  /\ run.pc = "record"
  /\ lastSeen' = Recorded(run.job)
  /\ run' = Idle
  /\ UNCHANGED <<strategy, registry, workload, queue, poller, hook, faults>>

(* tagalong dies and starts again.  Reconciliation settles events, and     *)
(* neither resumes a run nor records what was seen.                        *)
Crash ==
  /\ Fault
  /\ queue' = <<>>
  /\ run' = Idle
  /\ poller' = Asleep
  /\ hook' = [v \in Versions |-> IF hook[v] = "enqueue" THEN "done" ELSE hook[v]]
  /\ UNCHANGED <<strategy, registry, workload, lastSeen>>

(***************************************************************************)
(* The specification.                                                      *)
(***************************************************************************)

PollStep ==
  \/ PollStarts \/ PollHead \/ PollSeeds
  \/ PollTags \/ PollNothing \/ PollFails
  \/ PollDecides \/ PollEnqueues

RunStep == RunStarts \/ RunApplies \/ RunWaits \/ RunFails \/ RunRecords

HookStep == \E v \in Versions : HookDecides(v) \/ HookEnqueues(v) \/ HookLost(v)

Next ==
  \/ \E v \in Versions : Push(v)
  \/ Pull
  \/ PollStep
  \/ RunStep
  \/ HookStep
  \/ Crash

Spec == Init /\ [][Next]_vars

(* The ticker goes on firing, the worker takes its jobs, a webhook is      *)
(* delivered or lost, and pods that wait for an image get it.  No push     *)
(* need happen.                                                            *)
Fairness == WF_vars(PollStep) /\ WF_vars(RunStep) /\ WF_vars(HookStep) /\ WF_vars(Pull)

FairSpec == Spec /\ Fairness

(***************************************************************************)
(* Properties.                                                             *)
(***************************************************************************)

(* The app runs what it should: the image that the tracked tag names, the  *)
(* newest tag that the constraint or the pattern admits.                   *)
UpToDate ==
  IF strategy = "latest" THEN live = head
  ELSE LET admitted == pushed \cap Allowed[strategy] IN
       IF admitted = {} THEN live = Initial
       ELSE live \in admitted /\ \A v \in admitted : v <= live

(* The digest recorded as deployed is never ahead of what the pods run:    *)
(* with polling, no image is taken for deployed that is not.  A run reads  *)
(* the digest at its poll and the pods pull at some later time.            *)
SeenIsRunning == lastSeen # Unknown => lastSeen <= live

(* README: a tag is deployed that satisfies the constraint or the pattern. *)
(* Whatever decided on it, how long ago, with the workload's tag at hand   *)
(* or not, the workload runs a tag that was pushed and is admitted, and a  *)
(* rolling tag is restarted, never patched.                                *)
OnlyAdmitted ==
  IF strategy = "latest" THEN live <= head
  ELSE live = Initial \/ live \in pushed \cap Allowed[strategy]

(* README, of the strategies: a rolling tag whose digest changes is        *)
(* restarted, a newer tag of those admitted is deployed; and polling is    *)
(* what makes up for missed webhooks.  Once the pushes and the faults have *)
(* ended, the app comes to run what was pushed, through dropped jobs,      *)
(* failed rollouts, crashes, and webhooks that overtake each other or are  *)
(* lost.                                                                   *)
CatchesUp == <>[]UpToDate

(* pollSemver chooses the highest tag first and asks the constraint then:  *)
(* while the constraint does not admit that tag, the poller offers none of *)
(* those it admits.                                                        *)
Hidden ==
  /\ strategy = "semver"
  /\ \E v \in pushed \ Allowed[strategy] : \A w \in pushed : w <= v

(* What the code keeps of CatchesUp: the same, unless the newest tags      *)
(* pushed are not admitted.  Then an admitted tag whose webhook was lost,  *)
(* dropped or overtaken stays undeployed, however often the poller looks.  *)
CatchesUpUnlessHidden == <>[](UpToDate \/ Hidden)

(* Deploys come to an end: the poller and the webhooks do not go on        *)
(* redeploying what already runs.                                          *)
DeploysEnd == <>[](queue = <<>> /\ run.pc = "idle")

=============================================================================
