------------------------------- MODULE Rollout -------------------------------
(***************************************************************************)
(* How a deploy learns that a workload has rolled out: WaitForRollout and  *)
(* rolloutStatus of internal/deploy/k8s.go, which poll the status that     *)
(* Kubernetes' controllers write, against the controllers themselves, in   *)
(* as far as rolloutStatus can tell.                                       *)
(*                                                                         *)
(* One workload, a Deployment or a StatefulSet.  DeployEngine shows that   *)
(* one deploy of it is under way at a time, and takes the workload to be   *)
(* rolling, done or failed: this module says when a wait reports which.    *)
(*                                                                         *)
(* A template is named by the generation that introduced it.  The counts   *)
(* of a status are those of the pods at the moment it was written, so the  *)
(* status keeps these pods and the counts are operators on them.           *)
(***************************************************************************)
EXTENDS Naturals

CONSTANTS
  Kinds,          (* "Deployment", "StatefulSet".                          *)
  MaxReplicas,    (* spec.replicas, at most.  Bounds the model.            *)
  Surge,          (* pods beyond spec.replicas that a Deployment may have. *)
  MaxGeneration   (* changes of the spec, at most.  Bounds the model.      *)

ASSUME RolloutAssumption ==
  /\ Kinds \subseteq {"Deployment", "StatefulSet"}
  /\ MaxReplicas \in Nat
  /\ Surge \in Nat
  /\ MaxGeneration \in Nat \ {0}

VARIABLES
  kind,    (* the target's kind.                                           *)
  spec,    (* the spec of the workload with metadata.generation.           *)
  pods,    (* its pods.                                                    *)
  status,  (* the status that the controller wrote last.                   *)
  wait     (* WaitForRollout, and how the last one ended.                  *)

vars == <<kind, spec, pods, status, wait>>

(***************************************************************************)
(* Types.                                                                  *)
(***************************************************************************)

Generations == 0..MaxGeneration

WorkloadSpec == [gen : Generations, template : Generations, replicas : 0..MaxReplicas]

(* new pods have the template that the controller observed last.           *)
Pods == [new : Nat, newReady : Nat, old : Nat, oldReady : Nat]

Status == [observed : Generations,  (* observedGeneration.                 *)
           snap     : Pods,         (* the pods that it counts.            *)
           stuck    : BOOLEAN,      (* ProgressDeadlineExceeded.           *)
           settled  : BOOLEAN]      (* NewReplicaSetAvailable, or          *)
                                    (* currentRevision = updateRevision.   *)

(* clock: the context is live, it has ended, and the deadline has passed   *)
(* as well.  The context's timeout starts before the deadline is computed, *)
(* from the same duration.                                                 *)
Wait == [pc     : {"idle", "get", "check", "reason", "select"},
         asked  : Generations,   (* the template that the deploy asked for. *)
         clock  : {"live", "ended", "late"},
         result : {"none", "ok", "failed", "error", "explained", "timeout"}]

Total(p) == p.new + p.old

TypeOK ==
  /\ kind \in Kinds
  /\ spec \in WorkloadSpec
  /\ pods \in Pods
  /\ Total(pods) <= MaxReplicas + Surge
  /\ status \in Status
  /\ wait \in Wait
  /\ wait.pc # "idle" => wait.result = "none"

(* A workload that is up: kubectl apply, some time ago.                    *)
Init ==
  /\ kind \in Kinds
  /\ \E n \in 0..MaxReplicas :
       /\ spec = [gen |-> 1, template |-> 1, replicas |-> n]
       /\ pods = [new |-> n, newReady |-> n, old |-> 0, oldReady |-> 0]
  /\ status = [observed |-> 1, snap |-> pods, stuck |-> FALSE, settled |-> TRUE]
  /\ wait = [pc |-> "idle", asked |-> 1, clock |-> "live", result |-> "none"]

(***************************************************************************)
(* The counts of a status.                                                 *)
(***************************************************************************)

Updated(p) == p.new

Ready(p) == p.newReady + p.oldReady

(* availableReplicas is Ready(p): minReadySeconds is 0.                    *)
Unavailable(p) == Total(p) - Ready(p)

(***************************************************************************)
(* rolloutStatus.                                                          *)
(***************************************************************************)

(* The condition Progressing has the reason ProgressDeadlineExceeded.      *)
Failed == kind = "Deployment" /\ status.stuck

(* The counts are those of a workload of updated and ready pods.           *)
CountsMatch(p) ==
  /\ Updated(p) = spec.replicas
  /\ Ready(p) = spec.replicas
  /\ IF kind = "Deployment" THEN Unavailable(p) = 0 ELSE status.settled

(* Mutated form: the status may be of an earlier generation.               *)
DoneUnobserved == CountsMatch(status.snap)

(* Mutated form: an off-by-one in the comparison of the generations.       *)
DoneStrictly == status.observed > spec.gen /\ CountsMatch(status.snap)

Done == status.observed >= spec.gen /\ CountsMatch(status.snap)

(***************************************************************************)
(* WaitForRollout.                                                         *)
(***************************************************************************)

(* PatchImage or RestartRollout, and the wait that follows.  A patch to    *)
(* the image that the template names already changes nothing.              *)
Deploy ==
  /\ wait.pc = "idle"
  /\ \/ /\ spec.gen < MaxGeneration
        /\ spec' = [spec EXCEPT !.gen = @ + 1, !.template = spec.gen + 1]
     \/ spec' = spec
  /\ wait' = [pc |-> "get", asked |-> spec'.template, clock |-> "live", result |-> "none"]
  /\ UNCHANGED <<kind, pods, status>>

(* Mutated form: a missing return.                                         *)
ReturnsLate(result) == wait' = [wait EXCEPT !.pc = "select", !.result = result]

Returns(result) == wait' = [wait EXCEPT !.pc = "idle", !.result = result]

(* rolloutStatus, whose Get returns spec and status together.              *)
WaitGet ==
  /\ wait.pc = "get"
  /\ wait.clock = "live"
  /\ IF Failed THEN Returns("failed")
     ELSE IF Done THEN Returns("ok")
     ELSE wait' = [wait EXCEPT !.pc = "check"]
  /\ UNCHANGED <<kind, spec, pods, status>>

(* The Get fails, always so when the context has ended.                    *)
WaitGetFails ==
  /\ wait.pc = "get"
  /\ Returns("error")
  /\ UNCHANGED <<kind, spec, pods, status>>

(* time.Now().After(deadline).                                             *)
WaitCheck ==
  /\ wait.pc = "check"
  /\ wait' = [wait EXCEPT !.pc = IF wait.clock = "late" THEN "reason" ELSE "select"]
  /\ UNCHANGED <<kind, spec, pods, status>>

(* A pod waits for its image, or to be restarted.                          *)
PodsWait == pods.newReady < pods.new \/ pods.oldReady < pods.old

(* podFailureReason, which finds nothing when its requests fail: they have *)
(* the same context.                                                       *)
WaitReason ==
  /\ wait.pc = "reason"
  /\ Returns(IF wait.clock = "live" /\ PodsWait THEN "explained" ELSE "timeout")
  /\ UNCHANGED <<kind, spec, pods, status>>

(* The select: the next tick, or the context's end, whichever is chosen.   *)
WaitSelect ==
  /\ wait.pc = "select"
  /\ \/ wait' = [wait EXCEPT !.pc = "get"]
     \/ wait.clock # "live" /\ Returns("error")
  /\ UNCHANGED <<kind, spec, pods, status>>

(* wctx ends, by its timeout or with the engine's context.                 *)
ContextEnds ==
  /\ wait.pc # "idle"
  /\ wait.clock = "live"
  /\ wait' = [wait EXCEPT !.clock = "ended"]
  /\ UNCHANGED <<kind, spec, pods, status>>

(* Then the deadline passes.                                               *)
DeadlinePasses ==
  /\ wait.pc # "idle"
  /\ wait.clock = "ended"
  /\ wait' = [wait EXCEPT !.clock = "late"]
  /\ UNCHANGED <<kind, spec, pods, status>>

(***************************************************************************)
(* Kubernetes: external, as far as the status tells.                       *)
(***************************************************************************)

(* The template has changed since the status was written.                  *)
Fresh == spec.template > status.observed

Seen ==
  IF Fresh
  THEN [new |-> 0, newReady |-> 0, old |-> Total(pods), oldReady |-> Ready(pods)]
  ELSE pods

Complete(p) ==
  /\ p.old = 0
  /\ p.newReady = p.new
  /\ kind = "Deployment" => p.new = spec.replicas

(* There are more updated, fewer old or more ready pods than there were.   *)
Progress(p) ==
  \/ Fresh
  \/ Updated(p) > Updated(status.snap)
  \/ p.old < status.snap.old
  \/ Ready(p) > Ready(status.snap)

(* The controller observes the spec and the pods, and writes the status.   *)
Sync ==
  /\ pods' = Seen
  /\ status' = [observed |-> spec.gen,
                snap     |-> Seen,
                stuck    |-> status.stuck /\ ~Progress(Seen) /\ ~Complete(Seen),
                settled  |-> Complete(Seen) \/ (status.settled /\ ~Fresh)]
  /\ UNCHANGED <<kind, spec, wait>>

(* A rollout has made no progress for progressDeadlineSeconds.             *)
DeadlineExceeded ==
  /\ kind = "Deployment"
  /\ ~Fresh
  /\ ~status.settled
  /\ status' = [status EXCEPT !.stuck = TRUE]
  /\ UNCHANGED <<kind, spec, pods, wait>>

MostPods ==
  IF kind = "Deployment" /\ spec.replicas > 0
  THEN spec.replicas + Surge ELSE spec.replicas

(* While there are pods of older templates they are replaced as well.      *)
PodCreated ==
  /\ Total(pods) < MostPods
  /\ \/ pods' = [pods EXCEPT !.new = @ + 1]
     \/ pods.old > 0 /\ pods' = [pods EXCEPT !.old = @ + 1]
  /\ UNCHANGED <<kind, spec, status, wait>>

PodRemoved ==
  /\ \/ /\ pods.newReady < pods.new
        /\ pods' = [pods EXCEPT !.new = @ - 1]
     \/ /\ pods.newReady > 0
        /\ pods' = [pods EXCEPT !.new = @ - 1, !.newReady = @ - 1]
     \/ /\ pods.oldReady < pods.old
        /\ pods' = [pods EXCEPT !.old = @ - 1]
     \/ /\ pods.oldReady > 0
        /\ pods' = [pods EXCEPT !.old = @ - 1, !.oldReady = @ - 1]
  /\ UNCHANGED <<kind, spec, status, wait>>

PodReady ==
  /\ \/ /\ pods.newReady < pods.new
        /\ pods' = [pods EXCEPT !.newReady = @ + 1]
     \/ /\ pods.oldReady < pods.old
        /\ pods' = [pods EXCEPT !.oldReady = @ + 1]
  /\ UNCHANGED <<kind, spec, status, wait>>

PodUnready ==
  /\ \/ /\ pods.newReady > 0
        /\ pods' = [pods EXCEPT !.newReady = @ - 1]
     \/ /\ pods.oldReady > 0
        /\ pods' = [pods EXCEPT !.oldReady = @ - 1]
  /\ UNCHANGED <<kind, spec, status, wait>>

(* Someone else, or an autoscaler, changes spec.replicas.                  *)
Scale ==
  /\ spec.gen < MaxGeneration
  /\ \E n \in 0..MaxReplicas :
       spec' = [spec EXCEPT !.gen = @ + 1, !.replicas = n]
  /\ UNCHANGED <<kind, pods, status, wait>>

(***************************************************************************)
(* Specification.                                                          *)
(***************************************************************************)

WaitStep == WaitGet \/ WaitGetFails \/ WaitCheck \/ WaitReason \/ WaitSelect

TimeStep == ContextEnds \/ DeadlinePasses

PodStep == PodCreated \/ PodRemoved \/ PodReady \/ PodUnready

ControllerStep == Sync \/ DeadlineExceeded

Next ==
  \/ Deploy
  \/ WaitStep
  \/ TimeStep
  \/ PodStep
  \/ ControllerStep
  \/ Scale

Spec == Init /\ [][Next]_vars

(* The wait runs, and the controller writes the status anew whenever it is *)
(* not the one it would write.                                             *)
FairSpec == Spec /\ WF_vars(WaitStep) /\ WF_vars(Sync)

(***************************************************************************)
(* Properties.                                                             *)
(***************************************************************************)

(* A deploy whose wait was told that the rollout is done has replaced the  *)
(* pods: from then until the template changes again, no pod of an older    *)
(* template is left, although the wait looked at a status written earlier, *)
(* by a controller that may not have seen the patch, while pods came and   *)
(* went and the workload was scaled.                                       *)
RolledOut ==
  wait.result = "ok" => status.observed >= wait.asked /\ pods.old = 0

(* A wait does not overlook a rollout that has ended: if the pods are and  *)
(* stay complete and the context lives, the wait returns.                  *)
RolloutIsSeen ==
  <>[](Complete(pods) /\ pods.new = spec.replicas /\ wait.clock = "live")
    => []<>(wait.pc = "idle")

(* "rollout will not progress (e.g. ProgressDeadlineExceeded)": a wait     *)
(* that reports the rollout as failed reports on the template that its     *)
(* deploy has asked for.                                                   *)
FailureIsOwn == wait.result = "failed" => status.observed >= wait.asked
=============================================================================
