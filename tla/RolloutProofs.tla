---------------------------- MODULE RolloutProofs ----------------------------
(***************************************************************************)
(* Proofs about Rollout: type correctness, and that a wait which returns   *)
(* without an error has seen the pods replaced.                            *)
(***************************************************************************)
EXTENDS Rollout, TLAPS

(***************************************************************************)
(* The inductive invariant.                                                *)
(***************************************************************************)

(* Ready pods are pods.                                                    *)
Sane(p) == p.newReady <= p.new /\ p.oldReady <= p.old

(* Only a deploy changes the template, and its wait knows which it asked   *)
(* for; nobody observes a generation that is not there yet.                *)
Asked ==
  /\ wait.asked = spec.template
  /\ spec.template <= spec.gen
  /\ status.observed <= spec.gen

(* Pods of an older template do not come back, until the template changes. *)
NoneComeBack == status.snap.old = 0 => pods.old = 0

(* A rollout that has ended has replaced them.                             *)
SettledIsReplaced == status.settled => status.snap.old = 0

RolledOutInv ==
  /\ TypeOK
  /\ Sane(pods) /\ Sane(status.snap)
  /\ Asked
  /\ NoneComeBack
  /\ SettledIsReplaced
  /\ RolledOut

(* The bounds are numbers.                                                 *)
LEMMA Bounds == MaxReplicas \in Nat /\ Surge \in Nat /\ MaxGeneration \in Nat \ {0}
BY RolloutAssumption

(* What a deployed workload counts as done has no pod of an older          *)
(* template: of a Deployment because no pod is beyond the updated ones,    *)
(* of a StatefulSet because its update has ended.                          *)
LEMMA DoneIsReplaced ==
  ASSUME RolledOutInv, Done
  PROVE  status.snap.old = 0 /\ status.observed >= wait.asked
<1>1. status.snap \in Pods /\ spec.replicas \in Nat
  BY Bounds DEF RolledOutInv, TypeOK, Status, WorkloadSpec
<1>2. status.observed >= wait.asked
  BY Bounds DEF Done, RolledOutInv, Asked, TypeOK, WorkloadSpec, Status, Generations
<1>3. CASE kind = "Deployment"
  <2>1. status.snap.new = spec.replicas /\ Ready(status.snap) = spec.replicas
    BY DEF Done, CountsMatch, Updated
  <2>2. Total(status.snap) - Ready(status.snap) = 0
    BY <1>3 DEF Done, CountsMatch, Unavailable
  <2> QED BY <2>1, <2>2, <1>1, <1>2 DEF Total, Ready, Pods
<1>4. CASE kind # "Deployment"
  BY <1>2, <1>4 DEF Done, CountsMatch, RolledOutInv, SettledIsReplaced
<1> QED BY <1>3, <1>4

(* The initial states satisfy the invariant.                               *)
LEMMA InitInv == ASSUME Init PROVE RolledOutInv
<1>1. PICK n \in 0..MaxReplicas :
        /\ spec = [gen |-> 1, template |-> 1, replicas |-> n]
        /\ pods = [new |-> n, newReady |-> n, old |-> 0, oldReady |-> 0]
  BY DEF Init
<1>2. n \in Nat /\ n <= MaxReplicas + Surge /\ 1 \in Generations
  BY Bounds DEF Generations
<1>3. spec \in WorkloadSpec /\ pods \in Pods /\ Total(pods) <= MaxReplicas + Surge
  BY <1>1, <1>2 DEF WorkloadSpec, Pods, Total
<1>4. status \in Status /\ wait \in Wait
  BY <1>2, <1>3 DEF Init, Status, Wait
<1>5. Sane(pods) /\ Sane(status.snap)
  BY <1>1, <1>2 DEF Init, Sane
<1> QED BY <1>1, <1>3, <1>4, <1>5
        DEF Init, RolledOutInv, TypeOK, Asked, NoneComeBack, SettledIsReplaced, RolledOut

(* The next generation, while the bound leaves one.                        *)
LEMMA NextGeneration ==
  ASSUME RolledOutInv
  PROVE  /\ spec = [gen |-> spec.gen, template |-> spec.template, replicas |-> spec.replicas]
         /\ spec.replicas \in 0..MaxReplicas /\ status.observed \in Nat
         /\ spec.gen \in Nat /\ spec.gen \in Generations /\ spec.template \in Generations
         /\ spec.gen < MaxGeneration => spec.gen + 1 \in Generations
         /\ spec.template <= spec.gen /\ status.observed <= spec.gen
<1>1. spec \in WorkloadSpec /\ status.observed \in Generations
  BY DEF RolledOutInv, TypeOK, Status
<1>2. spec.gen \in Generations /\ spec.template \in Generations
  BY <1>1 DEF WorkloadSpec
<1>3. spec.gen < MaxGeneration => spec.gen + 1 \in Generations
  BY <1>2, Bounds DEF Generations
<1> QED BY <1>1, <1>2, <1>3, Bounds DEF WorkloadSpec, Generations, RolledOutInv, Asked

(* A deploy starts a wait for the template it has asked for.               *)
LEMMA DeployInv == ASSUME RolledOutInv, Deploy PROVE RolledOutInv'
<1>1. /\ spec' \in WorkloadSpec /\ spec'.template \in Generations
      /\ spec'.template <= spec'.gen /\ status.observed <= spec'.gen
  <2>1. CASE spec' = spec
    BY <2>1, NextGeneration DEF RolledOutInv, TypeOK
  <2>2. CASE /\ spec.gen < MaxGeneration
             /\ spec' = [spec EXCEPT !.gen = @ + 1, !.template = spec.gen + 1]
    <3>1. spec' = [gen |-> spec.gen + 1, template |-> spec.gen + 1, replicas |-> spec.replicas]
      BY <2>2, NextGeneration
    <3> QED BY <2>2, <3>1, NextGeneration DEF WorkloadSpec
  <2> QED BY <2>1, <2>2 DEF Deploy
<1>2. wait' \in Wait /\ wait'.result = "none" /\ wait'.asked = spec'.template
  BY <1>1 DEF Deploy, Wait
<1> QED BY <1>1, <1>2
        DEF Deploy, RolledOutInv, TypeOK, Asked, Sane, NoneComeBack, SettledIsReplaced,
            RolledOut, Total

(* A step of the wait: only WaitGet returns "ok", and only when it finds   *)
(* the workload done.                                                      *)
LEMMA WaitInv == ASSUME RolledOutInv, WaitStep \/ TimeStep PROVE RolledOutInv'
<1>1. UNCHANGED <<kind, spec, pods, status>>
  BY DEF WaitStep, TimeStep, WaitGet, WaitGetFails, WaitCheck, WaitReason, WaitSelect,
         ContextEnds, DeadlinePasses
<1>2. wait.pc # "idle" /\ wait \in Wait /\ wait.result = "none"
  BY DEF WaitStep, TimeStep, WaitGet, WaitGetFails, WaitCheck, WaitReason, WaitSelect,
         ContextEnds, DeadlinePasses, RolledOutInv, TypeOK
<1>3. wait' \in Wait /\ wait'.asked = wait.asked /\ (wait'.pc # "idle" => wait'.result = "none")
  BY <1>2 DEF WaitStep, TimeStep, WaitGet, WaitGetFails, WaitCheck, WaitReason, WaitSelect,
         ContextEnds, DeadlinePasses, Returns, Wait
<1>4. wait'.result = "ok" => Done
  BY <1>2 DEF WaitStep, TimeStep, WaitGet, WaitGetFails, WaitCheck, WaitReason, WaitSelect,
         ContextEnds, DeadlinePasses, Returns, Wait
<1>5. RolledOut'
  BY <1>1, <1>3, <1>4, DoneIsReplaced DEF RolledOut, RolledOutInv, NoneComeBack
<1> QED BY <1>1, <1>3, <1>5
        DEF RolledOutInv, TypeOK, Asked, Sane, NoneComeBack, SettledIsReplaced, Total

(* Pods come and go, but those of an older template do not come back.      *)
LEMMA PodInv == ASSUME RolledOutInv, PodStep PROVE RolledOutInv'
<1> USE Bounds
<1>1. UNCHANGED <<kind, spec, status, wait>>
  BY DEF PodStep, PodCreated, PodRemoved, PodReady, PodUnready
<1>2. pods \in Pods /\ Sane(pods) /\ Total(pods) <= MaxReplicas + Surge
  BY DEF RolledOutInv, TypeOK
<1>3. MostPods <= MaxReplicas + Surge
  BY DEF MostPods, RolledOutInv, TypeOK, WorkloadSpec
<1>4. /\ pods' \in Pods /\ Sane(pods)' /\ Total(pods)' <= MaxReplicas + Surge
      /\ pods.old = 0 => pods'.old = 0
  <2>0. MostPods \in Nat
    BY DEF MostPods, RolledOutInv, TypeOK, WorkloadSpec
  <2>1. CASE PodCreated
    BY <2>0, <2>1, <1>2, <1>3 DEF PodCreated, Pods, Sane, Total
  <2>2. CASE PodRemoved
    <3> USE <1>2 DEF Pods, Sane, Total
    <3>1. CASE pods.newReady < pods.new /\ pods' = [pods EXCEPT !.new = @ - 1]
      BY <3>1
    <3>2. CASE pods.newReady > 0 /\ pods' = [pods EXCEPT !.new = @ - 1, !.newReady = @ - 1]
      <4>1. pods' = [new |-> pods.new - 1, newReady |-> pods.newReady - 1,
                     old |-> pods.old, oldReady |-> pods.oldReady]
        BY <3>2
      <4> QED BY <3>2, <4>1
    <3>3. CASE pods.oldReady < pods.old /\ pods' = [pods EXCEPT !.old = @ - 1]
      BY <3>3
    <3>4. CASE pods.oldReady > 0 /\ pods' = [pods EXCEPT !.old = @ - 1, !.oldReady = @ - 1]
      <4>1. pods' = [new |-> pods.new, newReady |-> pods.newReady,
                     old |-> pods.old - 1, oldReady |-> pods.oldReady - 1]
        BY <3>4
      <4> QED BY <3>4, <4>1
    <3> QED BY <2>2, <3>1, <3>2, <3>3, <3>4 DEF PodRemoved
  <2>3. CASE PodReady \/ PodUnready
    BY <2>3, <1>2 DEF PodReady, PodUnready, Pods, Sane, Total
  <2> QED BY <2>1, <2>2, <2>3 DEF PodStep
<1> QED BY <1>1, <1>4
        DEF RolledOutInv, TypeOK, Asked, Sane, NoneComeBack, SettledIsReplaced, RolledOut

(* What the controller sees of the pods is pods.                           *)
LEMMA SeenType ==
  ASSUME RolledOutInv
  PROVE  /\ Seen \in Pods /\ Sane(Seen) /\ Total(Seen) <= MaxReplicas + Surge
         /\ ~Fresh => Seen = pods
<1>1. pods \in Pods /\ Sane(pods) /\ Total(pods) <= MaxReplicas + Surge
  BY DEF RolledOutInv, TypeOK
<1> QED BY <1>1, Bounds DEF Seen, Pods, Sane, Total, Ready

(* The controller writes a status.                                         *)
LEMMA ControllerInv == ASSUME RolledOutInv, ControllerStep PROVE RolledOutInv'
<1>1. UNCHANGED <<kind, spec, wait>>
  BY DEF ControllerStep, Sync, DeadlineExceeded
<1>2. CASE Sync
  <2>1. status' \in Status
    BY <1>2, SeenType DEF Sync, Status, RolledOutInv, TypeOK, WorkloadSpec
  <2>2. status'.snap = pods' /\ pods' = Seen /\ status'.observed = spec.gen
    BY <1>2 DEF Sync
  <2>3. SettledIsReplaced'
    <3>1. status'.settled => Complete(Seen) \/ (status.settled /\ ~Fresh)
      BY <1>2 DEF Sync
    <3> QED BY <3>1, <2>2, SeenType
            DEF Complete, SettledIsReplaced, NoneComeBack, RolledOutInv
  <2>4. RolledOut'
    <3>1. wait.result = "ok" => ~Fresh
      BY Bounds DEF RolledOutInv, RolledOut, Asked, Fresh, TypeOK, WorkloadSpec, Status,
                    Generations
    <3> QED BY <3>1, <2>2, <1>1, SeenType, Bounds
            DEF RolledOut, RolledOutInv, Asked, TypeOK, WorkloadSpec, Generations
  <2>5. Asked'
    BY <2>2, <1>1, Bounds DEF Asked, RolledOutInv, TypeOK, WorkloadSpec, Generations
  <2> QED BY <1>1, <2>1, <2>2, <2>3, <2>4, <2>5, SeenType
          DEF RolledOutInv, TypeOK, Sane, NoneComeBack, Total
<1>3. CASE DeadlineExceeded
  <2>1. status' \in Status /\ status'.snap = status.snap /\ status'.observed = status.observed
        /\ status'.settled = status.settled
    BY <1>3 DEF DeadlineExceeded, RolledOutInv, TypeOK, Status
  <2> QED BY <1>1, <1>3, <2>1
          DEF DeadlineExceeded, RolledOutInv, TypeOK, Asked, Sane, NoneComeBack,
              SettledIsReplaced, RolledOut, Total
<1> QED BY <1>2, <1>3 DEF ControllerStep

(* Scaling leaves the template and the pods alone.                         *)
LEMMA ScaleInv == ASSUME RolledOutInv, Scale PROVE RolledOutInv'
<1>1. PICK n \in 0..MaxReplicas : spec' = [spec EXCEPT !.gen = @ + 1, !.replicas = n]
  BY DEF Scale
<1>2. spec' = [gen |-> spec.gen + 1, template |-> spec.template, replicas |-> n]
  BY <1>1, NextGeneration
<1>3. spec' \in WorkloadSpec
  BY <1>2, NextGeneration DEF Scale, WorkloadSpec
<1>4. Asked'
  <2>1. spec'.gen = spec.gen + 1 /\ spec'.template = spec.template
    BY <1>2
  <2>2. spec.gen \in Nat /\ spec.template \in Nat /\ status.observed \in Nat
    BY NextGeneration, Bounds DEF Generations
  <2> QED BY <2>1, <2>2 DEF Scale, Asked, RolledOutInv
<1> QED BY <1>3, <1>4
        DEF Scale, RolledOutInv, TypeOK, Sane, NoneComeBack, SettledIsReplaced, RolledOut, Total

(* A stuttering step changes nothing.                                      *)
LEMMA StutterInv == ASSUME RolledOutInv, UNCHANGED vars PROVE RolledOutInv'
BY DEF vars, RolledOutInv, TypeOK, Asked, Sane, NoneComeBack, SettledIsReplaced, RolledOut, Total

(* The invariant holds in every reachable state.                           *)
THEOREM Replaced == Spec => []RolledOutInv
<1>1. Init => RolledOutInv
  BY InitInv
<1>2. RolledOutInv /\ [Next]_vars => RolledOutInv'
  BY DeployInv, WaitInv, PodInv, ControllerInv, ScaleInv, StutterInv DEF Next
<1> QED BY <1>1, <1>2, PTL DEF Spec

(* Every reachable state of the workload, its status and the wait is well  *)
(* typed, for any number of replicas, surge and changes of the spec.       *)
THEOREM TypeCorrect == Spec => []TypeOK
<1>1. RolledOutInv => TypeOK
  BY DEF RolledOutInv
<1> QED BY <1>1, Replaced, PTL

(* When WaitForRollout has returned nil, the status was one of the         *)
(* deploy's own template and no pod of an older one is left, for any       *)
(* number of replicas and whatever the controllers do in between.          *)
THEOREM WaitIsTruthful == Spec => []RolledOut
<1>1. RolledOutInv => RolledOut
  BY DEF RolledOutInv
<1> QED BY <1>1, Replaced, PTL
=============================================================================
