---------------------------- MODULE UpdatesProofs ----------------------------
(***************************************************************************)
(* Proofs about Updates: type correctness, that without webhooks for       *)
(* rolling tags no digest is recorded as deployed ahead of the pods, and   *)
(* that a workload runs only what its constraint or pattern admits.        *)
(***************************************************************************)
EXTENDS Updates, WellFoundedInduction, TLAPS

(* Unknown is no version, and the versions are numbers.                    *)
LEMMA Numbers ==
  /\ MaxVersion \in Nat /\ QueueCap \in Nat \ {0} /\ MaxFaults \in Nat
  /\ Unknown \in Digests /\ Unknown \notin 0..MaxVersion
  /\ Versions \subseteq 0..MaxVersion /\ 0..MaxVersion \subseteq Digests
  /\ Initial \in 0..MaxVersion
BY UpdatesAssumption DEF Unknown, Digests, Versions, Initial

(* A fault counts up to its bound.                                         *)
LEMMA FaultType == ASSUME TypeOK, Fault PROVE faults' \in 0..MaxFaults
BY Numbers DEF TypeOK, Fault

(* The jobs that are queued are jobs, and the channel holds its capacity.  *)
LEMMA QueuedType ==
  ASSUME TypeOK, NEW job \in Job
  PROVE  Queued(job) \in Seq(Job) /\ Len(Queued(job)) <= QueueCap
BY Numbers DEF TypeOK, Queued

(* What webhooks and the poller make are jobs.                             *)
LEMMA JobType ==
  /\ \A d \in Digests : Restart(d) \in Job
  /\ \A v \in Digests : Patch(v) \in Job
  /\ Idle \in Run /\ Asleep \in Poller
BY Numbers DEF Restart, Patch, Job, Idle, Run, Asleep, Poller, Digests

(* A set of versions that is not empty has a greatest one: the least       *)
(* distance to MaxVersion is taken by some version of the set.             *)
LEMMA Greatest ==
  ASSUME NEW S, S \subseteq Versions, S # {}
  PROVE  \E v \in S : \A w \in S : w <= v
<1> DEFINE T == {MaxVersion - v : v \in S}
           R == {p \in Nat \X Nat : p[1] < p[2]}
<1>0. MaxVersion \in Nat /\ \A v \in S : v \in Nat /\ v <= MaxVersion
  BY Numbers DEF Versions
<1>1. T \subseteq Nat /\ T # {}
  BY <1>0
<1>2. IsWellFoundedOn(R, Nat)
  BY NatLessThanWellFounded DEF OpToRel
<1>3. PICK x \in T : \A y \in T : <<y, x>> \notin R
  <2> HIDE DEF T, R
  <2> QED BY <1>1, <1>2, WFMin
<1>4. PICK v \in S : x = MaxVersion - v
  OBVIOUS
<1>5. ASSUME NEW w \in S PROVE w <= v
  <2>1. <<MaxVersion - w, x>> \notin R
    BY <1>3
  <2> QED BY <2>1, <1>0, <1>4
<1> QED BY <1>5

(* First picks a member of a set of versions.                              *)
LEMMA FirstType ==
  ASSUME NEW S, S \subseteq Versions, S # {}
  PROVE  First(S) \in S
<1>1. \E v \in S : \A w \in S : w <= v
  BY Greatest
<1> QED BY <1>1, Zenon DEF First

(* The initial states are well typed.                                      *)
LEMMA InitType == ASSUME Init PROVE TypeOK
<1>1. queue \in Seq(Job) /\ Len(queue) <= QueueCap
  BY Numbers DEF Init
<1>2. head \in 0..MaxVersion /\ live \in 0..MaxVersion /\ lastSeen \in Digests
  BY Numbers DEF Init
<1>3. run \in Run /\ poller \in Poller /\ faults \in 0..MaxFaults
  BY Numbers, JobType DEF Init
<1> QED BY <1>1, <1>2, <1>3 DEF Init, TypeOK

(* A push and the pods' pull are well typed.                               *)
LEMMA WorldType ==
  ASSUME TypeOK, Pull \/ \E v \in Versions : Push(v) PROVE TypeOK'
<1>1. CASE Pull
  BY <1>1 DEF Pull, TypeOK, registry, engine
<1>2. ASSUME NEW v \in Versions, Push(v) PROVE TypeOK'
  BY <1>2, Numbers DEF Push, TypeOK, workload, engine
<1> QED BY <1>1, <1>2

(* A webhook and its handler are well typed.                               *)
LEMMA HookType == ASSUME TypeOK, HookStep PROVE TypeOK'
<1>1. PICK v \in Versions : HookDecides(v) \/ HookEnqueues(v) \/ HookLost(v)
  BY DEF HookStep
<1>2. CASE HookDecides(v)
  <2>1. faults' \in 0..MaxFaults
    BY <1>2, FaultType DEF HookDecides, CurrentTag, TypeOK
  <2> QED BY <1>2, <2>1 DEF HookDecides, TypeOK, registry, workload, engine
<1>3. CASE HookEnqueues(v)
  <2>1. queue' \in Seq(Job) /\ Len(queue') <= QueueCap
    BY <1>3, JobType, Numbers, QueuedType DEF HookEnqueues
  <2> QED BY <1>3, <2>1 DEF HookEnqueues, TypeOK, registry, workload
<1>4. CASE HookLost(v)
  BY <1>4 DEF HookLost, TypeOK, registry, workload, engine
<1> QED BY <1>1, <1>2, <1>3, <1>4

(* A tag that the poller has found is a version.                           *)
LEMMA PollTagsType == ASSUME TypeOK, PollTags PROVE poller' \in Poller /\ faults' \in 0..MaxFaults
<1> DEFINE matching == pushed \cap Allowed[strategy]
<1>1. matching \subseteq Versions /\ pushed \subseteq Versions
  BY DEF TypeOK
<1>2. \E v \in Versions : Found(v)
  BY <1>1, FirstType DEF PollTags
<1>3. poller' \in Poller
  BY <1>2, Numbers DEF Found, TypeOK, Poller
<1> QED BY <1>3, FaultType DEF PollTags, TypeOK

(* A poll is well typed.                                                   *)
LEMMA PollType == ASSUME TypeOK, PollStep PROVE TypeOK'
<1> USE DEF registry, workload, engine
<1>1. CASE PollStarts
  BY <1>1 DEF PollStarts, TypeOK, Poller
<1>2. CASE PollHead
  BY <1>2, JobType, Numbers DEF PollHead, TypeOK, Poller
<1>3. CASE PollSeeds
  BY <1>3, JobType DEF PollSeeds, TypeOK, Poller
<1>4. CASE PollTags
  BY <1>4, PollTagsType DEF PollTags, TypeOK
<1>5. CASE PollNothing
  BY <1>5, JobType DEF PollNothing, TypeOK
<1>6. CASE PollFails
  BY <1>6, JobType, FaultType DEF PollFails, TypeOK
<1>7. CASE PollDecides
  <2>1. faults' \in 0..MaxFaults
    BY <1>7, FaultType DEF PollDecides, CurrentTag, TypeOK
  <2>2. poller' \in Poller
    BY <1>7, JobType DEF PollDecides, TypeOK, Poller
  <2> QED BY <1>7, <2>1, <2>2 DEF PollDecides, TypeOK
<1>8. CASE PollEnqueues
  <2>1. poller.got \in Digests
    BY DEF TypeOK, Poller
  <2>2. queue' \in Seq(Job) /\ Len(queue') <= QueueCap
    BY <1>8, <2>1, JobType, QueuedType DEF PollEnqueues
  <2> QED BY <1>8, <2>2, JobType DEF PollEnqueues, TypeOK
<1> QED BY <1>1, <1>2, <1>3, <1>4, <1>5, <1>6, <1>7, <1>8 DEF PollStep

(* A step of the engine is well typed.                                     *)
LEMMA RunType == ASSUME TypeOK, RunStep PROVE TypeOK'
<1> USE DEF registry, workload
<1>1. CASE RunStarts
  <2>1. Head(queue) \in Job /\ Tail(queue) \in Seq(Job) /\ Len(Tail(queue)) <= QueueCap
    BY <1>1, Numbers DEF RunStarts, TypeOK
  <2> QED BY <1>1, <2>1 DEF RunStarts, TypeOK, Run
<1>2. CASE RunApplies
  <2>1. run.job.image # Unknown => run.job.image \in 0..MaxVersion
    BY Numbers DEF TypeOK, Run, Job, Unknown
  <2> QED BY <1>2, <2>1 DEF RunApplies, TypeOK, Run
<1>3. CASE RunWaits
  BY <1>3 DEF RunWaits, TypeOK, Run
<1>4. CASE RunFails
  BY <1>4, JobType, FaultType DEF RunFails, TypeOK
<1>5. CASE RunRecords
  BY <1>5, JobType DEF RunRecords, Recorded, TypeOK, Run, Job
<1> QED BY <1>1, <1>2, <1>3, <1>4, <1>5 DEF RunStep

(* A crash is well typed.                                                  *)
LEMMA CrashType == ASSUME TypeOK, Crash PROVE TypeOK'
<1>1. queue' \in Seq(Job) /\ Len(queue') <= QueueCap
  BY Numbers DEF Crash
<1> QED BY <1>1, JobType, FaultType DEF Crash, TypeOK, registry, workload

(* Type correctness of the pollers, the webhooks and the engine they       *)
(* share: the channel never outgrows its capacity, and what the poller     *)
(* picks of the registry's tags is one of them.                            *)
THEOREM TypeCorrect == Spec => []TypeOK
<1>1. Init => TypeOK
  BY InitType
<1>2. TypeOK /\ [Next]_vars => TypeOK'
  <2> SUFFICES ASSUME TypeOK, [Next]_vars PROVE TypeOK'
    OBVIOUS
  <2>1. CASE Next
    BY <2>1, WorldType, HookType, PollType, RunType, CrashType DEF Next
  <2>2. CASE UNCHANGED vars
    BY <2>2 DEF vars, registry, workload, engine, TypeOK
  <2> QED BY <2>1, <2>2
<1> QED BY <1>1, <1>2, PTL DEF Spec


(***************************************************************************)
(* The inductive invariant of SeenIsRunning.                               *)
(***************************************************************************)

(* A restart carries a digest that the tracked tag has had; the job of     *)
(* another strategy carries none.                                          *)
Carries(job) ==
  IF strategy = "latest" THEN job.image = Unknown /\ job.digest <= head
                         ELSE job.digest = Unknown

(* Every job that is queued or running.                                    *)
JobsCarry ==
  /\ \A i \in 1..Len(queue) : Carries(queue[i])
  /\ run.pc # "idle" => Carries(run.job)

(* A rollout that is done has pulled its digest, or a later one.           *)
DoneIsLive ==
  strategy = "latest" =>
    /\ live <= head
    /\ run.pc = "record" \/ (run.pc = "wait" /\ ~pulling) => run.job.digest <= live

(* Until the seed nothing has been pushed and no deploy is under way.      *)
SeedIsFirst ==
  strategy = "latest" /\ lastSeen = Unknown =>
    head = Initial /\ queue = <<>> /\ run.pc = "idle" /\ poller.pc # "enqueue"

(* What the poller holds.                                                  *)
PollerHolds ==
  IF strategy = "latest"
  THEN /\ poller.pc # "current"
       /\ poller.pc = "ask" => (poller.seen = Unknown <=> lastSeen = Unknown)
       /\ poller.pc = "seed" => lastSeen = Unknown /\ poller.got = Initial
       /\ poller.pc = "enqueue" => poller.got <= head
  ELSE poller.pc # "seed"

(* Rolling tags send no webhooks.                                          *)
NoHooks == strategy = "latest" => \A v \in Versions : hook[v] \in {"none", "done"}

SeenInv ==
  /\ SeenIsRunning
  /\ strategy # "latest" => lastSeen = Unknown
  /\ JobsCarry /\ DoneIsLive /\ SeedIsFirst /\ PollerHolds /\ NoHooks

(* The parts of the invariant are established by the initial states.       *)
LEMMA SeenInit == ASSUME Init PROVE SeenInv
<1>1. run.pc = "idle" /\ poller.pc = "idle" /\ Len(queue) = 0
  BY DEF Init, Idle, Asleep
<1>2. live = head /\ head = Initial /\ lastSeen = Unknown
  BY DEF Init
<1>3. JobsCarry
  BY <1>1 DEF JobsCarry
<1>4. DoneIsLive
  BY <1>1, <1>2, Numbers DEF DoneIsLive, Initial
<1>5. SeedIsFirst /\ PollerHolds /\ NoHooks
  BY <1>1, <1>2 DEF SeedIsFirst, PollerHolds, NoHooks, Init
<1> QED BY <1>2, <1>3, <1>4, <1>5 DEF SeenInv, SeenIsRunning

(* A larger head keeps every job's digest one that the tag has had.        *)
LEMMA CarriesOn ==
  ASSUME TypeOK, strategy' = strategy, strategy = "latest" => head' \in Nat /\ head <= head',
         NEW job \in Job, Carries(job)
  PROVE  Carries(job)'
BY Numbers DEF Carries, TypeOK, Job, Digests

(* The channel after an enqueued job holds the old jobs and perhaps the    *)
(* new one.                                                                *)
LEMMA QueuedCarries ==
  ASSUME TypeOK, JobsCarry, NEW job \in Job, Carries(job)
  PROVE  \A i \in 1..Len(Queued(job)) : Carries(Queued(job)[i])
<1>1. CASE Len(queue) < QueueCap
  <2>1. Queued(job) = Append(queue, job)
    BY <1>1 DEF Queued
  <2> QED BY <2>1 DEF TypeOK, JobsCarry
<1>2. CASE ~ (Len(queue) < QueueCap)
  BY <1>2 DEF Queued, JobsCarry
<1> QED BY <1>1, <1>2

(* A push leaves every digest at or behind the head.                       *)
LEMMA PushSeen ==
  ASSUME TypeOK, SeenInv, "latest" \notin HookStrategies, NEW v \in Versions, Push(v)
  PROVE  SeenInv'
<1> USE DEF workload, engine
<1>1. strategy = "latest" => head' \in Nat /\ head <= head'
  BY Numbers DEF Push, TypeOK, Versions
<1>2. SeenIsRunning' /\ (strategy' # "latest" => lastSeen' = Unknown)
  BY DEF Push, SeenInv, SeenIsRunning
<1>3. JobsCarry'
  <2>1. \A i \in 1..Len(queue) : queue[i] \in Job
    BY DEF TypeOK, Run
  <2>2. run.job \in Job
    BY DEF TypeOK, Run
  <2> QED BY <1>1, <2>1, <2>2, CarriesOn DEF JobsCarry, Push, SeenInv
<1>4. DoneIsLive'
  BY <1>1, Numbers DEF DoneIsLive, Push, SeenInv, TypeOK
<1>5. SeedIsFirst'
  <2>1. strategy = "latest" /\ lastSeen = Unknown => head = Initial /\ v = head + 1 /\ v # 1
    BY DEF Push, SeenInv, SeedIsFirst
  <2> QED BY <2>1 DEF Push, SeedIsFirst, Initial
<1>6. PollerHolds'
  <2>1. poller.got \in Nat
    BY Numbers DEF TypeOK, Poller, Digests
  <2> QED BY <1>1, <2>1, Numbers DEF Push, SeenInv, PollerHolds, TypeOK
<1>7. NoHooks'
  BY DEF Push, SeenInv, NoHooks, TypeOK
<1> QED BY <1>2, <1>3, <1>4, <1>5, <1>6, <1>7 DEF SeenInv

(* The pods pull what the tag names now, which is no older than the digest *)
(* of the job that has restarted them.                                     *)
LEMMA PullSeen == ASSUME TypeOK, SeenInv, Pull PROVE SeenInv'
<1> USE DEF registry, engine
<1>1. JobsCarry' /\ SeedIsFirst' /\ PollerHolds' /\ NoHooks'
  BY DEF Pull, SeenInv, JobsCarry, Carries, SeedIsFirst, PollerHolds, NoHooks
<1>2. DoneIsLive'
  <2>1. strategy = "latest" /\ run.pc # "idle" => run.job.digest <= head
    BY DEF SeenInv, JobsCarry, Carries
  <2> QED BY <2>1, Numbers DEF Pull, DoneIsLive, TypeOK, Run
<1>3. SeenIsRunning' /\ (strategy' # "latest" => lastSeen' = Unknown)
  <2>1. lastSeen # Unknown => lastSeen <= live /\ live <= head
    BY DEF SeenInv, SeenIsRunning, DoneIsLive
  <2> QED BY <2>1, Numbers DEF Pull, SeenInv, SeenIsRunning, TypeOK, Digests
<1> QED BY <1>1, <1>2, <1>3 DEF SeenInv

(* Only a webhook of a tag that names its image is handled.                *)
LEMMA HookSeen == ASSUME TypeOK, SeenInv, HookStep PROVE SeenInv'
<1> USE DEF registry, workload
<1>1. PICK v \in Versions : HookDecides(v) \/ HookEnqueues(v) \/ HookLost(v)
  BY DEF HookStep
<1>2. strategy # "latest"
  BY <1>1 DEF SeenInv, NoHooks, HookDecides, HookEnqueues, HookLost
<1>3. UNCHANGED <<strategy, head, live, pulling, lastSeen, run, poller>>
  BY <1>1 DEF HookDecides, HookEnqueues, HookLost, engine
<1>4. JobsCarry'
  <2>1. CASE HookEnqueues(v)
    <3>1. Patch(v) \in Job /\ Carries(Patch(v))
      BY <1>2, JobType, Numbers DEF Carries, Patch
    <3>2. queue' = Queued(Patch(v))
      BY <1>2, <2>1 DEF HookEnqueues
    <3>3. \A i \in 1..Len(queue') : Carries(queue'[i])
      BY <3>1, <3>2, QueuedCarries DEF SeenInv
    <3> QED BY <1>3, <3>3 DEF SeenInv, JobsCarry, Carries
  <2>2. CASE ~ HookEnqueues(v)
    BY <1>1, <1>3, <2>2 DEF SeenInv, JobsCarry, Carries, HookDecides, HookLost, engine
  <2> QED BY <2>1, <2>2
<1> QED BY <1>2, <1>3, <1>4
    DEF SeenInv, SeenIsRunning, DoneIsLive, SeedIsFirst, PollerHolds, NoHooks

(* A poll reads, decides and seeds: what it takes over from one step to    *)
(* the next stays true, since only it seeds and nothing is pushed before.  *)
LEMMA PollSeen == ASSUME TypeOK, SeenInv, PollStep PROVE SeenInv'
<1> USE DEF registry, workload, engine
<1>1. UNCHANGED <<strategy, head, live, pulling, run, hook>>
  BY DEF PollStep, PollStarts, PollHead, PollSeeds, PollTags, PollNothing, PollFails,
         PollDecides, PollEnqueues
<1>2. NoHooks' /\ DoneIsLive'
  BY <1>1 DEF SeenInv, NoHooks, DoneIsLive
<1>3. CASE PollSeeds
  <2>1. strategy = "latest" /\ lastSeen' = Initial
    BY <1>3 DEF PollSeeds, SeenInv, PollerHolds
  <2>2. Initial # Unknown /\ Initial <= live
    BY Numbers DEF TypeOK, Initial
  <2>3. SeenIsRunning' /\ SeedIsFirst'
    BY <1>1, <2>1, <2>2 DEF SeenIsRunning, SeedIsFirst
  <2>4. JobsCarry' /\ PollerHolds'
    BY <1>1, <1>3 DEF PollSeeds, Asleep, SeenInv, JobsCarry, Carries, PollerHolds
  <2> QED BY <1>1, <1>2, <2>1, <2>3, <2>4 DEF SeenInv
<1>4. CASE PollEnqueues
  <2> DEFINE job == IF strategy = "latest" THEN Restart(poller.got) ELSE Patch(poller.got)
  <2>1. job \in Job
    BY JobType DEF TypeOK, Poller
  <2>2. Carries(job)
    BY <1>4 DEF PollEnqueues, SeenInv, PollerHolds, Carries, Restart, Patch
  <2>3. queue' = Queued(job) /\ poller' = Asleep /\ lastSeen' = lastSeen
    BY <1>4 DEF PollEnqueues
  <2>4. \A i \in 1..Len(queue') : Carries(queue'[i])
    <3> HIDE DEF job
    <3> QED BY <2>1, <2>2, <2>3, QueuedCarries DEF SeenInv
  <2>5. JobsCarry'
    BY <1>1, <2>4 DEF SeenInv, JobsCarry, Carries
  <2>6. SeedIsFirst'
    BY <1>1, <1>4, <2>3 DEF PollEnqueues, SeenInv, SeedIsFirst
  <2>7. PollerHolds'
    BY <1>1, <2>3 DEF PollerHolds, Asleep
  <2> QED BY <1>1, <1>2, <2>3, <2>5, <2>6, <2>7 DEF SeenInv, SeenIsRunning
<1>5. CASE PollStep /\ ~ PollSeeds /\ ~ PollEnqueues
  <2>1. UNCHANGED <<queue, lastSeen>>
    BY <1>5 DEF PollStep, PollStarts, PollHead, PollTags, PollNothing, PollFails, PollDecides
  <2>2. JobsCarry' /\ SeenIsRunning' /\ (strategy' # "latest" => lastSeen' = Unknown)
    BY <1>1, <2>1 DEF SeenInv, JobsCarry, Carries, SeenIsRunning
  <2>3. PollerHolds' /\ (poller'.pc = "enqueue" /\ strategy = "latest" => lastSeen # Unknown)
    <3>1. CASE PollStarts
      BY <1>1, <2>1, <3>1 DEF PollStarts, SeenInv, PollerHolds, TypeOK, Poller
    <3>2. CASE PollHead
      <4>1. strategy = "latest" /\ (poller.seen = Unknown <=> lastSeen = Unknown)
        BY <3>2 DEF PollHead, SeenInv, PollerHolds
      <4>2. lastSeen = Unknown => head = Initial
        BY <4>1 DEF SeenInv, SeedIsFirst
      <4>3. \/ poller' = Asleep
            \/ poller'.pc = "seed" /\ poller'.got = head /\ poller.seen = Unknown
            \/ poller'.pc = "enqueue" /\ poller'.got = head /\ poller.seen # Unknown
        BY <3>2 DEF PollHead, TypeOK, Poller
      <4>4. head <= head
        BY Numbers DEF TypeOK
      <4> QED BY <1>1, <2>1, <4>1, <4>2, <4>3, <4>4 DEF PollerHolds, Asleep
    <3>3. CASE PollTags
      <4>1. strategy # "latest" /\ poller'.pc = "current"
        BY <3>3 DEF PollTags, Found, TypeOK, Poller
      <4> QED BY <1>1, <4>1 DEF PollerHolds
    <3>4. CASE PollNothing
      BY <1>1, <3>4 DEF PollNothing, PollerHolds, Asleep
    <3>5. CASE PollFails
      BY <1>1, <3>5 DEF PollFails, PollerHolds, Asleep
    <3>6. CASE PollDecides
      <4>1. strategy # "latest"
        BY <3>6 DEF PollDecides, SeenInv, PollerHolds
      <4>2. poller'.pc \in {"enqueue", "idle"}
        BY <3>6 DEF PollDecides, TypeOK, Poller, Asleep
      <4> QED BY <1>1, <4>1, <4>2 DEF PollerHolds
    <3> QED BY <1>5, <3>1, <3>2, <3>3, <3>4, <3>5, <3>6 DEF PollStep
  <2>4. SeedIsFirst'
    BY <1>1, <2>1, <2>3 DEF SeenInv, SeedIsFirst
  <2> QED BY <1>2, <2>2, <2>3, <2>4 DEF SeenInv
<1> QED BY <1>3, <1>4, <1>5

(* A run records the digest of a restart that has rolled out.              *)
LEMMA RunSeen == ASSUME TypeOK, SeenInv, RunStep PROVE SeenInv'
<1> USE DEF registry, workload
<1>1. UNCHANGED <<strategy, head, poller, hook>>
  BY DEF RunStep, RunStarts, RunApplies, RunWaits, RunFails, RunRecords
<1>2. NoHooks'
  BY <1>1 DEF SeenInv, NoHooks
<1>3. CASE RunStarts
  <2>1. queue \in Seq(Job) /\ queue # <<>>
    BY <1>3 DEF RunStarts, TypeOK
  <2>2. Carries(Head(queue)) /\ \A i \in 1..Len(Tail(queue)) : Carries(Tail(queue)[i])
    BY <2>1 DEF SeenInv, JobsCarry
  <2>3. JobsCarry'
    BY <1>1, <1>3, <2>2 DEF RunStarts, JobsCarry, Carries
  <2>4. DoneIsLive' /\ SeedIsFirst' /\ PollerHolds' /\ SeenIsRunning'
    BY <1>1, <1>3 DEF RunStarts, SeenInv, DoneIsLive, SeedIsFirst, PollerHolds, SeenIsRunning
  <2> QED BY <1>1, <1>2, <1>3, <2>3, <2>4 DEF RunStarts, SeenInv
<1>4. CASE RunApplies
  <2>1. run'.pc = "wait" /\ run'.job = run.job /\ Carries(run.job)
    BY <1>4 DEF RunApplies, SeenInv, JobsCarry, TypeOK, Run
  <2>2. strategy = "latest" => pulling' = TRUE /\ live' = live
    BY <1>4, <2>1 DEF RunApplies, Carries
  <2>3. JobsCarry' /\ DoneIsLive'
    BY <1>1, <1>4, <2>1, <2>2 DEF RunApplies, SeenInv, JobsCarry, Carries, DoneIsLive
  <2>4. SeedIsFirst' /\ PollerHolds'
    BY <1>1, <1>4 DEF RunApplies, SeenInv, SeedIsFirst, PollerHolds
  <2>5. SeenIsRunning' /\ (strategy' # "latest" => lastSeen' = Unknown)
    BY <1>1, <1>4, <2>2 DEF RunApplies, SeenInv, SeenIsRunning
  <2> QED BY <1>2, <2>3, <2>4, <2>5 DEF SeenInv
<1>5. CASE RunWaits
  <2>1. run'.pc = "record" /\ run'.job = run.job
    BY <1>5 DEF RunWaits, TypeOK, Run
  <2>2. JobsCarry' /\ DoneIsLive'
    BY <1>1, <1>5, <2>1 DEF RunWaits, RolledOut, SeenInv, JobsCarry, Carries, DoneIsLive
  <2>3. SeedIsFirst' /\ PollerHolds' /\ SeenIsRunning'
    BY <1>1, <1>5 DEF RunWaits, SeenInv, SeedIsFirst, PollerHolds, SeenIsRunning
  <2> QED BY <1>1, <1>2, <1>5, <2>2, <2>3 DEF RunWaits, SeenInv
<1>6. CASE RunFails
  <2>1. run'.pc = "idle" /\ UNCHANGED <<queue, live, pulling, lastSeen>>
    BY <1>6 DEF RunFails, Idle
  <2> QED BY <1>1, <1>2, <2>1
      DEF SeenInv, JobsCarry, Carries, DoneIsLive, SeedIsFirst, PollerHolds, SeenIsRunning
<1>7. CASE RunRecords
  <2>1. run'.pc = "idle" /\ UNCHANGED <<queue, live, pulling>> /\ lastSeen' = run.job.digest
    BY <1>7 DEF RunRecords, Recorded, Idle
  <2>2. strategy = "latest" => run.job.digest <= live /\ run.job.digest # Unknown
    <3>1. strategy = "latest" => run.job.digest <= live
      BY <1>7 DEF RunRecords, SeenInv, DoneIsLive
    <3> QED BY <3>1, Numbers DEF TypeOK, Run, Job, Digests, Unknown
  <2>3. strategy # "latest" => run.job.digest = Unknown
    BY <1>7 DEF RunRecords, SeenInv, JobsCarry, Carries
  <2>4. SeenIsRunning' /\ (strategy' # "latest" => lastSeen' = Unknown)
    BY <1>1, <2>1, <2>2, <2>3 DEF SeenIsRunning
  <2>5. SeedIsFirst' /\ PollerHolds'
    <3>1. strategy = "latest" => lastSeen # Unknown
      BY <1>7 DEF RunRecords, SeenInv, SeedIsFirst
    <3> QED BY <1>1, <2>1, <2>2, <3>1 DEF SeenInv, SeedIsFirst, PollerHolds
  <2>6. JobsCarry' /\ DoneIsLive'
    BY <1>1, <2>1 DEF SeenInv, JobsCarry, Carries, DoneIsLive
  <2> QED BY <1>2, <2>4, <2>5, <2>6 DEF SeenInv
<1> QED BY <1>3, <1>4, <1>5, <1>6, <1>7 DEF RunStep

(* A crash forgets jobs and polls, and records nothing.                    *)
LEMMA CrashSeen == ASSUME TypeOK, SeenInv, Crash PROVE SeenInv'
<1>1. run'.pc = "idle" /\ poller'.pc = "idle" /\ Len(queue') = 0
  BY DEF Crash, Idle, Asleep
<1>2. UNCHANGED <<strategy, head, live, pulling, lastSeen>>
  BY DEF Crash, registry, workload
<1>3. JobsCarry' /\ PollerHolds'
  BY <1>1 DEF JobsCarry, PollerHolds
<1>4. SeedIsFirst' /\ DoneIsLive' /\ SeenIsRunning'
  BY <1>1, <1>2 DEF Crash, SeenInv, SeedIsFirst, DoneIsLive, SeenIsRunning
<1>5. NoHooks'
  BY DEF Crash, SeenInv, NoHooks
<1> QED BY <1>2, <1>3, <1>4, <1>5 DEF SeenInv

(* Where rolling tags are only polled, no digest is ever recorded ahead of *)
(* the pods: not by an overtaken poll, a restart that failed or was        *)
(* repeated, or a crash between the rollout and its record.                *)
THEOREM SeenIsDeployed ==
  ASSUME "latest" \notin HookStrategies PROVE Spec => []SeenIsRunning
<1>1. Init => SeenInv
  BY SeenInit
<1>2. TypeOK /\ SeenInv /\ [Next]_vars => SeenInv'
  <2> SUFFICES ASSUME TypeOK, SeenInv, [Next]_vars PROVE SeenInv'
    OBVIOUS
  <2>1. CASE Next
    BY <2>1, PushSeen, PullSeen, HookSeen, PollSeen, RunSeen, CrashSeen DEF Next
  <2>2. CASE UNCHANGED vars
    BY <2>2 DEF vars, registry, workload, engine, SeenInv, SeenIsRunning, JobsCarry, Carries,
                DoneIsLive, SeedIsFirst, PollerHolds, NoHooks
  <2> QED BY <2>1, <2>2
<1>3. SeenInv => SeenIsRunning
  BY DEF SeenInv
<1> QED BY <1>1, <1>2, <1>3, TypeCorrect, PTL DEF Spec

(***************************************************************************)
(* Only admitted tags.                                                     *)
(***************************************************************************)

Admitted == pushed \cap Allowed[strategy]

(* A job patches to an admitted tag, or restarts a rolling one.            *)
Fit(job) == IF strategy = "latest" THEN job.image = Unknown ELSE job.image \in Admitted

JobsFit ==
  /\ \A i \in 1..Len(queue) : Fit(queue[i])
  /\ run.pc # "idle" => Fit(run.job)

(* What has been decided on, and what is about to be, are tags of the      *)
(* registry, the first ones admitted.                                      *)
DecidedFit ==
  strategy # "latest" =>
    /\ poller.pc = "current" => poller.got \in pushed
    /\ poller.pc = "enqueue" => poller.got \in Admitted
    /\ \A v \in Versions : /\ hook[v] = "sent" => v \in pushed
                           /\ hook[v] = "enqueue" => v \in Admitted

(* Only a rolling tag is restarted.                                        *)
PullsRolling == pulling => strategy = "latest"

AdmitInv == OnlyAdmitted /\ JobsFit /\ DecidedFit /\ PullsRolling

(* What fits goes on to fit while the registry grows.                      *)
LEMMA JobsStay ==
  ASSUME AdmitInv, strategy' = strategy, pushed \subseteq pushed',
         UNCHANGED <<queue, run>>
  PROVE  JobsFit'
BY DEF AdmitInv, JobsFit, Fit, Admitted

(* The channel takes a job that fits.                                      *)
LEMMA QueuedFits ==
  ASSUME TypeOK, JobsFit, NEW job \in Job, Fit(job)
  PROVE  \A i \in 1..Len(Queued(job)) : Fit(Queued(job)[i])
<1>1. CASE Len(queue) < QueueCap
  <2>1. Queued(job) = Append(queue, job)
    BY <1>1 DEF Queued
  <2> QED BY <2>1 DEF TypeOK, JobsFit
<1>2. CASE ~ (Len(queue) < QueueCap)
  BY <1>2 DEF Queued, JobsFit
<1> QED BY <1>1, <1>2

(* Nothing runs at first but what was there.                               *)
LEMMA AdmitInit == ASSUME Init PROVE AdmitInv
<1>1. run.pc = "idle" /\ poller.pc = "idle" /\ Len(queue) = 0
      /\ \A v \in Versions : hook[v] = "none"
  BY DEF Init, Idle, Asleep
<1>2. live = Initial /\ head = Initial
  BY DEF Init
<1>3. PullsRolling
  BY DEF Init, PullsRolling
<1> QED BY <1>1, <1>2, <1>3, Numbers DEF AdmitInv, OnlyAdmitted, JobsFit, DecidedFit, Initial

(* A push adds a tag, or gives the tracked one a later digest.             *)
LEMMA PushAdmits ==
  ASSUME TypeOK, AdmitInv, NEW v \in Versions, Push(v) PROVE AdmitInv'
<1>1. /\ strategy' = strategy /\ pushed' = pushed \cup {v}
      /\ UNCHANGED <<queue, run, poller, live, pulling>>
  BY DEF Push, workload, engine
<1>2. JobsFit'
  BY <1>1, JobsStay
<1>3. OnlyAdmitted'
  <2>1. strategy = "latest" => live <= head /\ head' = head + 1
    BY DEF Push, AdmitInv, OnlyAdmitted
  <2>2. live \in Nat /\ head \in Nat
    BY Numbers DEF TypeOK
  <2> QED BY <1>1, <2>1, <2>2 DEF AdmitInv, OnlyAdmitted
<1>4. \A w \in Versions : hook'[w] = hook[w] \/ (w = v /\ hook'[w] \in {"sent", "done"})
  BY DEF Push, TypeOK
<1>5. DecidedFit'
  BY <1>1, <1>4 DEF AdmitInv, DecidedFit, Admitted
<1> QED BY <1>1, <1>2, <1>3, <1>5 DEF AdmitInv, PullsRolling

(* A webhook decides on the tag that was pushed, and enqueues it.          *)
LEMMA HookAdmits == ASSUME TypeOK, AdmitInv, HookStep PROVE AdmitInv'
<1>1. PICK v \in Versions : HookDecides(v) \/ HookEnqueues(v) \/ HookLost(v)
  BY DEF HookStep
<1>2. UNCHANGED <<strategy, pushed, head, live, pulling, run, poller>>
  BY <1>1 DEF HookDecides, HookEnqueues, HookLost, registry, workload, engine
<1>3. OnlyAdmitted'
  BY <1>2 DEF AdmitInv, OnlyAdmitted
<1>4. DecidedFit'
  <2>1. CASE HookDecides(v)
    <3>1. strategy # "latest" /\ hook'[v] = "enqueue" => v \in Allowed[strategy]
      BY <2>1 DEF HookDecides, Decide, TypeOK
    <3>2. hook[v] = "sent" /\ hook'[v] \in {"enqueue", "done"}
          /\ \A w \in Versions \ {v} : hook'[w] = hook[w]
      BY <2>1 DEF HookDecides, TypeOK
    <3> QED BY <1>2, <3>1, <3>2 DEF AdmitInv, DecidedFit, Admitted
  <2>2. CASE HookEnqueues(v) \/ HookLost(v)
    <3>1. hook'[v] = "done" /\ \A w \in Versions \ {v} : hook'[w] = hook[w]
      BY <2>2 DEF HookEnqueues, HookLost, TypeOK
    <3> QED BY <1>2, <3>1 DEF AdmitInv, DecidedFit, Admitted
  <2> QED BY <1>1, <2>1, <2>2
<1>5. JobsFit'
  <2>1. CASE HookEnqueues(v)
    <3> DEFINE job == IF strategy = "latest" THEN Restart(Unknown) ELSE Patch(v)
    <3>1. job \in Job /\ Fit(job) /\ queue' = Queued(job)
      BY <2>1, JobType, Numbers DEF HookEnqueues, AdmitInv, DecidedFit, Fit, Restart, Patch
    <3> HIDE DEF job
    <3>2. \A i \in 1..Len(queue') : Fit(queue'[i])
      BY <3>1, QueuedFits DEF AdmitInv
    <3> QED BY <1>2, <3>2 DEF AdmitInv, JobsFit, Fit, Admitted
  <2>2. CASE HookDecides(v) \/ HookLost(v)
    BY <1>2, <2>2, JobsStay DEF HookDecides, HookLost, engine
  <2> QED BY <1>1, <2>1, <2>2
<1> QED BY <1>2, <1>3, <1>4, <1>5 DEF AdmitInv, PullsRolling

(* A poll picks a tag of the registry, and asks the decision.              *)
LEMMA PollAdmits == ASSUME TypeOK, AdmitInv, PollStep PROVE AdmitInv'
<1>1. UNCHANGED <<strategy, pushed, head, live, pulling, run, hook>>
  BY DEF PollStep, PollStarts, PollHead, PollSeeds, PollTags, PollNothing, PollFails,
         PollDecides, PollEnqueues, registry, workload, engine
<1>2. OnlyAdmitted'
  BY <1>1 DEF AdmitInv, OnlyAdmitted
<1>3. JobsFit'
  <2>1. CASE PollEnqueues
    <3> DEFINE job == IF strategy = "latest" THEN Restart(poller.got) ELSE Patch(poller.got)
    <3>1. poller.got \in Digests
      BY DEF TypeOK, Poller
    <3>2. job \in Job /\ Fit(job) /\ queue' = Queued(job)
      BY <2>1, <3>1, JobType DEF PollEnqueues, AdmitInv, DecidedFit, Fit, Restart, Patch
    <3> HIDE DEF job
    <3>3. \A i \in 1..Len(queue') : Fit(queue'[i])
      BY <3>2, QueuedFits DEF AdmitInv
    <3> QED BY <1>1, <3>3 DEF AdmitInv, JobsFit, Fit, Admitted
  <2>2. CASE ~PollEnqueues
    <3>1. UNCHANGED queue
      BY <2>2 DEF PollStep, PollStarts, PollHead, PollSeeds, PollTags, PollNothing, PollFails,
                  PollDecides, engine
    <3> QED BY <1>1, <3>1, JobsStay
  <2> QED BY <2>1, <2>2
<1>4. DecidedFit'
  <2>1. CASE PollTags
    <3> DEFINE matching == pushed \cap Allowed[strategy]
    <3>1. matching \subseteq Versions /\ pushed \subseteq Versions /\ matching \subseteq pushed
      BY DEF TypeOK
    <3>2. \E v \in pushed : Found(v)
      BY <2>1, <3>1, FirstType DEF PollTags
    <3>3. poller'.pc = "current" /\ poller'.got \in pushed
      BY <3>2 DEF Found, TypeOK, Poller
    <3> QED BY <1>1, <3>3 DEF AdmitInv, DecidedFit, Admitted
  <2>2. CASE PollDecides
    <3>1. /\ poller.pc = "current"
          /\ \/ poller' = Asleep
             \/ /\ poller'.pc = "enqueue" /\ poller'.got = poller.got
                /\ poller.got \in Allowed[strategy]
      BY <2>2 DEF PollDecides, Decide, TypeOK, Poller
    <3> QED BY <1>1, <3>1 DEF AdmitInv, DecidedFit, Admitted, Asleep
  <2>3. CASE PollHead
    BY <1>1, <2>3 DEF PollHead, DecidedFit
  <2>4. CASE PollStarts
    <3>1. poller'.pc = "ask"
      BY <2>4 DEF PollStarts, TypeOK, Poller
    <3> QED BY <1>1, <3>1 DEF AdmitInv, DecidedFit, Admitted
  <2>5. CASE PollSeeds \/ PollNothing \/ PollFails \/ PollEnqueues
    <3>1. poller'.pc = "idle"
      BY <2>5 DEF PollSeeds, PollNothing, PollFails, PollEnqueues, Asleep
    <3> QED BY <1>1, <3>1 DEF AdmitInv, DecidedFit, Admitted
  <2> QED BY <2>1, <2>2, <2>3, <2>4, <2>5 DEF PollStep
<1> QED BY <1>1, <1>2, <1>3, <1>4 DEF AdmitInv, PullsRolling

(* A run patches to what its job says, or has the pods pull the tag.       *)
LEMMA RunAdmits == ASSUME TypeOK, AdmitInv, RunStep PROVE AdmitInv'
<1>1. UNCHANGED <<strategy, pushed, head, poller, hook>>
  BY DEF RunStep, RunStarts, RunApplies, RunWaits, RunFails, RunRecords, registry
<1>2. DecidedFit'
  BY <1>1 DEF AdmitInv, DecidedFit, Admitted
<1>3. CASE RunStarts
  <2>1. queue \in Seq(Job) /\ queue # <<>>
    BY <1>3 DEF RunStarts, TypeOK
  <2>2. Fit(Head(queue)) /\ \A i \in 1..Len(Tail(queue)) : Fit(Tail(queue)[i])
    BY <2>1 DEF AdmitInv, JobsFit
  <2>3. run'.job = Head(queue) /\ queue' = Tail(queue) /\ live' = live /\ pulling' = pulling
    BY <1>3 DEF RunStarts, workload
  <2>4. JobsFit'
    BY <1>1, <2>2, <2>3 DEF JobsFit, Fit, Admitted
  <2>5. OnlyAdmitted'
    BY <1>1, <2>3 DEF AdmitInv, OnlyAdmitted
  <2> QED BY <1>1, <1>2, <2>3, <2>4, <2>5 DEF AdmitInv, PullsRolling
<1>4. CASE RunApplies
  <2>1. Fit(run.job) /\ run.job.image \in Digests
    BY <1>4 DEF RunApplies, AdmitInv, JobsFit, TypeOK, Run, Job, Digests
  <2>2. /\ queue' = queue /\ run'.job = run.job
        /\ live' = IF run.job.image = Unknown THEN live ELSE run.job.image
    BY <1>4 DEF RunApplies, TypeOK, Run
  <2>3. strategy = "latest" => live' = live
    BY <2>1, <2>2 DEF Fit
  <2>4. OnlyAdmitted'
    BY <1>1, <2>1, <2>2, <2>3 DEF AdmitInv, OnlyAdmitted, Fit, Admitted
  <2>5. JobsFit'
    BY <1>1, <2>1, <2>2 DEF AdmitInv, JobsFit, Fit, Admitted
  <2>6. run.job.image = Unknown => strategy = "latest"
    BY <2>1, Numbers DEF Fit, Admitted, TypeOK
  <2>7. PullsRolling'
    BY <1>1, <1>4, <2>6 DEF RunApplies, AdmitInv, PullsRolling
  <2> QED BY <1>2, <2>4, <2>5, <2>7 DEF AdmitInv
<1>5. CASE RunWaits \/ RunFails \/ RunRecords
  <2>1. /\ UNCHANGED <<queue, live, pulling>>
        /\ run'.pc = "idle" \/ (run.pc # "idle" /\ run'.job = run.job)
    BY <1>5 DEF RunWaits, RunFails, RunRecords, Idle, TypeOK, Run, workload
  <2>2. JobsFit'
    BY <1>1, <2>1 DEF AdmitInv, JobsFit, Fit, Admitted
  <2>3. OnlyAdmitted'
    BY <1>1, <2>1 DEF AdmitInv, OnlyAdmitted
  <2> QED BY <1>1, <1>2, <2>1, <2>2, <2>3 DEF AdmitInv, PullsRolling
<1> QED BY <1>3, <1>4, <1>5 DEF RunStep

(* The pods of a rolling tag pull what it names now; a process that starts *)
(* anew has nothing in hand.                                               *)
LEMMA OthersAdmit == ASSUME TypeOK, AdmitInv, Pull \/ Crash PROVE AdmitInv'
<1>1. CASE Pull
  <2>1. /\ UNCHANGED <<strategy, pushed, head, queue, run, poller, hook>>
        /\ live' = head /\ pulling' = FALSE /\ strategy = "latest"
    BY <1>1 DEF Pull, AdmitInv, PullsRolling, registry, engine
  <2>2. OnlyAdmitted'
    BY <2>1, Numbers DEF OnlyAdmitted, TypeOK
  <2>3. JobsFit'
    BY <2>1, JobsStay
  <2> QED BY <2>1, <2>2, <2>3 DEF AdmitInv, DecidedFit, PullsRolling
<1>2. CASE Crash
  <2>1. /\ UNCHANGED <<strategy, pushed, head, live, pulling>>
        /\ Len(queue') = 0 /\ run'.pc = "idle" /\ poller'.pc = "idle"
        /\ \A v \in Versions : hook'[v] # "enqueue" /\ (hook'[v] = "sent" => hook[v] = "sent")
    BY <1>2 DEF Crash, Idle, Asleep, registry, workload
  <2>2. JobsFit' /\ PullsRolling' /\ OnlyAdmitted'
    BY <2>1 DEF AdmitInv, JobsFit, PullsRolling, OnlyAdmitted
  <2>3. DecidedFit'
    BY <2>1 DEF AdmitInv, DecidedFit
  <2> QED BY <2>2, <2>3 DEF AdmitInv
<1> QED BY <1>1, <1>2

(* strategy.Decide, wherever and however long before the patch it was      *)
(* asked: through webhooks that overtake each other, reads that fail,      *)
(* dropped jobs and crashes, a workload runs nothing but what its          *)
(* constraint or pattern admits.                                           *)
THEOREM AdmittedOnly == Spec => []OnlyAdmitted
<1>1. Init => AdmitInv
  BY AdmitInit
<1>2. TypeOK /\ AdmitInv /\ [Next]_vars => AdmitInv'
  <2> SUFFICES ASSUME TypeOK, AdmitInv, [Next]_vars PROVE AdmitInv'
    OBVIOUS
  <2>1. CASE Next
    BY <2>1, PushAdmits, HookAdmits, PollAdmits, RunAdmits, OthersAdmit DEF Next
  <2>2. CASE UNCHANGED vars
    <3>1. UNCHANGED <<strategy, pushed, head, live, pulling, queue, run, poller, hook>>
      BY <2>2 DEF vars, registry, workload, engine
    <3>2. JobsFit'
      BY <3>1, JobsStay
    <3> QED BY <3>1, <3>2 DEF AdmitInv, OnlyAdmitted, DecidedFit, PullsRolling, Admitted
  <2> QED BY <2>1, <2>2
<1>3. AdmitInv => OnlyAdmitted
  BY DEF AdmitInv
<1> QED BY <1>1, <1>2, <1>3, TypeCorrect, PTL DEF Spec

=============================================================================
