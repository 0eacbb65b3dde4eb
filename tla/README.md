# tagalong in TLA+

tagalong deploys container images: it receives webhooks of Docker Hub and
GitHub, or polls registries, decides whether a new tag concerns one of its apps,
patches or restarts the app's Kubernetes workloads, watches the rollout and
keeps a history. One installation can relay the webhooks it receives to agents
in other networks. This directory models the parts of it that have behaviour
over time: the deploy engine and the life of its process, the wait for a
rollout, the webhook relay, the path from a pushed image to a deploy, the
history with the page that shows it, and what stands behind the portal: the
apps, the login, the connection to a hub and the client of the registries, in
one process and on one database connection. TLC checks the models on small
instances, TLAPS proves the theorems for all values of the constants.

`PROJECT.json` lists the components, the runs, the mutated forms that show that
each property can fail, the source lines of every definition (`map`), the
places where the code and its documentation disagree (`findings`), what is hard
to test in the code (`hazards`), and the theorems. Paths below are relative to
the repository's root.

To check: `tlc -config EngineSafety.cfg MCDeployEngine`, and so on for each
configuration; `tlapm DeployEngineProofs.tla`, and so on for each module named
`...Proofs`.

## Inventory

| Component | State | Operations | Model |
|---|---|---|---|
| Deploy engine (`internal/deploy/engine.go`) | per app a buffered channel and a mutex, in memory; `closed`; base context | `Enqueue`, `DeploySync`, `worker`, `run`, `schedulePurge`, `ForgetApp`, `Shutdown`, `ReconcileStartup` | `DeployEngine` |
| Event store (`internal/store/events.go`) | rows of `deploy_events` | `CreateEvent`, `UpdateEvent`, `ListInterrupted`, `SweepStale`, `PruneEvents`, `ListEvents` | `DeployEngine`, `History` |
| App store and API (`internal/store/apps.go`, `internal/httpapi/apps.go`) | rows of `apps`, `app_targets` | list, load, find, create, update, delete, rotate the token, `SetLastSeen`; deploy now | `Apps`, `AppTable`; deletion and deploys in `DeployEngine`, `Updates` |
| Kubernetes access (`internal/deploy/k8s.go`) | none; workloads live in the cluster | read, patch, restart, wait for a rollout | `Rollout`; steps on a workload in `DeployEngine` |
| Process (`cmd/tagalong/main.go`) | mode | start, reconcile, serve, drain, exit | `DeployEngine`; start and end of the portal in `Process`, `Portal` |
| Cloudflare purger (`internal/deploy/cloudflare.go`) | none | purge | outcome only, `DeployEngine` |
| Relay hub (`internal/relay/hub.go`) | per agent a queue, a wake channel, last contact, number of polls; waiters | `Relay`, `HandlePoll`, `HandleResults`, `Forget` | `Relay` |
| Relay client (`internal/relay/client.go`, `manager.go`) | the poll in progress | poll, process, post, `Apply` | `Relay`; `Apply` in `HubLink` |
| Agents API (`internal/httpapi/agents.go`) | rows of `agents`; this instance's own `hub_*` settings | create, delete; configure the hub | `Relay` (delete), `HubLink` (`putHubConfig`) |
| Webhook receivers (`internal/httpapi/hooks.go`, `internal/webhook`) | none | resolve, trigger, fan out, combine | `Updates`, `Relay` |
| Update decision (`internal/strategy/strategy.go`) | none | `Decide` | `Updates` |
| Registry poller (`internal/poller/poller.go`) | last poll of each app | `checkDue`, `pollLatest`, `pollSemver`, `pollExact` | `Updates` |
| Registry client (`internal/registry`) | token cache | list tags, head manifest: `do` with its token | `Registry` |
| YAML import and export (`internal/httpapi/appsyaml.go`) | none | import, export, edit one app's YAML | `Apps` |
| Authentication (`internal/auth`, `internal/httpapi/authn.go`) | account and secret in `settings`, the secret in memory, rate limits | seed, login, logout, change password | `Session` (no rate limits) |
| Event bus, SSE (`internal/events`, `internal/httpapi/events.go`) | subscribers and their channels | subscribe, publish, stream, list | `History` |
| Web UI (`ui/src`) | the events that a page shows | connect, fetch, merge, load more | `History` (Activity page) |
| Settings (`internal/httpapi/settings.go`, `internal/store/settings.go`) | rows of `settings`, `registry_creds` | get, put, delete | as used by `Session`, `HubLink`, `Registry` |
| Store and HTTP server (`internal/store/store.go`, `internal/httpapi/server.go`) | one connection to SQLite; a goroutine per request | statements, transactions; start, serve | `Process`, `Portal` |
| Cluster browsing, config, model, migrations | | | not modelled: single reads |

How they interact. Handlers, the poller and the relay client all end in
`Engine.Enqueue` (asynchronous, one worker per app) or `Engine.DeploySync` (a
manual deploy on the handler's goroutine); both take the app's mutex and run
`Engine.run`, which writes the event's row, calls the Kubernetes API and waits.
Deleting an app removes the row first, and the engine's channel and mutex
afterwards. The poller and the webhook handler decide on what the cluster and
the app's row say *now*, and the job they queue runs *later*. The hub hands
each webhook to a queue per agent, from which long polls take batches. Each
change of an event is written to its row and then published on the bus; an open
page subscribes to it, reads the rows in pages, and merges the two. All of them
share the store's one connection to SQLite: a statement of anybody waits while
a transaction, or a result that is not read to its end, holds it. The start of
the process seeds the account, connects to the saved hub, loads the session
secret, and only then listens; its end drops requests, caches and open
transactions at any point.

What is hard: goroutines that hold a mutex which is no longer in the map;
workers that drain a closed channel; a deletion under a queued or running
deploy; a process that dies between two rows, often because tagalong deploys
itself; a shutdown deadline that cancels a deploy at any point; polls of one
agent that overlap; wake-ups on a channel with one slot; answers that race a
deadline; decisions that are stale when their job runs; a status that
Kubernetes wrote before the patch; a page that hears of changes on two ways; an
edit that writes back an app it has loaded several statements ago; two rows
that belong together and are written one after the other; a value that is kept
both in a row and in memory; a handler that needs a second statement while it
holds the only connection; a cached token of credentials that have changed.

What makes each part correct:

- engine: deploys of one app exclude one another; each event gets exactly one
  verdict, in this process or after a restart, and success is not reported of
  workloads that do not carry what was asked for; accepted jobs are taken; a
  shutdown drains, and ends.
- relay: no poll sleeps on a message; a webhook is sent around once and runs at
  most once on an agent; a deleted agent gets nothing; a sender that was told
  that nobody deploys can rely on it.
- rollouts: a wait that ends well has replaced the old pods, a rollout that has
  ended is noticed, and a failure is this rollout's own.
- history: ids are never given twice, pages have no gaps and show no event
  twice, and a page that heard of every change shows what the table says.
- updates: only pushed tags that the app's constraint or pattern admits are
  deployed; nothing is recorded as deployed that isn't; what is pushed and
  admitted is deployed in the end (the code fails this in two cases, see
  Findings), and deploys come to an end.
- apps: an app and its targets are one row to everybody else, no edit undoes
  what a rotation or a deploy has written meanwhile, a refused request leaves no
  trace, and no request waits for the connection for ever.
- login: a change of the password ends every session of before and keeps the
  own one; the default password is set once and flagged as long as it is in use
  (the code fails this where a start is cut off or can't read, see Findings).
- connection to the hub: what is connected is what is saved.
- registry: credentials that are right come to be used.

## Modules

| Module | Lines | Contents |
|---|---|---|
| `DeployLog` | 70 | abstract specification: the history of deploys as a reader sees it |
| `DeployEngine` | 840 | the engine, its rows, the cluster, the process; refines `DeployLog` |
| `DeployEngineProofs` | 2580 | type correctness, exclusion, drained queues, owned events, final verdicts, the refinement, live successes |
| `Delivery` | 70 | abstract specification: copies of a webhook and the sender's answer |
| `Relay` | 540 | hub, agents, the sender's answer; refines `Delivery` |
| `RelayProofs` | 1870 | type correctness, wake-ups, forgotten agents, at most one copy, final refusals, the refinement |
| `Updates` | 410 | registry, webhooks, poller, decision, and a cut-down engine |
| `UpdatesProofs` | 760 | type correctness, the recorded digest, admitted tags |
| `Rollout` | 320 | `WaitForRollout` and `rolloutStatus` against the controllers |
| `RolloutProofs` | 250 | type correctness, a wait that ends well tells the truth |
| `History` | 360 | the events table, the bus and one open page |
| `HistoryProofs` | 1580 | fresh ids, type correctness, pages without gaps, no event twice, current rows |
| `Process` | 100 | what the portal's parts share: the process and the connection |
| `AppTable` | 60 | abstract specification: the apps as one table |
| `Apps` | 480 | the two tables of the apps under concurrent requests; refines `AppTable` |
| `AppsProofs` | 1300 | rows and targets, the refinement, clean failures |
| `Session` | 320 | account, session secret, cookies |
| `SessionProofs` | 730 | the flag, revoked sessions, the login that stays |
| `HubLink` | 150 | the saved hub and the connection to it |
| `Registry` | 210 | registry credentials, token cache, `Client.do` |
| `Portal` | 60 | `Apps`, `Session`, `HubLink` and `Registry` in one process |
| `PortalProofs` | 480 | the connection is what is saved; the composition |
| `MCDeployEngine`, `MCRelay`, `MCUpdates`, `MCRollout`, `MCHistory`, `MCPortal` | | instances for TLC |

### DeployEngine

A *runner* is a goroutine that can be inside `Engine.run`: the worker of a
channel, or a caller (a handler, the poller). Its record holds a program counter
and the locals of `run`; `ActiveAt` are the points between `CreateEvent` and the
verdict. One action is one step between two points where another goroutine, the
cluster or a crash can come in: a store statement, a Kubernetes call, a critical
section of `Engine.mu`.

| Code | State and actions |
|---|---|
| `apps`, `deploy_events`, `last_seen_*` | `apps`, `events`, `lastSeen`: survive `Crash` and `Exit` |
| `Engine.queues`, `Engine.locks` | `chan`, `queue`, `held`, indexed by `<<id, epoch>>` |
| `deployApp`, `handleTrigger` | `AskManual`, `AskQueued` (the app is loaded), then `DeploySync` or `Enqueue`/`EnqueueDropped` |
| `lockApp` | `GetLock` under `Engine.mu`, then `Acquire` |
| `run` | `CreateEvent`, `CreateEventRefused`, `FinishUntargeted`, `StartRolling`, `ApplyTarget`, `ApplyFails`, `WaitDone`, `WaitFails`, `WaitInterrupted`, `RecordLastSeen`, `SchedulePurge`, `FinishSuccess` |
| `worker` | `Receive`, `WorkerExit` |
| purge goroutine | `PurgeDone` |
| `createApp`, `deleteApp` | `CreateApp`; `DeleteApp` and later `ForgetApp` |
| `Shutdown` | `Sigterm`, `CloseEngine`, `WorkersDone`, `CancelBase`, `Exit` |
| startup | `Boot` or `BootSweep`, `ReconcileEvent`, `StartServing` |
| environment | `RolloutEnds`, `Crash` |

`ForgetApp` is the only operation that removes a channel and a mutex from the
maps while the process runs. So the objects that one id has had are numbered by
its `epoch`, and a goroutine that chose the mutex of an earlier epoch still
holds that one. `MaxGen` is the number of apps that may successively get one row
id: `apps.id` is an `INTEGER PRIMARY KEY` without `AUTOINCREMENT`, so SQLite
gives the id of the newest app to the next one when it is deleted. `MaxGen = 1`
means that ids are not reused.

The clock counts whole seconds, as both times do that `reconcileEvent` compares:
`started_at`, which SQLite sets to `datetime('now')` (`Event.at`), and the restart
annotation, which `RestartRollout` formats as RFC 3339 (`Workload.stamp`). Only
the order of a restart and the creation of a later event matters, so `Clock`
advances, or not, when an event is created (`Moments`): two events can be of one
second, and a restart of the first one then counts for the second in `Live`.
Which event was the newest when a workload was last restarted is kept in
`Workload.restarted`, which no action reads: `SuccessIsLiveToTheSecond` asks it
whether the event's own restart has happened. The clock is not set back.

Abstractions. Images and digests are `Versions`. A recreated app names the same
workloads, apps do not share workloads, and an app's targets are not edited
while a deploy of it is queued. Store errors other than the foreign key of
`deploy_events` are left out, and so are the event bus and the log. A wait for a
rollout can always end in a failure (its timeout). Whether a cluster is
configured at startup is a choice between `Boot` and `BootSweep`. The purge's
goroutine is detached, as in the code.

### DeployLog

What the history page promises: `Begin` a deploy of an app that has none in
progress, `End` it with one verdict, `CutOff` deploys (the process ended),
`Resolve` entries that no deploy owns. `DeployEngine!Log` maps the rows of
`deploy_events` and the runs in progress to it.

### Relay

| Code | State and actions |
|---|---|
| `Hub.conns[id]` | `queue`, `wake`, `seen`, indexed by `<<agent, 0>>` until `Forget`, then `<<agent, 1>>` |
| `fanOut`, `Relay` | `Receive`, `List`/`ListNone`, `QueueFor` (one agent at a time), `Collect`, `RelayDone`, `RelayTimeout`, `Answer` |
| `HandlePoll`, `take` | `PollAuth`, `PollEnter`, `PollTake`, `PollSleeps`, `PollWoken`, `PollEmpty`, `PollDelivers`, `PollLoses` |
| client | `StartPoll`, `PollAbandoned`, `Run`, `Post`, `PostFails` |
| `HandleResults` | in `Post` |
| `deleteAgent` | `DeleteAgent`, later `Forget` |
| environment | `AgentRestarts`, `HubRestarts` |

Abstractions. Row ids of agents are not reused and a name stands for its id. The
50 second window in which an agent without an open poll counts as connected is a
choice, for a conn that was ever polled. `take` drops messages older than
15 minutes: any prefix of messages whose sender has been answered. The deferred
function of `HandlePoll` is part of the step that returns, the removal of a
waiter part of the answer, the authentication of posted results part of their
critical section. The hub's own outcome is chosen when the answer is combined.
Payloads that the hub rejects are never relayed. Restarts are not bounded: the
state is finite without it.

### Delivery

What the relay promises of a webhook: `Send` it to some agents, once; `RunCopy`
on an agent that has a copy; `Lose` copies; `Tell` the sender its one answer,
which may be something else than "accepted" only if no agent has accepted the
webhook or still has a copy. `Relay!Copies` maps each agent's part of the hub and
its client to a copy, which is unsent until `Relay` queues the webhook (while its
request is new, listed or about to be queued), waiting in a queue, a batch or an
inbox (`HasCopy`), or else what came out, or gone. A request that the end of the
hub cuts off, the cap of a queue, an expired message, a lost response, `Forget`
and a restart of the agent are all `Lose`.

### Updates

One app that is enabled and polled, with a strategy chosen in the initial state.
Versions are numbers: digests of the tracked tag in the order of their pushes
(`latest`), tags in the order of their versions (`semver`) or of their build
times (`exact`, and its alias `regex`), pushed in any order.

| Code | State and actions |
|---|---|
| registry, kubelet, sender | `Push`, `Pull`, `HookLost` |
| `handleTrigger` | `HookDecides`, then `HookEnqueues` |
| `checkDue`, `pollLatest` | `PollStarts`, `PollHead`, `PollSeeds` |
| `pollSemver`, `pollExact` | `PollTags`, `PollNothing`, `PollFails` |
| `decideAndEnqueue` | `PollDecides`, `PollEnqueues` |
| `Enqueue`, `worker`, `run` | `Queued`, `RunStarts`, `RunApplies`, `RunWaits`, `RunFails`, `RunRecords` |

`live` is the version in the workload's spec, which a patch changes at once, and
for `latest` the digest that the pods have pulled. `RolledOut` is what the
rollout's status tells the run.

Abstractions. The engine is the first-in-first-out channel and the single run
per app that `DeployEngine` shows it to be; there are no manual deploys, edits or
deletions. Prereleases and tags that do not parse are left out. Listing the tags
and dating them is one read, in which failures may hide newer tags. The first
push to a `latest` app waits for the poller's first look, which takes what it
finds for deployed: that is intended
(`TestPollLatestFirstObservationSeedsWithoutDeploy`).

### Rollout

One workload, a Deployment or a StatefulSet, and the deploys that wait for it one
after the other.

| Code | State and actions |
|---|---|
| `PatchImage`, `RestartRollout`, then `WaitForRollout` | `Deploy` |
| `rolloutStatus` | `Failed`, `Done`, in `WaitGet`; `WaitGetFails` |
| `WaitForRollout`'s loop | `WaitCheck`, `WaitReason` (`podFailureReason`), `WaitSelect` |
| `context.WithTimeout` of `run`, the deadline of `WaitForRollout` | `ContextEnds`, then `DeadlinePasses`: the same duration, started in this order |
| controllers, kubelet, others (external) | `Sync`, `DeadlineExceeded`, `PodCreated`, `PodRemoved`, `PodReady`, `PodUnready`, `Scale` |

The controllers are modelled as far as the fields that `rolloutStatus` reads
tell: `Sync` observes the generation and counts the pods, at any time, so that a
status may be older than the patch. A template is named by the generation that
introduced it. A deploy whose image is the one in the spec changes nothing and
waits all the same.

Abstractions. A patch never brings back an earlier template, whose pods could
still be there. `minReadySeconds` is 0, so ready pods are available. Nobody but
the deploys changes the template; anyone may scale. The controllers are not
paused, and a StatefulSet's update strategy is `RollingUpdate`.

### History

| Code | State and actions |
|---|---|
| `deploy_events` | `rows`, a function on ids; `newest` remembers the greatest id there was |
| `CreateEvent` in `run`, `recordSkip`, `UpdateEvent` in `finish` | `CreateEvent`, `RecordSkip`, `UpdateEvent` |
| `deleteApp` (`ON DELETE SET NULL`) | `DeleteApp` |
| `PruneEvents` | `PruneEvents(last)`: the events up to `last` are old enough |
| `Bus.Subscribe`, `Publish`, unsubscribe | `Subscribe`, `Publish`, `StreamBreaks`; the channel is `buf` |
| `listEvents` | `FetchReads` |
| `useLiveEvents` | `WithStreamed` in `Receive`, `Merged` in `FetchArrives` |
| Activity page | the first request in `Init`, `LoadMore`, `FetchFails` |
| restart, `ReconcileStartup` | `Restart` |

`due` holds the changes that are written and not yet published: another
goroutine's step can come between the two. `missed` collects the events with a
change that the page will not hear of: published while it was not subscribed
and had read, dropped by the full channel, lost with a broken stream, or made by
`ReconcileStartup`, which publishes nothing. `FeedIsCurrent` excepts them; a row
of such an event stays stale until the page is opened again.

Abstractions. `pending` and `rolling` are one status, `open`, and so are all the
others, `ended`: an older and a newer copy of a row are what can be mixed up.
Events are deleted by age and rank only, and the clock is monotone. The list is
not cut at its 5000 events, and deleted apps are not replaced.

### Process and Portal

`Process` is what the parts behind the portal share, and every one of them
EXTENDS it: `conn`, the handler that holds the store's connection
(`SetMaxOpenConns(1)`), `serving`, and `quota`, the bound on what may still
happen. `Statement` is one statement, `Begins` and `Ends` a transaction; `Serves`
is `ListenAndServe`, `Restart` the end of the process and the start of the next.
Each component has a specification of its own (`AppsSpec`, `SessionSpec`,
`LinkSpec`) in which requests to the others (`Elsewhere`) and their transactions
are steps of the environment. `Portal` composes the four: one component acts at a
time, `Starts` follows `main`, and `Crash` ends all of them together.
`PortalComposes` proves that each behaviour of `Portal` is one of each of the
three specifications, so what is proved of a part holds of the whole.

### Apps and AppTable

A handler's record `req[h]` is the request it serves: which, at which statement,
and its locals. A transaction works on `draft` until its commit.

| Code | State and actions |
|---|---|
| `apps`, `app_targets` | `db.rows`, `db.targets`, by app id; survive `Restart` |
| `createApp`, `updateApp`, `decodeApp` | `CreateApp`, `UpdateApp`: refused with a 400, or on to the transaction |
| `updateAppYAML` | `UpdateAppYAML`, `LoadRow`, `LoadTargets`, `Check` |
| `importApps` | `ImportApps`, `ListRows`, `ListTargets`, `Listed` (with `Known`, its lookup by name), `Check`, then a transaction and `GetApp` for each app |
| `Store.CreateApp`, `UpdateApp`, `replaceTargets` | `InsertRow` or `UpdateRow`, `ReplaceTargets`, `Commit`; `WriteFails`, `Rollback` |
| `Store.GetApp`, `ListApps`, `GetAppByToken`, `GetAppByRepo` | `LoadRow`, `LoadTargets`; `ListRows`, `ListTargets`; `FindApp` |
| `listApps`, `exportApps`, the poller's round; `getApp`, `exportApp`; `lookupApp` | `ListApps`, `LoadApp`, `Hook` |
| `DeleteApp`, `RotateToken`, `SetLastSeen` | `Single`, then `DeleteRow`, `RotateToken`, `SetLastSeen` |

`NextId` is SQLite's choice of a row id: one more than the greatest there is, so
that the id of the newest app is used again when it is deleted, in the middle of
another request, too. `Apps!Table` joins the two tables to the one of `AppTable`,
in which an edit keeps the token and the recorded deploys whatever the request
had loaded before.

Abstractions. What an edit sets besides the name is one value, the app's
settings, of which `app_targets` has its part; the same value in both tables means
the same edit. `normalizeApp` is the choice between settings it accepts and
`Invalid`. Names are numbers in their order, `Fold` their lower case. `seen` counts
recorded deploys. A rotation's and a new app's token is fresh, since
`GenerateToken` draws random bytes. `Rollback` stands for every statement of a
transaction that fails after the first; the first one fails for the reasons that
`WriteFails` names. The deploy that a handler starts is in `DeployEngine`.

### Session

| Code | State and actions |
|---|---|
| `auth_*` settings | `account`; survives `Restart` |
| `SeedAdmin` | `SeedLooks`, `SeedHash`, `SeedFlag` |
| `loadOrCreateSessionSecret`, `newServer` | `LoadSecret`, with `CreateSecret` (which may fail to store it) |
| `Server.sessionSecret` | `secret` |
| `login`, `logout` | `Login`, `ReadHash`, `Verify`, `Sign`; `Forget` |
| `changePassword` | `ChangePassword`, `ReadHash`, `Verify`, `StoreHash`, `ClearFlag`, then |
| `rotateSessionSecret`, `setSessionCookie` | `StoreSecret`, `SwapSecret`, `Sign` |

A cookie is the number of the secret that signed it. History variables say which
secrets have been in memory (`signed`), which an answered change has replaced
(`revoked`), who stored the newest one (`keeper`), whether two rotations
overlapped (`mixed`), and whether the process ended between the two writes of the
last `SeedAdmin` (`cutShort`).

Reads fail, too. `GetSetting` answers a row that can't be read like one that is
not there, and so does `Lookup` (in `Process`): `SeedLooks` may then set the
default password over the operator's, `LoadSecret` replaces the secret, and
`ReadHash` refuses the login or the change.

Abstractions. `newServer` runs once more for the relay's handler, before the
portal's, which finds what that one has stored, and once for the hooks listener,
if there is one; these two are left out: they use no secret, and write one only
where they find none. HMAC and PBKDF2 are perfect; one account; cookies expire at any
time; the rate limit of logins is left out. The handlers that only ask who is
logged in read nothing but `secret`.

### HubLink

`saved` is the pair of settings, `link` the connection that `Manager` has made.
`putHubConfig` is `PutHub`, `Unmask` (the echoed mask stands for the stored
token), `CheckHub`, `SaveURL`, `SaveToken`, `SaveFails`, `Apply`. A restart
connects with what it can read of what is saved (`Lookup`). `tangled` is set
when two requests have saved at once, one of them in part, or a start has not
read what is saved: then the stored pair may belong to nobody, or not be what is
connected, which the code does not prevent. The next request that saves while no
other does puts both right (`SaveURL`). The lock by environment variables is
left out: it refuses every request.

### Registry

`putRegistry` and `deleteRegistry` are `PutRegistry`, `UnmaskCred`, `SaveCred` and
`DeleteRegistry`, `DeleteCred`. A call of the client is `Ask` (`newReq` with a token
from the cache), `FirstAnswer`, and after a 401 `Challenged` (a token that is
cached is tried again), `ReadCreds`, `FetchToken`, `SecondAnswer`; `Expires` is a
cached token whose time has come. A read of the credentials that fails finds none
(`Lookup`): a call goes on anonymously (`Misreads`), and the echoed mask is saved as
the password. The registry (external) has one private
repository, and its token endpoint gives anonymous tokens, too. Pages of tags,
manifests and network errors are left out: they end a call early.

## Runs

All runs say `CHECK_DEADLOCK FALSE`: the bounded requests, pushes and stops run
out, and then the system rightly does nothing.

| Run | Instance | Shows |
|---|---|---|
| `engine_safety` | 1 app, 2 workloads, 2 callers, 2 requests, 2 stops, capacity 1, purge | exclusion, owned events, final verdicts, successes that are live to the second, drained shutdown |
| `engine_liveness` | 1 app, 1 workload, 1 caller, 2 requests, 1 stop | events settle, jobs are taken, calls return, shutdown ends |
| `engine_refinement` | 2 apps, one without workloads, 2 callers | `DeployEngine` implements `DeployLog` |
| `engine_id_reuse` | an id given to 2 apps | *violation*: two deploys of one app row at once |
| `relay_safety` | 1 agent, 2 webhooks, 2 overlapping polls, queue cap 1 | wake-ups, at most once, forgotten agents, final refusals; `Relay` implements `Delivery` |
| `relay_lost` | 1 agent that gives up a poll | *violation*: the abandoned poll takes the message |
| `updates_poll` | 3 strategies, 3 versions of which `semver` does not admit the highest and `exact` the middle one, capacity 2, 3 faults; webhooks for `semver`, `exact` | admitted tags only, the recorded digest, catching up unless hidden, coming to an end |
| `updates_lost` | `latest` with webhooks and polls | *violation*: a lost webhook is not made up for |
| `rollout_wait` | both kinds, up to 2 pods and 1 of surge, 2 changes of the spec | old pods are gone, the end is noticed |
| `rollout_stale` | a Deployment with 1 pod, 2 deploys | *violation*: a deploy is failed by the condition of the one before |
| `history_page` | 1 app that may be deleted, 3 events, pages of 1, a channel of 1, 1 fault | fresh ids, complete pages, no event twice, current rows |
| `portal` | 2 handlers, 3 apps, 2 browsers, 2 users of Settings, 1 poller; the loads below | rows and targets belong together, `Apps` implements `AppTable`, clean failures, revoked and kept sessions, the saved connection, requests return, credentials take effect |

The loads of `portal` (`SmallLoads`) are the requests of one behaviour: 3 to the
apps, or 2 and a restart; 4 to the login and a restart, or 2 and two restarts; 3
to the hub's settings, or 2 and a restart; 3 to the registry's, or 2 and a
restart, with a poller; one to
the apps with one to the login or the hub's settings. One load is chosen at
the start: all of them in one behaviour would be too many interleavings for
TLC, and components meet at the connection only, where `PortalComposes` covers
them for every load.

Why the bounds are enough. Exclusion needs two runs, a mutex and one that
replaced it: two requests, one deletion, two epochs. A stop in the middle of a
deploy and another one in the middle of its reconciliation take two stops. A
restart that is taken for another one takes two requests of one second and a
stop. A channel of capacity 1 is full with one job and drops the second. Two
workloads are one that was patched and one that was not. A lost wake-up needs
two polls of one conn and two messages; the combined answer is that of the hub's
own app and an agent, which differ. A stale status and the one that follows it
take two changes of the spec, and two pods are one that was replaced and one
that was not. Two copies of one row, read and streamed, are mixed up with one
change; a gap between pages takes three events, and reuse of an id two. A lost
update of an app takes its creation, the edit and the rotation or deletion
between the edit's statements: three requests on two handlers, three names of
which two differ in case, a file of an update and a creation and one with a bad
second entry. Sessions take a login of each of two browsers and two changes of
the password, a restart after any of them, and a secret for each start and
change; a flag that is cleared, and the default password set again by a start
that can't read, and cut off by another one, take two restarts. A connection
that is not the saved one takes two requests to the hub's settings, of two
tokens, and a third that mends it; a stale token takes credentials that are
wrong or missing, and then right. In `Updates` three versions, pushed in any
order, are an older and a newer one that are admitted and one that is not, which
for `semver` is the highest, so that the poller's choice before the constraint
is put to the test; a queue of two is a stale job behind a fresh one, and full;
three faults are a failed rollout, a failed read and a crash in one behaviour.
Each property has a mutated form of the code, named in the modules
(`AcceptsAny`, `RollingOnly`, `UntakenCopied`, ...), for which the same instance
shows the property violated.

### Fairness

`DeployEngine!Fairness`: every goroutine that can go on does, strongly fair
where it waits for a mutex, since Go's `sync.Mutex` hands a mutex to a goroutine
that has starved for a millisecond; a purge's sleep ends; the handler that
deleted a row goes on to `ForgetApp`; startup and shutdown go on, and
Kubernetes starts a stopped process again. Nothing is assumed of requests,
deletions, crashes and rollouts.

`Updates!Fairness`: the ticker goes on polling, the worker takes its jobs, a
webhook is handled or lost, pods that wait for an image get it. Pushes and
faults need not happen, and are finitely many.

`Rollout!FairSpec`: the wait's loop runs (`WaitStep`; its ticker and its requests
do not depend on the cluster), and the controller writes a status anew when it
is not the one it would write (`Sync`). No fairness of pods, patches or clocks:
`RolloutIsSeen` assumes that the pods stay complete.

`History` has no liveness property: a page may be closed at any time.

`Portal!Fairness`: the process starts; a handler that waits for the connection
gets it (strong fairness of its step), because `sql.DB` hands a connection that
is given back to a waiter, the first one or a random one, depending on the
version of Go; the poller goes on with
its calls while there is polling; a cached token expires. Nothing is assumed of
requests, restarts, the login or the hub's settings.

`Relay` has no liveness property: whether an agent gets a webhook depends on a
network that promises nothing.

## Findings

Four places where the code does not do what a comment or the README says, each
with a run whose trace shows it (details and quotations in `PROJECT.json`):

1. `engine_id_reuse`: `ForgetApp` drops a mutex that is held, and the next app
   gets the row id: the exclusion that `DeploySync`'s comment promises fails.
2. `relay_lost`: a copy "is still delivered", but an abandoned `HandlePoll` takes
   it from the queue and writes it to nobody.
3. `updates_lost`: a webhook's deploy clears the recorded digest, and the next
   poll takes a newer image for deployed.
4. `rollout_stale`: `ProgressDeadlineExceeded` of the rollout before fails the
   deploy that replaces it.

Three more, which have no run of their own. Each is the exception of a property
that holds otherwise, stated no wider than what the code does, so that the run
shows it is the only one:

5. `pollSemver` (`internal/poller/poller.go:160-174`) picks the highest tag and asks
   for the constraint only then. `README.md:33` says of `semver` that it deploys
   when "a newer semver tag appears", and `README.md:306` "enable polling on agent
   apps if you can't afford a miss". While a tag that the constraint does not
   admit is the highest, an admitted one whose webhook was lost stays undeployed,
   however often the poller looks. `updates_poll` checks `CatchesUpUnlessHidden`,
   with `Hidden` as the exception; with `CatchesUp` in its place in `UpdatesPoll.cfg`
   TLC shows the case: three versions pushed, the webhooks of 1 and 2 lost, 3 not
   admitted, and the app at its initial tag for ever.
6. `SeedAdmin` (`internal/httpapi/authn.go:83-103`): "Subsequent boots are a no-op.
   The default password is flagged so the UI can nag the operator to change it",
   and `README.md:141-143` says that it seeds "on first start against a fresh
   database" and "nags you in the UI until you change it". It does not look at the
   error of its read, and `GetSetting` returns none (`internal/store/settings.go:12-15`),
   so a start that can't read the row sets `admin`/`admin` over the operator's
   password. And when the process ends between the hash (line 94) and the flag
   (line 97), the default password stays without its flag: later starts find a
   password and stop there. `UnflaggedMeansCutShort` has the second as its only
   exception: with `cutShort` taken out of it, `portal` shows such a start.
   The first is a step of the model (`SeedLooks`) under which all properties of the
   login hold; the flag comes back with the password.
7. `reconcileEvent` (`internal/deploy/engine.go:220`) compares whole seconds. The
   comment of `ReconcileStartup` (lines 174-176) says that an event is marked as
   success "if the target reached the event's desired state (patched image is
   live, or the restart annotation was applied)". A restart that was cut off
   before it patched anything is confirmed by an earlier event's restart of the
   same second. `SuccessIsLiveToTheSecond` excepts that second; without
   `SameSecond`, `engine_safety` shows it.

Met on the way, where no document promises otherwise, and excepted in the
properties that come near (`PROJECT.json` says which hazard each belongs to):

- An import that fails in the middle with a 500 keeps the apps it has committed;
  `UpdateApp` ignores a token that a YAML file gives to an app that exists.
- Two requests to the hub's settings at once, or one whose second write fails,
  can store the URL of one hub with the token of another.
- Two changes of the password at once can leave different secrets in the
  settings and in memory, and a restart then ends sessions that are in use.
- A full channel or a broken stream between the bus and a page leaves a row stale
  until the page asks again.

## Proofs

Assumptions: only the named ones on the constants (`ConstantsAssumption` and
`CallersAssumption`, `MaxQueueAssumption`, `UpdatesAssumption`,
`RolloutAssumption`, `HistoryAssumption`, `ProcessAssumption`, `AppsAssumption`,
`SessionAssumption`, `HubLinkAssumption`, `RegistryAssumption`), all evaluated
by TLC in the runs.

| Theorem | Statement | Argument |
|---|---|---|
| `DeployEngineProofs!TypeCorrect` | `Spec => []TypeOK` | by `TypeInv`: a goroutine past its request has an app and an action (`JobInv`), and an id was forgotten no more often than it had apps (`Budget`), which bounds the epochs |
| `DeployEngineProofs!Exclusion` | `MaxGen = 1` implies `Spec => []OneDeployPerApp` | by `ExclusionInv`, see below |
| `DeployEngineProofs!NothingLeftQueued` | `Spec => ShutdownDrains` | by `WorkerInv`: a channel that is open, or closed with jobs in it, has a worker, and the current channel of an app is closed only with the engine |
| `DeployEngineProofs!EventsAreOwned` | `Spec => []OpenEventOwned` | by `OwnInv`, see below |
| `DeployEngineProofs!VerdictsAreFinal` | `Spec => VerdictIsFinal` | every write of a status finds its event in flight, by `OwnInv` (`EventChanges`) |
| `DeployEngineProofs!EngineImplementsLog` | `MaxGen = 1` implies `Spec => ImplementsLog` | step simulation on `OwnInv` and `ExclusionInv`: of the runs of an app there is one, so that `LogCurrent` is its event |
| `DeployEngineProofs!SuccessesAreLiveToTheSecond` | `MaxGen = 1` implies `Spec => SuccessIsLiveToTheSecond` | by `LiveInv` and `ClockInv`, see below |
| `RelayProofs!TypeCorrect` | `Spec => []TypeOK` | inductive; the queue's cap from `SubSeq` |
| `RelayProofs!NoSleepThroughMessage` | `Spec => []NoLostWakeup` | `NoLostWakeup` is inductive with `TypeOK`: it says of a conn with messages and a sleeping poll that the signal is pending or some poll is about to take |
| `RelayProofs!DeletedAgentGetsNothing` | `Spec => []ForgottenGetsNothing` | by `ForgetInv`: a poll holds its own agent's conn, the second one only after `Forget`, and a forgotten conn stays empty |
| `RelayProofs!RunsOnce` | `Spec => []AtMostOnce` | by `CopyInv`, see below |
| `RelayProofs!RefusedForGood` | `Spec => []RefusalIsFinal` | by `CopyInv`, see below |
| `RelayProofs!RelayImplements` | `Spec => ImplementsDelivery` | step simulation on `CopyInv` and `ForgetInv`, see below |
| `UpdatesProofs!TypeCorrect` | `Spec => []TypeOK` | a set of versions has a greatest one (`Greatest`, from the well-foundedness of `<`), so that the poller's choice is one of the tags |
| `UpdatesProofs!SeenIsDeployed` | no webhooks for `latest` implies `Spec => []SeenIsRunning` | by `SeenInv`, see below |
| `UpdatesProofs!AdmittedOnly` | `Spec => []OnlyAdmitted` | by `AdmitInv`, see below |
| `RolloutProofs!TypeCorrect` | `Spec => []TypeOK` | from `RolledOutInv` |
| `RolloutProofs!WaitIsTruthful` | `Spec => []RolledOut` | by `RolledOutInv`, see below |
| `HistoryProofs!IdsAreNotReused` | `Spec => NoIdReused` | by `RowsInv`: the newest event of all is in the table. It has row number 1 in its app's partition, so pruning keeps it if it keeps any |
| `HistoryProofs!TypeCorrect` | `Spec => []TypeOK` | from `HistoryInv`; a sort by id is a bijection of the places (`NewestFirstSorts`), so that a merged list is a list of events |
| `HistoryProofs!PagesHaveNoGaps` | `Spec => []PagesAreComplete` | by `HistoryInv` (`PagesInv`), see below |
| `HistoryProofs!NoEventTwice` | `Spec => []ShownOnce` | by `HistoryInv` (`KnownInv`), see below |
| `HistoryProofs!FeedShowsTheRows` | `Spec => []FeedIsCurrent` | by `HistoryInv` (`DueInv`, `BufInv`, `AnswerInv`), see below |
| `AppsProofs!TargetsAreTheRows` | `AppsSpec => []TargetsBelong` | by `AppsInv`, see below |
| `AppsProofs!TablesImplement` | `AppsSpec => ImplementsTable` | step simulation on `AppsInv`: a commit is `Create` or `Edit`, every other statement its own step or a stutter |
| `AppsProofs!FailuresAreClean` | `AppsSpec => FailuresWriteNothing` | by `Vetted`, see below |
| `SessionProofs!UnflaggedOnlyByCutOff` | `SessionSpec => []UnflaggedMeansCutShort` | by `SessionInv`: who is about to clear the flag finds another password in place (`Hashed`), and while `SeedAdmin` runs nobody else has a request (`Started`) |
| `SessionProofs!SessionsAreRevoked` | `SessionSpec => []RevokedStaysOut` | by `SessionInv`: a stored secret that is not in memory is fresh (`Fresh`), and what a change revokes is out of use (`Revoked`) |
| `SessionProofs!ChangerStaysIn` | `SessionSpec => []LoginStaysValid` | by `SessionInv`: `Stays` follows the newest secret through store, swap and sign |
| `PortalProofs!SavedIsConnected` | `LinkSpec => []LinkIsSaved` | by `LinkInv`: while nothing is tangled, one request saves, and finds its own rows (`InOrder`); one that begins to save alone needs nothing of what was before |
| `PortalProofs!PortalComposes` | `Spec => AppsSpec /\ SessionSpec /\ LinkSpec` | every step of `Portal` is a step of each part or of its environment |
| `PortalProofs!PortalTypes` | `Spec => []TypeOK` | inductive, with `LinkInv` for the mask |
| `PortalProofs!PortalIsSafe`, `PortalImplements` | the invariants and the refinement above, of `Portal` | from the parts and `PortalComposes` |

`OneDeployPerApp` is not inductive: two runs exclude each other by a mutex, and
which mutex they hold depends on when they looked it up. `MutexInv` says that a
runner past `l.Lock()` holds the mutex it chose, alone, and that the epoch it
chose is no later than the current one. Two runs of one app on different mutexes
mean that the app was forgotten in between; with `MaxGen = 1` its row is gone
then (`ForgottenIsGone`, from `Budget`), and the foreign key refuses the second
run's event. So exclusion rests on `lockApp` and on the schema together, and
with reused ids it fails (`engine_id_reuse`).

`OpenEventOwned` speaks of a process that serves requests. Made inductive it
says what is true in every mode (`OwnInv`): an active run and a sleeping purge
have an open event each, no two of them the same one; after the drain deadline
runs may leave theirs; and while the process is down or reconciling there is
neither run nor purge, so that nobody but the reconciliation can settle what is
open. That `Enqueue` never overwrites the locals of a worker that is running
rests on `WorkerInv`: a channel that is created has no worker yet. None of this
needs `MaxGen = 1`: ownership and finality of events hold with reused row ids,
too, only exclusion, the refinement and the truth of successes do not.

`SuccessIsLiveToTheSecond` relates a verdict to workloads that the run patched
long before. `LiveInv` says what a run knows at each of its points: its event is
about what it does, and the workloads behind it carry that. Nobody else can have
changed them: a workload is named by its app, and the app's other runs are
excluded. A reconciliation knows no more than the workload's stamp. `ClockInv`
says that events are in the order of their times (`Timely`) and that a workload's
stamp is the time of the event that was the newest when it was restarted
(`Stamped`): a stamp of a later second than the event's is therefore of a restart
after the event.

`AtMostOnce` and `RefusalIsFinal` follow a copy of a webhook from place to
place: a slot of a queue, the batch of a poll, the agent's inbox, the outcome.
`CopyInv` says that an agent has it in one place at most (`OneCopy`), and in
none before `Relay` queues it and if it was not listed; and that what `Relay`
has heard of an agent is what came out there (`Heard`). So `take` and the writes
of `HandlePoll` only move or lose a copy, and an answer other than an acceptance
comes from what every listed agent has reported: none of them has a copy left,
and none has accepted it (`Refused`).

The refinement of `Delivery` rests on the same invariant. `CopyStep` says of every
step but `QueueFor` that it brings no copy to an agent that had none and runs
none that was not there (`Keeps`), so it is `Lose` or `RunCopy`; `Serves` says
that a request is queued once and answered once, so `QueueFor` finds every
agent's copy unsent, and an answer finds the sender without one (`AnsweredInv`).

`SeenIsRunning` needs what the queue, the run and the poller carry: every job's
digest is one that the tag has had (`JobsCarry`), a rollout that is done has
pulled at least its digest (`DoneIsLive`), the poller seeds only before any push
and deploy (`SeedIsFirst`, `PollerHolds`). A webhook for a rolling tag breaks
the last of these, which is finding 3.

`OnlyAdmitted` needs them to carry admitted tags, too: a job in the queue or in
the run is for a pushed tag that the constraint or the pattern admits
(`JobsFit`), and so is what the poller and a webhook have decided on and not yet
queued (`DecidedFit`); a restart, which pulls whatever the tag names, is only
asked for when the strategy is `latest` (`PullsRolling`). As pushed tags are not
taken back, it does not matter how late a job runs.

`HistoryInv` says where the last change of an event can be. If a page will hear of
it at all (the event is not in `missed`), it is due (`DueInv`), the last one of
its event in the channel (`BufInv`), in an answer that is on its way while the
page has not heard of the event (`AnswerInv`), or shown (`FeedIsCurrent`), and in
each of these places it says what the row says. So a streamed copy may win over
a fetched one, and a fetched one fill what the stream has not brought.
`KnownInv` adds that nothing anywhere is of an event that is still to be
created, which is where `NoIdReused` is needed: a new row is on no page yet. It
also says that the list has each event once, from which `NoEventTwice` follows.
`PagesInv` says of a page without streamed events that its requests go on where
its list ends and that, of the rows below the list, an answer has all that it
should (`AnswerIsNext`): events created meanwhile are above the list, pruned ones
leave no gap.

`RolledOut` speaks of the pods now, and the wait has seen a status of the past.
`RolledOutInv` says what such a status is worth: if it counts no pod of an older
template, there is none now, unless the template has changed since
(`NoneComeBack`); a StatefulSet that has settled counts none
(`SettledIsReplaced`), and of a Deployment the equalities of `Done` imply it
(`DoneIsReplaced`). The template is the one the wait asked for (`Asked`).

`TargetsBelong` speaks of two tables of which a transaction writes one after
the other. `Transacts` says that a handler between `BEGIN` and its end holds the
connection and has in its draft the committed tables with its own row put in
(`Drafted`), and its targets once they are replaced: nobody else can have
changed the tables under it, so that its commit is one step of `AppTable`, and
the row it puts in still has the token and the deploys of the committed one.
`Vetted` says what a request may have done where it stands: after a commit it
only reads, or is an import on its way to the next app, whose whole file was
accepted before. That `UpdateApp` leaves the token's column alone is what the
refinement rests on: with it written, an edit undoes a rotation.

`RevokedStaysOut` needs that two changes at once never revoke each other's new
secret: what a change revokes is what had been in memory when it began, and a
secret that waits to be swapped in has not been there (`Fresh`).

Model-checked only: liveness (`EventSettles`, `JobsAreTaken`, `CallReturns`,
`ShutdownEnds`, `CatchesUpUnlessHidden`, `DeploysEnd`, `RolloutIsSeen`,
`RequestsReturn`, `CredsTakeEffect`), as TLAPS does not do fairness. The
liveness of the engine is checked with one workload per app and without a purge:
a second target that fails and a purge are steps of `engine_safety` only, and
the relay's final answers are checked with one agent; there the theorems cover
any number. Every other property of a passing run is a theorem. Those of the
engine that say so need `MaxGen = 1`, without which they are false.

## Plan

Done, in this order, each with its proofs: `DeployEngine` with `DeployLog`,
`Relay` with `Delivery`, `Updates`, `Rollout`, `History`; `Apps` with
`AppTable`, `Session`, `HubLink` and `Registry` on `Process`, and `Portal`.

Left, the most important first:

1. `DeployEngine` over `Rollout`: an abstract workload that both refine, so that
   what a deploy takes for rolling, done or failed is what a wait reports.
2. `DeployEngine` on the tables of `Apps`: edits of targets and settings under a
   queued deploy, and two apps that share a workload.
3. `Relay` with reused row ids of agents.
4. `Relay!Relay` ends its wait by counting answers of any agent
   (`hub.go:138-147`), and `run` records a patch that the drain deadline has
   interrupted as failed (`engine.go:296`): both differ from their comments, and
   deserve runs of their own.

## Not modelled

- Pure functions of strings: parsing of payloads, image references, tags and
  cookies; `normalizeApp`'s trimming and defaults; matching an app by token or
  repository, of which only the statement's result is used.
- Cryptography: hashes and signatures are taken to be perfect. The rate limit of
  logins counts per address and keeps nothing that another part reads.
- Single reads and writes: `getSettings` and the rows for Cloudflare and the
  public URL, cluster listings, statuses, the other pages of the UI; options,
  environment variables and migrations, which end before the process serves.
- Pages of tags, manifests and network errors of the registry client: the
  poller's model has a failing read.
- Failures of SQLite in the engine, the poller and the history, other than the
  foreign key: they are logged, and neither retried nor acted on. (In the
  portal's models a write may fail, and so may the reads of settings and
  credentials.)
- The `lastPolled` times of several apps and the ticker's period: polls come at
  any time.
