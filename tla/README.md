# Yatai in TLA+

Yatai is a server for packaged models ("bentos") and their deployment to
Kubernetes. It has two halves. The Go program `src/api-server`: HTTP and web
socket handlers that share a PostgreSQL database, a Kubernetes cluster and an
object store, and a cron job that reads the cluster. And the dashboard
`src/dashboard`, a React application in TypeScript that asks the server over HTTP
and over web sockets, and keeps what it has got in caches, in refs, in forms and in
the address. This directory models both in TLA+, and where they talk to each other
it models the two ends together; it checks the models with TLC on small instances
and proves central properties with TLAPS for all of them.

* [The system](#the-system): components, state, operations, interactions
* [Modules](#modules): what models what
* [Runs](#runs): what each run shows, its bounds, its fairness
* [Proofs](#proofs): what holds for every value of the constants
* [Where the code and its own words disagree](#where-the-code-and-its-own-words-disagree)
* [What the models show of the code](#what-the-models-show-of-the-code): behaviour a reader may not expect
* [What is abstracted](#what-is-abstracted)
* [Not modelled](#not-modelled)
* [Plan](#plan)

`PROJECT.json` has the same in tabular form: every definition with the lines it
models, every property with a mutation of the code that breaks it, and the hazards
of the code with the properties that cover them.

## The system

The API server is a single process. Every request runs in a goroutine of its own,
reads its resource from the database, checks permissions, calls services and
answers. There are no locks between requests: what order there is comes from
database transactions (READ COMMITTED, with row locks held to the end of a
transaction), from unique keys, and from Kubernetes resource versions. A web socket
handler is a group of goroutines that share a connection and a close channel.

The dashboard is a single thread of events: renders, effects, timers, messages of
sockets and answers of requests. What makes it hard is that a callback sees the
values of the render it was made in, and that answers, pushes and closes come in an
order of their own.

| component | state | operations | correct when |
| --- | --- | --- | --- |
| Deployment lifecycle: `controllers/deployment.go`, `services/deployment.go`, `deployment_revision.go`, `deployment_target.go`, `kube_bento_deployment.go` | the rows of deployment, revisions and targets; one custom resource (CR) in Kubernetes | Create, Update, Update without deploying, Terminate, Delete, SyncStatus | an update supersedes what was active; one revision active; the CR belongs to it; terminated stays terminated; nothing left in the cluster |
| Deployment status: `getStatusFromK8s` | none; computed from pods, image builder pods and the previous status | SyncStatus, from requests, from a goroutine after each update, from the cron job, from pod watchers | converges to what the cluster shows |
| Cron job: `cmd/serve.go` | time stamps of the last sync | sync every deployment that is due | every deployment synced again and again |
| Transactions: `services/db.go` | the open transaction in the context | start or join, write, end | all of a request's statements stored or none; the client is told which |
| Events: `services/event.go` | audit rows | written along every operation | a failed audit record does not harm the operation |
| Bento and model upload: `controllers/bento.go`, `model.go` and services | upload status, object in the store, event | start, upload through the server or with signed URLs, finish | success is only said of what is stored; "uploading" is not left behind |
| Labels: `services/label.go`, `LabelList.tsx` | label rows, unique per resource and key; the page's copy | replace the labels of a resource | exactly the labels asked for |
| Subscriptions: `controllers/subscription.go`, `useSubscription.ts`, the pages that list resources | subscribed ids and last versions per socket; sockets, timers and registered callbacks of the hook | subscribe, resubscribe, poll, push, reconnect | the page shows the current version; no connection left behind |
| Pod watchers: `WsPods` in `controllers/deployment.go`, `useFetchDeploymentPods.ts`, `useFetchClusterPods.ts` | connections of each deployment, and whether they have a manager; the page's connection | connect, poll, broadcast, resign, reconnect | a manager while there are connections; every page gets every change |
| Pod lists: `PodList.tsx`, `PodStatuses.tsx`, `PodStatus.tsx` and the pages with them | the dialog that is open, by pod or by place | open, close, push, reconnect | every pod shown once; a dialog never turns to another pod |
| Log tails: `controllers/log.go`, `Log.tsx` | current request id; refs of socket and request | request, replace, follow, reconnect | no line missing; the log asked for |
| Terminal: `controllers/terminal.go`, `Terminal.tsx` | session, recording; socket, uploads | read, write, time out, save, upload | what is typed arrives where it should; recorded |
| Kubernetes events: `controllers/kube.go`, `KubePodEvents.tsx` | what was sent; throttle | informer, push, reconnect | the newest event is shown |
| Queries and commands: every page, `services/*.ts`, `react-query` | answers by key, requests under way | ask, refetch, command, close | the page shows the answer to what it would ask; reads its own writes |
| Lists and addresses: `List.tsx`, `FilterBar.tsx`, `FilterInput.tsx`, `useQ.ts`, `useQueryArgs.ts`, `usePage.ts` | the query string, and each writer's copy of it | search, filter, turn pages, go back | list, input, filters and page follow the address |
| Deployment form: `DeploymentForm.tsx` | two copies of the form's data, the cached revision | edit, choose, JSON, cancel, submit, open again | what is shown is sent; what no item shows is kept |
| Logs and monitoring: `LokiLog.tsx`, `PodMonitor.tsx`, `DeploymentMonitor.tsx` | filters, form, frame | filter, reload | the frame shows what the filters ask for |
| Interrupt handler, error group, informers | a `sync.Once`; tasks; a cache under a try-lock | | not modelled, see below |
| Organizations, clusters, members, users, tokens, repositories, components | rows | create, list, delete | their transactions are in `Transaction`, their pages in `DashboardPages` |

How they interact. A handler opens a transaction with `StartTransaction` and
passes it down in the context; services that start one join it. Inside it the
deployment handlers also write to Kubernetes, which knows nothing of transactions,
and start goroutines, which do not see what is not committed. The cron job and the
pod watchers call the same `SyncStatus` as requests do. The dashboard sends commands
and asks anew; besides, it subscribes what it has got, and merges what the server
pushes into the cached answers; pods, logs, events and terminals have sockets of
their own, which are opened by effects and closed by their cleanups.

Hard behaviours, by kind: requests interleave between any two statements; a
decision is taken on a row read earlier; the cluster is written inside a
transaction that then fails; the server dies in between; errors are dropped inside
transactions; goroutines start before the commit they depend on; check-then-create
without a lock. In the dashboard: closures that are older than the state they act on;
a socket's close that comes after its successor's opening; a timer that outlives
the effect that set it; a push and an answer that overtake each other; two requests
for one key; several writers of one address; data shared between a cache and a form.
The `hazards` in `PROJECT.json` name the lines.

## Modules

| module | models |
| --- | --- |
| `DeploymentStatus` | `getStatusFromK8s` as an operator on the previous status, the image builder pods and the pods |
| `Deployment` | one deployment: requests, transactions, CR, goroutines, crashes, pods, and the properties |
| `DeploymentInvariants`; `DeploymentProofs`, `DeploymentRows`, `DeploymentOneActive` | inductive invariants of `Deployment`; their proofs and theorems |
| `Leftovers` | which CRs outlive their deployment: `Deployment` with a history of the slips that leave one |
| `Transaction` | the transactions of one request: who opens, joins, commits, and what becomes of each error |
| `AtomicRequest` | what such a request promises; `Transaction` is checked and proved to implement it |
| `Upload` | pushes of one bento or model by several clients |
| `TransactionProofs` | the invariants of `Transaction` and `Upload`, their theorems and the refinement |
| `Subscription` | live updates: the hook, the pages, the server's reader and sender |
| `PodsWatch` | the live pods of a deployment: pages, connections, handlers, their manager |
| `PodDialogs` | the pages that show pods and the dialogs opened from them |
| `LogView` | `Log.tsx` and the handler that tails a log |
| `TerminalView` | `Terminal.tsx` with its uploads and the handler of a shell |
| `KubeEvents` | `KubePodEvents.tsx` and the handlers that send events |
| `SubscriptionProofs`, `SocketProofs` | theorems of `Subscription`; of `PodsWatch`, `LogView`, `TerminalView` and `KubeEvents` |
| `DashboardApi` | for every function that asks the server, the parameters of its answer |
| `DashboardPages` | for every view, its queries and their keys, and its commands |
| `QueryCache` | one view with one of its queries and commands: the cache, requests under way, the dialog |
| `QueryCacheProofs` | its invariant and theorems, for every view of the tables |
| `GrafanaView` | the frames of Grafana and the query they are given |
| `ListUrl` | a list's filters, input, date picker and pagination, and the browser's history |
| `DeploymentForm` | the form that makes or changes a deployment |
| `LabelList` | the component, its page's query, and the transaction that replaces labels |
| `PageProofs` | theorems of `PodDialogs`, `GrafanaView`, `ListUrl`, `DeploymentForm` and `LabelList` |
| `MCDeployment`, `MCSettings`, `MCTransaction`, `MCRequests`, `MCSockets`, `MCPages` | the constants of the runs |

`MCSockets`, `MCPages`, `MCRequests` and `MCSettings` check several modules (or one
module with several values of its constants) in one run. The modules share nothing
that matters to the properties, so a behaviour belongs to one *part*, which is
chosen in the initial state, and the variables of the others keep their values.
`MCSockets`, `MCPages` and `MCRequests` extend the modules they check, whose properties are checked
as they stand: the parts that a behaviour is not about stay in an initial state, where they
hold. For liveness the MC module has a property that begins with the part it is about.

### Deployment

The state follows the code's own: `row` is the status column of the deployment's
row (`"unborn"` before Create, `"deleted"` after Delete), `revs` the status of each
revision row, `nextRev` the id sequence, `cr` the revision that the CR in the
cluster was last written for, `pods` and `builders` the statuses of its pods. A
goroutine `p` has a program counter `pc[p]` and the locals the code keeps: `op`,
`mem` (the status in its copy of the deployment), `calc` (the status computed from
Kubernetes), `list` (the active revisions it has listed), `left` (the targets it
has still to deploy) and `saw` (what it knows of the CR's resource version). An
open transaction has its uncommitted writes: `own` (the revision it inserted), `off`
(those it made inactive, whose row locks it holds), `wrote` and `locked` (the
deployment row). `seen`, `superseded` and `lost` are history: the active revisions
when a transaction began, those a committed one has superseded, and revisions that
were rolled back after the CR had been written for them.

A step is one SQL statement or one Kubernetes call, for between any two of them
other goroutines run. The path of an update through the code and its actions:

| code | action |
| --- | --- |
| handler reads the deployment, `StartTransaction` | `Arrive` |
| `DeploymentService.Create` / `Update` | `CreateRow`, `NameTaken` / `Describe` |
| `doUpdate` lists active revisions, decides on a record | `ListActive` |
| `DeploymentRevisionService.Create`, targets | `InsertRevision`, `InsertFails` |
| `DeploymentRevisionService.Deploy` lists again | `Relist` |
| makes the old ones inactive, one by one | `Deactivate`, `Deactivated` |
| per target: get the CR, create or update it | `GetCR`, `WriteCR`, `WriteConflict` |
| deferred: status image-building, goroutine | `MarkBuilding`, `StatusFails` |
| `df(err)` | `Commit`, `Rollback` (as part of every failing action) |

Terminate is `MarkTerminating`, `ListNewest`, `DeleteCR`/`TerminateFails` and then a
sync; Delete is `Delete`/`DeleteRefused`; SyncStatus is `MarkSyncing`, `ReadKube`,
`StoreStatus` for whoever runs it, a request or a `Syncer`: a goroutine spawned by
`MarkBuilding`, or the cron job and the pod watchers (`CronSync`). PostgreSQL is
modelled from what the code asks of it: statements see committed rows and the
transaction's own (`Visible`), an UPDATE waits for the row's lock (`RowFree`), a
cycle of waits fails one of its statements (`Victim`), and after a failed statement
the transaction can only roll back (`"aborted"`).

`Leftovers` adds one history variable, `slipped`: the CRs that were there when one of three
slips happened. A termination ends between marking the row and deleting the CR
(`BreaksOff`: listing or deleting has failed, or the server died); a sync stores an old end
over the status of a deployment that has been deployed again (`EndsAgain`); a deletion goes
by a copy of the row that is not the row any more, or comes in the middle of a termination
(`Overtakes`).

### Transaction

`startTransaction` (`services/db.go:152`) opens a transaction, or joins the one in
the context, and returns a callback that every caller defers. What a request does
with it depends on three things that are easily got wrong: which `err` variable the
callback is given, which errors are returned, dropped or logged on the way, and
that PostgreSQL refuses everything in a transaction after one failed statement and
turns its commit into a rollback. So a request is a program (`CreateDeployment`,
`UpdateDeployment`, `RegisterComponent`, `CreateBento`, `UpdateBento`,
`FinishUpload`, `CreateCluster`, `CreateOrganization`), read off its handler: its
statements, each with what the code does with an error of it (`onErr`) and, if it is
deferred, by which step (`since`). The state is `at` (the next step) and `done` (the
steps that have succeeded), `session` and `joined` (the `TransactionDBWrapper` in the
context and the frames that found one there), `err`, `told` and `panic` (the variable
the callback looks at, whether the handler returns an error, whether it panics),
`pending` and `stored` (writes, by step), and the `answer`.

| code | action |
| --- | --- |
| `startTransaction` | `StartTransaction`, `StartFails` |
| a statement through `mustGetSession` | `Statement`, `StatementFails` |
| an error without a failed statement | `Refuse` |
| calls to Kubernetes | `Call`, `CallFails` |
| the callback | `Commit`, `Rollback`; `LeaveJoined` in a frame that joined |
| return, panic, end of the process | `Answer`, `Panic`, `Crash` |

Two details decide. In `bentoService.Update` the labels block has an `err` of its own
(`services/bento.go:574`), so the callback commits although the caller returns the
error: `onErr` is `"hide"`. And `EventService.Create` joins the transaction of the
deployment's creation; the caller only logs its error, but the transaction is aborted,
its commit is a rollback that nobody notices, and the client is told of success.

`AtomicRequest` knows of units of writes that are stored at once. `Transaction`
implements it with the outermost frames as units (`Atomic`); writes whose error
nobody insists on (`Optional`) may be missing, which is where the two details show.

### Upload

One row, which exists from the beginning (`Create` is in `Transaction`). A client
pushes through the server (`Upload`: update, `PutObject`, update, deferred event) or
with signed URLs (`StartUpload`, `PreSignUploadUrl` or the three multipart calls, its
own transfer, `FinishUpload`). Both routes run through the same stages:

| code | action |
| --- | --- |
| `StartUpload`; `Upload` up to its first update | `BeginPush`, `BeginPushFails` |
| `PreSignUploadUrl`, `StartMultipartUpload`, `PreSignMultipartUploadUrl` | `Grant` |
| `PutObject`, the client's PUT, `CompleteMultipartUpload` | `StoreTakes`, `StoreFails` |
| `FinishUpload`'s update; `Upload`'s last one | `Report`, `ReportFails` |
| the event "pushed", deferred in `Upload` | `Note`, `NoteFails` |
| the client or the server ends | `Leave`, `ServerEnds` |

`MakeSureBucket` looks again when making the bucket fails, so two first uploads do not
disturb each other; it is part of `Grant` and `StoreTakes`. The client (BentoML) is not in
the repository and is taken to report success only of what the store acknowledged.

### Subscription

`useSubscription` is used by every page that lists or shows bentos, models and
deployments. Its effect runs again when the organization becomes known or changes;
each run has its own `selfClose` and retry timer, all share `wsRef` and
`cbItemsRef`. The server's handler has a reader, which changes the map of
subscriptions, and a sender, which goes through it every few seconds.

| code | action |
| --- | --- |
| the effect, its cleanup (`useSubscription.ts` 90-190) | `Rerun`, `LeavePage`, `Teardown` |
| `connect`, `onopen`, `onclose`, the retry timer | `OnOpen`, `OnSocketClose`, `Cut`, `Retry` |
| `subscribe`, `unsubscribe` and what they send | `Subscribe`, `Resubscribe` |
| a page's query and its effect | `Refetch`, `Turn`, `QueryReads`, `QueryReturns` |
| a push, and how each page merges it | `OnMessage` |
| `subscriptionController.SubscribeResource`: reader and sender | `Handle`, `ConcurrentMapWrite`, `SendReads`, `SendWrites` (in any order: it ranges over a map), `Close` |

What a page subscribes, and which type its callback is for, is `Component(p)`: there
is an entry for every page that uses the hook.

### PodsWatch and PodDialogs

`PodsWatch` has pages with their connections and the handlers (`WsPods`) that serve
them. `pc[c]` follows a handler from the registration of its connection
(`Join`) over its first message (`ReadPods`, `WriteFirst`) to the loop in which it
waits for the manager to go (`SeeNoManager`, `Claim`: two steps, as in the code), then
as manager (`Listen`, `Send`, `SendNothing`, `SendFails`) until it resigns (`Resign`).
`PodDialogs` is what pages make of the pods: how `PodList` and `PodStatuses` split them
by runner and by canary, which ball gets which colour, the dialogs, and what becomes
of these when pods are pushed. A table keeps the pod of its dialog; a ball is keyed by
its place in the row.

### LogView, TerminalView, KubeEvents

Each has both ends. `LogView`: refs that all sockets share (`wsOpenRef`, `reqIdRef`),
closures of earlier renders (`captured`), the handler with its `currentReqId`, the
snapshot and the goroutine that follows from the moment before the snapshot was read.
`TerminalView`: the component's socket, heartbeats and uploads; the handler with its
goroutines, and the recording as a number of outputs.
`KubeEvents`: handlers that send each event once, and the page's throttle, which makes
the first call of a window and the last.

The goroutines of the shell's handler share a connection, a channel and a recording, and no lock but
the recording's:

| code (`terminal.go`) | action |
| --- | --- |
| the handler up to its shell: the watcher starts with `NewWebTerminal`, and there are returns after that (272-334) | `Refuse`, `Make`, `Start`, `StartFails` |
| the shell's stream ends; `writeWsError` | `StreamReturns`, `ErrorWritten` |
| `Write` and `ConnWrite`: append to the recording, then send | `Output`, `AppendOutput`, `SendOutput` |
| `Read`: a message; a heartbeat, which `Read` itself answers on the connection, or fails to | `Read`, `InputLost`, `HeartbeatRead`, `Replied`, `ReplyFails` |
| `Read` after a timeout: it tells the page and ends | `Parted` |
| `Read` finds the connection gone: `Close`, `doClose`, `SaveContent` | `ReadFails` |
| two of them write to the connection at once | `ConcurrentWrite` |
| `watchRead` with its thirty minutes, two ticks here | `Tick`, `Expire` |

### DashboardApi, DashboardPages, QueryCache

The dashboard's pages differ in data, not in control: a query has a key, parameters
that its answer depends on, a condition, and a place where the answer is shown or kept;
a command does its steps in an order (write, refetch, await, close). `DashboardApi` has
the parameters of every function in `src/dashboard/src/services`, `DashboardPages` the
queries and commands of every view, and `QueryCache` runs one of them at a time through
`react-query`'s rules as the dashboard uses it: one answer and one request per key, asked
anew on mount, on focus and on another key.

| code | action |
| --- | --- |
| a view comes on display; its route or selection changes; the window is focused | `CacheInit`, `Turn`, `Visit`, `Focus` |
| the server reads, the answer comes | `ServerReads`, `Answered`, `Failed` |
| effects that keep an answer in the global state | `Effect`, `Keep` |
| dialog, form and submit handler | `OpenForm`, `Submit`, `Write`, `WriteFails`, `Refetch`, `KeepWritten`, `Close`, `CloseForm` |

### ListUrl, DeploymentForm, LabelList, GrafanaView

`ListUrl`: the query of the address is read and written by the filter bar, the input,
the pagination and the list, each through a ref of its own (`refs`), with the input's two
effects, that of the date picker of `EventListCard` (`range` is its state, or that there is none), and
the browser's back and forward. Effects that are due after one rendering run together (`RunEffects`), and
each writes from what that rendering had. Texts are sequences of items, and parsing and
writing them (`ParseItem`, `Written`) is what `useQ` does.
`DeploymentForm`: `ui` is what the items show, `values` what is sent; `Merge` is
`mergeWith` with its customizer: what the source does not have stays, runners of another bento too,
and what has `bento_deployment_overrides` keeps them, the target as well as each runner. It writes into the
objects it is given, among them the query cache's own runners (`shared`). `origin` is what the form
was opened with. `OtherRevision` is anybody's: of another bento with other runners, with other overrides or
none. `handleFinish` writes the configuration in place, and there it stays after a refusal.
`LabelList`: the component with its editing and adding, and the transaction that deletes
what is not sent and puts the rest, statement by statement.
`GrafanaView`: the toolbar, the filters' form and the frame; the expression is kept as
what it means. The keyword is sent as a regular expression that ignores case, a filter as one if its box is
ticked. What a word finds as a regular expression is a constant (`Pattern`), as are the words that are
none (`NoRegexp`), the pieces that differ in case only (`Alike`) and what Loki reads between the quotes
(`Unquoted`); an expression with a bad word is an error (`ok`).

## Runs

All runs check for deadlock except `sockets`, `sockets_live` and `pages`, where bounds
on connections, changes and the user's moves let the system stop.

| run | bounds | shows |
| --- | --- | --- |
| `concurrent` | 2 requests, 4 revisions, 2 targets, faults | `Supersedes`: after an update has committed, no revision that was active when its transaction began is active ever again; `SomeActive`: a deployment with revisions has an active one; `TypeOK` |
| `deployed` | the same, updates that deploy only | `CRBacked`: the CR belongs to an active revision, to an open transaction, or to one that rolled back after writing it |
| `settings` | 3 revisions, 1 target, one goroutine that syncs, faults; two settings: one request at a time, or concurrent updates that have a description | `AtMostOneActive`, if every update has a description or requests come one at a time; `NothingLeftBehind`: a deleted deployment has no CR, but for one that a slip of `Leftovers` or a rollback has left |
| `sync` | one request at a time, one goroutine, pods and builders in every state the status distinguishes | `NoRevival`: `terminated` is left only by a request, by a sync with an older copy, or because an image is being built |
| `live` | as `sync`, with fairness | `TerminatingEnds`: no deployment stays in `terminating` without running pods; `StatusConverges`: the stored status becomes `running` once the pods run for good |
| `delete_race` | 2 requests | finds `DeleteOnlyTerminated` violated, see below |
| `transactions` | every kind of request with failing statements and commits, refusals, crashes; 2 clients that push twice each | `Atomic`: each transaction is stored at once and whole or not at all; `Honest`: the client is told of success only if everything the handler insists on is stored, or an error went unheeded; `ClaimsStored`: neither row nor event says success of a push that is not stored; `Settled`: `uploading` is left behind only by a push whose last report was lost; `NothingOpen`: however a handler ends, each transaction it opened has ended too; `TypesOK` |
| `panic` | panics | finds `PanicRollsBack` violated, see below |
| `failed_event` | no faults: handlers refuse | finds `FailureRecorded` violated, see below |
| `sockets` | 3 sockets and 2 runs of a list's effect, 2 resources on the other pages; 2 pages and 2 connections of pods; 2 lines, 2 containers; 2 outputs and 2 uploads of a shell; 3 events; 2 versions, 2 queries | `ShowsCurrent`, `Orphans`, `UpToDate`, `NoGap`, `Heeded`, `TypedHere`, `PanicsExplained`, `ShownIsStored`, `EventsShown`, `TypeOK` |
| `sockets_live` | one version, no change of pods, with fairness | `ListReconnects`: a page on display gets a connection again; `PodsManaged`: connected pages get a manager, again and again; `PodsLoad`: a page gets to show pods; `LogStreams`: a line that is logged is displayed unless something takes over |
| `pages` | 4 pods; every view with every query and command, one change of a parameter; 4 words and one line filter; 3 moves in a list; 2 bentos, 2 revisions, 2 edits and openings of the form, 2 changes of labels | `ShownOnce`, `Follows`, `Kept`, `OwnData`, `ReadsOwnWrite`, `LogShowsWanted`, `FollowsUrl`, `FormAgrees`, `LabelsKept`, `TypesOK` |

What the properties of the last three say, with the exceptions the code has:

* `ShowsCurrent`: when nothing is under way, a page shows the current version of what it
  lists, unless an answer that the server had read earlier came after a newer push, or the push
  came while nothing was registered for it (the page had listed it while the hook had no socket).
* `Orphans`: a connection of a run of the effect that has been cleaned up belongs to a run
  whose retry timer was set at the time.
* `UpToDate`: pages display what the manager has sent last, or their own handler's first
  message, which is written outside the lock and may come later though it is older.
* `NoGap`, `Heeded`: no line is missing between snapshot and following; at rest the log is
  the one chosen, or the one chosen when the effect last ran and asked for by a reconnect.
* `TypedHere`, `PanicsExplained`, `ShownIsStored`: input goes to the container the dialog is
  about; the process panics only after half an hour in which the handler heard nothing from the page (the
  watcher closes a channel twice), or when two goroutines write to the connection at once, or one
  stores the recording while another appends to it; a recording that is stored has all that was shown.
  Which sessions are not stored at all is no exception but the code's own course: see below.
* `EventsShown`: at rest the newest event is on display, and none more often than there were
  connections.
* `ShownOnce`, `Follows`, `Kept`: pods are displayed once however they are split; a dialog
  shows the pod it was opened for or none; a push closes no dialog of a table.
* `OwnData`, `ReadsOwnWrite`: at rest a view shows the answer to what it would
  ask now, but for parameters that its key leaves out; a dialog that closes by itself has
  done what it was for, and what it wrote is on display if it was asked for anew.
* `LogShowsWanted`: with plain words, a log shows the lines that were asked for, neither more nor fewer; with
  any words it shows an error or no line of another deployment and none that a plain filter rules out; and
  it asks for as many lines as the toolbar says, unless that is no number.
* `FormAgrees`: what is shown is sent, but for a runner of which nothing is shown; what no item shows
  would be sent as it was when the form was opened; and a form that nobody has touched shows the server's
  revision. It would send that, too, if it was opened with it. A form that has come to a later revision
  while it was open sends the first one's overrides and runners again.
* `FollowsUrl`, `LabelsKept`: the conjuncts are named and commented in their modules.

Bounds. `MaxRev` is the number of revisions ever inserted; three of them let two
concurrent updates meet a revision active before both and commit in either order,
a fourth lets an update meet the two they leave active side by side,
and rolled back ones use up numbers as in the code. Two targets make the code write the
CR twice in one transaction and overwrite its own version. Two requests suffice for
every race between two parties; what a third would add, the proofs cover. `Serial`, `Describes`
and `Faults` restrict the runs whose
property needs it, and each property says so: `AtMostOneActive` fails for concurrent
updates without a description (they leave both their own revisions active; what
holds without any restriction is `Supersedes`). `NothingLeftBehind` has no restriction: what
failures, syncs and other requests may leave is named by its slips, and proved for any number of them; in the run
requests come one at a time beside a goroutine that syncs, and everything may fail. Two pushes of each client let a
second one begin while another's ends and after its own was cut off; the theorems cover more.
Three sockets let a retry, a rerun and a leftover timer meet. Two connections of each page
let a page reconnect while its old handler is still the manager. Two lines and two log sockets
let a line fall between snapshot and following, and an old close come after a new open. Three
events are the least of which a throttle drops one. One change of a parameter lets an answer
under way cross it; the third move in a list is what brings back a stale copy of the query.
One line filter meets the keyword and the probe's filter.

Some parts of `sockets` and `pages` are cut to what their properties need, in the MC module: uploads come
before the shell's handler gets going, since they share nothing with it; of the log's toolbar and its form one
thing is in use at a time (`OneThingAtATime`), while queries come from what has been applied of all of them;
addresses have dates only where there is a picker, which costs one move (`DatesIfPicked`); and a form that meets a
second revision is edited once, and not twice, while it is open (`FewRevisions`). The theorems have none of
these restrictions.

Fairness. `live` uses `FairSpec` of `Deployment`. Requests and transactions progress (weak
fairness of `TxStep` and `EndStep`): each statement is answered or times out. The
cron job comes every minute (weak fairness of `CronSync`). Its steps get strong
fairness: a sync waits for a row lock that requests take and release and may be
cut off by its timeout, but not each time. `sockets_live` uses the fairness of its three
modules: a socket that connects opens or closes, timers fire, messages arrive, and a
handler's loop goes on, for these are a browser's and the runtime's own promises; where
handlers wait for the manager's place, finding it free is strongly fair (`SeeNoManager` of `PodsWatch`),
since a handler looks again every ten seconds and is not unlucky each time. Nothing is assumed of clients, of pods,
of users or of failures.

## Proofs

The theorems hold for any values of the constants: any number of requests, goroutines,
revisions, clients, sockets, pages, events, moves. Each rests on an inductive invariant,
which TLC had checked on a small instance before it was proved. Assumed are only
`DeploymentAssumption`, `TransactionAssumption`, `SubBounds`, `LogBounds`, `EventsBounds`,
`PodNames`, `WordsAssumption` and `LabelConstants`: types of the constants, that requests are no
syncers, that there are finitely many resources, that a pod has a container, that what stands for "no
pod" is no pod's name, that the empty text is no key and no word that can be typed, that every word may be in a
line, and that the probes' name is read as it is; a theorem that needs more says so in its statement.

### Deployment

* `TypeCorrect`: `Spec => []TypeOK`.
* `UpdatesSupersede`: `Spec => []Supersedes`. The invariant `SupersedesInv` adds
  what makes it inductive: *phases* (only a transaction past its insert owns a
  revision, only one past its listing has made any inactive), *numbers* (revision
  ids are fresh: nobody has seen one that is not committed), *histories* (what
  was seen when a transaction began was committed before) and *covered* (what a
  transaction saw at its beginning and is still active, it has listed; what it has
  listed, it has made inactive once it is past that loop). A revision that was
  active at the beginning is therefore listed or no longer active, and revisions
  never become active a second time.
* `SomeRevisionActive`: `Spec => []SomeActive`. What makes revisions inactive has
  inserted one (`Replaces`); so a commit always leaves one, and with none active there has
  never been any (`OneRemains`).
* `LocksInvariant`: `Spec => []LocksInv`. Whoever has written the deployment row holds its
  lock, and no transaction that has written it or owns a revision survives the row's
  deletion (`RowLocks`). The next two theorems begin here.
* `OneActive`: `OneAtATime => (Spec => []AtMostOneActive)`, where `OneAtATime` says
  that requests come one at a time or every update has a description.
  `ExclusiveInv` adds that no two transactions past their first statement hold the row's
  lock, and that what is active then is still what was active when the exclusive
  transaction began.
* `DeletedIsGone`: `LeftoverSpec => []NothingLeftBehind`, for any number of requests and syncs, with every
  failure and crash. `LeftoverInv`: a deployment that is terminating or terminated has no CR, but for one that
  is accounted for, about to be deleted, or just written by an open transaction (`EndsWithoutCR`); a CR is
  that of a revision or of an open transaction (`Traced`), so that Terminate, which looks for the CR through
  the active revision, finds it (`SomeRevisionActive`); a transaction that has written the CR commits
  `image-building`, and a sync ends only what has ended in its own copy (`Deploying`).
* `CRIsBacked`: `EveryUpdateDeploys => (Spec => []CRBacked)`. `BackedInv` adds that nobody takes
  a revision of an open transaction for an old one (`Committed`), and that a transaction
  which has written the CR has taken it from the revisions it makes inactive (`TookOver`): so when
  it commits, the CR's owner, if not its own revision, is another's that is still active or open.
* `SyncsReviveNothing`: `Spec => NoRevival`, an action property. A sync that started from
  `terminated` stores `terminated` or what the image builder's pods say (`StaysTerminated`);
  every other way out is one of the exceptions the property names.

### Transaction

`TransactionProofs` first proves of each program that it is well nested (`ProgramsNest`): every
frame ends, frames contain each other or are apart, a deferred statement stays inside the
frame it was deferred in, a logged error is in a frame, and no statement that the handler
insists on comes after an error which the callback does not see. From there on the proof knows no program.

* `TransactionInvariant`: the frames on the stack, the session and the writes belong together
  (`Entered`: of the frames the request is in, the outermost opened the session, all others
  joined; `Held`: there is a session exactly inside frames; `Parted`: what is pending was
  written inside the outermost frame, what is stored before it), and so do errors and what is
  missing (`Causes`, `Whole`, `Kept`).
* `NothingStaysOpen`, `AnswersAreHonest`: for every kind of request, whatever fails or panics.
* `RequestTypes`: `RequestsSpec => []TypesOK`, of the run's own specification.
* `RequestsAreAtomic`: `Transaction` implements `AtomicRequest`, if only handlers with one write in
  each transaction panic (`WritesOnce`). The hypothesis is needed: the callback commits what a
  panic leaves, so a transaction with several writes is stored in part. That is what the run
  `panic` shows, and the run `transactions` lets no handler panic.

### Upload

* `ClaimsAreStored`: `UploadSpec => []ClaimsStored`, and
* `PushesSettle`: `UploadSpec => []Settled`. Neither is inductive alone: `UploadInv` adds that a
  push that has ended says so, and says success only if the store has its object
  (`EndsKnown`), and that only a client with a signed URL is past `Grant`
  (`GrantsAreSigned`), so that a crash of the server, which ends proxied pushes, knows whom
  it cuts off.

### Subscription

* `OnlyTimersLeaveOrphans`: `SubSpec => []Orphans`. `HookInv`: sockets are opened in turn; a run of
  the effect has one that is alive, its last, or a timer, never both (`OneAlive`); a run that is
  over closes what it has by itself, unless its timer outlived the cleanup (`LetGo`).
* `PushesAreShown`: `SubSpec => []ShowsCurrent`. `DisplayInv`: nothing is ahead of the database; what
  a connection has pushed last has arrived or is on its way (`Told`); if the display is behind
  what has arrived, an answer overtook it or nothing was registered (`Excused`). The second of the
  exceptions was found by this proof: with the run's bounds no behaviour gets there, with one
  more socket and query TLC shows it.

### PodsWatch, LogView, TerminalView, KubeEvents

* `PagesAreUpToDate`: `WatchSpec => []UpToDate`. `HandlersInv` says which handlers are in use and that
  whoever sent last is manager, or has resigned because its client left; `ManagerShown`, that while
  its client is there every page displays what it knows, but for the exceptions of `UpToDate`.
* `NoLineIsMissing`, `LogIsHeeded`: `LogSpec => []NoGap` and `LogSpec => []Heeded`, in one invariant.
  `LogInv`: each request has a number of its own (`Numbered`); a run has one socket that is not
  over, or a timer, and an open one is `wsRef`'s (`OneInUse`); there, the last request waits, is
  worked on, has its snapshot on the way or is on display (`Served`). Of a request that waits or is
  worked on nothing is seen (`Early`), its snapshot is the first message of it (`SnapshotFirst`), and
  every line that is to be appended, now or by a goroutine that follows, joins what is there by then
  (`InSequence`): that holds because the handler looks at the clock before it reads the snapshot.
* `TypesWhereItShould`, `OnlyLullsAndRacesPanic`, `WhatIsShownIsStored`: `TypedHere`,
  `PanicsExplained` and `ShownIsStored`, in one invariant. `TermInv` adds that a socket in use is for the
  container the dialog is about (`SocketOfPage`); that the watcher's timer is never ahead of the page's silence
  but while a heartbeat is being answered, so that without a lull it can run out once at the most, and the
  reads end with that (`TimerBehind`); that what has been shown is in the recording, and that a recording is only
  stored when the socket is lost, after which nothing more is shown (`Kept`).
* `NewestIsShown`: `EventsSpec => []EventsShown`. `EventsInv`: a run has one connection or a timer
  (`OnePresent`); a handler has sent every event up to where it last looked, each in one message
  (`OnceSent`); the newest one is in the last message, in the last call of the window, or on display
  (`Newest`); an event on display, or about to be, has a connection of its own for each time
  (`Counted`), which is an argument on cardinalities.

### QueryCache

The views are the finite tables of `DashboardPages`, but parameters, moves, requests and versions are
unbounded. `TablesAreSound` checks the tables once: each key has what the answer depends on (but for
the named exceptions), each command follows one of the courses, and a command that waits for its
query has the same parameters. The rest knows no view.

* `ShowsOwnData`: `CacheSpec => []OwnData`, for answers are filed under the key of what was asked, one
  per key (`Filed`).
* `DialogsReadOwnWrites`: `CacheSpec => []ReadsOwnWrite`. Between write and close, a request under way
  that has been read was read after the write (`Fresh`), and once awaited its answer is what is shown
  (`Landed`); `Ordered` ties the steps left to do to what has been done.

### PodDialogs, GrafanaView, ListUrl

* `DialogsFollow`, `DialogsKept`: `Spec => []Follows` and `Spec => Kept`. `HeldInv`: an open dialog is
  of a pod and, if not of a table, in the row that the pod is of, whatever pods are pushed. So looking
  the pod up in that row is as good as in all pods.
* `LogFollowsToolbar`: `GrafanaSpec => []LogShowsWanted`, whatever words find as regular expressions. That
  filters stay a sequence of line filters (`FilterLists`) is all the state it takes; the rest is what the
  query means, line by line (`ListsShowWanted`).
* `ListFollowsUrl`: `PageTurned`, `OneOpen` and `AllOffered`, three of the six conjuncts of `FollowsUrl`,
  for lists of any length with at least one item to a page. `PagesInv`: of all writers of the
  address only the table has another page in its copy than the address that was opened (`OpenInv`: no
  filter is left with a click that it took for its own).

### DeploymentForm

* `FormsAgree`: `FormSpec => []FormAgrees`, for any bentos and runners. `AgreeInv`: what items show is in
  `values`, at rest as in the middle of an edit. `HiddenInv`: `values` keeps what `origin` has and no item
  shows (`Keeps`); the runners whose objects are the cache's are among those of `values`. `CurrentInv`: a form
  that was opened on a fresh cache and not touched has come to the server's revision, or to the first while the server
  has the second; its items show that revision's runners, and as long as they show those of `origin` it would send
  them. `SetUIEffect` says what the effects and `mergeWith` do to any two copies, and `MergeKeeps`, `MergedSame`
  and `MergedFirst` what a merge leaves of runners and overrides; there is one lemma for each action.

### LabelList

* `OwnLabelsKept`: `LabelSpec => LabelsKept`, an action property of transactions that run at once,
  statement by statement. `LabelInv` says for each key that nobody else has written how far a
  transaction has come with it (`Listed`: yet to delete or put, in between `GetByKey` and the write, or
  written), so that the commit leaves its list; and while changes are clean, that at most one is under way,
  that it was made from what is stored (`FromPresent`), and that what is stored is what was wanted.

### Only model-checked

* Liveness (`TerminatingEnds`, `StatusConverges`, `ListReconnects`, `PodsManaged`, `PodsLoad`,
  `LogStreams`),
  which is out of the prover's reach.
* `InputMeansUrl`, `DatesMeanUrl` and `Settles` of `ListUrl`: that parsing what has been written gives what was written
  is an induction over texts, through a fold with an operator as a parameter.
* `ShownOnce` of `PodDialogs`: it is about `SelectSeq`, `SortSeq` and `FlattenSeq`, of which the library has
  no facts.
* The types in the modules other than `Deployment` and `Transaction`: their invariants state the
  types that the proofs use.

## Where the code and its own words disagree

* `delete_race`: `deploymentService.Delete` refuses with "deployment is not
  terminated" (`services/deployment.go:694`), but looks at the copy of the row the
  request read. TLC's trace: the deployment is terminated, a delete reads it, an
  update deploys it again and commits, the delete goes through. The row is gone and
  the CR of the new revision runs on.
* `panic`: the callback of `startTransaction` has
  `if p := recover(); p != nil { tx.Rollback(); panic(p) }` (`services/db.go:181`).
  `recover` only works in a function that is itself deferred; the callback is called
  by one (`defer func() { df(err) }()`). It returns nil, `err` is nil, and the
  callback commits what the handler had written when it panicked.
* `failed_event`: when creating a deployment fails, its deferred function records an
  event "created" with status failed (`controllers/deployment.go:167`), but with
  `ctx_`, in the transaction that is rolled back right after.

## What the models show of the code

Behaviour that the properties state as an exception, or that shows in a model, and that a
reader of the code may not expect. No document of the repository promises otherwise, so
these are not findings.

Server. An error in the labels block of `bentoService.Update` and `modelService.Update` is
returned and committed all the same; for a failed statement PostgreSQL aborts the transaction
and nothing is stored. In `modelService.Update` the deferred assignments test `err != nil`
(`model.go:479` and on) where a bento's test `err == nil`: the answer to starting or finishing a model's upload
has the old status. The proxied upload stores its times in `upload_started_at` each time
(`bento.go:217`, `231`), and sets its status variable to success before the row is updated: if that
update fails the event says success and the row `uploading`; a model's handler panics instead, for
`model` is nil by then. A second push may turn a version that is stored into `failed`.
Deleting a deployment takes its rows only. Its CR stays in the cluster if the termination before broke off, if a sync had stored an old end over a new deployment, or if the deletion came from an old copy.

Sockets. The retry timer of `useSubscription` outlives the cleanup and takes `selfClose` back: the
socket it opens is nobody's. What a page lists while the hook has no socket is registered with nobody
until the list changes again: a push of another socket for it is dropped, and the old version stays. An answer under way and a push overtake each other. A page's first
pods can be older than what the manager sent. A log's reconnect asks for what was chosen when the
effect ran; an old socket's late close clears `wsOpenRef`, from when on no choice is sent. A
terminal whose container changes stays dead. Its handler answers heartbeats from the goroutine that reads, while another
writes what the shell puts out: gorilla/websocket allows one writer at a time and may panic (`terminal.go:207`
and `236`). If that answer fails, or after thirty minutes of silence, `Read` ends without `doClose`, and the
recording of the session is never stored (`terminal.go:191-218`). A handler that returns between
`NewWebTerminal` and its stream (no such debugger, no executor) leaves the watcher behind, which closes `timeoutCh`
twice and so takes the process down an hour later. Events that are neither first nor last in a window
of the throttle are never displayed.

Pages. `fetchOrganizationModelModules`'s key contains "[object Object]" and no organization;
terminal records' key has no namespace; several keys do without the organization, which the header
changes. Layouts keep an old context when the uid does not change, and a change of the organization
is taken back by the layout's effect. `EventListCard` offers a filter for operation names and words
that `organization.go` 174-230 ignores. `ModelListCard` has five titles and four cells,
`ModelRepositoryListCard` four cells for three titles. The "updated at" of deployments shows when the
revision was created. Five components are imported by no page (`ClusterSidebar`,
`BentoRepositorySidebar`, `ModelRepositorySidebar`, `DeploymentSidebar`, `OrganizationListCard`).

Lists. Every writer of the address starts from its copy at mount: going back to another query
pushes a new address and loses the page; an address opened with `page=3` keeps page 3 under every
filter. A filter without a value (`is:creator`) crashes the page.

Form. `mergeWith` writes into the cache's runners, so a cancelled edit is there when the form is
opened again. Editing before the list of bentos arrives, or choosing another bento, blanks the runners'
tabs while the old values are sent; searching in the bento selector or another user's revision resets
edits; a form that another user's revision overtakes shows that, and still sends the runners and the
overrides of the revision it was opened with; a cluster's default namespace overwrites the one on display; submitting without a cluster closes
the form as if it had worked; an empty number with a unit is sent as "undefinedGi".

Labels. Each change sends the whole list, so overlapping ones take each other back; adding a key that
is there already is not awaited (`LabelList.tsx:80`). Logs: the keyword is a regular expression
(`LokiLog.tsx:176-185`), so "a.b" finds other lines and "(" makes the query an error, as it does in a
filter that is one; backslashes are not escaped (`LokiLog.tsx:36`); a number of lines that is none is
sent as `null`; and until the deployment is known the selector is `{}`.

## What is abstracted

* Data: only statuses, identities and the CR's owner. Bentos, options, permissions and the
  contents of the CR are left out of `Deployment`. The three
  API versions of the CR (`DeployV1alpha2`, `V1alpha3`, `V2alpha1`) have the same
  control flow; the extra BentoRequest that `V2alpha1` writes before the CR is part
  of that step, its failure is `TxFault`. The early return of the three (the CR already has
  the resource version to be
  stored) cannot happen on this path, for `doUpdate` clears that version before it
  deploys.
* Time: timeouts are steps that may happen at any moment. The time stamps that
  select deployments for the cron job are left out: its query takes a deployment when
  either stamp is old, so they are no lease and exclude nothing.
* `UpdateStatus` of a row that is gone matches nothing and returns no error.
* The order of pods in a list is unspecified (an index map), so where the code stops
  at the first decisive image builder pod the model allows any.
* Pods shrink once there is no CR, and appear in any combination while there is one.
* `Transaction` has one request: what several do to each other's rows is the matter
  of the modules of those rows. Loops over rows are one step; reads in a row are one
  step. The callback returns early when the context is done, but the contexts of
  the requests that open transactions (gin's) never are. The compensations in
  `DeploymentRevisionService.Deploy` run in the transaction that its error rolls back,
  and are left out. Models are created and updated as bentos are, and are not listed
  again.
* Goroutines for `SyncStatus` beyond the number of `Syncers` are taken to have timed
  out at once.
* React: effects run after the render that makes them due and before the next event; what an
  effect does without waiting belongs to the step that makes it due. Timers and throttles are
  steps that come after what set them, except where their length matters (`TerminalView`).
* React-query retries a failed request by itself; here the request may take as long as it likes
  and fail once. Garbage collection of old answers is left out, for a component that comes back
  asks anew either way.
* Wording, layout, colours (unless they tell statuses apart), translations and charts.

## Not modelled

* Interrupt handler (`interrupt.go`), error group (`common/sync/errsgroup`): each has a promise
  worth a module (notify exactly once; no goroutine left); the goroutines that a timeout leaves are
  listed as a hazard without a property.
* Informers (`services/kube_informer.go`) and the Kubernetes listings: reads of a third
  party's cache. Its own cache is never written, so every caller starts an informer; `PodsWatch`
  has one informer per manager, as the code does. A manager that gives up because reading the deployment
  has failed several times (`controllers/deployment.go:1053-1057`) is not modelled: it resigns as it does when
  its client leaves.
* The default organization and cluster (`GetDefault`), self-hosted setup, members, users, tokens and
  password hashing: rows written by one statement each; what the unique keys do to a second creator is
  listed as a hazard. The pages of all of them are in `DashboardPages`, two of their requests
  in `Transaction`.
* Bento and model repositories: creation is one insert; counting and grouping are SQL.
* Streamed upload (`ginutils/stream_upload.go`): a parser of bytes; the dashboard's side of it
  is part of `TerminalView`'s uploads.
* Routes, configuration, transformers, schemas, usage tracking: wiring and conversions without
  state. The migrations appear as the unique keys that modules meet.
* The dashboard's navigation (`Header.tsx`, `routes.tsx`, login redirect) and `locales.ts`; vendored
  libraries under `src/dashboard/public`; charts and scripts.

## Plan

Done: `Deployment`, `Transaction` with `AtomicRequest`, `Upload`, the web sockets with both ends, the
dashboard's pages, and the theorems above. Left, in this order:

1. Theorems: the types of the pages and sockets; `ShownOnce`, once there are facts on `SelectSeq`.
2. `Navigation`: routes, sidebar, the interceptor that redirects to the login and what it
   remembers of the address.
3. `InterruptHandler`, `ErrsGroup`, the default organization and cluster.
4. Pure algorithms against reference definitions: `StreamUpload`'s boundary search, the merge of CR
   options, the summary of a pod's status.
