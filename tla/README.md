# A TLA+ model of the panel

The program under `src/` is a web panel that administers an xray proxy core: it
keeps inbounds (listening proxies) and clients (users of them) in a database,
drives a local core and, through other panels, the cores of remote *nodes*,
collects traffic counters, and enforces quotas and expiry dates. A single-page
front end (`frontend/src`, TypeScript and React) shows all this and edits it.
This directory models the parts of both whose correctness depends on the order in
which things happen, and those whose cases are too many to test one by one: what
a form keeps through changes of protocol, what a share link carries. Paths below
are relative to `src/`; `pages/`, `layouts/`, `hooks/`, `api/`, `lib/`, `utils/` and `stores/` to
`src/frontend/src/`.

`PROJECT.json` is the index: components, runs, the source lines behind each
definition (`map`), hazards, findings, theorems, and for every property a
mutated definition that breaks it.

    tlc -workers 2 -config <X>.cfg <Module>     # a run
    tlapm <Module>Proofs.tla                    # the proofs

Sections 1 and 2 describe the server first and the front end after it; sections 3
to 8 take them together.

## 1. Inventory

### The server: parts and state

| Part | Code | State | Operations |
|---|---|---|---|
| Traffic writer | `web/service/traffic_writer.go` | current queue, context and done channel behind `twMu` | Start, Stop, submit; one writer goroutine per cycle |
| Xray lifecycle | `web/service/xray.go`, `xray/process.go`, `web/job/check_xray_running_job.go`, `web/web.go` | process handle `p`, need-restart and manually-stopped flags, package mutex, watchdog counter | RestartXray, StopXray, 30 s restart check, watchdog |
| Local runtime | `web/runtime/local.go` | none: calls the core's gRPC API | AddInbound, DelInbound, AddUser, RemoveUser |
| Inbound operations | `web/service/inbound.go`, `web/controller/inbound.go` | `inbounds` rows | add, delete, update, enable switch; each pushes to a runtime and writes the row |
| Node sync | `web/job/node_traffic_sync_job.go`, `web/service/node.go`, `web/runtime/remote.go` | `config_dirty`, `config_dirty_at`, node status, remote id cache | push, mark dirty, reconcile, snapshot, merge, heartbeat |
| Traffic accounting of nodes | `setRemoteTrafficLocked` in `web/service/inbound.go`, tombstones in `web/service/client.go` | `client_traffics` row, baselines per node, tombstones | merge, reset, create, delete |
| Client limits | `addTrafficLocked` in `web/service/inbound.go`, `web/job/xray_traffic_job.go` | the plan in the inbound's settings, the client record and the traffic row | poll, delayed start, renewal, disabling, resets |
| Client mutations | `web/service/client.go` | settings JSON of inbounds, a lock per inbound | create, update, attach, detach, delete, bulk operations, groups |
| Runtime manager | `web/runtime/manager.go` | cache of remote runtimes | RuntimeFor, Invalidate |
| Online clients | `xray/process.go` | online trees with a grace period | per-poll refresh |
| WebSocket hub | `web/websocket/hub.go` | registered clients, queues, throttle stamps | register, broadcast, evict, stop |
| Login limiter | `web/controller/login_limiter.go` | failure counts per address and user | allow, fail, succeed |
| Everything else | | | settings, users, subscriptions, bot, geo files, WARP, logs, installer |

### The front end: parts and state

| Part | Code | State | Operations |
|---|---|---|---|
| WebSocket client | `api/websocket.ts` | the socket, a reconnect timer, attempts, one throttle timer per busy event | connect, disconnect, reconnect with backoff, dispatch |
| Live feed | `api/websocketBridge.ts`, `api/queryClient.ts` | the query cache, one debounce timer, a window after the tab's own mutations | invalidate, patch from a push, refetch |
| Requests and session | `api/axios-init.ts`, `utils/index.ts`, `pages/login` | the CSRF token, its refetch, the session's end | get, post, retry after 403, leave after 401 |
| Settings editor | `api/queries/useAllSettings.ts`, `layouts/SettingsController.tsx` | draft, confirmation, two-factor dialog, restart reminder | edit, save, commit at once, restart |
| Xray template editor | `hooks/useXraySetting.ts`, `layouts/XrayController.tsx` | text, parsed template, last text in step, test results | edit either form, save, restart the core |
| Outbounds and routing | `pages/xray/outbounds`, `routing`, `basics`, `overrides` | two tables edited by index, a dialog, the WARP and NordVPN accounts | add, edit, move, delete, basic lists, account dialogs |
| Balancers, DNS | `pages/xray/balancers`, `pages/xray/dns` | balancers, observatories, DNS servers, hosts | add, rename, delete, enable |
| Outbound tests | `hooks/useXraySetting.ts` | results by index, two lanes | test one, test all |
| Share links | `lib/xray/inbound-link.ts`, `outbound-link-parser.ts` | none | write, read |
| Outbound form | `pages/xray/outbounds/OutboundFormModal.tsx`, `lib/xray/outbound-form-adapter.ts` | form, JSON text, tab | change protocol, transport, security; switch tabs; confirm |
| Inbound form and dialog | `pages/inbounds/form`, `lib/xray/inbound-form-adapter.ts` | form, fallback rows, generated tag, saving flag | change, ask for keys and certificates, submit |
| Inbounds page | `pages/inbounds` | rows, counters, presence; a slot each for confirmation, prompt, form and lists | switch, clone, delete, import, export, attach, detach |
| Clients page | `pages/clients`, `hooks/useClients.ts` | form with a hydrated record; query, pages, selection, summary | add, edit, switch, delete, search, page |
| Nodes page | `pages/nodes`, `api/queries/useNodes*.ts` | rows, selection, confirmation, form, test result | add, edit, switch, test, fetch a pin, delete, update |
| Groups page | `pages/groups`, `pages/clients/ClientSelectModal.tsx` | rows, a stack of dialogs, the group acted for | create, rename, delete, add and remove clients, bulk operations |
| Notifications | `stores/notificationStore.ts`, `lib/notifications`, `pages/index` | dismissed alerts, capped log, sensors, log windows | detect, dismiss, restore, acknowledge, poll |
| Restore of a backup | `pages/index/BackupModal.tsx`, `layouts/BusyOverlayProvider.tsx`; `web/service/server.go` | the wait, the takeover and its request for the next boot; the database file, its fallback and copy, the open handle | import, race, poll, report, reload; validate, stop, swap, open, roll back |

`components` in `PROJECT.json` lists all parts, with the reason for each that is
left out.

### How they interact

* HTTP handlers, cron jobs, the bot and signal handlers run concurrently. Cron
  itself does not keep two runs of a job apart; some jobs hold a mutex of their own.
* Writes of traffic go through the traffic writer, which makes them serial. Edits
  of inbounds and clients do **not**; they meet traffic writes only in the
  database, whose transactions are serial (SQLite is opened with
  `_txlock=immediate`, `database/db.go:719`). The panel can also run on PostgreSQL,
  where transactions may overlap; the models describe the SQLite build.
* An edit changes two systems, the database and the core or node, without a
  common transaction. A local edit that could not be pushed sets the need-restart
  flag, and a later restart rebuilds the core from the database. An edit of a
  node's inbound that could not be pushed sets `config_dirty`, and a later sync
  replays the central rows on the node.
* The poll of the local core and the sync of the nodes feed the same
  `client_traffics` rows.
* A tab of the panel talks to the server on two channels: requests over HTTP (the
  page calls HttpUtil, which adds the CSRF token) and pushes over one WebSocket
  (hub, socket, bridge, query cache, page). Nothing orders the two: a push may
  overtake the answer to a request or fall behind it.
* A page renders from the query cache or from a copy of it. Dialogs are mounted
  once and opened for one row after another, so what an `await` finds when it
  resumes may belong to another row. React applies state updates after the
  handler; a closure keeps the values of the render it was made in.
* JavaScript runs one handler at a time up to its next `await`. This is the grain
  of the front-end actions: from an event or a resumed answer to the next `await`.

### What is hard, and what makes each part correct

* **Traffic writer.** A submit races the cancellation, the drain, its own timer
  and a new Start. Correct: a write runs once or is reported as refused, a Stop
  loses nothing, writers do not overlap, nobody blocks for ever.
* **Xray lifecycle.** Four kinds of callers restart the core while edits push to
  it. Correct: one process, it serves what the database says when nothing is
  pending, and it comes back after a crash.
* **Node sync.** Every call may fail, or fail after it had its effect; edits
  interleave with each step of a reconcile and a merge. Correct: the last edit
  wins, a node that is not marked has it, and the two panels converge.
* **Node traffic.** Snapshots are late, counters go back, rows and baselines come
  and go. Correct: no byte twice, none lost while counters only grow.
* **Client limits.** The plan has three copies and the core is a fourth; polls,
  restarts, edits and resets write different subsets. Correct: the copies agree,
  a depleted client is cut off, an expired one with renewal is renewed.
* **The panel's data.** Sockets die silently, throttles and debounces drop signals
  on purpose, tokens are replaced while calls are under way. Correct: one socket,
  messages in order, no list outdated but for a signal dropped by design, no call
  without an end.
* **Editors.** A draft has several representations and the server another; tables
  are edited by index while they move. Correct: what looks saved is saved, an edit
  reaches the row it was opened on, references between tables resolve.
* **Forms and links.** Values outlive the field that showed them. Correct: what is
  sent is what is on screen; writing a link and reading it loses nothing.
* **Pages.** Answers arrive after the dialog they were for was closed or opened for
  something else, and lists are patched by pushes between refetches. Correct:
  an answer lands where it was asked for, the screen follows the server.
* **Notifications.** Detection compares a window with the previous one, the log is
  capped. Correct: each event once, nothing dismissed is lost.
* **Restore.** The database is replaced under the running panel while the page that
  asked for it polls, and each step of the swap may fail. Correct: one usable database
  is always left, the panel serves it with its core, the page reports what happened
  and does not stay covered.

Section 8 says what of this is left out so far.

## 2. Modules

| Module | Models | Used by |
|---|---|---|
| `TrafficWriter` | the traffic writer | runs, proofs |
| `WriteContract` | what a caller of submit may rely on; abstract specification | `TrafficWriter` refines it |
| `MCTrafficWriter` | constants and symmetry | runs |
| `TrafficWriterProofs` | inductive invariant and theorems | tlapm |
| `XrayLifecycle` | restarts, stops, crashes, watchdog, flag, edits of local inbounds | runs, proofs |
| `MCXraySync` | symmetry of the tags | run |
| `XrayLifecycleProofs` | inductive invariant and theorems | tlapm |
| `NodeSync` | the central panel and one node: edits, push, dirty mark, reconcile, merge | runs, proofs |
| `NodeSyncProofs` | inductive invariant and theorems | tlapm |
| `NodeTraffic` | one client on several nodes: counters, snapshots, baselines, row, tombstone | runs, proofs |
| `MCNodeTraffic` | the invariant over the sum of the credits | run, proofs |
| `NodeTrafficProofs` | inductive invariant and theorems | tlapm |
| `ClientQuota` | one client on several local inbounds: poll, limits, renewal, edits, resets, restart | run, proofs |
| `MCClientQuota` | the three plans of the instance | run |
| `ClientQuotaProofs` | lemmas on the stages of a poll, inductive invariant and theorems | tlapm |
| `WebSocketClient`, `LiveFeed`, `Session` | what brings the server's state to the screen | `MCPanelData`, proofs |
| `PanelRestore` | the restore of a backup, page and server | `MCPanelData`, proofs |
| `MCPanelData` | instances of these four, their joint properties and fairness; `PanelData.cfg` gives their bounds | run, proofs |
| `PanelDataProofs` | inductive invariants of socket, feed, session and restores, the joint safety properties for every value of the bounds | tlapm |
| `SettingsEditor`, `XrayEditor`, `DnsEditor`, `OutboundForm` | drafts of what the server holds | `DraftsAndWatchers` |
| `LogWatch`, `Notifications` | log sensor, notification store and watchers | `DraftsAndWatchers` |
| `InboundDialog`, `InboundsPage`, `ClientEditor`, `NodesPage`, `GroupsPage` | pages whose requests outlive the form they were made from | `PagesAndDialogs` |
| `TemplateRouting`, `BalancerEditor`, `OutboundTests` | the tables of the Xray template | `MCPanelEditors` |
| `LinkCodec`, `InboundForm` | what links and the inbound form keep | `MCPanelEditors` |
| `InboundStats`, `ClientList` | lists patched by pushes between refetches | `MCPanelEditors` |
| `PanelParts` | the names of the nineteen parts, and which of them moves | `DraftsAndWatchers`, `PagesAndDialogs` |
| `DraftsAndWatchers` | instances of the drafts and watchers, with `QuietMeansInSync` and `NotifiedOnce` | `MCPanelEditors`, proofs |
| `PagesAndDialogs` | instances of the five pages, with `AnswersLand` | `MCPanelEditors`, proofs |
| `MCPanelEditors` | adds the other seven instances and the remaining joint properties; `PanelEditors.cfg` gives their bounds | run |
| `PanelEditorsProofs` | the watchers and the four drafts for every value of the bounds | tlapm |
| `PagesProofs` | the five pages for every value of the bounds | tlapm |

Definitions named `...Twice`, `...Once`, `...Deaf` and the like and commented as
mutants are not part of any `Next`; each is a plausible bug that makes one
property fail when it takes the place of the definition below it.

### TrafficWriter

A *generation* is one Start/Stop cycle. The package variables `twQueue`, `twCtx`,
`twCancel` and `twDone` are assigned and cleared together, so `cur` (0 for nil)
stands for them. Each select of the code is a set of alternatives: the writer's
main select may see a request and the cancellation together, the submitter's outer
select an answer and the closed done channel, and the inner select looks once
more. `mu` is the submitter that keeps `twMu` while it waits for room; the
critical sections of Start and Stop do not block and are single steps. The
function that is applied is opaque: it ends in `ok` or `err` (an error or a
panic). The timer may fire at any moment while the send is waiting.

### XrayLifecycle

RestartXray is cut where another goroutine can interfere: lock taken, database
read, decision (skip, or stop the old process), start. The handle's `config` is
what the process was launched with; `live` is what it serves and also follows API
calls. Edits push first and commit after, except the enable switch, which commits
first; an API call may fail with or without its effect. GetXrayConfig is reduced
to the enabled inbounds. At most one edit of an inbound is in flight. An update that
gives an inbound another tag is a pair of edits, one of the tag it gives up
(`moveFrom`) and one of the tag it takes (`moveTo`), pushed in this order and
committed together.

`p.Stop()` may report an error, which RestartXray discards
(`web/service/xray.go:346`): the old core lives on beside the new one. Such cores are
kept in `stuck` until they die by themselves (`StuckCoreDies`); `OneCore`
says that there is no other second core.

`cause` is a history variable. It is set at the steps after which the code itself
can leave the core different from the database and no restart pending: a requested
restart that is skipped or cannot read the configuration; a restart that overlaps an
edit; an update that ignores the failed removal of the tag it replaces or disables; and
a database that fails an edit halfway: a delete whose row cannot be loaded
(`BeginDelUnloaded`: no push, and the row goes) or whose rows left cannot be counted
(`DelIsUncounted`: no restart is asked for), a write that is refused after the push, or
one whose commit error nobody reads (`CommitIsLost`, `web/service/inbound.go:670`).
`DivergenceHasCause` says that there is no other way.

### NodeSync

One node. `central` and `remote` are the two panels' rows; a row is its settings
and its enable column. Edits go through `nodePushPlan`, the push, the commit and
`MarkNodeDirty`, each a step that may fail in the way its caller handles. The sync
job goes through the reconcile (read rows, list tags, replay one by one, compare
and swap on `config_dirty_at`), the snapshot, the second read of the flag and the
merge. The merge is one transaction run by the traffic writer, so it is one step;
it may happen any time after the flag was read. Settings carry the port: `Clashes` says
which of them want the same one, and neither panel takes a row whose port another of
its rows has (`portTaken`, `web/service/port_conflict.go:127`), so the node may refuse an edit's
push (`Refused`) and a replayed row (`ReconcileRefused`), which ends the run. `link` folds the node's enabled
column and its heartbeat status into up, down and not probed yet.

`intent` is what the last edit made of an inbound; `why` and `touched` record the
cases in which the code does lose an edit: it overlapped a sync that had not seen
its mark, a delete reported as done although the node's list could not be fetched,
a commit that failed after the push or whose error nobody reads (`CommitIsLost`), a
mark that failed, a delete whose row could not be loaded (`DelInboundUnloaded`: neither
push nor mark, and the row goes), a flag that could not be read, an edit on the node
itself, an inbound saved disabled, and two marks of one millisecond. An update that
gives a node's inbound another tag is not modelled.

### NodeTraffic

One client, any number of nodes. Up and down are handled alike by the code, so one
counter stands for both. `snap[n]` is the snapshot in flight while the node goes on
counting. `credited[n]`, `owed[n]` and `lossy[n]` are history: what merges added
on behalf of a node, what it carried since the row was created or reset (plus what
was pending then), and whether some of it went unnoticed for a reason the scheme
cannot see: a counter that went back, or a row without a baseline for the node.

### ClientQuota

One client attached to several local inbounds. `db` holds the settings of each
inbound, the client record and the row; `served` the inbounds in which the core
knows the client. `addTrafficLocked` is the composition of `adjustTraffics`,
`addClientTraffic`, `autoRenewClients` and `disableInvalidClients` in the order of
the code, with a subset of failing API calls and with the rollback of its
transaction after the core has been told. Edits read an inbound's settings outside
their transaction and save them whole, also on behalf of another client. `cause`
and `torn` record the races the code has: a rollback after API calls, a renewal
that re-enables only the first inbound, a poll during an edit, a skipped or
unreadable restart, a restart that starts an outdated configuration; and lost or
half-done writes of the plan.

### The front-end modules

Each module is self-contained: it has the part's own view of the server (the rows,
the answers under way) and of other administrators' changes. A request is a record
that passes through *asked* (the server has not read it), *answered* (on its way
back) and *applied*, so that every overtaking is a behaviour.

The code departs from the ideal in many places. Each such place sets a member of a
history set (`causes`, `why`, `excuses`, `lost`, ...), and the invariants say that
a departure **has** one of these causes. They therefore hold of the code as it is
and fail as soon as another path leads to the same bad state. Section 6 lists the
causes.

* **WebSocketClient.** Sockets are numbered as the object makes them, and one that
  was let go still produces events. Actions: `connect`, `disconnect`, the browser's
  events, the reconnect timer, the throttled dispatch, server outages. The delay is
  kept as its base value; jitter is left out.
* **LiveFeed.** Two lists, each a version number, from the server's mutation
  through the hub's throttle, the socket, the bridge's debounce and
  `isRecentLocalInvalidate` to the cache entry and the page. A mutation, of this tab or
  of another administrator, may be refused after part of it was done, which nobody
  announces (`MutationRefused`, `ClientEditPartly`: `web/controller/client.go:130`), and the
  answer to one that was done may be lost (`AnswerLost`). `lost[l]` holds the reason for
  which a signal about `l` was not given, not sent or discarded since the list was last
  fresh.
* **Session.** Calls with the CSRF token, the meta tag the page was served with
  (`web/controller/dist.go:70`) or without, one shared refetch of the token, one retry, the
  redirect after a 401, reloads, the login form. `served` is the session's token when
  the page was served: a page with a meta tag sends that token again after a 403
  (`api/axios-init.ts:39`) and so outlives no replacement of the session, one without
  outlives one (`Heals`). `OnlyReplacedIsRefused` says that nothing else refuses a call.
* **SettingsEditor, XrayEditor.** Draft, query data, calls in flight and the server.
  Settings are three fields, one of them access-critical; a template is a value, its
  text the same value or a text that does not parse. Settings are stored field by field,
  so a refused save may have stored some of them; a refused save of the template may
  have stored it (`web/controller/xray_setting.go:99`); the answer to either may be lost, and a save
  may arrive after the page has stopped waiting for it (`LateStores`). A reload of the
  page drops the reminder to restart the core.
* **TemplateRouting, BalancerEditor, DnsEditor.** The edits of the tables with the
  index a dialog, drag or pending request has captured next to the row it was
  opened on; a *hole* is what an assignment past an array's end leaves behind. Opening
  the NordVPN dialog again clears its loading flag (`NordOpen`), so a second logout can
  be sent while the first is out, with the index of the same row.
* **OutboundTests.** The two lanes of a full test and single tests, while the list
  changes.
* **LinkCodec.** An inbound is its protocol, transport, security and the set of
  fields filled in; a link is a map from parameters to tokens named like the fields.
  Every combination the panel can hold is an initial state, one step writes the
  link, one reads it, and `RoundTrip` compares the result with the fields a client
  needs, except those in `KnownLosses`.
* **OutboundForm, InboundForm.** A form is its protocol, network, security and the
  set of fields that differ from their default. Changing any of the former applies
  what the handlers reset; sending applies the adapter. *Shown* fields are those the
  form's parts render for the current selection.
* **InboundDialog.** One mounted dialog over several openings: tag generation, key
  and certificate calls, fallback rows, saving.
* **InboundStats.** Rows of three inbounds that share a client, pushes of the traffic
  jobs, refetches, optimistic switches, the card, online presence.
* **InboundsPage.** Row actions that fetch the full record first; the slots for
  confirmation, prompt, form and client lists; the promise of the bulk deletion.
* **ClientEditor, ClientList.** The form with its hydration and chain of three
  calls, each of which may be refused after part of it was stored or lose its answer
  (`web/service/client.go:943`); the search, pages, one cache entry per query, pushes, selection, deletion
  and the summary.
* **NodesPage, GroupsPage.** The pages with all their dialogs, and behind them the
  server's operations and (for nodes) the heartbeat. Renaming or deleting a group changes
  `client_groups` before the transaction over the clients, which can still be refused
  (`RefusedPartly`).
* **LogWatch.** The window of the log, per level, compared with the previous one. The
  collapse of equal events by `dedupKey` (`pages/index/LogWatcher.tsx:87`) is left out: it only
  makes duplicates fewer.
* **Notifications.** The persisted store, sensors, offline clients, strip and tab.
* **PanelRestore.** Page and server in one module, because its questions are about both.
  `upload[i]` is one call of importDb with the handler behind it: its stage, what kind
  of file it carries (usable, of another program, corrupt, no SQLite at all), its
  connection and its result. `path`, `backup`, `temp` are the three file names and
  `handle` the file the global `db` has open, by content: a renamed file stays open, so
  the four may differ. `wal` is the sidecar in which SQLite keeps what was committed last
  (`database/db.go:719`): one that stays beside a path is read into the file that is opened
  there next. `warned` records the failures that the handler only logs and what they
  left: a database that could not be closed ("close"), a fallback renamed back beside
  another file's sidecar ("sidecar"), a deferred restart of the core that failed ("core").
  `page` is the tab: racing the answer against the timer, polling,
  reloading. The status query and a login are actions of their own. Every request is
  checked against the session as `GetLoginUser` does, which drops it when the user
  cannot be read.
  What the handler's comments promise beyond its properties, section 6 compares.

`MCPanelData` and `MCPanelEditors` instantiate the modules side by side. The parts
share no variable, so `part` chooses one of them for the whole behaviour and the
others stay at their initial state: the reachable states are the **sum** of the
parts', not the product, and nothing is lost, since no property relates two parts.
`PanelEditors.cfg` tells states apart by the variables of the part that moves (`VIEW
Moving`): the others hold one value each, so no two states are taken for one. The
status sensors share only a table of settings with the other notifications, of which
each reads its own rows, and are a part of their own (`sensors`).
`MCPanelEditors` extends `DraftsAndWatchers` and `PagesAndDialogs`, which have the parts that
the proofs are about (a proof's context should hold no more modules than it needs): each
step of its `Spec` is a step of `DraftsSpec` or leaves the drafts alone, and likewise of
`CallsSpec` and the pages.
The joint properties are conjunctions `part = "x" => X!P`, grouped by the question
they answer; the table under section 3 names the conjuncts.

### Between the modules

`NodeTraffic` takes the dirty flag that `NodeSync` computes as a free Boolean, so
its results hold for every behaviour of the flag. `NodeSync`, `NodeTraffic` and
`ClientQuota` take a transaction of the traffic writer as one step, which is
justified by `TrafficWriter` (writers never overlap; a write runs at most once)
and by serial transactions. `ClientQuota` uses the restart of `XrayLifecycle`
without its process handling. The front-end modules take an operation of the server
as one step; what it does inside is the matter of the server's modules. Pages rely
on `LiveFeed` for being told of changes and on `Session` for every call to return,
which is why a call in flight in a page's module always ends.

## 3. Runs

| Run | Instance | Distinct states | Shows |
|---|---|---|---|
| `traffic_writer` | 2 requests, 2 controllers, queue of 1, 2 cycles, fairness | 91,110 | `AtMostOneWriter`, `ResultMatchesWrite`, `StopDrainsAccepted`, `StartLeavesLiveWriter`, `EveryCallReturns`, `StopReturns`, refinement `ImplementsContract` |
| `xray_sync` | 2 interchangeable tags, 1 setting, restarts from the cron flag, 1 failure | 7.5 million | `DivergenceHasCause` |
| `xray_live` | no inbounds, 2 overlapping watchdog runs, users and the traffic job, 2 failures, 2 crashes, fairness | 55,925 | `OneCore`, `CrashIsRepaired` |
| `node_sync` | 2 inbounds, 2 settings with a port each, 2 edits made on either panel, 1 failure, fairness | 2.0 million | `EditSurvives`, `CleanMeansMirrored`, `NodeConverges` |
| `node_traffic` | 2 nodes, counters to 2, 2 events | 967,605 | `RowIsSum`, `NoDoubleCount`, `NothingLost` |
| `client_quota` | 2 inbounds, 3 plans, clock to 3, usage to 1, 1 edit, reset or user restart, 1 failure, fairness | 273,734 | `CoreFollowsDatabase`, `PlansAgree`, `DepletedIsCut`, `ExpiredIsRenewed` |
| `panel_data` | five parts, bounds below, fairness | 236,811 | `ConnectionKept`, `StaleHasCause`, `RestoreHolds`, `DispatchInOrder`, `EventuallyRecovers` |
| `panel_editors` | nineteen parts, bounds below | 1,274,201 | `QuietMeansInSync`, `ReferencesResolve`, `ScreenFollowsServer`, `SavedAsShown`, `LinkRoundTrip`, `NotifiedOnce`, `AnswersLand`, `RightRow` |
| `xray_skip`, `node_sync_dirty`, `node_sync_disabled`, `node_traffic_tomb` | smallest instance that shows it | | a stated promise that the code breaks (section 6) |

Most runs also check the module's `TypeOK`. In `XrayLifecycle` it includes that
the mutex is held exactly by the actor inside RestartXray; in `TrafficWriter` the
capacity of the channel; in `Notifications` the caps of the two lists.

The joint properties of the panel's runs, and what each part contributes. Each
conjunct is defined, with its comment, in the module named.

| Property | Conjuncts |
|---|---|
| `ConnectionKept` | WebSocketClient: `OneLiveSocket`, `NeverStranded`, `LatestDispatched`; Session: `OnlyReplacedIsRefused` |
| `RestoreHolds` | PanelRestore: `DatabaseKept`, `AnswerTellsTheFile`, `CoreBack`, `TakeoverStands` |
| `EventuallyRecovers` | WebSocketClient: `Reconnects`; LiveFeed: `EventuallyShown`; Session: `EveryCallReturns`; PanelRestore: `TakeoverLifted` |
| `QuietMeansInSync` | SettingsEditor: `CleanMeansSaved`, `StaleProcessIsReminded`; XrayEditor: `OneDraft`, `TextSaved`, `StaleCoreIsReminded`; DnsEditor: `HostsMirrored`; OutboundForm: `JsonIsForm` |
| `ReferencesResolve` | TemplateRouting: `DanglingHasCause`, `NoHoleUnlessShifted`; BalancerEditor: `ObservatoriesCover`, `BalancerRulesResolve`; OutboundForm: `TagsStayUnique`; InboundDialog: `TagFollows`; InboundsPage: `LinkReachable`; GroupsPage: `TwinsHaveCause`, `MergeHasCause` |
| `ScreenFollowsServer` | InboundStats: `RowsFollowServer`, `CountsFollowRows`, `OnlineWhereUsed`, `CardShowsRow`; ClientList: `ShowsWhatWasAsked`, `CountersFollow`, `PastEndHasCause`, `SummaryOfLiving`, `Lockstep`; NodesPage: `NodeRowsFollow`; GroupsPage: `GroupsFollow`; TemplateRouting: `ServersMatchCountry`; OutboundTests: `LanesBounded`, `VerdictIsOfRow`, `BusyHasProbe` |
| `SavedAsShown` | OutboundForm: `ScreenMatchesWire`, `WireStable`, `HysteriaRidesTls`; InboundForm: `ScreenMatchesPost`, `PostStable`, `RefusalIsVisible`, `SecurityFits`, `HysteriaRidesQuic` |
| `LinkRoundTrip` | LinkCodec: `RoundTrip`, `SameHostAsSubscription` |
| `NotifiedOnce` | LogWatch: `ReplayHasCause`, `MissHasCause`; Notifications: `StrandedOnlyByCap`, `AckEndsWithEpisode`, `NoDuplicateEvents`, `RearmedWhenBack` |
| `AnswersLand` | InboundDialog: `OneCallAtATime`, `AnswersLand`, `FallbacksStay`, `NoBareReality`, `RowsAreDistinct`; InboundsPage: `PromiseSettles`, `AttachedOwn`; ClientEditor: `CredentialsKept`, `OverwrittenHasCause`, `FormOfOneClient`, `SavedMeansAttached`; NodesPage: `SubmitHoldsForm`, `ResultIsOfForm`, `PinIsOfItsAddress`, `OneConfirmedCall`, `OverlaidHasCause`; GroupsPage: `ActsOnOpened`, `RemovalHasCause`, `OneConfirmedGroup` |
| `RightRow` | TemplateRouting: `RightRow`, `DeletionIsOfDeleted`, `SetterIsLens`; DnsEditor: `ServerRoundTrip`; SettingsEditor: `AccessChangeHasCause`; InboundsPage: `EditsKept`, `PromptKept`, `ChoiceKept` |

### Bounds, and why they are enough

* **TrafficWriter.** Two requests and one slot give a request being applied or
  queued while the other holds `twMu`; two controllers and two cycles give Start
  against Stop, Stop against Stop, and a restart. Three requests (without liveness)
  also hold, with 178,149 states. The theorems cover every other size, except for
  liveness.
* **XrayLifecycle.** Two tags are needed for an update that changes the tag; edits of
  different inbounds otherwise only meet in the flag and in restarts. In `xray_sync` the cron
  flag is the only one that restarts the core: the steps of RestartXray are the same for
  every caller, and the caller that can skip a restart is this one. The instance with one
  tag, two settings, a watchdog, users and the traffic job also holds, with 12.3 million
  states. Crashes and the watchdog do not depend on inbounds, so the liveness run has none and has two
  overlapping watchdog runs instead. The process ids are one for every core that could
  not be stopped, one for the current handle and one for its successor. The theorems cover
  every other size.
* **NodeSync.** Two inbounds are needed for the order of the replay (pushes before
  deletes), for a port that one of them still holds, and for a mark of one inbound while
  another is being edited; two clock values for marks of the same and of different
  milliseconds; one failure for a failed push that the sync
  repairs (two failures, without liveness, also hold, with 5.9 million states). Each of the two settings
  has a port of its own, so two rows with the same setting clash. The theorems cover
  every other size, except for convergence.
* **NodeTraffic.** Two nodes and counters up to 2 let a counter go back and pass its
  baseline again. The theorems remove these bounds.
* **ClientQuota.** One unit of quota and of time reach every boundary (`expiry = now`
  included), the two inbounds tell the first from the last. One edit, reset or user
  restart is allowed in total, so an edit does not overlap a reset or another edit in
  this run; with two of them the safety properties also hold (7.6 million states),
  but the liveness properties were not checked there. The theorems allow any number.

* **Panel, data.** *Socket*: 3 sockets, 2 messages, 1 reconnect with backoff before
  the slow retry: a socket replaced while the previous one still has events, and a
  message before and after. *Feed*: 2 changes per list and 1 lost socket: a change
  before and one after each throttle and debounce. *Session*: 2 calls, 2 tokens, 1
  fault: two calls that share a refetch, a session replaced before and during it and
  before and after a reload, pages with a meta tag and without.
* **Panel, editors.** The bound of each part counts acts of the user (and of another
  administrator, where there is one); a departure found needs at most four.

  | Part | Bounds |
  |---|---|
  | settings | 2 edits, 1 failing call, lost answer, reload or change by another session |
  | xray | 2 templates and an unparsable text, 3 edits, 2 failures, lost answers, reloads or changes by another session |
  | routing | 3 outbounds, 2 rules, 4 edits, 2 WARP accounts |
  | balancer, dns | 2 tags or domains, 4 edits |
  | tests | 4 outbounds, 1 TCP lane (8 in the code) and the single lane, 1 change of the list |
  | codec | 8,275 inbounds and places to share them from; 1 write, 1 read |
  | outform, inform | 9 outbounds and 8 inbounds to open (adding included), 2 and 3 changes |
  | indialog | 2 openings, 3 acts, 2 stored inbounds, 2 children |
  | instats | 3 inbounds, 1 client, 2 changes of the server, 1 act of the page |
  | inpage | 3 inbounds, 4 acts, 2 hydrations at once |
  | cledit | 2 clients, a free name, 2 inbounds, 4 acts, 2 hydrations at once |
  | cllist | 3 clients, pages of 2, 2 acts, 1 poll or deletion elsewhere |
  | nodes | 2 nodes and 2 addresses, 2 acts, 1 outside change; starts fresh or with a form just closed whose test, or fetch of a pin, is under way |
  | groups | 2 clients, names that differ in case, 2 acts, changes elsewhere count as acts; starts fresh, in a typed rename, in a picker (also with the links of the other group asked for, which counts as an act), or in a running confirmation |
  | logs | window of 2, 4 lines, 5 acts |
  | notices, sensors | 1 alert, sensor and client, values 0 to 2, caps of 2 |

  Two parts start in several states because their interesting cases are more acts
  away than the bound allows; each such start is itself reached by acts of the user.

* **Restore.** The part *restore* has one import of any kind of file and two failures:
  they reach a failing operation and a failing rollback of it; the kinds decide at
  which stage the file is refused, two login epochs whether the session survives a
  success. The part *retries* has two imports of usable files and no failure: the page
  retries, reloads and meets its own first import, and `TakeoverStands` and
  `TakeoverLifted` are checked there too; `DatabaseKept` and `AnswerTellsTheFile` do not
  hold there (section 6). Two polls, or one, stand for the 90 s of the wait.

### Fairness

* Cron runs its jobs for ever: weak fairness of the watchdog, the restart check,
  the sync job and the traffic job.
* A goroutine that can go on does: weak fairness of each actor's own steps. No
  user is ever obliged to act: there is no fairness on calls of Start, Stop and
  submit, on edits, on StopXray or on the beginning of user restarts.
* A Go mutex is not withheld for ever (starvation mode): strong fairness of
  RestartXray per actor. In `TrafficWriter` weak fairness of a submitter is enough.
* A node that is down is some day reachable (`LinkUp`); without it convergence
  cannot be asked for.
* Failures and crashes are bounded, so liveness reads "once failures stop".
* In `panel_data`, weak fairness of the browser and the network only: timers that
  are armed fire, sockets that are opening open or fail, messages, answers and
  refetches under way arrive. No click, no mutation and no loss is fair. The server
  comes back after an outage. For a restore the page's timers and the end of its
  requests are fair, the server's handler and the redirect are not.
* `panel_editors` states no fairness: its properties are invariants and action
  properties.

## 4. What is proved

TLAPS proves the theorems below for every value of the constants that the named
assumptions allow: bounds are natural numbers, `QueueSize` is positive, "no request",
"no setting" and the fixed actors are not members of the sets they are told from;
the set of nodes of `MCNodeTraffic` is finite; `ClientQuota` has an inbound, a plan and a
clock that can move. The modules of the front end
carry no assumptions; their theorems name `Bounded` (natural bounds, and for a restore kinds
and sessions among the modelled ones) as a hypothesis, and `PanelDataProofs` rests on
`InstanceBounds` of `MCPanelData`, which TLC evaluates in `panel_data`, and `PanelEditorsProofs` on
`WatcherBounds` and `EditorNames` of `DraftsAndWatchers`
(caps of at least one entry, a finite set of clients; the marks of an empty or unread draft are no
template, an empty host row no domain), evaluated in `panel_editors`; `PagesProofs` needs no
assumption. The theorems about the
files of a restore are about one import at a time, as overlapping ones break them (section 6).

Each proof has the same shape. The property is seldom inductive, so an invariant
`IInv` says what the steps in between can rely on; one lemma per action or actor, and
under it one step per conjunct, shows that `IInv` is kept; the theorem follows. The
comment above each conjunct says why the code maintains it.

**TrafficWriterProofs.** `TypeCorrect`, `WritersNeverOverlap`, `ResultsAreTruthful`,
`StopLosesNothing`, `StartsLeaveLiveWriter`, `WriterImplementsContract`. Only the first is
inductive by itself. The invariant `IInv` adds:

* `GenInv`: generations are made in order and only the current one can have a running
  writer, hence writers do not overlap; a writer that drains or has exited was
  cancelled, and one that has exited left an empty channel and nothing in hand;
* `CtlInv`: a Stop waits for a generation that exists, and clears the state only
  after that generation's writer has exited;
* `LockInv`: the holder of `twMu` is exactly the submitter in its send, its
  generation is current and **not cancelled**. This is the fact the code's safety
  hangs on: Stop needs `twMu` to cancel, so no request is sent to a writer that has
  begun to drain;
* `ReqInv`: what each position of a submitter says about its answer and about how
  often its write ran; a waiting request without an answer is in the channel of its
  generation or in that writer's hands;
* `QueueInv`, `TakenInv`: conversely, what is in a channel or in a writer's hands is
  a waiting, unanswered request of that generation, in one place only.

`LockInv`, `GenInv` and `ReqInv` give `StopDrainsAccepted`: a writer exits on an empty
channel, and nothing arrives later. `ReqInv` gives `ResultMatchesWrite`. As a
consequence the error "traffic writer stopped before write completed" is
unreachable. `StartsLeaveLiveWriter` needs one more conjunct, `LiveInv`: a current
generation that is cancelled is in the hands of a Stop that has not returned, and while
there is none some controller's last call was no Start. It is stated for a non-empty set
of controllers, since without one nobody ever starts the writer.

`WriterImplementsContract` is the safety part of the refinement of `WriteContract`: the
status that the mapping gives each request (`StatusOf`) starts as the contract's, and each
action of the writer, a submitter or a controller moves it by a step of the contract or
not at all. That a write is performed before it is acknowledged, and never after it was
refused, comes from `ReqInv`.

**XrayLifecycleProofs.** `TypeCorrect` (it includes that the mutex is held exactly by the
actor inside RestartXray), `NeverTwoCores`, `DivergenceIsExplained`. `CoreInv`: what is alive is the
process of the handle or was given up after its Stop failed, and an actor about to start a
core has stopped, or given up, the one before. `EditInv`: which steps each kind of edit goes through, and that an idle inbound has nothing
left to ask for; the two edits of an update that changes the tag stand at the same point of
it and name each other (`Paired`). `SyncInv`: when the core runs and no cause is recorded, either a restart
has been asked for and not been answered (`Asked`: the flag, or the cron function that has
taken it), or every inbound's edit will still ask for one or has the core where its step says
it must be (`Matches`: after a push and before the commit the core is one edit ahead of the
database). `DivergenceHasCause` is the case where every edit is idle.

**NodeSyncProofs.** `TypeCorrect`, `EditsSurvive`, `CleanNodesMirror`. `SyncInv`: a run
knows no mark later than the clock, a dirty flag is taken down only by the run that
replayed the rows, and an inbound with an edit in flight counts as touched. `EditOk`: an
edit about to commit has pushed its row or remembers that it has not. `RowInv`: for an
inbound without a recorded case, a difference that no edit in flight is going to report
(`Owed`) is marked; in each step of a run what it has read is still the central row, and
what it has replayed is no longer owed, unless the node was marked later than the run read
the flag (`Late`), which the compare-and-swap on `config_dirty_at` notices; and a snapshot
that is merged unprotected is the central row. The last line of `RowInv` is `EditSurvives`, the
first gives `CleanMeansMirrored`: there is no further exception for inbounds touched by a
running sync.

**NodeTrafficProofs.** `TypeCorrect`, `NeverDoubleCounts`, `AccountIsExact`, `RowAddsUp`.
The second and third are not inductive: they say nothing of what is in flight. The invariant
uses `PendingOf(n)`, what node n's baseline, snapshot and counter will still add:

* `CreditInv`: credited plus pending never exceeds owed;
* `LossInv`: while nothing went unnoticed, baseline ≤ snapshot ≤ counter, and
  credited plus pending equals owed.

Five lemmas about `Pending` (a unit carried, a counter that falls, a snapshot given
up) carry the arithmetic; `StartOverAccount` covers every step that deletes or
zeroes the row.

`RowAddsUp` is about the fold of the community modules over a finite set of nodes. The
library's induction theorems are out of reach, so each lemma about the sum (`SumExists`: the
fold's recursive function exists; `TotalChanges`: one summand changed; `NothingIsZero`) takes
a least set of nodes for which it would fail (`LeastSet`) and removes one element from it.

**ClientQuotaProofs.** `TypeCorrect`, `CopiesAgree`, `CoreMatches`. Lemmas say first
what the stages of a poll do to the copies: `NextDate` and `NewExpirySays` (the renewal loop's
date lies after now and within the calendar; `MultipleHasNoRest` is its arithmetic),
`AdjustSays`, `AccountSays`, `RenewSays`, `DisableSays`, and `PollSays`, which composes them.
`CopyInv`: unless a write was lost, the three copies agree between operations (`Whole`), and
during an edit the inbounds it has done carry the new plan and the others are still to do
(`Written`, `Unwritten`). `CoreInv`: with no restart due, under way or still to be asked for
(`Pending`), the core serves what the database says; inbounds an edit has done have the new
state, those it has still to do only clients it will find enabled.

**PanelDataProofs.** The safety properties of `panel_data` as one specification: `TypeCorrect`,
`NoConnectionIsForgotten`, `StalenessIsExplained`, `RestoreIsSafe`, `NeverOlderAfterNewer`.

* *Socket.* `SocketInv`: while the reconnect timer is armed no socket is alive, so the one it
  opens stays alone; `NeverStranded` is the converse. `OrderInv`: what is on its way to the
  held socket is newer than anything received and in the order it was sent, so a new socket
  cannot deliver what an old one had overtaken. `EmitInv`: a throttle timer keeps the newest
  message received, and without one it has been dispatched.
* *Live feed.* `FeedInv` is nearly inductive; what it needs beyond `StaleHasCause` is
  `PushOrder`: pushes travel in the order they were made and the throttle timer holds one
  older than all of them, so a push that shows an old list was either overtaken by a newer
  one still to come or noted as late. A refusal after part of a mutation and a lost answer note
  themselves when they happen, so they cost nothing but their own step.
* *Session.* A page with a meta tag sends that token with every call, so a refusal means that
  the session is another than the one it was served in (`MetaInv`). For a page without, `HealInv` is
  the argument that a session replaced once costs one retry: the first token is fetched only
  while no call has met a token; a call that is refused for its token carried the first one and
  is repeated with the second, which nothing replaces.
* *Restore.* `PageInv` (any number of imports): the page is covered exactly while it waits. `FileInv`
  says at each stage of the handler which contents are at the three names, in the sidecar and
  behind the open handle (`CopyInv`, `SwapInv`), what the outcome says of them from when it is
  fixed (`OutcomeInv`), and when the core is down (`DownInv`). "Any step may fail" is discharged
  stage by stage: each failure leads to an unwinding that `OutcomeInv` covers, or to one of the
  three that are only logged, which `warned` names.

`PartInv` puts the parts together.

**PanelEditorsProofs.** `NotifiedOnceHolds` and `QuietHolds`, with the invariants below them,
`WatchersHold` and `EditorsHold`. They are about `DraftsSpec` of `DraftsAndWatchers` and hold of the
specification that `panel_editors` checks: its `Init` has `DraftsInit` as a conjunct, and each of its steps is a
step of `DraftsNext` or leaves `draftsVars` alone (the step of each other part says so in its
`UNCHANGED`).
`LogInv`, as long as nothing has made the effect compare with another window: the window it
compared with last ends at some line n and is what a poll at that moment had to bring; every
line up to n is in the baseline, or was notified once, or was pushed out of a window between
two polls; no line after n was notified (`Watching`, `Waiting`). A later answer ends at a later
line, so its new lines are exactly those after n that it still holds. `StoreInv` is made of
the properties of the store and their types, which are inductive together. The work is in
the lists: what the caps keep (`CappedSays`, `NotedEviction`), and the filter, for which
`FilterExists` and `KeepsNext` show by a least counterexample (`LeastNumber`) that its recursive
function exists and keeps what `OnlySays` says. `Only` is written as a recursive function for
that reason.

`EditorsInv` has one part per editor that `QuietMeansInSync` names. The parts share no variable:
`PartsStep` shows that a step of the module is a step of each part or leaves it alone.

* *Settings form, template editor* (`SettingsInv`, `XrayInv`): the query holds what is stored, or
  somebody will still tell it (a call stored and unanswered, a refetch that read the newest
  value); the process runs what is stored, or a reminder stands, is owed or has a noted cause
  to be missing. The calls exclude each other where the page disables its buttons: nothing is saved
  through it during a restart.
* *DNS tab* (`DnsInv`): the complete rows are the template's hosts. Of two rows for one
  domain the later counts, so the lemmas speak of the greatest row of a domain (`GreatestNumber`).
* *Outbound dialog* (`OutInv`): the form and the JSON text are outbounds, the form is one that the two effects
  on the stream leave alone (`IsSettled`), and the text read back writes itself. The work is in
  `WrittenTwice`, the algebra of the field sets: writing, reading and writing an outbound again
  gives the same one, for every protocol, transport, security and set of fields. It holds because
  no field belongs to two of settings, stream and top level (`FieldsApart`).

**PagesProofs.** `AnswersLandHolds`, with the invariant below it, `PagesHold`. They are about `CallsSpec` of
`PagesAndDialogs` and hold of the specification of `panel_editors` in the same way. `AnswersLand` says that an
answer goes to what it was asked for, so the invariants tie each call under way to the form,
dialog or selection it was made from, as long as none of the causes that break the tie is noted.

* *Inbound dialog* (`DialogKnown`): while the dialog was not opened over a call, every call is of this
  opening, a certificate call names a row that is there (`CertsHere`), and a save sends rows that
  are its inbound's own and still has the one it came with (`RowsKept`); a Reality form has a key
  pair or asks for one (`KeysKept`).
* *Inbounds page* (`PromiseKnown`, `SelectionKnown`): the confirmation that the promise waits for is
  the bulk deletion's own; while none of the dialog's lists is under way the selection is its
  target's.
* *Client's form* (`ClientInv`, `ClientKnown`): `SavedMeansAttached` speaks of the end of a save, so
  `ClientFresh` says how far each thing on its way agrees with the ledger about its client's
  inbounds: a record asked for (`HydrationsFresh`), the open form (`FormFresh`), the calls of a save
  (`SaveFresh`, between attaching and detaching the ledger has the inbounds of both), the last
  save that reported success (`SavedFresh`). For the credentials, `LedgerKnown` follows every copy of
  them through records, forms and saves, and `DrawnKnown` says that those a form for adding draws
  are nobody else's; `FormOwn`, that such a form has no client behind it.
* *Nodes page* (`NodesKnown`): the form's calls carry its number, node and values (`CallsKnown`), and the
  node still has the values the form opened with (`BaseKnown`).
* *Groups page* (`GroupsKnown`): a dialog acts on the group it was opened for and the clients ticked
  to be removed are of that group (`DialogsKnown`), and so are those of a call that nothing has
  overtaken (`GroupCallsKnown`).

**Only model-checked.**

* Liveness (`EveryCallReturns`, `StopReturns`, `CrashIsRepaired`, `NodeConverges`, `DepletedIsCut`,
  `ExpiredIsRenewed`, `EventuallyRecovers`) and the fairness of the abstract specification in
  `ImplementsContract` (`WriterImplementsContract` proves the rest): the prover handles neither
  fairness nor ENABLED.
* Of `panel_editors`: the properties that section 8 lists. `QuietMeansInSync`, `NotifiedOnce` and
  `AnswersLand` are proved.

## 5. Abstractions

* Names, settings and payloads are members of small sets. A configuration is a
  function from inbounds to settings; its JSON, and Config.Equals on it, is equality.
* Single SQL statements that fail inside a poll are represented by the failing last
  statement, which is the one that rolls back after API calls.
* One edit per inbound is in flight in `XrayLifecycle` and `NodeSync`. The code has
  no lock for inbound edits, so two edits of one inbound at a time are outside the
  model.
* Node ids are tags: the cache of remote ids and its invalidation are left out.
* React's rendering is left out: state set by a handler is visible to the next
  action, effects run as part of the action that makes them due, except where the
  order of two effects is the point (`ClientList`).
* Forms and links do not carry values but which fields have one, and from where.
* Time is a bounded counter where code compares it and absent elsewhere: timers may
  fire at any moment.
* In `PanelRestore` the removal and creation of the upload's copy are one step, and so
  are the deferred calls at the end. The watchdog, which would retry a core that did not start, is in `XrayLifecycle` only.
  In the 1.5 s between the report and the reload the user starts nothing.

## 6. Where the code and its own text disagree

Each has a run in which TLC finds the counterexample.

1. **A requested restart is skipped** (`xray_skip`, `web/service/xray.go:342`). The
   flag is cleared before RestartXray tests it, and the handle's configuration does
   not follow API pushes. An inbound switched off and on again, the second push
   failing, stays down.
2. **A dirty node's rows are overwritten** (`node_sync_dirty`,
   `web/job/node_traffic_sync_job.go:184`). The flag is read before the merge is
   queued; a mark made in between does not protect the row. `node_dirty_test.go`
   says that it must.
3. **Disabling a node's inbound in the edit form deletes it** (`node_sync_disabled`,
   `web/service/inbound.go:1060`). SetInboundEnable describes this effect as a fixed
   bug (#4402); UpdateInbound still has it.
4. **A tombstone does not keep the traffic row away** (`node_traffic_tomb`,
   `web/service/inbound.go:1726`). The row is created before the tombstone is
   consulted.

Behaviour that the models follow and their properties except, without a run of
their own:

**Xray core.** RestartXray discards the error of the Stop before it and starts a second
core beside one that did not stop (`web/service/xray.go:346`). AddInbound and UpdateInbound
ignore what the commit returns (`web/service/inbound.go:670`): an edit is reported as done and
not written. DelInbound deletes a row that it could not load without telling the core or
the node (`web/service/inbound.go:726`), and asks for no restart when the rows left cannot be
counted (`web/service/inbound.go:769`). An update that changes the tag ignores a failed removal
of the old one, and the core serves both.

**Node sync.** ReconcileNode pushes every row before it deletes what the node has more
(`web/service/inbound.go:106`), and the node refuses a row whose port another of its rows has:
an inbound deleted and another added on its port while the node was away keep every
reconcile from ending (`PortBlocked`).

**Server.** Renewal re-enables one of several inbounds; a reset of a depleted client
leaves settings and record off; whole settings and rows are saved as they were read
before; `addTrafficLocked` returns nil after a rollback.

**Live feed.** The hub drops a broadcast within its interval of the previous one
(`web/websocket/hub.go:271`); the bridge has one debounce timer for two lists and
ignores signals for 1.5 s after the tab's own mutation; a client edit by another
administrator announces only the list of clients; a throttled push handed out after
100 ms can overwrite a newer refetch. A client operation refused after part of it was done
returns before anybody is told (`web/controller/client.go:130`), and the tab invalidates nothing
after a refusal or a lost answer (`hooks/useClients.ts:291`): both leave lists outdated.

**Session.** A comment says that the pages of the panel come without a meta tag
(`web/controller/xui.go:49`), but each is served with one (`web/controller/dist.go:70`). Such a
page repeats a call that was refused for its token with the same token: once the session
was replaced in another tab its calls are refused until it is reloaded.

**Restore.** After 8 s the page polls, and the panel that has not gone down yet answers:
the restore is reported as done, and the reload that follows cuts off an upload still
on its way (`pages/index/BackupModal.tsx:92`; its comment says to wait for the panel to
answer *again*). The status query of every page does redirect after a 401
(`api/queries/useStatusQuery.ts:13`), and the closed database makes the server drop the
session, so a waiting page can end on the login page although the wait itself passes
`skipAuthRedirect` to prevent that. When the migration of the uploaded file fails the
fallback is renamed back but not opened (`web/service/server.go:1317`): the refused
file stays open. The deferred removal of the fallback also runs after a rename that
could not put it back (`web/service/server.go:1298`; "ONLY if everything goes well").
Overlapping restores share the names of the copy and the fallback and take no lock: in
the part *retries* both can end without a database
(`web/service/server.go:1225`, `web/service/server.go:1287`). A fallback that is renamed back comes to
lie beside the sidecar of the refused file (`web/service/server.go:1317`); a database that could not
be closed, and a deferred restart of the core that failed, are only logged
(`web/service/server.go:1278`, `web/service/server.go:1269`).

**Settings and template.** A failed save raises the restart reminder, a failed
restart clears it, and so does a reload of the page, whose comment says that the core
comes back up with it (`layouts/XrayController.tsx:26`); settings are stored field by field, and a
template before what may still refuse it, so a refused save may be stored in part; the two-factor commit posts unsaved access-critical edits along;
saving in an outdated tab reverts another session's change.

**Xray tables.** Deleting an outbound or a balancer leaves rules that name it; the
NordVPN logout removes by the index of an earlier render and can be sent twice, which
removes another outbound as well, answers for two countries
are not told apart; the WARP dialog can be reopened while its account is being
deleted; the setter of a basic list drops a combined rule's other list; the static
DNS hosts on screen are not rebuilt when the template is replaced; test results stay
with the index when rows move.

**Links.** What a written link omits or the import ignores: for vmess the final
mask, ECH, certificate pins and xhttp's mode and headers; kcp's mtu and tti;
shadowsocks' transport; the decoding of trojan passwords; wireguard's preshared key
and keepalive; hysteria version 1. For an inbound that listens on `::` or
`127.0.0.1` the panel's link and the subscription name different hosts.

**Outbound form.** A UDP mask's mtu is written to another path
(`lib/xray/forms/transport/FinalMaskForm.tsx:273`); the vless flow is kept while
hidden; security survives a change of protocol; a change of network drops sockopt
and final mask; only the first server of an outbound is kept; an unknown protocol
becomes vless; saving from the JSON tab skips the form's effects.

**Inbound dialog and form.** The answer with keys, a certificate or ECH is written into
whichever form is open; a submit can precede it; a failed load of the fallbacks
posts an empty list; a fallback re-pointed to another child keeps the first child's
SNI and path; a custom tag is lost when the form before it had a generated one;
hidden transport and TLS settings are posted; the schema refuses values the form
offers or clears.

**Inbounds page.** The full record lacks the parent a row had, so links change with
how a dialog was reached; the optimistic switch and the clone change shared row
objects without an update of the state; one slot holds the confirmation, and
cancelling it while it is busy reports a refusal although the deletion goes on.

**Clients page.** A record fetched for one client replaces the client and the
inbounds under an open form but not its fields; a failed fetch opens the form on the
row without credentials, and saving replaces them; a renaming update changes the
database before the check of the subscription id (`web/service/client.go:792`);
attach and detach are posted under the old email; an attachment to several inbounds, or a new
client, is refused after some of it was stored, and the form does not know; the switch posts the whole record;
the page reset comes one effect after the new search; a deletion can leave the list
beyond its last page; the selection is not pruned.

**Nodes page.** Late answers to a test or a fetch of the pin land in another node's
form; https keeps the mode "skip" of an http node; when the last node is deleted
nothing is broadcast; an edit saves the whole row over another administrator's
change; the end of one confirmed call closes the next confirmation.

**Groups page.** The emails of one group, awaited, replace those of the group whose
dialog was opened meanwhile; the picker keeps clients that have left the list; a
dialog that was closed while saving closes, when the save succeeds, the one opened
after it; the check for a taken name looks at the list on screen while the server
merges; `client_groups` is updated outside the transaction
(`web/service/client.go:1985`), so a rename that is refused leaves both names, and nobody is told.

**Notifications.** A failed poll, a changed level and a re-enabled sensor replay old
lines; a sensor switched off while its value falls stays acknowledged; the cap of the
log evicts the record through which a dismissed alert is restored.

## 7. Not modelled

See `components`. On the server: pure rendering and I/O (subscriptions, geo files,
server status, WARP, logs, installer), single-row settings, log parsing for
fail2ban, the chat front end, and database migrations. Of the server's hazards these
are known and not covered: an update that changes the tag of a node's inbound, remote ids
that the node reuses while they are cached, the reopening of the database by
path after a restore that was rolled back, polls whose write a full queue refuses,
and the locks of several inbounds that bulk edits take one after another.

In the front end: components that only render (charts, cards, info and QR dialogs,
theme, tables of the API documentation), the tabs that bind one field to a draft,
generated code and tests; the overview page's dialogs, which show the last answer
of a poll; the bulk dialogs of the clients page; formatters; translations. Of the
widgets inside the forms only what they show, keep and refuse is modelled. Network
failures are modelled where a handler treats them in a way of its own.

## 8. Plan

Done: 1. traffic writer with its contract and proofs; 2. xray lifecycle; 3. node
sync; 4. node traffic with proofs; 5. client limits; 6. the panel's data path;
7. editors, forms and links; 8. pages and notifications, restore of a backup.

Next modules:

9. *Remote runtime and manager*: the id cache against ids the node reuses;
   invalidation against calls in flight; `disableRemoteClients` whose push fails.
10. *WebSocket hub*: registration, eviction of slow clients, stop; composed with
    `WebSocketClient`.
11. *Client mutations*: bulk operations over several inbounds under `lockInbound`.
12. *Inbound counters and quotas*, including the grace period after a reset;
    `GetTraffic` with counters that go back.
13. *Login limiter*, *online clients*, the details of the *port conflict* (addresses,
    transports), of which `NodeSync` has the outcome: small modules, provable whole.
14. The polled dialogs of the overview page, the bulk dialogs of the clients page, and
    the restore of a PostgreSQL dump.

Next theorems:

* of `panel_editors`: `LinkRoundTrip` and `SavedAsShown` (tables of fields, for all forms; the
  lemmas about written and read outbounds are a beginning), `ScreenFollowsServer`,
  `ReferencesResolve`, the action property `RightRow` and `TypeOK`.
