# Clash Verge: specifications, model checking and proofs

This directory verifies a Tauri application around the Mihomo proxy core. Its
Rust back end generates a configuration for the core, starts and stops it and
keeps subscriptions up to date; its interface, in TypeScript and React, shows
what the core does and edits what it is told. The specifications are TLA+
modules; TLC checks them on small instances, and the TLA+ proof system (TLAPS)
checks proofs that hold for every value of the constants. Paths below are
relative to the repository; the lines of every modelled definition are in
`PROJECT.json` under `map`.

1. [The system](#1-the-system)
2. [The modules](#2-the-modules)
3. [What the runs check, and their bounds](#3-what-the-runs-check-and-their-bounds)
4. [Fairness](#4-fairness)
5. [What is proved](#5-what-is-proved)
6. [Disagreements between the code and what is said of it](#6-disagreements-between-the-code-and-what-is-said-of-it)
7. [What is not modelled](#7-what-is-not-modelled)
8. [Plan](#8-plan)
9. [Running the checks](#9-running-the-checks)

## 1. The system

### Components, their state and operations

The components of the back end run as tokio tasks of one process. Tauri
commands, deep links, the tray, timers and the window all call the same
singletons concurrently. The interface is one thread that no event interrupts,
but each of its requests is answered later, to a component that may have been
rendered anew, closed or opened again. The tables name the components that
carry state; `PROJECT.json` lists every one, with its sources and the reason if
it is left out.

| component | state | operations | must hold |
|---|---|---|---|
| `Draft<T>` store (`crates/clash-verge-draft`) | committed `Arc<T>`, optional draft `Arc<T>`, async modify lock | `edit_draft`, `apply`, `discard`, `with_data_modify`, reads | an acknowledged change survives; a draft is private until applied; a snapshot never changes under its reader |
| Core lifecycle (`core/manager/{mod,lifecycle,state}.rs`) | running mode, sidecar child, operation lock | `start_core`, `stop_core`, `restart_core`, event task of each sidecar | one core at a time; a successful stop leaves none; an operation ends |
| Service client (`core/service.rs`) | status, ownership session, installer lock | install, uninstall, start, stop, probe | no request carries the session of an earlier start |
| Profile switch and update (`cmd/profile.rs`, `core/manager/config.rs`, `config/config.rs`) | switching flag, previous profile, runtime draft, runtime file and `.bak` | `patch_profiles_config`, `update_config_forced`, `apply_generate_config`, restore | list, runtime file, core and `profiles.yaml` agree again after each success and each failure |
| Profile list (`config/profiles.rs`) | items, current, `profiles.yaml`, profile files | append, delete, save, patch, reorder | no reported change is lost |
| Deep links (`utils/resolve/scheme.rs`) | none | import a subscription | the import stays |
| Update timer (`core/timer.rs`) | cached map, scheduler's task states, delay queue, channel | `init`, `refresh`, scheduler loop, update tasks | nothing is forgotten, doubled or scheduled with an old interval; the queue never meets a dead key |
| Settings patches (`feat/config.rs`) | drafts of the settings, `CONFIG_PATCH_LOCK` | `patch_verge`, `patch_clash`, their side effects | a failed patch leaves settings and effects as before |
| System proxy (`core/sysopt.rs`) | OS proxy, guard, update lock | update, reset, guard loop | the proxy follows the settings and is gone at exit |
| Lightweight mode (`module/lightweight.rs`) | three-state machine, timer with a cancel channel | enter, exit, timer | exactly one of window and lightweight mode |
| Automatic backup (`module/auto_backup.rs`) | schedule, `exec_lock` | triggers, clean-up | one backup per interval |
| Silent updater (`core/updater.rs`) | cached bytes and their description | download, install at start | never installs what does not match or is not newer |
| Mihomo plugin (`crates/tauri-plugin-mihomo`) | connection map, request semaphore | connect, read, disconnect, requests | disconnect stops deliveries; a request ends |
| Tray speed, log stream (`core/tray/speed_task.rs`, `utils/connections_stream.rs`, `core/service_logs.rs`) | connection id, bounded channel | start, stop, reconnect | no socket without an owner |
| Rate limiter (`crates/clash-verge-limiter`) | last time | `check` | at most one pass per period |
| Exit and restore (`feat/window.rs`, `feat/backup.rs`) | exit flag | clean-up with deadlines, restore of the stores | nothing rejected is saved |

The interface (`src/src`) and two scripts of the build:

| component | state | operations | must hold |
|---|---|---|---|
| Latency tests (`services/delay.ts`, home card, rows) | cache of results, generation of each request, listeners | check one, a list, a group; cut short | an answer belongs to the latest request; no mark stays |
| Choice of a proxy (`hooks/use-proxy-selection.ts`) | pending request, saved selections | choose, retry, save, close connections | the last click is in effect in the end |
| Proxy chain, list of proxies (`components/proxy`) | chain, remembered exit node; heads, cached rows | edit, connect, find again; filter, sort | a connected chain is found again while its dialers stay; rows are a permutation of the nodes |
| Card of the current node (`components/home/current-proxy-card.tsx`) | group and node shown, remembered group of each subscription, timer of a choice, chain of tests | fetch, choose a group or a node, test, sort, leave | it shows the core's node and the chosen group; one chain of tests |
| Subscriptions (`pages/profiles.tsx`, `components/profile`) | sequence numbers, spinners, timers, forms, two views of each document | switch, update, delete, edit, save | a spinner or listener ends with its cause; both views agree |
| Streams of the core (`hooks/use-mihomo-ws-subscription.ts`) | entries with subscribers, socket, timers | mount, connect, reconnect, leave | a socket belongs to someone who listens |
| Connections, traffic (`hooks`, `components/connection`, `components/home`) | merged snapshots, columns, worker with its sampler, frames | messages, clear, reorder, draw | each open connection is shown once; no frame of what is gone |
| Settings (`components/setting`) | drafts, locks, optimistic values | open, edit, check, save, reset, close | what is saved was shown, and reaches the system |
| Data of the application (`providers/app-data-provider.tsx`) | queries, last usable data, listeners | fetch, event, update of a provider | the last event is followed by a fetch |
| Backups (`components/setting/mods/backup-*`) | busy marks, pages, confirmation | create, list, delete, restore, configure | only what was confirmed is deleted or restored |
| Notices (`services/notice-service.ts`) | list, timers | show, hide, copy | a notice stays as long as it was asked to and keeps its details |
| List of the tests (`pages/test.tsx`, `components/test`) | entries of the settings, listeners, patches with their refetch | add, change, delete, move, test one or all | the list shown is the one stored; the event reaches each entry |
| Card of the address (`components/home/ip-info-card.tsx`) | interval, countdown, shared request with its services | show, hide, ask, mutate | one interval while it is shown; an answer or an error in the end |
| Page of the media (`pages/unlock.tsx`) | rows of the storage, marks, locks | check all, check one, leave | marks end with their check; what is shown is what is stored |
| Files to pack (`scripts/prebuild.mjs`) | files, archives, caches of versions and hashes | download, unpack, copy, retry, interrupt | after a run that ends well everything is there |
| Clean-up of the locales (`scripts/cleanup-unused-i18n.mjs`) | locale files, backups | scan, remove, align, write | no text that is used is lost |

### How they interact

```
   commands, tray, deep links, window                timer.rs
        |              |                                |  update tasks
        v              v                                v
   cmd/profile.rs   feat/config.rs ------------> core/manager/config.rs
        |  draft       |  draft                     |  generate, write, reload,
        v              v                            |  validate, restart
   profile store   settings store   runtime store <-+
        |   (three Draft<T> stores: ConfigStore)    |
        v                                           v
   profiles.yaml                      core/manager/lifecycle.rs
                                            |            |
                                        sidecar      service.rs (IPC)
```

- **Locks.** `operation_lock` (CoreManager) serialises starts, stops and the
  application of a configuration. `async_modify_lock` (one per store)
  serialises changes of committed values. `CURRENT_SWITCHING_PROFILE` refuses a
  second profile switch. The *draft* of a store is under no lock at all.
- **Shared state.** A switch works on the draft of the list while imports,
  deletes and background saves change its committed value; an update generates
  from the *latest* value, draft included.
- **The window** calls commands, reads the core through the plugin's sockets,
  and is told by events that something changed. Its pages share queries
  (`app-data-provider.tsx`), two modules with state of their own (`delay.ts`,
  `notice-service.ts`) and the entries of the streams; dialogs share no state
  with one another, only the settings they patch.
- **Messages.** The timer's refreshes and update tasks talk to its scheduler by
  an unbounded channel; service and core are reached over sockets with
  deadlines, so a request may be carried out although its caller gave up.

### What is hard here

Every `await` is a point where another task moves. The 40 hazards in
`PROJECT.json` name the lines; the main kinds are: changes lost because a value
was cloned before an await; a timeout that drops a future in the middle of a
transaction; an answer that is lost while its request took effect; a task of an
earlier generation acting on the state of a later one; a failure half-way that
must restore four places; an event that must come or nothing happens again. In
the interface: a closure that keeps the values of the rendering that made it;
an answer for a dialog that was closed and opened again; a lock that drops the
second of two calls without a word; an effect that writes back what a newer
edit replaced; a timer that outlives what set it.

Further hazards, which no property covers yet: a disconnect that writes to its
socket under the write lock of the plugin's connections, to an other side that
does not read (`mihomo.rs:319`); a subscription that is imported, and is not
scheduled until another command refreshes the timer (`cmd/profile.rs:106`;
`SettingsScheduled` excludes it by `unannounced`); a service that is late at
setup is given up (`lifecycle.rs:22`) and mode Service without a session (`:95`,
both met in CoreLifecycle); an update that generates from an undecided switch
(`enhance/mod.rs:176`) and the boot's runtime draft, which nothing applies
(`manager/config.rs:95`); `change_core` beside the patch lock
(`lifecycle.rs:114`); a reorder that drops items (`profiles.rs:170`); half of a
cached update (`updater.rs:62`) and its version order (`:106`); permits of the
request gate (`ipc.rs:447`); effects of a patch that fails half-way
(`feat/config.rs:252`); an exit that applies open drafts (`config.rs:256`); a
guard that writes an old proxy (`sysopt.rs:201`); a timer of lightweight mode
that is cancelled late (`lightweight.rs:233`); a clock that goes back (`limiter
lib.rs:50`); a saved file whose validation fails (`save_profile.rs:57`).

## 2. The modules

| module | models | composed with |
|---|---|---|
| `ConfigStore` | `Draft<T>` as values: the abstract specification | — |
| `Draft` | `Draft<T>` as Arc pointers to cells with copy-on-write | implements `ConfigStore` (refinement) |
| `CoreLifecycle` | `CoreManager`'s operations, sidecars with their event tasks, service client, the service and its installer | sees a configuration update as a restart |
| `ProfileSwitch` | switches, updates, restore, imports, deletes, saves, deep links, edits of the runtime draft | two stores of `ConfigStore` inlined as (committed, draft) pairs; the core reduced to the configuration it runs |
| `UpdateTimer` | timer, scheduler, update tasks and the commands that change an interval | sees an update as a task that ends |
| `DelayManager`, `ProxySelection`, `ProxyChain`, `ProxyList`, `ProxyCard` | the page of the proxies and the home card | `MCProxies` |
| `ProfileEditors`, `EditorDocument`, `ProfileItem`, `ProfileForm`, `ProfilesPage` | the page of the subscriptions with its editors and dialogs | `MCPages` |
| `Streams`, `Connections`, `ConnectionColumns`, `TrafficMonitor`, `TrafficGraph`, `SidebarGraph` | what the core sends, and its views | `MCPages` |
| `DnsForm`, `SystemProxy`, `Tunnels`, `ClashPorts`, `GuardedSettings`, `CoreDialogs`, `VergeDialogs` | the settings | `MCSettings` |
| `Backups` | backups | `MCSettings` |
| `AppData`, `Notices` | data of all pages, notices | `MCPages` |
| `TestList`, `IpCard`, `Unlock` | the list of the tests, the card of the address, the page of the media | `MCSettings` |
| `LocaleCleanup` | the script of the locales | `MCPages` |
| `Prebuild` | the script of the files to pack | `MCSettings` |
| `TraySpeed` | the task of the tray's speed on top of the plugin's connections | `MCSettings` |
| `*Proofs` | theorems of the modules in their name; `ConfigStore` and `Draft` end with their own | |
| `MC*` | instances for TLC; `MCPages` extends `MCSettings` | |

### ConfigStore and Draft

A value is the set of *edits* it contains; each closure makes at most one new
edit, so that a lost edit is visible. `data`, `draft`, `queue`, `lock` and
`base` are the fields of `Draft<T>` and the local clone of `with_data_modify`.
One action per method; `with_data_modify` is four (request, begin, commit or
fail, cancel), because its closure awaits. `ModifyCancel` is a future dropped
by a timeout. The history variables `durable`, `ackedOpen` and `appliedOpen`
say which changes were acknowledged and which of them overlapped another
commit; only `used` is read by a guard, to make each edit new.

`Draft` has a heap of cells. `edit_draft` mutates the cell in place if nobody
else points at it (`Arc::make_mut`) and copies it otherwise; `apply` moves a
pointer. The refinement mapping dereferences the three pointers.

### CoreLifecycle

`pc` is the next step of the one operation that holds `operation_lock`, `op`
its kind. Sidecars are numbered in the order of their spawn. The event task of
a sidecar takes its child in three steps (`Peek`, `Compare`, `TakeChild`, then
`ClearMode`), as `state.rs:224-231` does; `peeked[p]` is the Arc it holds
meanwhile, which makes `Arc::try_unwrap` of a concurrent stop fail
(`Unshared`). The service hands out a session per start (`lastGen` counts
them); its answers may be lost (`StartReply`, `StopReply`), the service or its
core may crash, and an installer holds `SERVICE_MANAGER` through a probe loop. A
start through the service waits for that lock twice, in `Prepare` and in
`CheckManager`, forgets its session before the request (`SendStart`), has a new one
with the answer, and only then moves the client to the socket of the service
(`UseServiceSocket`), so that a failure or a dropped future finds the two apart. A
stop, also the one that undoes a start, may find no session or no service; a kill
may fail, after which the child is given up all the same (`TakeInVain`). `pkill` is
taken to reach every process of the user, and those of root if the app is root.
`tun`, `admin` and `toggled` decide the TUN fallback. `Cancel` drops an
operation at any await, as the three-second deadline of `clean_async` does.

### ProfileSwitch

Each caller is a task with a program counter. The update under
`operation_lock` is a chain of steps — acquire, generate, back up, write,
reload or skip, answer, validate, stop, start — each with its failures, ending
in `Accept` (commit the runtime draft) or `Reject` (copy `.bak` back, drop the
draft). Only a switch has the 30 s timeout: `Cancel` drops the update at any of
its steps, and a request under way may still reach the core (`orphan`).
Afterwards a switch commits and saves its list (`CommitSwitch`, `Save`) or
restores the previous profile (`DiscardSwitch`, `RestorePrevious`), whose save
is a background task. Changes of the committed list (`AppendItem`,
`DeleteItem`, `Save`) work on a clone taken under `async_modify_lock`. A deep
link appends and then applies whatever draft is open (`PublishImport`), saving
without the lock (`StoreImport`).

A configuration is a record of the profile it was generated from and the last
proxy-chain edit; the core accepts it or not. `doubt` is the one history
variable that excuses: it is set where the code itself gives up on agreement
(a timeout, a request that outlived its caller, a failed restart or restore,
a save that wrote an older list over a switch).

### UpdateTimer

Commands (`PatchProfile`, `DeleteProfile`, `ImportProfile`) change `settings`;
a refresh is split where its lock is taken and released (`RefreshRead`,
`RefreshInstall`, `RefreshSend`). The scheduler takes messages from the FIFO
channel and expired entries from the delay queue; keys of the queue are slots
that become dead when their entry leaves it, because `DelayQueue::remove` and
`reset` panic on a dead key. Update tasks wait, run and report. Time is
abstract: an entry may expire at any moment but carries the interval it was
armed with. `unannounced` names subscriptions changed on a path that never
refreshes the timer; `overlapped` those dropped while their update ran.

### The modules of the interface

They have one convention: what a component *shows* is a variable, what the back
end or the core *has* is another, and a request is a member of a set or a
sequence from its call to its answer, with what it captured (the rendering, the
draft, the generation). Each action is one callback — a click, an answer, an
effect, a timer — with all it calls. The user, the answers and the timers come in
any order; `steps` bounds the user.

- **DelayManager**: `cache`, the generation of each request, the pools of
  helpers of each list (`HelpersDone` ends one), the loss of the core, the
  frames in which listeners are told.
- **ProxySelection**: `current`, `pending` and the loop that serialises the
  requests; `patchCurrent` with what it was told of the saved selections, the
  clean-up of connections. `shouldRun` and `running` decide who continues.
- **ProxyChain**: the chain of the page, what the browser's store keeps of it (the
  chain and the exit node), and the dialers in the runtime configuration that the back
  end writes (`cmd/runtime.rs`). A behaviour begins with any store that an earlier run of
  the app left, beside a new configuration with the dialers of its profile
  (`OwnDialers`); `Regenerate` makes another one at any time (a refresh, a switch, a
  setting: `core/manager/config.rs:93`). `work` holds the handlers of the button under
  way: `isConnecting` goes with the button, so a page that came back, or a mode that was
  toggled, starts a second one beside the first (`Left`, `Press`). A disconnect ends
  before the chain is dropped when a connection cannot be closed or the nodes cannot be
  fetched (`Disconnected`); each call can be refused or come late.
- **ProxyList**: filtering, the three orders, columns, the cache of rows
  (`groupCacheRef`, `prevListRef`), and the end of a test of a group, which writes back
  the state of the head that the click saw (`testing`).
- **ProxyCard**: the group and the node that the card of the home page shows, the
  group remembered for each subscription (with the value of older versions that
  has none), the 300 ms timer of a choice, the chain of automatic tests and a
  test of the whole group, and the list with its order. The nodes, the rules, the
  mode and the subscription are fetched apart; `Follow` is the rendering that
  runs both effects after one of them, and `FetchAgain` an answer that equals the
  last one, after which no effect runs.
- **Streams**: an entry per key with its subscribers, the socket of each
  generation, the reconnection timer, the end of the grace.
- **ProfileEditors**: rows and text of a document with React's queues
  (`queued`, `deferred`), the idle serialisation, and the save.
- **EditorDocument**: the reading and saving of a text, with the back end's
  refusal that restores the file; closing and opening between any two steps.
  `crossed` names the save during which an editor was opened.
- **ProfileItem, ProfilesPage, ProfileForm**: sequence numbers and aborts of
  switches, the deletion of one and of many, each with a lock of its own, listeners with their asynchronous removal, the
  second attempt through the own proxy with the options it restores, the late
  reset of the form.
- **Connections, ConnectionColumns**: merging of snapshots under a throttle;
  reordering, hiding and the stored order of another version.
- **TrafficMonitor, TrafficGraph, SidebarGraph**: references to the worker, the
  sampler's aggregation and its ranges, frames requested and cancelled.
- **DnsForm, SystemProxy, Tunnels, ClashPorts, GuardedSettings, CoreDialogs,
  VergeDialogs**: a dialog's draft, its validation, its two or three requests
  in order, what each failure undoes, the shared locks of `useClash` and
  `useVerge`, and what reaches the core or the system.
- **AppData**: queries with the last usable data and its grace, the throttle of
  events, listeners that are added late, updates of providers.
- **Backups**: three dialogs over one another, marks, pages, confirmations, the
  status of the server by its signature.
- **Notices**: how the arguments become a message and its raw details, timers.
- **TraySpeed** (back end): the generations of the task (`pc`, `aborted`), the
  clean-up of each stop, the id that they leave to one another in `speedId`, and
  the plugin's map with its lock, a reader for each connection and the timers that
  remove by force. A task can be aborted wherever it awaits: while it waits for
  the lock, or holds it to write. `overwritten` and `dropped` are the ids that the
  code loses (section 6).
- **LocaleCleanup**: which keys the sources name (calls, templates with a
  prefix, conditions, attributes), what is removed, aligned, backed up, written,
  with a failure at each access and a second run.
- **TestList**: the list that is cached (`seen`) and the one that is stored, the
  patches on their way (`calls`, sent at once or when the thread is idle), the one
  refetch; of each entry its delay, the tests under way and the listeners, which are
  registered after the effect that asked for them may have been cleaned up.
- **IpCard**: the interval and the variable that knows it, the handlers of its ticks
  that wait for the window's answer, and react-query's request (`fetching`,
  `failures`, paused without a network) with the services it asks one after the
  other, each with a timer that aborts it.
- **Unlock**: the rows of the storage, where earlier versions left two of a name;
  calls (`jobs`) hold the rows of the page that made them, and go on when it is gone.
- **Prebuild**: a run goes through `Tasks`, each tried again from its begin; a write
  is two steps, between which it may be interrupted; a file that is no archive is taken
  as the server sends it, whole or not; archives, versions and hashes
  stay between runs. The versions, the sources and the files may change meanwhile.

`MCProxies`, `MCSettings` and `MCPages` instantiate many components in one run;
`MCPages` extends `MCSettings` with the pages, so that a behaviour of its `PageSpec`
is one of `SettingsSpec` as far as the variables of the settings go. The components in them share no state — each models what it sees of the back end — so
a product of them would only multiply states: `part` names the one component
that a behaviour is about, and the others keep one fixed start. A property that
several components contribute to is a conjunction of `part = "x" => X!Prop`, or
an action property that names the variables of its component.

## 3. What the runs check, and their bounds

`Inv` is in each module the type invariant and the module's inductive
strengthening. Deadlock checking is off everywhere: an app whose bounded number
of commands is used up really stops.

| run | states | question and answer |
|---|---|---|
| `config_store` | 83 thousand | Two modifiers, a reader and a draft, three edits. `NoLostChange`: an acknowledged change stays unless one of the two overlapping commits named in the module dropped it, and nothing else is ever lost. `ModifyServed`: no failed or dropped closure keeps the lock. |
| `draft_cow` | 982 thousand | Two readers, a modifier, two edits, five cells (never exhausted: readers + 3). `ImplementsStore`: sharing and in-place mutation are invisible. `SnapshotFrozen`: a reader's value never changes. |
| `core_lifecycle` | 1.18 million | One sidecar with two service sessions, every operation, loss, crash and installer; or three sidecars without a service, where the event task of the first may hold the child of the second while the third is spawned (`SidecarsOrSessions`). `SessionFresh`, `NoFakeSidecar` (no sidecar start under TUN without elevation, unless TUN was switched on meanwhile), `OneSidecar`: never two that nobody told to stop, `OperationEnds`. |
| `core_dual` | until violated | Finding 1. |
| `profile_switch` | 287 thousand | Two callers switch among two good profiles and a rejected one, with timeout, lost answers, failed restarts, failing saves, an exit. `IdleAgrees`, `SavedAgrees`, `AppliedRuns` (what is committed is what the core runs), `SwitchEnds` (whatever the core does). |
| `profile_list` | 1.14 million | Two callers, three commands out of import, deep link, delete, update and proxy-chain edit. `NoLostImport`: without a switch no reported import disappears. |
| `profile_save` | until violated | Finding 2. |
| `update_timer` | 82 thousand | One subscription, five changes, one command at a time. `OneTurn`: exactly one queued entry, update or report. `SettingsScheduled`: once refreshes settle, the scheduler follows the settings. `UpdatesRecur`: an enabled subscription is updated again and again. |
| `timer_refresh` | until violated | Finding 3. |
| `interface_proxies` | 2.26 million | Tests, choices, the chain, rows and the card. `LatestWins`: no answer replaces that of a later request. `NoMarkLeft`: no mark "testing" once nothing tests. `LastChoiceWins`: the loop of choices ends with the last click, however many came meanwhile. `ChainFound`: from the moment a chain is connected until its dialers are written again (by a connect, a clear or a new configuration) or another handler's exit node is remembered, the walk from the remembered exit node finds that chain, node for node. `DialersEnd`: the dialers form no circle but one that a profile brings, so the back end's walk along them ends, although two connects may overlap and the configuration may change between any two steps. `RowsComplete`: the rows that are shown, cached or new, are, if they were made for this mode, a permutation of the filtered nodes in the columns of the window. `SortedAfterCheck`: after a test of a group its rows are sorted by what was found. `CardAgrees` is the conjunction of ProxyCard's `CurrentShown` (the node shown is the core's), `GroupRemembered` (a chosen group is shown again after another mode, page or subscription), `OneChain` (tests follow one another in one chain) and `ListOrdered`. |
| `interface_pages` | 2.15 million | The other components of the interface (`PageSpec`), the tray's speed and the two scripts, see the next table. |
| `form_restore` | until violated | Finding 4. |

The properties of `interface_pages` and their conjuncts (each is named and
commented in its module):

| property | conjuncts |
|---|---|
| `SocketsOwned` | Streams: an open socket belongs to an entry that has subscribers and will close it, in whatever order they come and go and calls are answered. |
| `SpeedOwned` | TraySpeed `ConnectionsOwned`: what is in the plugin's map has its id where a task or clean-up will disconnect it, or its end is certain; `EntriesServed`: it has a reader; `StoppedEnds`: after the last clean-up no task and no id are left. |
| `RowsSaved` | ProfileEditors `SavesRows`: what is saved is what the rows show. |
| `ListsFaithful` | ProfileEditors `RowsAgree`: when React and the browser are idle both views say the same; Connections `ConnectionsListed`; ConnectionColumns `ColumnsShown`; TrafficMonitor `SeriesComplete`; Notices `NoticesStay`, `NoticesEnd`, `DetailsShown`. |
| `SwitchTracked` | ProfilesPage: the page marks exactly the latest switch under way; no spinner without a cause. |
| `FormsFaithful` | EditorDocument `CleanIsFile`, ProfileForm `ProxyKept`. |
| `SettingsApplied` | DnsForm `FormAgrees`, `AppliedValid`; Tunnels `DraftKept`; SystemProxy `SystemIsSaved`, `LastClickWins`; ClashPorts `SentIsChecked`, `PortsAgree`; GuardedSettings `SettingsShown`; CoreDialogs `RoutesValid`, `TunShown`, `OriginsApplied`; VergeDialogs `ControllerSaved`, `MiscKept`, `AutoBackupShown`. |
| `OriginsKept` | CoreDialogs `OriginsWhole`: the origins that are stored hold those of the program, each once, none blank. |
| `BackupsConfirmed` | Backups `BusyEnds`, `ConfirmedOnly`, `PageFilled`. |
| `ResourcesOwned` | ProfileItem `ListenersOwned`; TrafficMonitor `WorkerServes`; TrafficGraph `FramesOwned`; AppData `NoListenerLeft`, `SpinnersEnd`; TestList `TestsEnd` (an entry that is shown has its own listener; those that are left behind are not counted); IpCard `IntervalOwned` (one interval, which the effect knows), `RevalidationEnds`, `ServicesAsked`; Unlock `ChecksEnd`. |
| `ViewsCurrent` | TrafficGraph `DrawnInside`: the newest data, no label over another, nothing outside of the canvas; SidebarGraph `DrawsLatest`; AppData `LastDataShown`; TestList `ListAgrees`: when nothing is under way, nothing failed and nothing overtook, the list shown is the one stored; IpCard `AddressKnown`; Unlock `RowsStored`. |
| `FilesKept` | LocaleCleanup: no used text is removed; during a run and after one that failed, what a file was when that run began is in it or in its backup (a second run after a failure backs up the torn file, section 6); an index imports the files there are. Prebuild `RunComplete`: a run that ends well leaves every file, the scripts as in the repository, and if forced all whole but plain downloads, and the cores of the versions asked for; `PartsOwned`: a core, a binary or a script that is not whole is being written, or was when a run was interrupted. |

Where the code does not keep a property in a case that section 6 describes, a
history variable of the module names that case and the property excludes it and
nothing else (`crossed`, `overlapped`, `failed`, `dropped`, `overwritten`, `forgiven`, `lost`, `late`,
`void`, `unsorted`, `made`, `together`, `behind`, `others`, `cut`); each is
commented where it is declared.

Why the bounds are enough to meet the interesting cases:

- **ConfigStore**: each of the two ways a change can be lost needs one draft
  and one modification; the third edit lets an innocent change be watched
  meanwhile. The second modifier makes the queue non-trivial.
- **CoreLifecycle**: stale sessions need an old and a new one (`MaxGen` 2);
  generations of event tasks need three sidecars (`MaxPid` 3). A constraint
  keeps the two apart since a sidecar's event task never looks at the service; the
  theorems of section 5 have no bound.
- **ProfileSwitch**: two callers meet in every pair of steps; with two or three
  commands every pair (and, for the list, triple) of kinds overlaps. One
  accepted pair and one rejected profile suffice for an accept after a reject,
  a reject after an accept and two accepts.
- **UpdateTimer**: handlers touch only the subscription they are about, except
  `apply_timer_map`; its effect on others is covered by the proof, for any
  number of subscriptions. Five changes allow enable, change, disable, enable
  again and delete. Four slots are never exhausted by one subscription.

- **The page of the proxies**: two nodes and two groups are the least with a
  choice; three clicks fill the slot of waiting requests and replace it. A chain of three nodes
  has an entry, a middle and an exit, two handlers are one that was left behind and
  one beside it, and four steps are a connect, a departure, a return and a second
  connect, or a new configuration instead. The store at the start has a chain of each
  length (`OneOfEachLength`), so none needs to be built first, with any exit node; the
  profiles (`SomeProfiles`) bring no dialers, a circle of two nodes, or lack the
  middle node of the stored chain and have the first one dial through a group.
  The tests use two nodes and two callers, of which one may be cut short; the list
  has the same two nodes, which are one row or two by the width and a row with a
  rest when one is filtered out. The card has two subscriptions with a group of
  the same name and a group of the last rule that is no selector; three steps of
  the user or the core, among fetches, timers and answers in any order, are a
  choice or a test with two changes of the subscription, the mode, the group or
  the page around it.
- **Pages**: two hooks and three sockets let a socket of an earlier generation
  answer after a later one was made. Every dialog can be opened, saved, closed
  and opened again within its `MaxSteps` (between 2 and 7 steps of the user;
  answers, effects and timers are not counted), which is what a late answer
  needs to reach the wrong dialog. Three profiles are a switch that replaces a
  switch and one to return to. A remote profile has a home page, and one with
  enhancements is not shown in the mode of batches, which leaves their entries alone. The
  clock of the monitor goes as far as the raw range, where a point of the start is
  too old and a later one not. Texts are one per case that the code tells
  apart (missing, valid, refused, out of range, and two valid ones where a
  difference counts).
- **Tests, address, media**: three entries are the two defaults and one made; three
  steps of the user are two changes that overtake one another, with a departure.
  Two services are one that fails and another; the time goes beyond `IpRefresh`, so
  that an answer gets too old, and two ticks may wait at a time. One name of the back
  end and one that only the storage knows are a row that is merged and one that is
  kept; four steps are a check, a departure, a return and a second check.
- **Prebuild**: two tries, two binaries and one file of each other kind; three steps
  are a run that is interrupted, a change from outside and a second run.
- **TraySpeed**: two tasks, two connections and two calls are a stop and a start
  while the first task is anywhere; a run with three connections and four calls
  found nothing else, and the theorems have no bound.

Each property was seen to fail under a plausible bug of the code — the
`mutants` of `PROJECT.json`: e.g. a base cloned before the modify lock is
taken, `make_mut` that looks at the wrong Arc, a `.bak` that is not copied
back, a session that survives the next start, a flag cleared before the
restore, a task key kept after its entry expired. The interface's modules keep
one or more such definitions per property, each marked "Mutant of the next
definition"; `PROJECT.json` lists one per property.

## 4. Fairness

- **ConfigStore**: tokio's mutex is FIFO and wakes its head waiter, closures
  write files and end: weak fairness of taking the lock and of ending.
- **CoreLifecycle**: weak fairness of the operation and of the installer: every
  probe loop and IPC call has a deadline (`state.rs:41-157`,
  `service.rs:540-567`). `Prepare` and `CheckManager` wait for `SERVICE_MANAGER`, a
  FIFO mutex that installers take again and again: strong fairness. Nothing in the world
  is fair: the service need never come up.
- **ProfileSwitch**: weak fairness of the app's own steps (`Proceed`) and of
  the 30 s timeout; strong fairness of the FIFO modify lock. *The core and its
  `-t` run are not fair*: they may never answer, which is why `SwitchEnds` is
  worth checking.
- **UpdateTimer**: command tasks run; the scheduler serves channel and queue
  (`select!` polls both); delays elapse; the start-up wait ends after 5 s and
  an update after 40 s (`timer.rs:328-334`, `371-405`).
- **The interface** has no liveness property: an answer of the back end need
  never come. What must end is stated as what holds once nothing is under way
  (`NoMarkLeft`, `SpinnersEnd`, `BusyEnds`, `NoticesEnd`), which needs no
  fairness.

## 5. What is proved

| module | theorem | statement |
|---|---|---|
| `ConfigStore` | `InvHolds`, `ChangesSurvive`, `DraftsArePrivate` | `Spec => []Inv`, `[]NoLostChange`, `[]DraftIsPrivate` |
| `Draft` | `DraftInvariant`, `SnapshotsFrozen`, `Refinement` | `Spec => []Inv`, `SnapshotFrozen`, `Store!Spec` |
| `CoreLifecycleProofs` | `InvHolds`, `SidecarsExclude`, `SessionsAreFresh`, `SidecarsAreHonest` | `Spec => []Inv` and its three safety parts |
| `ProfileSwitchProofs` | `InvHolds`, `CalledHolds` | `Spec => []Inv`, and: a step belongs to a command of `Kinds` |
| | `IdleStatesAgree`, `SavedListAgrees` | `[]IdleAgrees` if `Kinds` \subseteq {switch, exit}; `[]SavedAgrees` without deep links |
| | `ImportsStay`, `SavesAreWriteBacks` | `[]NoLostImport` without switches, and then each save of the list is one of a command |
| | `CommitsRun` | `[]AppliedRuns` without edits of the proxy chain |
| `UpdateTimerProofs` | `InvHolds`, `NothingStalls` | `Spec => []Inv`, `[]NotStalled` |
| | `OneTurnHolds`, `SettingsAreScheduled` | `[]OneTurn`; `[]SettingsScheduled` with one command at a time |
| `ProxiesProofs` | `TypeCorrect`, `LastChoiceHolds` | the choices: `[]TypeOK`, `LastChoiceWins` |
| | `LatestWinsHolds`, `NoMarkLeftHolds` | the tests: `LatestWins`, `[]NoMarkLeft` |
| | `DialersEndHolds`, `ChainFoundHolds` | the chains: `[]DialersEnd`, `[]ChainFound` |
| | `CardAgreesHolds` | the card: `[]CardAgrees` |
| `PagesProofs` | `SocketsOwnedHolds` | `PageSpec => []SocketsOwned`: the streams |
| | `SwitchTrackedHolds` | `[]SwitchTracked`: the page of the profiles |
| | `FormsFaithfulHolds` | `[]FormsFaithful`: document and form |
| | `FilesKeptHolds` | `[]FilesKept`: the clean-up of the locales and the files to pack |
| | `ResourcesOwnedHolds` | `[]ResourcesOwned`: the item of a profile, the graphs, the data, the tests, the address, the media |
| | `ViewsCurrentHolds` | `[]ViewsCurrent`: the graphs, the data, the tests, the address, the media |
| `SettingsProofs` | `SpeedOwnedHolds` | `SettingsSpec => []SpeedOwned`: the tray |
| | `SettingsAppliedHolds` | `[]SettingsApplied`: all dialogs of the settings, one lemma each (`DnsHolds`, `TunnelHolds`, `SysHolds`, `PortHolds`, `GuardHolds`, `CoreHolds`, `VergeHolds`) |
| | `BackupsConfirmedHolds` | `[]BackupsConfirmed`: the backups |

`SettingsProofs` is about `SettingsSpec`, the run about `PageSpec`; the lemma
`SettingsBehave` of `PagesProofs`, which extends `SettingsProofs`, says that a behaviour
of the second is one of the first. So the theorems of `PagesProofs` use the lemmas about
the tests, the address, the media and the files to pack (`EntriesHold`, `ListHolds`,
`AddressHolds`, `UnlockHolds`, `PackHolds`), which are about `SettingsSpec` too.

They rest on the named `ASSUME`s of the modules only: distinct "none" values, natural
bounds, positive intervals, that the values other components start with exist, that
there is a task of the tray (`TrayAssumption`), that a subscription has a uid and what
the card remembers is a group (`CardAssumption`), that what stands for a text which is
no number is none of the defaults the code puts in its place (`VergeAssumption`), that
a page of the backups has rows (`BackupAssumption`), that the texts of the locales are
of the namespaces (`LocaleAssumption`), that the graph has a width (`PlotAssumption`), that an
answer without data is not usable (`DataAssumption`) and that the tasks of the build are all its
tasks (`PrebuildAssumption`). They
hold for any number of callers, edits, cells, sidecars, sessions, profiles,
subscriptions, groups, nodes, hooks, texts, entries, services, files and steps.

Five theorems of the configuration assume which commands are called, as the runs
do. They are not conveniences: each excluded command breaks the property, by a
finding or an observation of section 6. A deep link applies a draft it does not own
(`SavedAgrees`), a switch commits a list cloned before an import (`NoLostImport`),
an edit of the proxy chain changes the runtime draft outside the lock
(`AppliedRuns`), commands about the list while a switch is open change what it
restores (`IdleAgrees`), and two refreshes may be sent in the wrong order
(`SettingsScheduled`, finding 3).

The inductive invariants, and why the properties need them:

- **ConfigStore.** `NoLostChange` speaks of the committed value, but what a
  commit installs was fixed earlier: the draft, or the clone of the lock
  holder. `Inv` says that both already contain every durable change except
  those acknowledged since they were taken, which are exactly the ones the
  commit then gives up.
- **Draft.** In-place mutation is safe because the draft never shares a cell
  with the committed value (`DraftApart`) and `Shared` sees every other
  pointer. Under it each action maps to the action of `ConfigStore` with its
  name.
- **CoreLifecycle.** Two sidecars would need a spawn while one runs:
  `NothingToJoin` says that between `pkill` and the spawn nothing that was not
  told to stop runs, and `operation_lock` (the single `pc`) keeps others out.
- **ProfileSwitch.** `OpHeld` and `ModHeld` tie each lock to the step of its
  holder, so that a dropped future releases exactly what it held. `OneSwitch`
  ties the flag to the one switch; `SwitchSteps` says which steps belong to
  which command; and both give `DraftOwned`: no draft of the list is open
  without a switch. `BackupKept` keeps the copy that `Reject` restores.
- **UpdateTimer.** `KeysLive` (a key held is that of an own queued entry with
  the current interval), `SlotsDistinct` and `NotStalled` (a tracked
  subscription is queued, or an update of it will report) are inductive as they
  stand: a stale report may clear `running` early, but then it also queues an
  entry.
- **ProfileSwitch, the properties.** `SavedListAgrees` needs `SaveDue`: whoever
  changed the committed list has yet to save it. `ListKept` follows an import from
  its request: the clone of the holder of the modify lock is current
  (`BaseCurrent`), only deletes that were asked for leave it, what is acknowledged
  is listed (`ImportsListed`, `AckedListed`). `DraftApplied` says that an open
  runtime draft is what the core runs, at every step after the answer of the core
  and before the decision. `SwitchPath` has a conjunct for each step of a switch
  (`KindSteps` ... `AtRest`): list, draft, `.bak`, file and core of *both* stores
  along the way, which is what `IdleAgrees` compares at its end.
- **UpdateTimer, the properties.** `Turns` counts without `Cardinality`: any two
  of {queued entry, running update, report} of a subscription are the same one.
  `Follows` says that map, messages on their way and queue lead to the settings in
  the order in which they will be handled.
- **ProxySelection.** `LastIsKept` says that while the loop runs the last click
  is what waits in the slot or, when nothing waits, what is being executed: so
  the loop, which ends only with an empty slot, ends with it.
- **DelayManager.** `MarkCovered`: a node marked "testing" has a latest check that
  runs or a helper about to check it, or a list that runs comes to it or was
  aborted; `CallSteps`: an actor has a node exactly while its check waits or runs.
- **ProxyChain.** `Once`, `Handling` (no chain of the page, the store or a handler has a
  node twice), `Dialing` (the dialers are those that a profile brings, or those of such a
  chain), `Saved` (of the handlers only the `owner` wrote the dialers last) and
  `Connected` (the dialers of a connected chain are those that are set, and its last
  node is the exit node that is remembered): the walk along dialers is that chain.
  `NoCircle` needs the well-foundedness of the naturals: of the nodes of a circle the
  first in the chain would have its dialer before it.
- **ProxyCard.** `LoopsKept`: the loop of this card ends with the choice whose timer
  runs, or has ended and the core uses the node, unless the choice came to nothing
  (`void`). With `ShownKept` (the groups are of the nodes that the card has, which are
  the core's unless a refresh is owed, and the node shown is of them or is the last
  choice, `ShownChoice`) the node shown is the core's.
  `MemoryKept` says of the memory of every subscription, and of those that are not
  shown, what `GroupRemembered` says of the one that is. `ChecksKept`: every test that
  will set another timer is of this card, and there is one while a node is shown.
- **Streams.** `Subscribers` and `Entries` tie hooks, keys and entries to one
  another, `Asking` each call to the socket it will get, `Held` a socket to the
  entry that holds it, `OneEntry` that no socket is held twice.
- **ProfilesPage.** `Numbered`: the numbers of the runs under way are those the
  page has given; `Tracked`: the one marked is the latest; `Spinners`: beside that of the
  switch there is none unless a reactivation or one of the two deletions is under way.
- **EditorDocument.** `OneRead` (one read is current), `NoneLeft` (what is read
  late is not shown) and `ReadsFile`: what the current read brings is the file, or
  a save is under way that will read it again, unless the editor was opened during a
  save (`crossed`).
- **SystemProxy.** While nothing failed and no two requests crossed: `OsFollows` (the
  system has what is saved), `WantedKept` (the last click is saved, or is what the
  patch under way or the pending one asks for), `ResetsPlanned` and `SysDue` (a system
  that lacks the port of the core has a task that will reset it).
- **ClashPorts.** `PortsAsked`: a port in a check is its own, was found free or is yet
  to be asked for; `PortsSaved`: with one save at a time, each of its two patches has
  stored the same values, or will.
- **GuardedSettings.** `VergeKept`, `ClashKept`, `DnsKept`, one per store: at rest the
  interface sees what is stored, and the rendering to which a request falls back agrees
  with it. They hold for one request at a time (`together`, `kCrossed`).
- **CoreDialogs.** `Routes` (routes that the core refuses are not stored),
  `RestartDue` (origins that the core does not run have a restart that waits); lemmas
  say what appending, removing and updating a call do to the sequence of requests.
- **VergeDialogs.** `MiscInv` (what a form, a request and the settings have can be
  used), `ToldInv` (a save has stored what it has come to), `BackupInv` (what the
  switches show is stored, or is what the save under way sends).
- **ProfileForm, DnsForm.** What a step can do to the fields is small; the work is
  in what is captured: an attempt holds the options it will restore. For DNS,
  `DnsRoundTrip` says that parsing what was formatted gives the form again.
- **Tunnels.** `Made`: the ids of the draft are distinct and were given by
  `adds`; lemmas say what appending and removing at an index do to them.
- **TraySpeed.** `TrayHeld` says in which step a task or clean-up has an id in its
  hands, `TrayGivenUp` that a task which was stopped is not started again. From them
  follow `TasksCleaned` (a task that runs is the current one, or a clean-up waits
  for it) and `IdTaken` (an id in the cell will be taken), which need one another:
  the id stored by a task that is being stopped is that of its clean-up.
  `StoppedEnds` is their consequence when nothing is current.
- **Backups.** Four invariants that hardly meet: `ServerInv` and `RestartInv` (a mark
  has a call or a timer that is still that of the dialog), `QuestionInv` (while the
  call of a job is under way the question on the screen is the job's, and at most one
  read of the list will end a job) and `RowsInv` (the rows are a list of a finite set),
  from which `PageBegins` computes that the page shown begins with a row.
- **LocaleCleanup.** `TextRun` says what a run has come to: what it has loaded is what
  there was, the locales that are left are as they were, those that are done have what
  is used. `TextWriting` says it of the files of the locale that is written, each
  backed up or not and written or not; a failure leaves just what it says.
- **ProfileItem, TrafficMonitor, AppData.** Who listens is of the last rendering
  (`ItemInv`); what is shown has a worker that is on (`WorkerInv`); a listener has a
  clean-up, and a row that spins has a job that will come to it (`DataInv`).

- **AppData, the last data.** `LastInv`: the last usable answer is kept, and after an
  unusable one the time since when is that at which its timer was set, which runs
  exactly until the grace is over.
- **TrafficGraph, SidebarGraph.** `PlotInv`: what waits, is displayed or was drawn can
  be drawn. That its labels then stay apart (`LabelsApart`) and its line inside of the
  axis (`LineInside`) is geometry, from facts about products of naturals
  (`ProductGrows` ...). The sidebar's property is inductive as it stands.
- **TestList.** `EntriesInv`: an entry has the tests it counts, and each listener an
  effect. `ListInv`: patches that are on their way are in the order in which they were
  made (`CallsOrdered`), the newest has the list that is shown (`CallsCovered`), and
  what a refetch has read (`ReadStored`) or shows (`ShownStored`) is what is stored
  unless a newer patch will ask again.
- **IpCard.** `IpIntervals` (the variable of the effect knows the only interval, of a
  card that is shown and visible), `IpTicking` (the mark "revalidating" is that of a
  handler which waits) and `IpRequest` (an attempt that ended has asked every service,
  and a card without an answer has a request under way or one that failed).
- **Unlock.** `UnlockInv`: at most one check of an item belongs to the page, and the item
  that it marks is that one; rows that are stored and read again are the same
  (`RowsReadBack`), since `Dedupe` changes only what earlier versions stored.
- **Prebuild.** `PackInv`: the tasks before the current one have done their part of this
  run (`TaskDone`; of a plain download it is only that the file is there), as have the binaries before the current one, and no step of a later
  task takes it back, since the files of two tasks are apart.

A proof has one lemma per conjunct or per group of actions, one step per
action in it, and a last temporal step.

**Only model-checked**: all liveness (`ModifyServed`, `OperationEnds`,
`SwitchEnds`, `UpdatesRecur`; the prover has neither liveness under fairness
nor `ENABLED`), and the properties that say what filtering, sorting or merging of
lists computes, which is an induction over sequences: `RowsComplete`,
`SortedAfterCheck` (the rows of the list of proxies), `RowsSaved` and the parts of
`ListsFaithful` (the rows of an editor are computed by filters and folds, as are the
merged snapshots, the columns, the ranges of the sampler and the list of notices) and
`OriginsKept` (a fold over the origins). The induction theorems of the library cannot
be applied by the provers at hand, and `SelectSeq`, `SortSeq` and `FoldLeft` are opaque
to them.

## 6. Disagreements between the code and what is said of it

Each is shown by a run that TLC ends with a counterexample.

1. **Two cores** (`core_dual`, `core/manager/lifecycle.rs:50`). The service
   starts a core and its answer is lost. The check before the fallback asks the
   API at the *sidecar's* socket, since the client is switched to the service's
   socket only after an answer. Nobody answers, and a sidecar is started beside
   the service's core, which line 48 says is prevented.
2. **A save that undoes a switch** (`profile_save`, `cmd/profile.rs:221`). The
   background save of a failed switch clones the list, awaits the file and
   stores the clone back. A switch that commits in between is reverted in the
   list while the core runs it.
3. **An interval nobody asked for** (`timer_refresh`, `cmd/profile.rs:352`).
   Whether to refresh is decided from settings read before an await, and two
   refreshes may send their maps in the opposite order of caching them.
4. **Options lost by a retry** (`form_restore`,
   `components/profile/profile-viewer.tsx:169`). When the first attempt of an
   edit fails and the second, through the own proxy, succeeds, what is "restored"
   are the two proxy options alone, and the back end replaces the options as a
   whole: the interval and the merge, script, rules, proxies and groups of the
   subscription are gone.

### Observations

Met while modelling, without a run of their own; the properties are stated so
that they hold beside them.

**Back end.** After a lost answer with TUN on and no elevation the mode is
`NotRunning`, and `stop_core` returns `Ok` without asking the service
(`lifecycle.rs:84`). A switch applies a draft cloned before an import, which
disappears, and a deep link applies that draft itself though it does not own it
(`scheme.rs:100`). The first start gives a late service up for good although
`utils/resolve/mod.rs:196` says the probe is retried; after a timeout the core
may stay on the profile that was given up (`doubt`); the runtime draft is edited
outside `operation_lock`, so that an edit can be committed that no core runs
(`AppliedRuns` is checked without such edits for that reason); the first failed
update after boot discards the runtime configuration of the boot; an update may
generate from the draft of a switch that is later rejected.

**Tray.** The clean-up of a stop waits for the task so that no id is lost
(`speed_task.rs:137`), but an abort may come between taking the id and the end of
the disconnect, and then the id is lost all the same and the connection stays
(`dropped`). A stop followed at once by a start lets two generations share the
cell: the clean-up of the old task may disconnect the new one, which connects
again, or an id is overwritten and its connection stays (`overwritten`).

**Page of the proxies.** Choices in two groups in quick succession patch
`selected` from the same older list, and the file keeps one of them
(`use-profiles.ts:71`). The home card marks the nodes of providers "testing" and
only the answer of the group clears them (`current-proxy-card.tsx:690`). A chain
can be shown as connected that the configuration does not hold: a refresh of the
profile, a switch or a setting makes a new runtime configuration without its dialers
(`core/manager/config.rs:93`), while the exit node stays remembered and selected, and a
chain that is kept in the store may name nodes that the new configuration lacks. For a
profile whose own dialers form a circle the walk of the back end never answers
(`cmd/runtime.rs:59`; `DialersEnd` names that case). `isConnecting` is lost when the
page or the mode is left (`proxy-chain.tsx:259`), so that a second connect runs beside
the first and each writes dialers and selection in any order. A disconnect whose
refresh fails keeps the chain of the page although the runtime has none (`:361`).
Rows of the other mode stay when they are as many and none had to be made
(`use-render-list.ts:486`), and clicks on their heads then change nothing that is
seen; they do not depend on hidden groups either. The end of a test of a group
writes back the sort of the head that was there at the click and undoes one that was
chosen meanwhile (`proxy-groups.tsx:434`). On the card, the timer that shows a
choice after 300 ms is not stopped by another group, another mode or a request
that was refused meanwhile, and shows a node that is not current until the next
refresh (`current-proxy-card.tsx:486`). So it does when a request of a card that was
left is answered after that of a choice on the new card in the same group: each card
has its own loop of requests, and nothing orders the two. A refresh whose answer
equals the last one does not help, since no effect runs then: the node whose request
was refused stays shown. Nodes and subscription are fetched apart,
so the effect that follows the nodes may find that the remembered group does not
exist, and overwrites the memory of a subscription with a group of the other
one; so it does at start for a group of the last rule, when the rules come after
the nodes (`:445`). The remembered node is written and never read. A test of the
group clicked during an automatic one is dropped without a word, and one that
ends for an older order, or whose mount is gone, leaves the list unsorted if the
refresh after it brings nothing.

**Subscriptions.** The background tasks after a switch are always skipped, since
the mark they look for is cleared before (`profiles.tsx:540-548`), although line
507 announces them; a batch deletion that fails does not fetch and keeps deleted
items selected (713-741); the deletion of one and that of many do not exclude one
another, and the end of either clears the spinners of both. The rows editors lose the last edit if Save comes
before the idle serialisation, and everything if it comes before the file was
read; adding the same proxies twice doubles their names. A refused save of a
document reads the file again and closes the editor, with the text
(`use-editor-document.ts`); an answer closes an editor that was opened anew. An
editor opened while a save of another is under way may have read what that save
replaces, or puts back; its own reload can fail, and then it shows the old text as
unchanged, even after a later save (found by the proof of `CleanIsFile`, seven
steps of the user deep; `crossed`). A
form closed less than 500 ms ago resets the one opened meanwhile; the second
attempt of a creation keeps `self_proxy`. A missed completion event leaves the
mark of an item; its lock is lost when it is mounted again.

**Streams, connections, traffic.** Messages before the listener is added are
lost, and a failing read of older logs leaves a socket without one. The handler
of a subscription keeps the `appendData` of its first rendering
(`use-mihomo-ws-subscription.ts:347`): a page first rendered hidden never appends,
and one that is hidden later starts the worker again with nobody registered. An
idle connection keeps its last speed (`use-connection-data.ts:46`); a list
cleared while a snapshot is pending comes back. A graph may leave the newest data
undrawn, point beyond the edge after a change of range, and change its style
three times by one click; changing the style of the sidebar's graph stops its
animation until the next sample.

**Settings.** A guarded setting that waits 400 ms does not coalesce changes, it
ignores them, because the lock is held while it waits (`guard-state.tsx:44`,
"debounce guard" at `:65`); the rollback of a setting of the program restores
the whole configuration of the click's rendering; the lock of `patchClash` drops
a second setting of the core without a word, which dialogs then report as saved
(tunnels, TUN, CORS, ports). The dialog of the ports accepts ports below 1000,
which `patchInfo` refuses (`use-clash.ts:44`) while the settings of the program
are saved beside it; enabling a kind without changing its port is not checked.
The settings of DNS keep the file of a refused configuration, drop unknown keys,
and a timer of a text typed 300 ms earlier overwrites newer edits. The system
proxy stays off when the second of its two patches fails, and a click on "off"
during a reset is undone. The controller is enabled before its address and
secret are checked, and an unspecified address is saved as 127.0.0.1 by the next
save (`config/clash.rs:265`). A switch of the automatic backups clicked right
after typing an interval is dropped; `pendingValues` is never cleared. Most saves
close the dialog that is open when they end, whichever it is, and overwrite what
was typed meanwhile.

**Data, backups, notices.** A refetch that fails does not throw, so an update of a
provider counts as a success; a second click while one is updated is dropped;
events within 800 ms of one another are dropped. A list of backups that arrives
after the dialog was closed and opened for the other source shows the rows of
one under the name of the other; the end of a WebDAV call clears the mark of a
local backup under way. An element as message hides the raw details of an error,
an error with a raw payload loses its own text, a second number becomes payload.

**Script of the locales.** With `--align`, keys that the sources do not use but the
base has are added to a locale and stay until a second run; a second run after a
failure replaces the backup by the torn file, and the backups of a run that
succeeds are removed although the usage text announces them; a prefix held in a
variable is not found.

**Tests, address, media.** Two changes of the list of the tests whose patches
overtake one another are stored in the other order, and a change of the default list,
which was never stored, is sent as one of an empty list (`test-viewer.tsx:71`;
`crossed`). A listener that is registered after its entry was rendered anew stays, and
hears the event beside the new one, even when the entry is gone (`test-item.tsx:80`;
`TestsEnd` does not speak of it). A card of the address without
an answer, whose request waits for the network, shows an empty address
(`ip-info-card.tsx:232`). A check of the media that was left stores its rows over
those of the page that is shown now (`unlock.tsx:233`; `others`).

**Script of the files to pack.** A download that fails leaves the body of the error
at the path of a database, and the next try takes it for the file
(`prebuild.mjs:329`); what a download that succeeds brought is not looked at unless it
is an archive, so that even a forced run may end well with a database that is not
whole. A run that is not forced takes a core or a binary cut short by an
interrupt for whole (`cut`); a forced one that fails has removed the core that was there
(`:415`).

## 7. What is not modelled

- **The core, the service daemon, the operating system.** Modelled from how
  the code uses them, as nondeterministic actions marked external in the map.
- **I/O and formats**: downloads with their retries and headers, YAML, archives,
  WebDAV, URL decoding, logging, translations, icons, the window toolkit. What
  follows a finished download is modelled.
- **The rest of the interface**: the home, logs and rules pages (a query and its view
  each), layout, theme, routing and
  the tables of text; of the modelled components, colours, formats, pixels and
  drag gestures (a drag is the move it ends with).
- **Scripts of the build and of releases**, except those of the locales and of the files
  to pack.
- **User scripts** (`enhance/script.rs`): they run in an interpreter.
- **Other platforms**: this fork builds for macOS; runtime staging for the
  service is unreachable there.
- **The debounce of unforced updates** and real time: deadlines are
  nondeterministic, so no property depends on a duration.
- **Components not reached yet**: everything with status `not_modelled` and
  "planned" in its note; see the plan. Presentation and the media probes of the
  back end stay out.

## 8. Plan

Most important first. Each module is to be written with constants and named
invariant parts so that it can be proved about.

1. **ProfileStore** — reorder, patch, orphan clean-up and delete with its files
   (`config/profiles.rs`), as operators over a list and a set of files:
   reordering is a permutation, every listed profile has its files. Replaces
   `Patch`, `Append`, `Deleted` of `ProfileSwitch`, which then composes it.
2. **Traffic** — of the Mihomo plugin, the request gate with its permits and, in
   `TraySpeed`, the messages with their bounded channel and a peer that does not
   read: no delivery after disconnect, no reader that waits for a peer for ever.
   Abstract specification: a subscription that delivers a subsequence.
3. **ConfigPatch** — `patch_verge`, `patch_clash`, `change_core` and the side
   effects under `CONFIG_PATCH_LOCK` over the store, with **SysProxy** (update,
   reset, guard): a failed patch leaves settings and effects as they were.
4. **AppExit** — the exit's tasks with deadlines, applying open drafts, the
   restore of a backup: nothing undecided is saved.
5. **Lightweight**, **AutoBackup**, **SilentUpdater** — state machines with
   timers and, for the updater, crashes between two files.
6. **Limiter**, version order, hotkey differences, `enhance` (seq, merge,
   field) — pure operators against reference definitions.
7. **Interface**: the page of the logs and the cards of the home page; a
   composition of `Streams` with `Connections` and `TrafficMonitor`, which share
   its messages.

Theorems to add: the limiter's one pass per period; reorder is a permutation; the invariants of the modules of items 2 and 3;
refinement of the subscription by the connection map.

Beyond the hazards listed in section 1, items 2 to 6 also cover: hotkeys
registered half-way, a window that is debounced away while lightweight mode
ends, the second interval check of the backup, the dropped `Closed` event of a
full channel, delivery after a forced removal, a connect that completes after
its timeout, and the 40 s timeout that drops an update task.

## 9. Running the checks

```
tlc -workers 4 -config MCProfileSwitch.cfg ProfileSwitch.tla
tlapm ProfileSwitchProofs.tla
```

`PROJECT.json` lists, for each run, the module, the configuration, the
properties and the expected result. The longest run (`interface_pages`) takes three to
four minutes, the longest proofs six (`SettingsProofs`) and fifteen to twenty-five
(`PagesProofs`), the others up to two.
