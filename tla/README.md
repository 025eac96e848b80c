# Verification of the rengine workspace

This directory holds TLA+ modules for the Rust half of this repository (`src/red`)
and for the part of the desktop editor (`src/editor`) that shares state with it:
the processes that keep a workspace running, replace themselves while it is in
use, and pass windows, panes, files, tokens and conversations between people and
agents.  Each module is written from the source.  TLC checks it on small
instances, and TLAPS proves every safety property of a passing run for every instance.

1. [The system](#1-the-system)
2. [Modules](#2-modules)
3. [Runs](#3-runs)
4. [What the violations show](#4-what-the-violations-show)
5. [Proofs](#5-proofs)
6. [What is only model-checked, and what is not modelled](#6-what-is-only-model-checked-and-what-is-not-modelled)
7. [Plan](#7-plan)

## 1. The system

A workspace is one **supervisor** process, one current **worker** process behind
it, a **host** with its panes and surfaces, and a handful of **services** (token,
store, pty, lsp, ide) that are started by whoever needs them first and end when
nobody has used them for a while.  Desktop windows (C, `src/editor`) and agents
talk to the supervisor's port; the supervisor forwards to the worker, and the
worker asks the host and the services over their sockets.

| Component | State it keeps | Operations | Talks to | Module |
|---|---|---|---|---|
| Layered update and rollover (`red-supervisor`: `update.rs`, `runtime.rs`, `jobs.rs`, `worker.rs`) | current, retiring and preserved workers, job records, connector generation, `runtime.json`, the recovery budget | update, switch, roll back, recover, forward, close | worker by its control pipe; windows; callers by HTTP | `WorkerRollover` |
| Windows of the supervisor (`views.rs`, `windows.rs`, `desktop.rs`) | the views map, turns per owner, project windows and letters on disk, the channel to a window | open, register, detach, restart, close; report, inbox; ask, relay | desktop processes | `ManagedWindow`, `ProjectWindows`, `WindowControl` |
| Host replacement, launcher (`stop.rs`, `replace.rs`, `host.rs`, `red_launch.rs`) | the process table, `sidecar.json`, `build.lock` | build, ensure, replace, open a workspace | supervisor, host, desktop | `HostReplacement`, `WorkspaceLaunch` |
| Worker process (`red-worker`) | its generation, the write queue, sign-ins, pairs open on the feed | its own routes, feeds, push of status bars, retirement | supervisor's pipe, host, services | `WorkerRoutes`, `GameFeed`, `SegmentPush`, `SessionMessage`, `TrackerGrant` |
| Token ledger (`red-token`: `ledger.rs`, `tokens.rs`, `red_token_serve.rs`) | holder, contest, cooldowns, known identities, per root; `token.json` | gate, contest, reject, release, desktop answers, assign, free, settle | worker (calls), desktop (status frames), clock, process table | `TokenLedger` |
| Project feed (`red-token/src/feed.rs`, `red-worker/src/feed.rs`) | a ring of numbered frames per root, per watcher what it was sent | emit, after, join, deliver, close behind, close retired | service to worker by events, worker to monitor by a streamed response | `LifecycleFeed` |
| Host (`red-host`: panes, surfaces, games, desktops) | the mirror of every pane, surfaces with producers and viewers, desktops and pending actions | launch, release, input, stop, restart; frames and focus; register, act, acknowledge | pty service, games, desktops | `HostPanes`, `SurfaceBoard`, `DesktopRegistry` |
| Pseudo-terminals (`red-pty`) | sessions, their state records, the line being typed | start, write, stop, describe, message | host | `HostPanes`, `SessionMessage` |
| Store (`red-store`) | preferences, layout, drafts, talks; `workspace.json` | join, change, save with a check for conflicts | worker, host, desktops | `StoreService`, `DesktopDrafts` |
| On-demand services (`red-core`: `service.rs`, `descriptor.rs`) | the lock, the descriptor, attached clients | attach or start, publish, reap | every service | `ServiceStart` |
| Agents (`red-agents`, `red_agent_launch.rs`) | the conversation a pane holds, the context file | compose, choose, decide, report | host, CLI | `AgentConversation` |
| Tool server (`red-mcp`) | the tool worker, the signature it was started for | ready, watch, handle, ask | CLI, supervisor's descriptor | `ToolFacade` |
| Projects (`red-project`) | remembered answers of devices and trackers, the stored grant | probe, list, sign in and out, refresh | other servers | `ProbeCache`, `TrackerGrant` |
| Language servers, editor bridge (`red-lsp`, `red-ide`) | processes, waiting threads, open documents; ports and lock files | start, restart, stop; sweep, take, serve, close | language servers, editors | `LanguageServers`, `EditorBridge` |
| Desktop editor (`src/editor`) | an editor tab's text, its requests, its draft | type, save, checkpoint, quit | store, host | `DesktopDrafts`, `SegmentPush` |

### What is hard in it

* Every handler of the supervisor is a thread, and its state is a dozen small
  mutexes taken one at a time: what is asked under one lock may be false under
  the next.  `update()` asks whether a job runs and queues under another lock;
  `recover()` reads the current worker before it takes the recovery lock; a
  forwarded request takes the worker and is counted on it a step later.
* An update has some twenty steps of which most can fail, and the roll-back must
  undo exactly those that happened, while requests keep arriving and a worker
  may die.
* Any service may be reaped between two calls: what it promised is what its file
  says, and a failed write is often swallowed.
* Deadlines pass while answers to them are on their way.
* The same thing is said twice, by ways of different length: a pane's end by its
  exit and by a describe, a frame by the replay and by the live stream, a state of the
  store by the answer and by the broadcast.
* Locks, descriptors and views are files and map entries that are judged by what
  was read and removed by their name, so what is removed may be another's.
* Workers are replaced while everything goes on: two of them follow the host,
  serve feeds, bind ports and answer requests at once.

`PROJECT.json` lists each hazard at its line, with the properties that would
catch it.

## 2. Modules

Every component's module is parameterised by sets and bounds and has one action
per operation or, where the code gives up a lock or waits, per stretch between
two such places.  What TLC needs to bound is named `Max...`.  Variables that are
*history* (marked so where they are declared) record what the code does not
keep and a property speaks of; they never guard an action.  Several mark a case
the code leaves open (`entangled`, `overtaken`, `robbed`, `together`, `raced`,
`crossed`, `swept`, `late`, `lost`, `missed`, ...): what depends on its absence is
stated under it, and section 4 and section 6 say what happens in some of them.  Two
record what may be rather than what went wrong: `owed` is what the store's file may
hold by what its clients were answered, `expected` whose grant may be stored.

| Module | What it is |
|---|---|
| `WorkerRollover` | The supervisor's update, recovery, forwarding and shutdown |
| `WorkerRoles`, `WorkerRolloverRefinement` | The abstract promise (one current worker, who may come back and who never), and `WorkerRollover` read as it |
| `TokenLedger` | The token: one action per call of an agent or the desktop, the sweep, the file, restarts, processes and the clock |
| `LifecycleFeed` | The feed from the ring to a monitor |
| `HostPanes` | Panes between the host's door and the pty service |
| `SessionMessage` | A line said to a running pane: pasted, echoed, entered |
| `SurfaceBoard` | One game's surface: producers, viewers, who holds the input |
| `DesktopRegistry` | Attached desktops and the actions asked of them |
| `SegmentPush` | How status bars follow the token |
| `WorkerRoutes` | The routes a worker answers itself |
| `ServiceStart` | Starting and reaping the one service of a directory |
| `StoreService` | The store and its clients |
| `DesktopDrafts` | A file in the editor tabs of desktops, and its draft |
| `HostReplacement` | Replacing the host over a table of processes that changes |
| `ManagedWindow` | One window, its openers, its watchers, an update of it |
| `ProjectWindows` | Project windows and the letters across them |
| `WorkspaceLaunch` | The launcher: build lock, host, what the desktop opens with |
| `WindowControl` | Requests and relays on one window's channel |
| `AgentConversation` | Which conversation a pane holds, and who says so |
| `ToolFacade` | An agent's tools while their worker is replaced |
| `TrackerGrant` | Sign-ins, sign-outs, readers and the stored grant |
| `GameFeed` | What the feed says of games and device actions |
| `ProbeCache` | What is remembered of devices and trackers |
| `LanguageServers` | One language server, its threads and documents |
| `EditorBridge` | Bridges, their ports and lock files |
| `MCWorkerRollover` | Symmetry and the constraint of the rollover's runs |
| `MCHost`, `MCServices`, `MCOpening`, `MCWorkspace` | Modules checked side by side (below) |
| `WorkerRolloverProofs`, `TokenLedgerProofs`, `LifecycleFeedProofs`, `HostProofs`, `ServicesProofs`, `SupervisorProofs`, `OpeningProofs`, `WorkspaceProofs` | Proofs (section 5); those of `MCServices` are in two modules, `SupervisorProofs` for what `red-supervisor` does |

### Modules checked side by side

`MCHost`, `MCServices`, `MCOpening` and `MCWorkspace` put modules together that
share no variable.  Each has a variable `part` that never changes: a behaviour
is of one part, its steps are that module's, and everything else stays as it
began (where `Init` leaves something open it is fixed for the other parts, so
that no state is counted twice).  The state graph is the disjoint union of the
parts' graphs; nothing is assumed of how they interleave, because they do not interact.

| Module | Parts (instance) |
|---|---|
| `MCHost` | panes (`HostPanes`), message (`SessionMessage`), board (`SurfaceBoard`), desks (`DesktopRegistry`), segment (`SegmentPush`), routes (`WorkerRoutes`) |
| `MCServices` | start (`ServiceStart`), store (`StoreService`), replace (`HostReplacement`), letters (`ProjectWindows`), window (`ManagedWindow`), drafts (`DesktopDrafts`) |
| `MCOpening` | feed (`LifecycleFeed`), launch (`WorkspaceLaunch`), control (`WindowControl`), talk (`AgentConversation`), tools (`ToolFacade`) |
| `MCWorkspace` | tokens (`TokenLedger`), games (`GameFeed`), grant (`TrackerGrant`), probes (`ProbeCache`), lsp (`LanguageServers`), editor (`EditorBridge`) |

The map in `PROJECT.json` gives the source lines of every definition.  What
follows says how each module's state and steps correspond to the code.

### WorkerRollover

State: `proc` is each worker's process and `told` what went down its control
pipe; `current`, `retiring` and `preserved` are the supervisor's lists;
`running`, `status`, `layers`, `persistenceError` and `finished` are the job
records; `connectorGeneration` and `connector` are in memory, `disk` is
`runtime.json`.  `pc[j]` is where `perform()` of job `j` is, and `seen`,
`previous`, `candidate`, `rejected`, `before` and `outcome` are its locals.
`recovering`, `recoveryUsed`, `recovery` and `rescue` are the recovery and its
thread, and `looked` is the worker `recover()` read before it took the lock.

`Ask` and `Queue` are the two halves of `update()`, `Begin` ... `Budget` the
forward path of `switching()` in its order, `KillCandidate` ... `Unpublish` are
`put_back()`, `Release`, `Tell`, `Drop` are `finish_retirement()`, `Report` and
`Done` the end of the job; `Look` and `Decide` are `recover()` and `Rescue...`
the thread it spawns; `Choose`, `Count`, `Finish`, `Leave` are a forwarded
request; `Close`, `Sweep`, `Gone` the shutdown.  Windows, builds and probes are
outcomes: they succeed or fail.

`entangled` marks that two replacements overlapped, or that a recovery acted on a
worker that is no longer current.  The code does not exclude it (see
`overlap_lost`), so what depends on its absence says `Orderly =>`.  `starts`
counts the automatic restarts since a worker was last replaced.

### TokenLedger

State: `ledger` is `Ledger.state` in memory, `disk` is `token.json`; `minted`
counts contests and so names the newest; `run[a]` is the process the agent's
session names when it calls; `shown` is the contest as the desktop last saw it.
`told` and `answered` are history: until when an agent was told it may not
contest, and which contests were resolved.

Every call holds the service's lock from its `settle()` to its answer, so it is
one action.  `Settled` is `settle()` and every action starts from it.  The two
ways a call leaves the file are `Persists` (the call's own write, after
`settle()`'s) and `Unwritten` (only what `settle()` wrote); a write may be lost,
as `persist()` swallows the error.  `Restart` replaces the memory by the file at
any moment.

### LifecycleFeed

State: `sequence` is the ring (a frame is its number), `queue` is
`Shared.queued`, `caller[k]` a connection of the token service with the call it
is in and the batch it took; `inbox[w]` are the lines on their way to a worker.
`watching[w]` is `Watchers.watching`, `reader[w]` the worker's reading thread
inside `deliver()`, `socket[s]` where `serve_feed` of a socket is; `delivered`,
`pushed` and `channel` are the watcher and its channel.  `monitor` is outside
the repository's Rust code: it keeps the cursor of the last frame it read and
opens another socket there when its own ends.

`Emit` and `After` are calls under the ledger's lock; `Take` and `Say` are the
two locks of `flush()`; `ReadAnswer` and `ReadEvent` are the reading thread;
`DeliverMark` and `DeliverPush` the two halves of `Watcher::send` (the mark is
under a lock, the channel after it); `Admit`, `Join`, `Replay...`, `AskFails`,
`Leave` are `serve_feed` in its order; `Retire` and `CloseAll` the two steps of
`retire()`.  `overtaken` marks a frame said while an older one was in somebody's batch,
or delivered to a watcher whose replay was not at its end.

### The host: HostPanes, SessionMessage, SurfaceBoard, DesktopRegistry, SegmentPush, WorkerRoutes

* `HostPanes`: `session` are the service's panes, `mirror` the door's records of
  them, `wire` what the service said on the one socket (answers and records in
  order), `call[c]` a request of the door: `Launch`, `Input`, `Stop`, `Present`
  (the gate file of a handed-off agent, then the record), `Report` (the store,
  then the record) and `Restart` (stop, then a launch with the conversation).
  The service works on one request at a time (`serving`) and takes its snapshot
  before it says it; a pane's end is recorded (`Exit`) and said (`SayEnded`) by
  another thread.  `Read` is the door's reading thread.
* `SessionMessage`: `watch` is the hand-shake (`SeedWatch`): paste, wait for the
  echo, Enter, retry, give up; `deciding` and `record` are the verdict and its
  way to the pane's record, `relay[r]` the worker's route that waits for it,
  `grants` the messages left in the grants file.  `composer` is external.
* `SurfaceBoard`: a producer greets, is judged under the lock and served under it
  again; viewers attach, focus, press and leave; `packets[p]` is what is queued
  to the game and `holding[p]`, external, the keys it holds once it has read it.
* `DesktopRegistry`: `desk` and `pending` are the two maps under their two locks;
  `asked[c]` is a caller in `act()`, from the target to the answer or the
  timeout; `task` and `ending` are a socket's task, which acknowledges, closes
  and sweeps.
* `SegmentPush`: `moves` is the ledger's last frame, from 0 for a project none of whose
  transitions was made yet; `wants` the frames a worker was told of, `pushing[t]` the
  segment a task asked for and has not pushed.  A call for it may fail (`AskFails`),
  which ends the task; `missed[d]` is the last transition when a segment of that
  desktop was last lost, by such a call or because one with sequence 0 came after it
  and was shown over it (`Adopts`, `token.c:83`).
* `WorkerRoutes`: `call[c]` is a request on its thread: announcing the
  generation (`Looks`, `Bumps`, `Holds`, `Tells`), the gate, the queue of the
  write command, panes for tasks and scripts, the split write of preferences;
  `feed` is what all of them leave.  `Replaced` makes another worker current
  while the old one goes on.

### The services: ServiceStart, StoreService, DesktopDrafts, HostReplacement, ManagedWindow, ProjectWindows

* `ServiceStart`: every look at and change of the lock and the descriptor is a
  step of `ensure()` or of the child; services are reaped, callers and children
  die.  `lost` marks a lock taken from somebody who was starting.
* `StoreService`: `thread[c]` is the service's thread for a client: the change
  and its write under the lock, the saying (`Says`) and the answer (`Replies`)
  after it; a save holds the lock from its first look at the file to the rename
  (`locked`).  `overtaken` marks a state said, answered or taken up after a newer
  one, `owed` is what `workspace.json` may hold of each part by the answers given: what
  was answered as done, and what was asked for with an error since.  `Knows` is the
  one answer that owes nothing.
* `DesktopDrafts`: `tab[w]` is the editor tab, `line[w]` the requests of its one
  connection, `heard[w]` the answers its event loop has not taken up, `late`
  those performed after their caller gave up.  Texts are numbers.  `crossed`
  names the desktops whose text met what the code cannot promise.
* `HostReplacement`: `proc` is the real process table and `table` the one
  read before the first signal; `runtimes` are the pids the runtime descriptors
  name, one of which may be another workspace's supervisor, `published` the services
  whose own descriptor can be read; `todo` are the pids still to stop.  A table, a
  sidecar or a descriptor that cannot be read is a refusal where it is read.  Meanwhile
  processes end, are recovered, give up their pid to others, and another
  launcher starts a host (`events` bounds these).
* `ManagedWindow`: `win[v]` is a desktop process with its watcher, `held` the
  entry of the views map, `turn` and `holds` the turns of openers; `job` is an
  update with its detach, restart and put-back; `KeyboardUpdate` the person's own.
  `raced` names which of seven races the behaviour ran.
* `ProjectWindows`: `memory` and `file` are the store; every change is made on a
  copy that counts once it is on disk.  `Report` keeps a letter under its retry
  key, `Inbox` reads by cursor and page, `Restarts` reads the file again.

### Opening a workspace: WorkspaceLaunch, WindowControl, AgentConversation, ToolFacade

* `WorkspaceLaunch`: `at[l]` is a launcher with what it saw and opened, `lock` is
  `build.lock` with who created it and whom it names, `host` the instance that
  serves, `sessions` what runs.  `robbed` marks a lock taken from its owner,
  `together` two launchers that decided at once.
* `WindowControl`: `input` and `output` are the lines on the window's pipes,
  `pending` and `next` are `Control`'s, `reader` is the reading thread with a
  line it claimed, `listener` the relay it gives the rest to.  Requests are given
  up after their time, the window may end at any point.
* `AgentConversation`: one pane's launch from its composition over the choice in
  the pane, `launch_plan` (own arguments, binding, environment) and the report,
  to the CLI and its hooks; `record` is what a restart resumes.  `amiss` marks a
  report that was lost or came late.
* `ToolFacade`: the loop and the watcher share the facade under `lock`; `worker`
  is the tool worker with what it was started for, `published` what
  `runtime.json` names.  A call reads the declarations, is brought to the current
  worker, asked, scoped to the agent of the context, gated and run.

### Behind the worker: TrackerGrant, GameFeed, ProbeCache, LanguageServers, EditorBridge

* `TrackerGrant`: `flow[s]` is a sign-in's thread and listener, `held` the one in
  flight, `file` the stored grant; `reading[r]` a reader that refreshes what it
  read and writes it back.  `ended` is looked at when a connection is accepted
  (`Accepts`, `Woken`); what was accepted is then read without a limit (`reading`), may
  stay `silent`, and if it brings a code the grant is stored whatever was ended meanwhile.
* `GameFeed`: `wire[w]` are the host's announcements a worker has not read;
  `queue[w]` who asked, oldest first; `open[w]` the pairs it has said a start
  of; a successor inherits them from the `ring`.  A record that is copied while its pane
  runs (`Resizes`) is announced a step later (`SaysAgain`), also after the pane's end,
  and so may a launch's own (`HostStartsLate`).  `overlapped` marks a game two workers
  heard of, or one heard across a cut, or announced as running after its end.
* `ProbeCache`: `entry[p]` is what a process remembers, `file` the answer kept for
  the next one; a question looks, may forget, asks elsewhere and puts its answer
  back, in steps of their own.
* `LanguageServers`: `starting[t]` is a thread in `start()`, `waiter[g]` the
  thread that waits for server `g`, `live` the shared record, `asked` the
  request being read.  The end of a server after which another was started is passed
  over (`Exited`, `waiter` at `passed`), and a count of failures that was reset before
  the wait is worked out overflows (`Panics`).  `late` names the documents last spoken
  of while closed or by a server that had ended.
* `EditorBridge`: `bridge[w]` sweeps (`looked`), takes its port or waits for it,
  writes its lock file, serves, and removes lock and port when closed.

## 3. Runs

Each passing run ends within the bounds of its `.cfg`, which limit how often
something happens, and within the constraints below.  `CHECK_DEADLOCK FALSE` everywhere: a workspace in which nobody asks
for anything, or that was stopped, stands still.

| Run | Checks | Instance, and why it is enough |
|---|---|---|
| `rollover_steps` | `TypeOK`, `RecoveryBudget`, `DescriptorAgrees` | Two jobs, two workers, all three layers, two connectors, two deaths: every step fails once before and once after a success, and a recovery meets an update at every point |
| `rollover_roles` | `ImplementsRoles`, `FailedUpdateKeepsWorker`, `WorkersAccountedFor` | Three workers, so a worker replaced by a first update is still draining in the second, and one death |
| `rollover_live` | `KeptForRollback`, `AcceptedJobFinishes`, `IdleReplacedWorkerGoes`, `DeadWorkerIsReplaced` | Two updates by two callers, which may overlap, one client that may stay for ever, three workers and two deaths, as `MCLive` has them beside each other; under `Fairness` |
| `ledger_calls` | `AnsweredStaysAnswered`, `NoContestDuringCooldown`, `NoticeBeforeLoss`, `OpenContestResolves` | Two agents, two contests, two windows and a lost write: the preference changes under an open contest, and a second is opened while the desktop still sees the first |
| `host` | `PanesInOrder`, `FeedIsTrue`, `EnterFindsItsLine`, `KeysAreTheOwners`, `OneCallerOneDesktop`, `CallsEnd`, `StatusBarsCatchUp` | Three requests, so a restart meets the pane it restarts and a report about it; a message beside a brief; two producers and two viewers; two sockets and callers; two status bars from before the first transition over three, a worker replaced and a call that fails; two requests at two workers |
| `services` | `OneServingUnlessLost`, `ViewsAgreeInOrder`, `KeepsWhatWasDone`, `ReplacesItsOwn`, `LettersArrive`, `HeldUnlessRaced`, `QuitLosesNothing` | Two starters and a past owner; two clients with two requests, of which any write may fail, two conversations where one is kept, an outside edit and a restart; two events between the steps of a replacement, with every set of descriptors; two roots with two windows and two letters; two openers and two processes beside an update; two desktops on one file |
| `opening` | `NoFrameTwice`, `FeedReachesMonitor`, `LaunchersShare`, `ControlKeepsApart`, `RecordNamesWhatRan`, `ToolsStay` | Two workers, three frames, two sockets and a limit of one frame, so the third frame finds its watcher behind, live or in its replay; two launchers, one end of the host, one reload, one kill; a request, a close and two relays; one pane over three conversations with two moves and one lost report; two agents, two writes of the descriptor and one death |
| `workspace` | `ContestHasOtherHolder`, `OnePairEach`, `SignedOutUnlessRaced`, `AnswersAreFresh`, `EditorsAreServed`, `PortsComeBack` | Two agents over two processes that end; two games and a device at two workers, one record announced again; two sign-ins, a sign-out and a reader; three questions of two processes, one refreshing, two of a list; a server started twice for a document, restarted after one end and given up when it ends twice before it is ready; two bridges of one workspace and one of another |
| `overlap_lost` | `EveryWorkerFound` (violated) | One update and one death |
| `feed_gap` | `NothingMissed` (violated) | One worker, one socket, two frames |
| `two_windows` | `OneWindow` (violated) | One opener, three processes |
| `two_services` | `OneServing` (violated) | Two starters and a lock of a past owner |

Constraints.  Where the product of everything at once is too large, a
constraint says what is not followed further, and each is named in its MC module:

* `MCFollowed` of `MCWorkerRollover`: a behaviour in which replacements
  overlapped or the shutdown closed the workers; everything `rollover_roles`
  checks is conditional on neither.
* `MCLive` of `MCWorkerRollover`: an update beside a request and one death, two deaths
  beside one update, or two updates, each to its end.
* `MCRouted` (`MCHost`): of two requests at the workers one at most is not a
  write to the tracker, and the other starts a pane or asks the host.
* `MCFollowed` and `MCDrafted` (`MCServices`): a window beyond a race
  (`HeldUnlessRaced` speaks of none), and two openers at once beside an update; two
  tabs with several texts at once.
* `MCOpened` (`MCOpening`): a second frame only while nothing was overtaken,
  and of one worker or one socket, a third at the first worker's socket; both
  relays only without the second request and without diagnostics.
* `MCFollowed` and `MCResumed` (`MCWorkspace`): two requests of a game, or one
  beside a worker that takes over or a record announced again, and no cut beside the
  last; a resumed session for one tick.

The theorems of section 5 hold without any of these.

### Fairness

* `WorkerRollover`: the threads of a live supervisor keep running (`Queue`,
  `Perform`, `Look`/`Decide`, `Rescue`), a worker that was told to close exits
  (`red_worker.rs` reads its pipe in a loop), and a request that was counted down
  goes on to `retire()`.  What an update waits for has limits: thirty seconds for a
  worker (`worker.rs:29`) and a probe, ten minutes for a build, twelve seconds for a
  window that detaches.  A panic in one of these threads is not modelled.
* `TokenLedger`: the clock goes on and the sweep thread runs every quarter of a
  second (`red_token_serve.rs:253`); nobody has to call.
* `MCHost`: a caller of `act()` goes on, by its answer or its timeout
  (`desktops.rs`); the runtime runs the tasks that push a segment, whose call may fail;
  a desktop that lost its socket registers again, which its reconnecting loop does.
* `MCWorkspace`: the threads of a sign-in go on and its deadline passes
  (`signin.rs:206`); its exchange with the provider ends within the thirty seconds of
  its socket (`tls.rs:75`).  Nothing is assumed of who connects: a `silent` connection
  may never be read.

None for callers, people, streams, crashes or the stop: a stream may stay for
ever, which is why `IdleReplacedWorkerGoes` speaks of idle workers.
`FeedReachesMonitor` asks of states at rest, not of fairness: whenever everything that was under
way has ended, the monitor has every frame.

## 4. What the violations show

* `overlap_lost`: `recover()` looks at neither jobs nor lists, so its thread can
  overwrite a candidate an update has just made current (`runtime.rs:310`); that
  worker is then in no list and `close()` never reaches it.  `update()` asks
  `busy()` under one lock and queues under another (`runtime.rs:573`, `577`), which is
  how both get to run.
* `feed_gap`: a watcher joins before its replay; a live frame that comes in
  between raises the number `send()` compares with (`feed.rs:93`), and the older
  frames of the replay are dropped as already had.  The monitor's cursor is past
  them, so they never come again.
* `two_windows`: a desktop that detaches for the person's own update while another
  update prepares is started again by `keyboard_update()`
  (`runtime.rs:487`); the update still holds the process it began with and, when it
  fails, starts it too, over the entry of the one that runs.
* `two_services`: `ensure()` removes a lock by its name after it judged what it
  read there (`descriptor.rs:380`); the second caller removes the lock the
  first has created since, and both start a service.

## 5. Proofs

The theorems hold for any sets of workers, jobs, agents, processes, callers,
sockets, panes, documents and so on, and any bounds.  They assume only the named
assumptions on constants: that the marks for *nobody* and *none* are none of the
things they stand beside, that bounds are numbers, that the first worker is
one, that workers, panes and pids are finitely many, and that there is a pid for
each process that runs at first (`RolloverConstants`, `LedgerConstants`,
`FeedConstants`, `HostConstants`, `ServicesConstants`, `ProcessConstants`,
`OpeningConstants`, `WorkspaceConstants`).  TLC evaluates each in a passing run.

Every proof has the same form.  An inductive invariant says what the property
needs to be kept; one lemma per action shows that its step keeps it, with one step per
conjunct the action can disturb; the last theorem combines them.  For modules checked side by side a
step of another part leaves the invariant's variables alone.

*Rollover.*  `TypeOK` is not inductive: a step writes a
local into `current` or `retiring`, so it must be known which locals are set
where.  `LocalsSet` says so, per program point (`TypeCorrect`).
`RecoveryBudget` needs that the budget counts: `starts` is 0 or 1, and is 1 only
while `recoveryUsed` holds (`BudgetHolds`).

While replacements come one at a time (`Orderly`), `Order` holds: one of the jobs and the recovery replaces
(`OneAtATime`), an update's locals say where its previous worker is, per program
point (`UpdateAt`), a candidate has not served (`Candidates`), what a recovery
replaces is dead and current until it swaps (`Rescued`), nobody was told anything
who may serve again (`Untold`), and the descriptor is what the supervisor holds
or the job says it is not (`Written`).  From it follow `DescriptorIsTrue`,
`FailedUpdateIsUndone`, `PreviousWorkerIsKept`, `NoWorkerIsLost`,
`CurrentIsNotDismissed` and the refinement: `RolesAreImplemented` shows that
`Init` maps to `WorkerRoles!Init` and that every step is one of its moves or leaves
the roles alone; a step that makes replacements overlap is its `Fail`.

*Ledger.*  `Sound` holds of the memory and of the file alike, because a restart
makes one the other: an open contest has an id already minted, an agent that is
not the holder, and a deadline that is its opening plus its window.  Resolved
contests have minted ids, so a new one is fresh.  As long as no write was lost,
the file and the memory hold no resolved contest and every cooldown an agent was
told of.  From `Inv` follow `LedgerTyped`, `ContestHasOtherHolderHolds`,
`AnsweredStaysAnsweredHolds`, `NoContestDuringCooldownHolds` and the action
property `NoticeBeforeLossHolds`.

*Feed.*  `Typed` is `TypeOK` with what it rests on: an event carries a frame, a
call that says has something to say, an open socket has a next frame.
`NoFrameTwiceHolds` needs `Sent`: a watcher that is delivered to belongs to that
worker and is served (`Listed`), the reading thread holds a watcher only with
the lock (`LockKept`), and what a channel was given is at or below
`Watcher.delivered`, while a frame marked and not yet sent is not on the channel
and differs from the other thread's (`MarkedOnce`).  It does not rest on the
order of frames.

`MonitorIsReached` (`FeedReachesMonitor`) does.  `Settled` says of each socket that it asks
once and is answered by its own worker, and of each call that it has a batch only while it
says it.  `InOrder` says that, unless a frame was overtaken, there is a number `m` and
for each worker a number `b[w]` such that the first `m` frames are said and
every other is in one place, the queue or one batch, in order (`SaidInOrder`); the
worker has taken up the first `b[w]` and the others are on their way to it in order
(`TakenUp`); and the monitor's socket follows its worker up to there (`Followed`):
nobody forgets it without the end on its channel (`Remembered`), what is on the
channel goes on from the cursor (`ChannelInOrder`), what is marked goes on from the
channel (`MarkedInOrder`), the replay from the mark (`ReplayInOrder`), and the replay that is
asked for and the delivery under way between them leave no frame out, unless the watcher is
behind and will be closed (`NoneSkipped`).  No process keeps these numbers: the
invariant says that there are such.  A worker that attaches starts at `b[w] = m`, which is why a
replay is needed at all.  At rest nothing is unsaid, nothing on its way, and the
channel empty, so `m`, `b[w]`, the mark and the cursor are the ring's last number.

*Host.*  `PanesKeepTheirOrder` is the largest: `PanesInv` says that every record
that travels (in the door's mirror, in the service's hands, on the socket, in an
answer) was true of its pane and is not newer than the pane (`Genuine`), that a
request waits for one answer at most (`OneServed`, `OneReply`), and that whatever the mirror is
behind is on its way (`Heard`).  `KeysBelongToTheOwner` rests on what a queue of
packets will do to the keys held (`Settles`), which is stable under appending
the packets of the owner and of a change of owner.  `OneCallerHasOneDesktop`
rests on ids being one socket's (`OneIdEach`) and the socket a caller found being the
only one that answers for its id (`SocketKnown`).  `EntersFindTheirLine`
follows the line from its paste to its echo.  `TheFeedIsTrue` keeps, for each
request, what its stage has claimed (`CallTrue`) and, for each frame, that the
request that left it had done it (`FrameTrue`).

*Services, `ServicesProofs`.*  `OneServes`: between taking the lock and handing it over
a starter's name is in the lock, then its child's until the child serves, and while
one is on its way nothing is published (`LockNames`, of `StartInv`, under no lock that was
lost).  `ViewsCatchUp`: the newest state a client has, in its hand or on its way to it, is the
service's, or a thread is about to say the service's (`StoreInv`).
`DoneIsKept`: memory and file alike hold what is owed of each part (`Fits`, of
`KeptInv`), so whatever is written next, by whomever, and whichever of the two a restart
begins with, the file keeps every answer given; what precedes a conversation in a list was
recorded after it, so one that has left the list had as many after it as the list holds
(`Once`, `Follows`).
`NothingIsLost`: a text that was typed (`Mine`, of `DraftInv`) is not in the way of
its own desktop's later requests (`InOrder`), is known as saved or drafted only if it is
(`KnowsTrue`), and until it is in the file is another desktop's only by the draft, loaded
and neither changed nor sent (`Unseen`, `OnlyLoaded`).

*Services of the supervisor, `SupervisorProofs`.*  `OneHostIsLeft`: whose child each process
is, in the table and in what was listed (`Families`), and for every step of the
replacement what was listed is what it was or gone, what waits to be stopped is what
the descriptors and the table made of it, no service that is named among it, and what was
waited for has gone (`Track`, of `ReplaceInv`).  That a supervisor is this
workspace's is not assumed: a descriptor that strayed is named in the statement.
`EveryLetterArrives`: memory and file agree between calls, a letter's number is its
place, it is of one of its window's two sides, and no two have the same key
(`LetterInv`).  `HeldIsRunning`: every process that runs is held by the views map, or is in
the hand of one call or of the update, which nobody else has (`Found`,
`CallsHand`, `JobsHand`), and one that ended and is held has a watcher or a caller
that has yet to see to it (`SeenTo`), until one of the races is run (`WindowInv`).

*Opening.*  `LaunchersKeepApart`: who builds holds the lock, whose name is its
owner's (`BuilderLocks`), and one launcher decides, which has seen all that runs
of what it has still to open (`DeciderSees`).  `SpeakersKeepApart`: ids are apart,
a line on either pipe is of the request whose id it has (`LinesOwned`), a
window that is gone still has its end before those who wait (`EndIsComing`).
`RecordsAreTrue`: what was reported is what the CLI is told to be in
(`CarriesOn`), and hooks speak of where it was (`HooksWereIn`).  `ToolsAreKept`:
the watcher knows what is published or has still to look (`WatcherKnows`), runs
are counted by the replacement and by the reply (`RunsAtMost`) and are as an
agent the context named meanwhile (`RunsFor`).

*Workspace.*  `PairsAreOne` (`OnePairEach`): as long as one worker alone hears of a game and
it is not announced as running after its end, the pair is at one of seven places, from unheard over told, said and running to the pair
made (`Follows`, of `GameInv`); each says what the wires, the open pairs, what is about to be
said and the ring hold of the game, so a start is told before its end, an end finds the asker
of its start, and a successor inherits exactly the pairs that are open.  A
running record said again leaves the pair at its place: it comes before the end on every wire
(`WiresKnown`), where the pair is open or about to be.  `SignedOutStays`: a sign-in that is not in
`expected` is at rest and stays so, for a listener that was told to end accepts no more
(`OthersRest`), and what a reader refreshes is in it (`RefreshesKnown`).
`CachedAnswersAreFresh`: an entry was true at its stamp or later, whoever put it
there.  `EditorsKeepTheirServers`: who has a port listens on it and a lock is of a
bridge that serves or was killed (`HoldersKnown`, `LocksKnown`); a document a server
that came back does not know of is being told by somebody (`Promised`), and what
a dead one said is cleared before its waiting thread is done (`WordsKnown`), if that
thread had its child and no other server was started.

## 6. What is only model-checked, and what is not modelled

Liveness under fairness is beyond this prover (`AcceptedJobFinishes`,
`IdleReplacedWorkerGoes`, `DeadWorkerIsReplaced`, `OpenContestResolves`,
`CallsEnd`, `StatusBarsCatchUp`, `PortsComeBack`): TLC checks it on the instances of
section 3.  Every invariant and action property of a passing run is proved.  The
four violated statements are TLC's alone; what holds instead, under the mark of
the case that breaks it, is proved: `WorkersAccountedFor`, `FeedReachesMonitor`,
`HeldUnlessRaced`, `OneServingUnlessLost`.

Statements that were looked at and do not hold of the code, or hold only in the
form of a property above; they are kept in the modules where they say something
about the code, and the properties of the runs name them as exceptions or say nothing of
them: `MirrorAgrees`
(`panes.rs:486`: an answer is put over what was said since), a contest that
stays open when the token is freed (`ledger.rs:615` against 489), a monitor
closed as behind by a count that only grows (`red_worker.rs:862`, `903`), a device asked again that
answers with an older probe (`devices.rs:205`), a language server
that `stop` and `start` no longer see because its waiting thread took the child
(`servers.rs:161`), a relay whose end silences its replacement
(`desktop.rs:241`), and a socket admitted before a retirement and joined after
it, which is not told (`red_worker.rs:899`, `905`) but hears every frame.  Others are
exceptions of a property, met by the model:

* A second worker that dies between two updates is not replaced (`runtime.rs:92`), and an
  update that another overlaps may never be told finished (`runtime.rs:573`, `577`).
* An older segment with sequence 0, from before the project's first transition, is
  shown over a newer one (`token.c:83`), and a segment whose call failed is not asked
  for again (`red_worker.rs:1194`).
* An `addRoot` that is retried after its write failed is answered as done with
  nothing written (`store.rs:275`).
* A runtime descriptor left behind may name another workspace's supervisor at a pid that
  was given away, which is stopped (`stop.rs:79`), though `stop.rs:67` warns of it; a
  service whose own descriptor is torn is stopped with the host (`stop.rs:173`).
* A connection to a sign-in's port that says nothing holds the port for as long as it
  stays (`signin.rs:254`), which the deadline is there to prevent (`signin.rs:206`); one that
  was accepted before a sign-out stores its grant after it (`signin.rs:249`).
* A running record announced after a pane's end starts a second pair on the feed
  (`red-pty/src/lib.rs:607`), where `launches.rs:14` says a start is never repeated.
* What a language server said stands after its end when another was started meanwhile
  (`servers.rs:242`, against the comment at 255), and a count of failures reset between
  253 and 264 makes the wait at 273 overflow.

Left out of the modules: labels, reasons, the history ring and the cap of
identities of the ledger; a ring that forgets its oldest frames and `feed.json`;
cleanup and reset jobs; scrollback and attachment of panes; a launch without an agent or
a project; drafts that are too long and files that are not text; images and the contents of frames;
validation by the schema and recipes; several language servers; the contents of
requests.  Not modelled at all: the link between machines, conversions of HTTP, TLS,
text and the contract, transcript parsers, packs, adapters, plugins and the
companion application, build files and tools.  `PROJECT.json` names each with
the reason.

## 7. Plan

What is modelled is proved but for liveness.  What would come next extends the
model, each with its invariant and its proof:

1. `LifecycleFeed`: `feed.json` and a service that restarts, the ring that
   forgets.
2. The contract between the host and the façade (`translate.rs`, `red-link`), as
   operators over the fields each side knows: the façade refuses a whole answer
   when the host sends a field it does not carry.
3. The routes of `red_worker.rs` and `red-host/src/main.rs` that change state and
   are not yet in `WorkerRoutes` or `HostPanes`.
