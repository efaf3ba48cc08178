# jmux: specifications, model checking and proofs

jmux is a GTK terminal multiplexer for coding agents. Besides panes and
workspaces it *drives* agents: a **goal** is a task given to an agent in a
workspace of its own, which ends when the agent has written an iteration report
with `status: done`; a **graph** is a plan of several goals with dependencies,
each in its own git worktree, scheduled, reviewed and merged by jmux. A Go
daemon, `jmuxd-remote`, keeps terminal sessions and network streams on remote
hosts. This directory holds TLA+ modules of the parts of jmux whose correctness
depends on interleavings, failures and long sequences of requests, TLC
configurations that check them, and TLAPS proofs about them.

## 1. Inventory

| Component | Source | State | Operations | Hard because |
|---|---|---|---|---|
| Graph scheduler | `jmux/src/goal/graph.rs`, `socket/v2/graph.rs` | `SharedState::graphs`, `graph.json` per graph, git worktrees and the base checkout | tick every 2 s; create, approve, revise, pause, resume, stop; accept and continue of a node; reload after a restart | GTK tick against handler threads, several locks per request, merges, commits and writes that fail, a file rewritten in place, restarts |
| Goal driver | `jmux/src/goal/mod.rs`, `socket/v2/goal.rs` | `SharedState::goals`: status, iteration, counters; report files | driver pass; launch, complete, continue, accept, stop | the driver works on a copy of a run; prompts are queued; reports are files anyone may write; agents exit at any moment |
| Graph panel | `jmux/src/ui/graph_panel.rs` | none | Continue, Accept buttons | ignores a refusal and goes on |
| Shared state | `jmux/src/app.rs`, `hibernate.rs` | registries, event channels, hibernated panels | send events, type input, hibernate, wake | a signal and a flag that must agree |
| Remote daemon | `daemon/remote/cmd/jmuxd-remote/main.go` | sessions with attachments; proxy streams (at most 64) | session open, close, attach, resize, detach; proxy open, write, subscribe, close; one pump goroutine per stream | one loop for all requests, pumps that send while requests are answered, a shared stdout that may be full |
| Remote connection | `jmux/src/remote/session.rs`, `ui/window/event_handler.rs`, `app.rs` | `SharedState::remote_sessions`, the state shown in the sidebar | connect, disconnect, reconnect; health monitor every 10 s; clean-up of closed workspaces | a thread per attempt, a monitor per connection, and one map they all meet in |
| Remote RPC client | `jmux/src/remote/{rpc,proxy,relay,bootstrap}.rs` | pending calls, stream subscriptions | call with a 10 s timeout, subscribe | late answers, early events |
| Workspaces and tabs | `jmux/src/model/*.rs`, `socket/v2/{workspace,pane,surface,tab,group}.rs`, menus and buttons of `ui/*` | workspaces, groups, panes, focus, selection, closed ones | add, move, close, reopen, split, select | long sequences of legal operations; dialogs and rows that hold an index |
| Session persistence | `jmux/src/session/*.rs`, `app.rs` | `session.json`, rolling backup | autosave, watchdog save, shutdown save, load, recover | two writers, kills between steps, failed writes, damaged files |
| Agent detection | `jmux/src/model/claude_state.rs`, `agent_monitor.rs` | none | classify a screen | heuristics on text |
| Socket server | `jmux/src/socket/{server,auth,v1}.rs`, `v2/mod.rs` | connections | accept, authenticate, dispatch to a blocking thread | limits, shutdown |
| Notifications | `jmux/src/notifications.rs` | bounded list, unread counts | add, clear, read | counts that must agree with the list |
| Browser, settings, UI, command line, terminal bindings | `socket/browser/*`, `browser_*.rs`, `settings/*`, `ui/*`, `jmux-cli/*`, `ghostty-*` | widget state | display, parsing, I/O | not protocol logic |

**How they interact.** Socket handlers run on threads of their own and share
`SharedState` with the GTK main loop, one mutex per registry. The main loop
runs the driver's pass, which first calls the scheduler's tick
(`graph::scheduler_tick`) and then visits each goal run. The scheduler launches
goal runs, reads their status, and is called back by `goal.accept` and
`goal.continue` through the link a run carries (graph name, node name). The
driver and the handlers prompt an agent through an event channel the main loop
empties later. The agent answers by writing a file, and may call
`goal.complete`. `graph.json` is written at every change of a graph and read
once, after a restart; goal runs are not saved.

The remote parts are separate: a connection thread of jmux starts the daemon
over ssh and talks to its stdin and stdout. The list of workspaces is changed by
socket handlers and by the window, always under its lock; remote sessions and the
saved session follow it (clean-up at a refresh, a snapshot every 8 s).

**What makes each component correct.**

- *Scheduler*: never more than `max_concurrency` nodes at work; a node starts on
  finished dependencies whose branches are merged; no node is finished without the verdict
  `--review-iterations` asks for; done work stays done; a complete graph is merged;
  a graph that cannot progress tells its owner; a name, a verdict and a restart
  concern the graph they were meant for.
- *Driver*: no iteration is skipped; a run ends with its user told; a silent agent
  is reminded a bounded number of times and then reported; a report is acted upon;
  closing a workspace ends its run; a stop stays a stop; nothing is typed into a shell.
- *Sessions*: the effective size is the tight minimum of the attached ones.
- *Remote streams*: the client is told what the peer sent, in order, then at most one
  end, then nothing; no connection leaks; streams end; every request is answered.
- *Remote connections*: the connection in the map is watched; a dead one is noticed; a
  closed workspace ends up without a connection.
- *Workspaces*: a panel is a tab of one pane; a pane shows one of its tabs; the focus is
  on a panel that exists; the selection follows its workspace; panels are not lost.
- *Persistence*: what has been saved can be loaded after any kill, failure or damage;
  what is worked on gets saved.

## 2. Modules

### GraphScheduler — one graph, its nodes and its runs

State and code: `graph` is the registry entry (status `none`: not registered),
`disk` what `graph.json` holds, `runs[n][k]` the goal run of the *k*-th launch of
node *n*, as far as the scheduler sees it (live, done, blocked; workspace open),
`merged` the launches whose branch the base checkout contains, `call[h]` what a
handler still has to do. `ticked` separates the two halves of a driver pass that
matter here, the scheduler's tick and the purge of runs whose workspace is gone.

Whatever a thread does under the graphs lock is one action. `create_graph`
(check, save, insert), `goal.accept` (run, then node), `goal.continue` (run,
then node) and `stop_graph` (graph, then runs) take their locks several times
and are split there. A crash may fall between a merge and the save that follows
it (`CrashAfterMerge`, for the merges of a tick, of an accept and those `resume_graph`
tries again), or into the rewriting of `graph.json` (`CrashInSave`).

Abstractions. A proposal is any plan of `Plans`, or none yet: a tick that finds
no plan is `TickIdle`. Texts, notifications, sidebar groups and iteration
numbers are left out. `revise_graph` needs a live orchestrator; that guard is
left to the environment (a revise that is refused changes nothing). Which nodes conflict when merged is chosen freely at every merge.
The status of a run is moved by the driver and by handlers; the races between
those two are GoalDriver's subject, here a run is settled in one step.

Failures. A merge may be refused (dirty checkout, conflict). `save_graph` discards write
errors: with `"save"` in `Faults` every write of `graph.json` may leave the file as it
was, or cut off and unreadable (`Write`); `unsaved` records that the last one failed.
Nothing repeats it: `process_graph` writes only what a tick changed (`SaveIfChanged`).
With `"commit"` in `Faults`, the `git add` and `git commit` of `finish_node` may fail, which
the code ignores: the branch is merged as it is (`MergeBranches`), and `bare` records
it. `merged` is about branches only; that a branch holds the node's work is
`DoneMeansCommitted`, which the code does not keep. `accepted` and `foreign` are history
variables: the launches a human accepted as the node's own run, and whether a node was
finished through the run of another graph.

`tick_running`'s branch for a running graph without nodes has no action: the
invariant `RunningHasNodes`, proved for all instances, shows it is dead code.

### GoalDriver — the runs, their reports and whoever moves them on

`goals` is the registry, `file[d][n]` the report `iteration-n.md` of directory
`d` (`by` records who wrote it), `agent` what a pane shows, `inbox` the prompts
on the event channel, `drv` the driver's place in its pass: between runs
(`pick`), about to read the file, about to send or to record a continuation, in
front of the screen. `drv.snap` is the copy of the run `drive_one` works on: the
code's counters and limits are compared on that copy and written to whatever the
registry holds by then, and so they are here. `goal.complete` and
`goal.continue` are split in the same way. `quiet` is the notification rate
limit, `expired` the wall clock.

Each way through the second half of `drive_one` is an action (`DriverTimesOut`,
`DriverReadsNothing`, `DriverSeesMenu`, ... `DriverNudges`). `escalate` is
`EscalateFrom`: it writes under one lock, so its test of the rate limit and its
write are one step. Two lock sections that no other thread can tell from one
are merged: the reset of `no_text_ticks` and what follows it, and the liveness
check and the sending of the prompt (the prompt is *delivered* by a step of its
own, which is what matters). A reminder, unlike a prompt, is typed at once by the
main loop; the microseconds between its liveness check and the typing are not modelled.

Agents write, complete or correct a report while it has no usable status; they
do not rewrite a finished one, and reports are not deleted. Details of a status
that only change its wording (the number of reminders, which of two spawn
failures) are one value each.

### PtySession — the daemon's session registry

One action per `session.*` request; the daemon serves them one at a time under
`rpcServer.mu`. `recomputeSessionSize` is `Recompute`. Parameters are valid
(`cols`, `rows` positive): `parseSessionAttachmentParams` refuses others.

### RemoteDaemon and StreamService — the daemon's streams

RemoteDaemon EXTENDS PtySession: its loop reads a request, serves it and writes the
response, and the session requests are served by the same loop. `loop` is where
`runStdioServer` is, with the streams it is about to close; `streams` is
`rpcServer.streams` (value: `readerStarted`), `conns` the TCP connections with what
their peers sent, `pump` each `streamPump`, `stdout` the frames not read yet,
`told` what was written about a stream. A lock held is a step; between the steps of
`proxy.open` (limit, dial, insertion), of `proxy.close` and `dropStream` (out
of the table, then close) and of a pump (read, write the event, drop) everything else
may happen. `frameWriter` blocks while `stdout` is full. Deadlines are steps that are
always possible where the code sets one. Left out are the last flush of `runStdioServer`,
after stdin has ended, and the error of a pump's write, which the pump ignores and the loop
meets at its own next write. Data is counted in chunks: `told.got` is how many
chunks in order the client was sent.

StreamService is the abstract specification: per stream a life (unborn, open,
closing, over), the number sent, what was told. RemoteDaemon implements it
(`StreamsAsPromised`, INSTANCE ... WITH): `life` is read off the table and the
connection. It allows one event after a stream is over: the pump that lost the race
against `proxy.close` may have its event already under way.

### RemoteSession — the connection of one workspace

`entry` is the workspace's entry in `remote_sessions`, `shown` its state in the
sidebar, `events` the queue of UI events; each attempt *k* has a thread
(starting, storing, starting its monitor, reporting) and a monitor (asleep, looking
for an entry, probing, removing, reporting), with the locks of the code as step
boundaries. A session that nobody holds any longer is dropped and thereby stopped.
The ways in which a start fails are two: with an error state set, and without
(`RemoteRpcClient::new`). The workspace is there until it is closed.

### WorkspaceLayout — panels, panes, focus

`ws` is a `Workspace`: the kind of each panel, closed ones, focus, previous focus,
zoom, and the panes in tree order with their tabs and the one shown. One action per
handler, button or shortcut that changes any of it. `page` is the page the window has
built, whose "New Terminal" button and tab bars name the tab they were built for
and may be older than `ws`. What the tree adds above the panes, orientation and
divider, is left out: no handler's effect on panes and tabs depends on it, except
which panes are neighbours, which is chosen freely, and how far removing a panel
tidies: empty panes are taken out along its path only. An empty pane can only be the
first leaf of a split, and is listed after the panes of its sibling, so that `Collapse`,
which keeps what comes before the panel's pane and drops empty panes from there on, does as
`LayoutNode::remove_panel` does. `OpenFile` is `file.open`, which adds a tab;
`OpenBeside` is `notes.open` and `markdown.open`, which add a tab or split.

### TabManager — the list of workspaces

`tm` is the `TabManager`: list, selection, groups, closed workspaces, history. A
workspace is the set of its panels. What the code does under one lock is one step;
a dialog, a row's menu or a request that computes an index first and uses it
under the next lock is kept in `asked`. Pins are only asked by "close others", so the
pinned ones are any set there.

`Lists` holds what the two share, dropping elements of a list in order
(`Retain`, the code's `filter` and `retain`).

### SessionStore — the saved session

`primary` and `backup` are the two files, `life` and `mem` the process, `had` the flag
`HAD_WORKSPACES`, `save[s]` where each of the two writers is in `save_session`: the
autosave's thread, and the main thread (watchdog, shutdown). The copy to the backup
truncates before it writes; two copies may overlap and mix; the session is written
to a file of its own and renamed. The process may be killed anywhere, a write may
fail, `session.json` may be damaged from outside while the backup is good, and a
start may ignore both files. A file that holds only workspaces without panels (`Hollow`)
restores nothing; the window then opens with a default workspace, unless it shows the
welcome page or the quick terminal (`Restored`).

### MC modules

`MCGraphScheduler`, `MCGoalDriver`, `MCPtySession`, `MCRemoteDaemon`,
`MCRemoteSession`, `MCWorkspaceLayout`, `MCTabManager` and `MCSessionStore` give the
constants values for TLC; they define no behaviour. Definitions marked *Mutant* are
faulty variants of the definition that follows them, kept to show that a property
notices the fault; no specification uses them.

## 3. Runs

| Run | Checks | Instance |
|---|---|---|
| `graph_unattended` | type, cap, dependencies, completeness, `RunningHasNodes` | 2 nodes, chain and fan-out, 1 or 2 slots, worktrees, one handler, 2 launches |
| `graph_gated` | `ReviewGate`, `DoneIsFinal` | chain, both gates, two handlers, four requests |
| `graph_progress` | `GraphSettles` (liveness), `DoneIsFinal` | chain, worktrees, writes that fail, 2 launches, one several-step request (the creation) |
| `goal_driver` | type, `NoIterationIsSkipped`, `TerminalIsAnnounced` | one claude run, 2 automatic iterations, 1 reminder, 1 request in flight |
| `goal_live` | `SilentRunsEscalate`, `ReportsAreActedOn`, `ClosedRunsAreDropped` (liveness) | one claude run, 2 automatic iterations, 1 reminder, no split requests |
| `pty_session` | type, `EffectiveIsTightMinimum`, `DetachedKeepsSize` | two sessions, two terminals, sizes 1 and 2 |
| `remote_daemon` | type, `OpenConnsAreOwned`, the refinement `StreamsAsPromised`, `SubscribedStreamsEnd`, `RequestsAreAnswered` (liveness) | limit of 1 stream, 2 opens, 1 chunk each, a pipe of 1 frame, one session |
| `remote_session` | type, `EntryIsWatched`, `ClosedWorkspaceDisconnects`, `DeadConnectionIsNoticed` (liveness) | 2 attempts to connect, 3 queued events |
| `workspace_layout` | type, `NoTabTwiceNorDead`, `PanesShowATab`, `FocusIsLive`, `FocusStaysInPane`, `StaysOnScreen` | 3 panels, one closed one remembered |
| `tab_manager` | type, `NothingTwiceNorEmpty`, `SelectionFollows`, `OpenPanelsAreKept` | 3 workspaces, 3 panels, one group, one closed one remembered, history of 2 |
| `session_store` | type, `SavedSessionIsKept`, `WorkIsSaved` (liveness) | one session besides the default workspace, both writers, failing writes |
| `session_fresh` | `RelaunchStartsFresh`, violated | as `session_store` |

**Bounds.** Two nodes suffice for everything the scheduler's rules mention: a
node and its dependency, two nodes competing for a slot; two launches of each
give every run a predecessor of the same name. `MaxCalls` bounds the requests
that take several steps, so that at least two of them overlap where overlapping
matters; single-step requests are not bounded. In GoalDriver one run is enough
for every property but `RunReadsItsOwnReport`, since runs share nothing but
directories and the order of the driver's pass. The limits are small but pass
through all their phases: below, at and beyond (`IdleLimit` 2: one tick waits,
the next reminds; `Budget` 1: one reminder, then escalation). `MaxIter` bounds
what agents write, and thereby every iteration number (nobody goes past an
iteration without a report); it is `Cap` plus the requests that may continue a
run, so the bound cuts nothing off that the driver does by itself. In PtySession, two sizes per
dimension let columns and rows be decided by different terminals.
`MCGoalTwice.cfg`, beside the runs, checks the invariants of `goal_driver` on a
polled-only run with two requests in flight.

In RemoteDaemon one place and two opens let a stream wait for the place of another and
make a late event of the first meet the life of the second; more chunks or a longer
pipe only repeat the same positions. Two connection attempts suffice for everything
that can go wrong between an attempt and its successor; three events let a
disconnect and a connect be queued behind a report. In WorkspaceLayout
three panels are the least with which a pane has a neighbour on either side and a
tab a left and a right one; `CLOSED_PANELS_CAP` is 1 so that it is reached. Three
workspaces are needed for a group with a stranger between its members and for a
selection before, at and after the one that is removed; the caps on closed workspaces
and history are small for the same reason. Workspaces and panels are symmetric: no
formula of those two runs is a liveness property. SessionStore is small enough to be
checked without bounds on anything but the number of sessions; kills, damages and
restarts are not limited.

**Fairness.** Only the GTK main loop is assumed to go on: the tick and the purge
in GraphScheduler, `DriverStep` in GoalDriver. `glib::timeout_add_local` returns
`Continue` unconditionally, and a pass visits every run it collected. For
`GraphSettles` a launched agent must end its turn one way or another
(`RunSettles`), which the driver enforces: `SilentRunsEscalate` and the wall
clock. The wall clock is a setting (`wall_clock_minutes`, 120 by default); with 0, no
limit, an agent that works for ever keeps its node running, and the property
does not speak of such a configuration. Users, socket clients and crashes owe nothing. In
RemoteDaemon the loop and the pumps go on (goroutines are scheduled) and the
client reads its end of the pipe; a pump that waits for room in stdout gets it
sometimes although responses compete with it, hence strong fairness there (Go's mutex
and the kernel's pipe serve waiters in turn). Peers and requests owe nothing: that streams end is
the idle timeout's merit. In RemoteSession the UI loop, its refresh, the
connection threads and the monitors run; presses of buttons and lost links need not come. In SessionStore the
8 s timer fires, threads in `save_session` go on, and a disk that is full
again and again is not full at every attempt; starts, quits and kills owe nothing.

**Liveness properties, precisely.** `GraphSettles`: a running graph without
iteration review ends up not running, or with no node pending, at work or in
review. That second case, every node done or blocked, is not the pause one would
expect: see `MCGraphStall.cfg`. `SilentRunsEscalate` excludes working agents and
paused ones (nothing is timed while they last) and polled-only runners, which
only the wall clock can end. `ReportsAreActedOn` excludes agents that are gone:
see `MCGoalExited.cfg`.
`SubscribedStreamsEnd` speaks of subscribed streams only: `proxy.open` starts no pump and
sets no deadline, so an unsubscribed stream keeps its place until the client closes it.
`RequestsAreAnswered` holds because a write to a peer has a deadline and the client reads;
it says nothing of a client that stops reading, which blocks the daemon by design.
`DeadConnectionIsNoticed` is about a connection in the map. `WorkIsSaved` promises a save
for a state that lasts, and only until the process ends.

`DoneIsFinal` is checked twice: in `graph_gated` under late and repeated verdicts of two
handlers, with writes that succeed, and in `graph_progress` under writes that fail. That the
invariants of `graph_unattended` and `graph_gated` survive failed writes too is what
the theorems say, which hold for any `Faults`. The same goes for
`SubscribedAreRead`, a step of the argument for the daemon that no run repeats.

Approximate sizes (distinct states): `graph_unattended` 1.6 M, `graph_gated` 1.1 M,
`graph_progress` 214 k, `goal_driver` 2.1 M, `goal_live` 94 k, `remote_daemon` 248 k,
`remote_session` 87 k, `workspace_layout` 228 k, `tab_manager` 125 k,
`session_store` 54 k. Each ends within five minutes on two workers.

### Disagreements between code and documentation

`session_fresh` checks one statement of a comment and ends with a trace that violates
it: all workspaces are closed, jmux saves an empty session and quits; the loading rule
that protects a clobbered session takes the file for one and restores the backup.

The configurations below stand beside the runs. Each property is a statement of
a comment, a document or a message; TLC finds it violated (`tlc -config X.cfg M`, where
a configuration names several properties, one after the other). PROJECT.json quotes
the statements of most of them with their places.

| Configuration | Property | Trace |
|---|---|---|
| `MCGraphStall.cfg` | `StalledGraphPauses` | all nodes blocked or done, none active: `any_active` is false and the graph stays *running* |
| `MCGraphBeside.cfg` | `PausedPlanCanBeApproved` | pause during plan review; approve refuses a paused graph, resume sends the user to approve |
| `MCGraphBeside.cfg` | `ReviewedNodeCanBeAccepted` | workspace of a node in review closed: run purged, node stays in review |
| `MCGraphForeign.cfg` | `AcceptFinishesItsOwnNode` | a run of an earlier graph of the name is accepted late and finishes the new graph's node |
| `MCGraphNames.cfg` | `LiveGraphKeepsItsPlan` | two creates pass the name check before either registers |
| `MCGraphNames.cfg` | `StopSparesRunningGraphs` | graph stopped, resumed before the handler gets to the runs: the run of a node at work is blocked |
| `MCGraphBeside.cfg` | `RestartRemembersGraph` | crash while `graph.json` is being rewritten |
| `MCGraphBeside.cfg` | `DoneSurvivesRestart` | the write that follows an accept fails, restart: the done node is interrupted |
| `MCGraphBeside.cfg` | `DoneMeansCommitted` | `git commit` fails, the merge has nothing to do, the node is done |
| `MCGraphResume.cfg` | `ResumeSeesFixedNodes` | blocked run continued to *done* by its user; resume still shows the node blocked |
| `MCGoalStopped.cfg` | `StoppedStaysStopped` | stop arrives while the driver holds its copy; the escalation that follows overwrites it |
| `MCGoalExited.cfg` | `ExitedRunsEnd` | blocked report, agent gone: continuation refused and retried each pass, status *running* |
| `MCGoalShared.cfg` | `RunReadsItsOwnReport` | two bare goals in one repository poll the same report |
| `MCGoalStrayed.cfg` | `PromptsReachLiveAgents` | agent exits between liveness check and delivery of the queued prompt |
| `MCGoalLate.cfg` | `FileIsTheSourceOfTruth` | done report read for iteration 1 settles a run that is at iteration 2 by then |
| `MCGoalPrompt.cfg` | `PromptedRunCanContinue` | run stopped on a prompt has no report, so `goal continue` is refused |
| `MCGoalRestart.cfg` | `RestartKeepsRuns` | registry is in memory only |
| `MCRemoteBeside.cfg` | `MonitorsRemoveTheirOwn` | two connects overlap; the monitor of the first, lost one removes the entry of the second |
| `MCRemoteBeside.cfg` | `DisconnectHolds` | disconnect while an attempt is under way: it stores its session and shows *connected* |
| `MCRemoteConnecting.cfg` | `ConnectingEnds` | ssh cannot be spawned: state stays *connecting*, no button |
| `MCLayoutBeside.cfg` | `ZoomIsLive` | zoomed tab closed, zoom still names it |
| `MCLayoutBeside.cfg` | `ClosedWithItsLastTab` | notes toggled off as the last tab: an empty workspace stays |
| `MCLayoutBeside.cfg` | `EveryPanelIsPlaced` | "New Terminal" of a page whose tab is gone: a panel without a pane |
| `MCLayoutBeside.cfg` | `FocusIsShown` | swapping panes: focus on a tab its pane does not show |
| `MCTabsBeside.cfg` | `RefusedMoveMovesNothing` | `surface.move` to an unknown workspace answers an error and has lost the panel |
| `MCTabsBeside.cfg` | `ConfirmedIsClosed` | a workspace inserted above while the dialog is open: the wrong one is closed |
| `MCTabsBeside.cfg` | `GroupsAreContiguous` | a workspace of another group, or of none, created between members |
| `MCSessionBeside.cfg` | `CleanQuitIsSaved` | autosave thread writes its older snapshot after the shutdown save |
| `MCSessionBeside.cfg` | `BackupIsGood` | the backup is copied from an empty `session.json` |

Properties that a defect above would contradict say so: `foreign` (a node was
finished by another graph's run) is excluded from `ReviewGate`,
`DependentsSeeMergedBranches` and `CompleteMeansMerged`; `DoneIsFinal` allows a restart
that follows a failed write to return to what the file holds; `EntryIsWatched` allows the
attempt whose monitor is about to be started; `SavedSessionIsKept` speaks of a
`session.json` that holds workspaces.

## 4. Proofs

`GraphSchedulerProofs` proves, for every finite set of nodes, every set of valid
plans and of option sets, any handlers and any bounds:

- `TypeCorrect`: `Spec => []TypeOK`
- `CapIsKept`, `DependenciesComeFirst`, `CompleteGraphsAreMerged`,
  `ReviewIsNeverSkipped`, `RunningGraphsHaveNodes`: the safety invariants of the
  runs above;
- `DoneNodesStayDone`: the action property `Spec => DoneIsFinal`.

Assumptions are those of GraphScheduler: nodes are finite and not empty, a plan
names at least one node and dependencies among its nodes (what `parse_proposal`
enforces; acyclicity is not needed), `max_concurrency` is at least 1
(`create_graph` clamps it).

*The argument.* None of the properties is inductive. A restart replaces `graph`
by a reconciled `disk`, so every claim must hold of both: `IInv` states each part
for the two alike, and `RestartFrom` is one lemma. The cap needs only that ticks
launch into free slots and that the other actions never add busy nodes, except
`continue_node` (review to running, the same count) and a restart (fewer); the
proof counts with the library's theorems on finite sets. `Solid` carries
dependencies, merges and verdicts together, because resume can finish a node
whose merge failed earlier: for that node the verdict must have been given
before (fourth part) and the branch must exist (third part). `RunOK` excludes
that a verdict reaches a pending or interrupted node through a registered run,
which would let accept finish a node that was never started. `PlanOK` keeps
running graphs from being empty. Everything that speaks of merges and verdicts
is claimed unless `foreign`, the one documented way around it.

`Inductive` shows `Init => IInv` and `IInv /\ [Next]_vars => IInv'` with one lemma
per action or group of actions; the theorems about invariants follow from `IInv` by
expanding its conjuncts.

`DoneIsFinal` needs an invariant of its own, `FInv`, because a restart puts what was
saved in the place of what was known: a node done in `graph` is done in `disk`, or the
file is already that of the next graph, which `create_graph` saves before it inserts it,
unless the last write failed (`DoneSaved`). The next graph has no node until its plan is adopted (`Unplanned`, of
both), so the insertion takes nothing back either. A change and its save are under one
lock, so what a crash before the save loses has been seen by nobody; only a write that
fails leaves the file behind the registry, and `unsaved` remembers it until one succeeds.
What the file holds then is still a graph that was once registered, or nothing: `IInv`,
which speaks of `disk` as of `graph`, survives failed writes as it stands, and with it
dependency order, the cap and the verdicts.

`GoalDriverProofs` proves, for any runs, directories shared in any way, handlers
and limits: `TypeCorrect`, `IterationsAreNotSkipped` and `EndsAreAnnounced`.
`TerminalIsAnnounced` is inductive as it stands: `escalate`'s exception to its
rate limit covers exactly the runs that become terminal, and calming a status
never touches a terminal one. `NoIterationIsSkipped` is not: between the moment a
report is seen and the moment the next number is written lie other threads, so
`IInv` claims of every holder of a number (run, driver, request, queued prompt,
agent) that all earlier reports exist, that reports have no gap, and that the
driver, which alone drops runs, only holds registered ones. The type invariant
needs the last point too: reminders are compared on the driver's copy and counted
in the registry, and stay within the budget because nobody else counts them.
Assumptions: there is a run; the limits are natural numbers, `Cap` and `IdleLimit` positive
(the code clamps the first, and a second of 0 acts as 1).

`RemoteDaemonProofs` proves, of PtySession, `TypeCorrect`, `SizeIsTightMinimum` and
`LastDetachKeepsSize` for any ids, terminals (even infinitely many) and positive
sizes. The inductive part is that the size in force always is the remembered one.

`SessionStoreProofs` proves `TypeCorrect` and `SessionKept` for any set of sessions,
whether or not the disk fills; the only assumption is that the values which stand
for files, the default workspace and no workspace differ. `SavedSessionIsKept` is
an action property, and the step that matters is `Write`. `Guarded` is what makes it
safe: a thread past the guard with workspaces has set `had`; one past it without any
got there because `had` was set or because `session.json` held nothing, and in the
second case nothing that could be lost has appeared since, as only a thread's write
puts workspaces there, and such a thread has set `had`. Truncating the backup
is harmless as long as the primary is not written before.

`RemoteSessionProofs` proves `TypeCorrect` and `MapIsWatched` for any bounds.
`EntryIsWatched` is inductive once types are known: nobody but thread *k* puts *k* in
the map, it starts *k*'s monitor after, and a monitor ends only when it has emptied the
map or found it empty. The types are the harder half: attempts are numbered when their
event is taken from the queue, so `Bounded` counts the waiting Connect events
together with the attempts made, with an injection from the rest of the queue to show
that taking an event counts one less.

Of RemoteDaemon, `RemoteDaemonProofs` proves for any number of streams, opens, chunks and frames in
the pipe: `DaemonTypeCorrect`, `NoConnLeaks`, `SubscribedHavePumps`, and the two
refinements, `RegistryRefines` (the registry behind the loop is PtySession, so the
theorems above hold in the daemon; `DaemonTypeCorrect` uses one) and `DaemonServes`
(`DaemonSpec => StreamsAsPromised`). Four parties write about one stream; the
invariant `DInv` says of each stream what the others rely on. `Kept`: a stream in the
table is open and has a pump exactly when it is subscribed, a pump that closes or has
ended has taken it out of the table, a number not yet given out has nothing. `Told`: the
chunks read are those told plus the one being written, an end was read after the last
chunk, and after an event told too late the pump never writes again. `Owned` is
`OpenConnsAreOwned`. `LoopOK` carries the limit across the dial: `proxy.open` checks it
and lets go of the lock, and it still holds when the stream is entered because pumps only
take streams out. In the refinement a dial maps to *Open*, leaving the
table to *Release*, closing connections to *Close* of those still open, a frame to
*Deliver* or *Finish*, and everything else to a stutter. Assumptions: the stream limit
and the pipe are positive, the other bounds natural numbers, and those of PtySession.

`TabManagerProofs` proves, for any workspaces, panels and groups and any positive caps:
`TypeCorrect`, `OnceAndInhabited` (`NothingTwiceNorEmpty`), `TheUserStays`
(`SelectionFollows`) and `PanelsAreKept` (`OpenPanelsAreKept`). An operation is a
composition of methods, and between them the manager may hold an emptied workspace: a
panel is taken out first and the workspace removed after. So the lemmas about methods are
stated for a `Tidy` manager, which may, and the steps lead from one without empty
workspaces (`Sound`) to another. The lemma about a method says what it
returns: tidy again; whether it `Follows` (the selected workspace stays selected if it
stays open) and whether it `Keeps` (what was in a workspace is in one, or in the closed
list). Two facts carry the rest. The
closed list and the open one are disjoint, in workspaces and in panels, which is what
allows reopening. And removing empty workspaces from the list loses no panel although
`remove` does not remember them. A request with a stale index is any index, so `Sound`
does not mention `asked` beyond its type: the operations are right for every index they
can be given. `PanelsAreKept` needs the caps positive: with a cap of 0 closing a
workspace would lose what it held.

`WorkspaceLayoutProofs` proves, for any finite set of panels and any cap: `TypeCorrect`,
`TabsAreOnceAndLive`, `EveryPaneShowsATab`, `TheFocusIsLive`, `PanelsStayOnScreen`
(`StaysOnScreen`) and `TheFocusStaysInItsPane` (`FocusStaysInPane`). The invariant is
`Sound`: `Body` (the panes partition the tabs, each shows one of its own, at most one
is empty, every tab is in the map, the closed list within its cap) and `Live`, about
the focus. They are apart because methods break and restore them at different points:
`remove_panel` takes the panel from the map before it gives the focus away. A pane is
spoken of by the set of its tabs, which is enough for all but one thing, the neighbour
`remove_panel` chooses (`Neighbor`): for that the proof shows that the next or previous
tab of a list is another one of the same pane. Closing
the tabs beside one and hiding the notes remove several panels, a fold over a list: the
proof shows of every prefix that the workspace is sound and that nothing but the panels
of the list is gone. Finiteness is needed there and for the index of `surface.reorder`. `StaysOnScreen` speaks of a step, not a
state: each method is shown to take out of the panes only what it takes out of the map
(`Stays`), except where the focus is in no pane, the case the property names.

`ListsProofs` holds what these two share: `Retain` keeps the order, what is injective and
exactly the elements asked for; removing and inserting an element of a list; what a fold
does. These are statements about data of any length, by induction. The prover cannot use the
library's induction rules, which take a predicate, but a *set* of numbers it can: the
set of lengths for which a statement fails, if it is not empty, has a least element
(`LeastNumber`, from the well-foundedness of `<`), and there the step gives the
contradiction. Folds are reached the same way, by proving that the function the
fold is defined by exists. This is also why lists are filtered with `Retain` and not with
`SelectSeq`, whose definition the prover does not see.

Assumptions are those the modules state: the value that stands for "none" is no panel, workspace or
group; caps are natural numbers, TabManager's positive (10 and 50 in the code); panels
are finite.

*Only model-checked*: liveness, which is beyond the prover (`GraphSettles`,
`SilentRunsEscalate`, `ReportsAreActedOn`, `ClosedRunsAreDropped`, `SubscribedStreamsEnd`,
`RequestsAreAnswered`, `ClosedWorkspaceDisconnects`, `DeadConnectionIsNoticed`,
`WorkIsSaved`). Every invariant and every action property of the runs is a theorem, and so
is the refinement of StreamService. What a module says that the code does not do is
refuted by TLC and is not a matter of proof.

## 5. Not modelled, and the plan

Not modelled: drawing, terminal bindings, settings, browser automation, command-line
clients, detection of an agent's state from its screen, the socket server and the
notification list (independent connections, single critical sections), and the
wording of prompts and notifications. This is most of the program by lines: the parts
modelled are those in which order, failure or long histories decide.

*RPC client against daemon.* RemoteRpcClient and jmuxd-remote do not speak the same
language at this commit: stream ids are read as numbers (`rpc.rs`, `as_u64`) and sent
as strings (`"s-1"`), pushes are read by a field `method` and sent with a field
`event`. A composition would show that nothing arrives. When this is mended, a module
of pending calls and subscriptions over StreamService is the next step; the hazards to
aim at are the answer after the timeout and the event before the subscription.

*Behaviour known that no property is about*: the wall clock of a goal counts from its launch,
paused time included; only a subscribed daemon stream has an idle timeout; an answer of the
daemon that comes after the client's timeout is dropped, and its stream never closed; the watchdog's full save is replaced by the next
autosave without scrollback (no promise of the code is about that); a failed restore
leaves an empty process whose next non-empty save overwrites primary and backup within two
generations; `close_below` clamps its index; `agent_monitor` mirrors tabs of its own
into a workspace.

Planned, in this order:

1. **RunLifecycle** — what the scheduler assumes of a run, implemented by GoalDriver
   under a refinement mapping, and an abstract saved session that SessionStore implements;
   both refinements proved as well as checked.
2. **ProposalDag** — `parse_proposal`'s checks and Kahn's algorithm as a recursive
   function, against "has no cycle" by definition. **PlanReview** — proposal
   files with whole-second modification times. **GraphLoad** — the `LOADED` flag and
   concurrent first requests. **NodeWorktrees** — two graphs of one repository, `git worktree`
   commands that fail. **Hibernate** — signal and flag.
