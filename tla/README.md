# TLA+ verification of appium-cli

Specifications, model-checking runs and machine-checked proofs for `appium-cli`
(`src/src/appium_cli`) and its `agent-browser` companion
(`src/agent-browser/src/agent_browser`). Paths below are relative to `src/src/appium_cli`
unless they start with `agent_browser/`.

## 1. The system

`appium-cli` gives shells and language models a stable command interface to a phone. A short
lived CLI process talks over a Unix socket to one *session daemon* that owns the WebDriver
session; the daemon talks to an Appium server, which drives the device. Elements are named by
*refs* that a snapshot of the screen hands out.

| Component | State it keeps | Operations | Interacts with |
|---|---|---|---|
| Ref resolver (`core/ref_resolver.py`) | `_ref_map`, `_current_snapshot_id`, `_artifact_ref_maps`, `_stale_contexts` | register, mark current, mark/clear stale, `require_registered`, `resolve` | artifacts on disk, driver contexts |
| Snapshots (`tools/observation.py`, `core/*snapshot*.py`) | current snapshot, per-context maps, bundle files, `latest*.json` | `refresh_snapshot`, show/search/query | resolver, contexts, files |
| Contexts (`tools/contexts.py`) | `state.current_context` (a copy of the driver's context) | `current_context`, `switch_to_context`, `using_context` | driver |
| Acting tools (`tools/actions.py`, `interaction.py`, `web_navigation.py`, `web_dialogs.py`, `app_management.py`) | none of their own | tap … file_upload, press_key, goto … | resolver (flags), driver |
| Request handler (`daemon/entry.py`) | `state` | dispatch, automatic refresh and single retry | all tools |
| Request loop and client (`daemon/server.py`, `client.py`) | socket, pid file | accept, answer, shutdown | CLIs |
| Session CLI (`cli/session.py`) | `session.pid`, socket, `current-session` | status, start, stop | daemon, Appium server |
| Server CLI (`cli/server.py`) | `server.json` | status, start, stop | Appium process, daemon |
| Paths and files (`utils/paths.py`) | artifact directories, latest pointers | read/write JSON | all |
| Tool registry, OpenAI integration (`tool_registry.py`, `openai_tools.py`) | prompt context mode | `call_tool` | daemon client |
| Browser agent (`agent_browser/`) | run state, history, memory, guardrails | ReAct loop, verification, session | appium-cli tools |
| Front ends and utilities (`cli/tools.py`, `devices.py`, `doctor.py`, …) | none | argument parsing, diagnosis | daemon client, adb |

### Behaviours that are hard

* **Staleness.** The screen changes under refs that were taken earlier: through tools that flag
  it, tools that do not, other contexts, the application itself, a restart.
* **Drift.** `state.current_context` is a copy of the driver's context that is refreshed by some
  calls and bypassed by others.
* **Retry.** A refused request is run a second time after a refresh; it must not act twice and
  its reply must be true.
* **Processes.** CLIs, daemons and the Appium server race on a socket, a pid file and a session
  file, and any of them can die or hang.
* **Artifacts.** A snapshot is five files and two pointers written one after the other, shared by
  every process of the workspace.
* **Lossy views.** Generators prune, collapse, truncate, borrow labels and link texts in passes
  that undo each other's assumptions.
* **Termination.** The agent loop and every request must end.

The complete list, each hazard at its line, is under `hazards` in `PROJECT.json`.

### What makes each component correct

* Resolver, snapshots, tools: a ref that resolves without a refusal describes the screen as the
  tools left it; a flag goes away only with a snapshot of its context; a request acts at most
  once, says so, and is always answered. (It may act in another context when a switch fails: section 6.)
* Session: with one command at a time, the daemon that takes requests is the one the socket, the
  pid file and the session file name; a command ends unless a driver call it waits for never does.
* Server: between commands that nothing disturbs, the server `server start` has started is the one on
  file and a stop that succeeds leaves none of ours running; in any case only a process this program
  started is signalled, short of a pid that was given away.
* Request loop: requests are handled one at a time in order, each answered at most once.
* Artifacts: a latest pointer names a complete bundle, and a search reads whole files.
* Generators: nothing an agent could use is lost without saying so, the tree keeps who lies in
  whom (but for what follows a void tag the parser does not know), a tap target is the nearest
  element that can be tapped, web refs are unique.
* Agent: it ends within its budgets, with one terminal event, and with success only after
  verification and on evidence.

## 2. Modules

| Module | Models | Checked by | Proved in |
|---|---|---|---|
| `RefLifecycle`, `RefGrant` | refs, stale flags, snapshots, context drift, the automatic refresh with its one retry, restarts; and what a client may rely on | `MCRefLifecycle*` | `RefLifecycle_proofs` |
| `SessionDaemon` | `session start`, `session stop`, the daemon part of `server stop`, daemons from driver creation to `driver.quit()` | `MCSessionDaemon*` | `SessionDaemon_proofs` |
| `AppiumServer` | `server start`, `server stop`, `server status`, `server.json`, Appium processes | `MCAppiumServer` | `AppiumServer_proofs` |
| `SnapshotBundle`, `BundleStore` | the snapshot directory, file by file, and what it promises | `MCSnapshotBundle*` | `SnapshotBundle_proofs` |
| `DocumentTree` | trees in document order, used by the generators | with those | `DocumentTree_proofs` |
| `NativeTree` | the passes of the native snapshot generator | `MCNativeTree` | `NativeTree_proofs` |
| `NativeSearch`, `ActionableTree` | what the search and the operable tree make of its result | `MCNativeTree` | `NativeTree_proofs` |
| `WebTree` | the page script, the HTML fallback and the web snapshot builder | `MCWebTree` | `WebTree_proofs` |
| `ReactLoop` | a run of the browser agent | `MCReactLoop` | `ReactLoop_proofs` |

`ActionableTree` extends `NativeSearch`, which extends `NativeTree`, which with `WebTree` extends
`DocumentTree`. `SnapshotBundle` instantiates `BundleStore` and `RefLifecycle` instantiates `RefGrant`,
the abstract specifications they implement. The other modules stand alone: what one
needs of another is an action of its own (a snapshot in `RefLifecycle` is `SnapshotBundle`'s writer
in one step, a tool in `ReactLoop` is a request of `RefLifecycle` reduced to its ok flag, and the
daemon that `server stop` ends first is `SessionDaemon`'s `server_stop`).

### RefLifecycle and RefGrant

State and code: `driverCtx` is the driver's context and `cachedCtx` is `state.current_context`;
`refMap`, `currentId`, `loaded`, `stale` are `RefResolver._ref_map`, `_current_snapshot_id`,
`_artifact_ref_maps` (its keys), `_stale_contexts`; `bundles` are the refs artifacts on disk, whose
snapshot id is an index; `latestAny` and `latestFor` are `latest.json` and
`latest-<source>-<context>.json`; `request` is the ref-based request inside
`_invoke_with_auto_refresh`. The device is `ui[c]`, a counter of the effects tools had on context
`c`, and a map remembers the value it was generated from. `since[c]`, the kinds of effect this daemon
had on `c` since the last snapshot of `c`, and `spent` are history.

The daemon handles one request at a time, so a tool without a ref is one action. A request with a
ref takes several steps (attempt, refresh, retry, answer), because what it does in one depends on
the outcome of the one before, and a restart may come between them. Every outcome of a driver call
that the code tells apart is a disjunct or an action of its own: a ref that is unknown or flagged,
an element that is not found, a tool that raises before or after it touched the device, a context
that cannot be entered or left again, a bundle that cannot be written after the refs were
registered.

`Enter` is `_ensure_context`: it may leave the driver where it is, since a context that cannot be read
and a switch that fails only lead to a log line, and the lookup goes on. `LandsIn` is where the tool
acts then: the driver's context, or the native screen for a gesture or tap that Appium does natively.
The flag goes to the context of the ref in any case, so an effect that fell elsewhere is one without a
flag, as navigation has them, and `since` records it as such.

The application's own changes are not counted in `ui`: no flag can know of them, and the resolver
meets them by comparing bounds, here the nondeterministic outcome of a lookup. Left out: the text
of snapshots, locators and bounds, the order of the files inside a bundle (SnapshotBundle), and
`--filename`.

`RefGrant` is what a client can rely on that knows nothing of all this. A snapshot shows a `page` and
opens it; as long as it is `open` its short refs may be acted on; a success closes it, any tool may
close it, and nothing but a snapshot opens one. A `job` that meets a closed page may renew it, once,
for the context it was refused in, and is answered after at most one change of the device, with the
truth about it. In which context that change falls is left open (`Act(c, d)`): the code does not see to
it that it is the one of the ref. `GrantSafety` says that RefLifecycle implements it: the page is the map in memory, it
is open while its context carries no flag, and the job is the request without its history.

### SessionDaemon

State and code: `daemon[d]` is the point a daemon process has reached in `entry.main` and
`server.serve`; `socketFile`, `pidFile`, `current` are the three files; `cli[c]` is a command line
process with its place in `start` or `stop`, the pid it has read, the daemon it has spawned and the
daemon it is talking to. Each access to a shared file is a step. A signal ends a daemon at once: it
installs no handler, so none of its own cleaning up runs. Pids are not reused in the model (that
question belongs to AppiumServer) and time is left out: a deadline may pass whenever the code looks
at the clock. `status`, device selection and the URL options change nothing that is shared.

### AppiumServer

State and code: `saved` is `server.json` (ownership, port, pid); `proc[p]` is what the operating
system has under pid `p`: a server that is `booting`, `up`, `closing` (signalled, still answering),
`ending` (port closed, pid still there) or `dead`, or an `other` program that was given the pid;
`cli[c]` is a command with its place in `start`, `stop` or `status`. A command knows nothing of a
server but whether a port answers (`Answers`, `Silent`) and whether a pid exists (`Runs`). A start
looks twice, once for its report (`AskFirst`) and once in `start_server`; `session start` calls
`start_server` alone, which is a start whose first look changed nothing.

Faults are a server that takes longer than the second it is given, a command that is interrupted, a
server that ends by itself and a pid that is given away. Servers of others start on any port at any
time. `overlap` and `mistaken` are history: a command began beside another, and a start took another
server's answer for that of its process. `Undisturbed` names the states without either, without a
slow answer and without an interrupted command; servers of others, servers that die, that do not end,
pids that are given away and starts with any port are not excluded by it. Left out: which executable is found, the environment
of the process, and the answer of a server elsewhere beyond yes or no.

### SnapshotBundle and BundleStore

State and code: `file[i][a]` is artifact `a` of snapshot `i`, `absent`, `cut` (`Path.write_text`
truncates first; also all that a writer left that died there) or `whole`; `pointer` is `latest.json`
and the `latest-<source>-<context>.json` files; `held` and `named` are, per process,
the snapshot whose refs are in memory and `_current_snapshot_id`; `task[p]` is a process inside
`refresh_snapshot` (registration, rendering of the target, the five files in the order of
`_write_snapshot_bundle`, the two pointers, `mark_current_snapshot`) or inside a reader, which
resolves "latest" again for every file it opens. Several processes share a workspace: a daemon and
those that host the tools. A write may fail and a process may die at every step.

`BundleStore` is the promise: a bundle appears whole and is never changed, a pointer names a bundle
of its context or cannot be read. `StoreSafety` says that SnapshotBundle implements it, with
`Published`, the bundles whose five files are whole, for `published`.

Left out: stale warnings, `--filename` and the resolver's own cache of artifacts (RefLifecycle), the
contents of the artifacts (the trees below), screenshots. Snapshot ids carry a millisecond and are
taken as unique. Asked by id for a bundle without an index, `web_refs` lists native refs; the model
has that step, no property speaks of it.

### NativeTree, NativeSearch, ActionableTree

One action per pass of `NativeSnapshotGenerator.generate`: `InferSemantics`, `PruneAndCollapse`
(from the page source's tree `raw` to the snapshot tree `up`), `OmitDeepest` for every
node given up under `max_nodes` and `Enforced`, `DetectContainers`, `AssignRefs`, `LinkTexts`. The
state is what the passes write on the nodes: role, parent, omission, container kind, ref,
`action_target_ref`. An element is its class group and the facts the passes ask of it: what it takes
(`taps`: clickable, long-clickable, checkable, which infer different roles: an element that takes only a
long click is kept but gets no role of its own and no ref), scrollable, named, whether it has a state
(selected, checked, disabled, focused), visible (what is left of its bounds), and the ref base derived
from its id or name. `NativeSearch` and `ActionableTree` are functions of the finished tree:
what `snapshot_search` answers for a label and a role, and what `snapshot_actionable_tree` shows.
Roles, class groups and container kinds are those whose rules differ; scopes of the text, the choice
of locators and the difference of two snapshots are left out.

### WebTree

Elements are visited one at a time, in document order: by the script in the page (`WalkPast`,
`WalkStops`, `WalkEnters`), or, when it fails, by the parser of the page source, which keeps a stack
of open tags (`StartBody`, `StartTag`, `EndTag`, ...); then by `_build_node`, which counts, omits
and gives refs (`BuildSkips`, `BuildOmits`, `Build`). Both collectors and the builder apply the
limits of number and depth in their own way, which is what the properties are about.

The source the parser reads is that of a browser: an end tag for every element that is not void. The
parser knows five void tags (`NotPushed` stands for them); another one, `hr` in the sample and `wbr`,
`area` or `source` besides, is pushed and stays on the stack (`StaysOpen`) until `EndTag` closes an
element around it, and what follows it becomes its child. `NestingKept` says what is left of nesting
then: the elements that lie in one another on the page still do, and the only additional
ancestors are such void elements, of those before the element and open around it.

Left out: roles beyond those of the sample; locator strategies beyond whether there is one
(`HasStrategy`: an id, a name, an address, or for the script a position on the screen); the place of
text among the children of its element; text and end tags of elements dropped at the limit.

### ReactLoop

State and code: `step`, `lastProgress`, `noCalls`, `blocked`, `reflection` are the locals of
`run_react_loop`; `retries`, `recent`, `observed` what `memory` keeps of the tool trace; `window` and
`warnings` the `LoopDetector`; `events` the terminal events of the episodic memory; `outcome` the
`TaskResult`. `okCalls` is history. A turn is `BeginTurn`, then an answer without a call
(`NoToolCall`) or calls (`CallBlockedTool`, `CallRefused`, `CallNotExecuted`, `CallFails`,
`CallSucceeds`) and the model's report (`BrainInvalid`, `BrainContinues`, `BrainDone`,
`BrainRejected`). What models answer and what tools return is left open; the judge is an outcome, the
structural guard is modelled. The wall clock may run out at any turn. Warnings are counted up to
three, the largest number the code compares them with. Prompts, the compaction of the history and
token counts are left out: nothing the properties speak of reads them.

## 3. Runs

| Run | Question | Result |
|---|---|---|
| `ref_safety` | two contexts, two snapshots, two effects per context, any failure, restarts | holds: `MapFreshOrFlagged`, `FlagsKept`, `RepliesTellTheTruth`, `OneActPerSnapshot`, `GrantSafety` |
| `ref_live` | is every ref-based request answered? | holds: `RequestAnswered` |
| `session_seq` | one command at a time, four daemons, three crashes, time-outs, hanging quits | holds: `ServingIsNamed`, `OneOnTheFiles`, `SessionFileIsCurrent`, `StartedIsOwn`, `NoServingDaemonKilled` |
| `session_live` | two commands that may overlap, one of them killed, two daemons, driver calls that need not return: does every command end but one that waits for a tool that never returns? | holds: `CommandEnds` |
| `server` | two commands, two ports, servers of others, one fault of any kind | holds: `OurServerOnFile`, `StopStops`, `OnlyOursSignalled` |
| `react` | any answers of models and tools | holds: `RetryBudget`, `OneTerminalEvent`, `StuckRunsEnd`, `SuccessHasEvidence`, `RunEnds` |
| `bundle` | two processes, two contexts, two snapshots, deaths and failed writes anywhere | holds: `PointersNameWholeBundles`, `SearchSeesWhole`, `FinishedIsLatest`, `StoreSafety` |
| `native_tree` | every page of four elements of fourteen kinds under every budget | holds: `NothingLostUnsaid`, `AncestryKept`, `TapTargetIsNearest`, `SearchTellsAll`, `LabelsNameTheirTarget` |
| `web_tree` | every page of four elements of ten kinds, by script and by parser, under every pair of limits | holds: `RefsUnique`, `LossIsSaid`, `WithinLimits`, `NestingKept` |
| `ref_superseded`, `session_orphan`, `bundle_target` | statements of the documentation and of comments | violated, see section 6 |

Each passing run also checks its module's `TypeOK`.

Bounds. *RefLifecycle:* `MaxSnapshots` and `MaxChanges` cap persisted snapshots and effects per
context. Two snapshots are the least with a superseded one, one of each context, and an automatic
refresh after an explicit snapshot; two effects let a context change under a map, and again under
its flag. `ref_superseded` uses three of each. One ref name is enough because a lookup only asks
whether a name is in a map. *SessionDaemon:* `Daemons` bounds how many daemons are ever spawned,
`MaxCrashes` and `MaxDeaths` the daemons that die by themselves and the commands that are killed;
four daemons with three crashes let every one leave its files to the next. Daemons are
interchangeable, so `session_seq` takes them up to permutation; the liveness run does not. That run
(`session_live`) has two commands that overlap, two daemons, and one command that is killed; its
commands are `start` and `server stop`, whose part that ends the daemon does all that `stop` does and
goes on where `stop` gives up after a failed request; daemons that crash are left to `session_seq`.
*AppiumServer:* three pids (ours, one of another, one after a crash), two ports, two commands that
may overlap, `MaxFaults = 1`; pids, ports and commands are taken up to permutation. No command can
go on once every pid is in use and a start needs one, so deadlock is not checked. *SnapshotBundle:* two writers, or a
writer and a reader, with a context each or the same one, and two snapshots, of which either can be
the one cut off. *ReactLoop:* an observing and an acting tool; the limits are the least at which
each way to end a run can come first: `MaxTurns` 5, `MaxNoProgress` 4, `MaxRetries` 2,
`MaxVerifications` 2, the window of five that the detector has. One call per response keeps the run
small; the proofs hold for any number. *Trees:* four elements are enough for a parent that is
dropped between two that stay, siblings that collide, and a limit that cuts inside a subtree;
`Budgets`, `NodeLimits` and `DepthLimits` hold values under, at and over the size of the page, 0
included where it means "no limit", and `Guard` is under the number of nodes that can be omitted.

The bounds matter little: section 4 proves every safety property of these runs for every value of
them, pages of any size included; SessionDaemon's stay with one command at a time, AppiumServer's
`OurServerOnFile` and `StopStops` with what `Undisturbed` asks for.

Fairness. `RefLifecycle`: weak fairness of `HandleRef`, the daemon's single thread on a request it
has started; driver calls are assumed to return (a call that does not blocks every later one, see
section 6). `SessionDaemon!Spec`: weak fairness of each process's own steps, and strong fairness of
`StartTimesOut`, because a start looks at the clock again and again between two pings, and time
passes. It assumes nothing of the driver: a session that is being created, a tool and a `driver.quit()`
may take for ever. `CommandEnds` therefore names the one way in which a command does not end: it waits
for the answer of a daemon that stays in a tool (`Stuck`), which the client does without a limit.
Creating and quitting a driver that never returns must keep no command waiting, because a start and a
stop have deadlines there. Connections are handled in the order of arrival, so "busy" stands for all the requests
queued before a command's own. `ReactLoop!FairSpec`: weak fairness of `Next`, that is, models and
tools answer at all; what they answer is left open. The loop does not see to it: `step_timeout_seconds`
is read nowhere and `max_wall_seconds` is looked at between turns only, so `RunEnds` says that the
loop never goes on for ever by itself, not that a call it waits for returns.

Every property of a passing run has a mutant in `PROJECT.json`: a plausible bug in one definition
under which TLC finds the property violated. The mutants stand before the definitions they change.

## 4. Proofs

Eight modules of theorems, each for every value of its module's constants and from no more than that
module's `ASSUME`s. All the safety and action properties of the passing runs are stated by a theorem;
every property named here but `RetryIsUnflagged` is also checked by a run, and every inductive invariant
was checked by TLC on that run's instance before it was proved.

### RefLifecycle_proofs

* `TypeCorrect`: `Spec => []TypeOK`, with one step per group of actions; no id in memory and no
  latest pointer names a snapshot that was never written.
* `Invariant`: `Spec => []IInv` with `IInv == TypeOK /\ Tracked /\ RequestSound`.
* `MapFreshOrFlaggedHolds`, `FlagsKeptHolds`, `RetryIsUnflaggedHolds`, `RepliesTellTheTruthHolds`
  and `OneActPerSnapshotHolds`, each from `Invariant`.
* `GrantSafetyHolds`: `Spec => GrantSafety`, the refinement of `RefGrant`.

The invariants TLC checks are not inductive. `MapFreshOrFlagged` alone does not say why a stale map
is flagged, so `MapTracked` keeps the reason, that an effect since the map was taken is on record;
`FlagsKept` says that a recorded flag is still set, for every context, because qualified refs reach
contexts the map in memory is not of. `OneActPerSnapshot` compares two moments; `SpentIsFlagged` carries the
first one forward. `RepliesTellTheTruth` is about answers; `RunningIsHarmless` says that a request
still running has had no effect, which is why running it a second time is safe, and `RetryIsUnflagged`
that the map it then meets is of its context and without a flag. For the refinement every step is
mapped to one of `RefGrant` or to a stutter: a snapshot that was registered shows a page, whether it
was persisted or not, a context switch, a query and a snapshot that could not be read stutter, and a
ref that passes the stale check acts through an open page, in whichever context the driver is by then.

### SessionDaemon_proofs

`TypeCorrect`, `ServingIsNamedHolds`, `OneOnTheFilesHolds`, `SessionFileIsCurrentHolds`,
`StartedIsOwnHolds` and `NoServingDaemonKilledHolds`, for any number of daemons and crashes, under
`OneCommand`: one command runs at a time and none is killed. Without it they are false, as section 6
tells of two starts that overlap. The invariant says which daemon may have a part in the files at
each point of a command (`MayBeOnFiles`): a start's own, or, before a stop has its answer, one that
takes requests, or, after it, the one that was told to end; elsewhere none. `FilesFollow` says what
the files hold at each point of that daemon. With both, a path that is unlinked by name, a pid that is
killed and an answer on the socket always belong to the right daemon.

### AppiumServer_proofs

`TypeCorrect`, `OurServerOnFileHolds`, `StopStopsHolds`, `OnlyOursSignalledHolds`, for any number of
pids, ports, commands and faults. The second and the third hold in states that are `Undisturbed`: one
command at a time, none interrupted, no answer later than a second, no answer of another server taken
for one's own. Each of the four is needed, since the code does not defend itself against it (section 6):
without any one of them TLC finds both properties violated. The fourth theorem excepts pids that were
given away. `PidsAreOurs` (as long as no pid was given away, every pid that the
file or a command remembers is of a process we spawned) gives the last. `OurServerOnFile` is not
inductive: a stop in progress must be about the server on file and a start in progress about the only
server of ours, and the server on file must have booted and listen to the port on file, or a start
would find the port silent and spawn a second one (`FileIsTrue`).

### SnapshotBundle_proofs

`TypeCorrect`, `PointersNameWholeBundlesHolds`, `SearchSeesWholeHolds`, `FinishedIsLatestHolds`, and
`StoreSafetyHolds`, the refinement of `BundleStore`, for any processes, contexts and number of
snapshots. The invariant follows each writer: what it has behind it is whole (`WritersAt`), the index
is whole only when all five files are (`IndexLast`), no two writers share a snapshot and only a writer
without company takes itself for alone (`WritersApart`), a snapshot not yet taken has no files
(`UntakenAbsent`). `SearchPastIndex` carries what a search saw in the index to the files it opens
next. For the refinement, filling the fifth file publishes a bundle, writing a pointer is `Point` or
`Blank`, and every other step stutters.

### ReactLoop_proofs

`TypeCorrect`, `RetryBudgetHolds`, `OneTerminalEventHolds`, `StuckRunsEndHolds`,
`SuccessHasEvidenceHolds`, for any tools, arguments, screens and limits. The counters of the loop are
tied to the history they stand for: progress to calls that succeeded (`ProgressIsSuccess`), the five
results that are kept to those of the whole run (`RecentTellsAll`), and the number of answers without
a call to the end of the detector's window (`SilenceCounted`).

### DocumentTree_proofs

Lemmas about `Above`, the ancestors of an element, for trees of any size; every theorem about the
generators rests on them. `Above` is recursive, so a recursive function that satisfies its definition
is exhibited first (`AboveExists`: the ancestors are the least set that holds the parent and is closed
under parents), and its equation follows (`AboveIs`). The induction that the rest needs, from parents
to children (`Downward`), is proved and not assumed: a set of naturals has a least element
(`LeastOfNaturals`, from the fact that strict inclusion of finite sets is well founded), so there would
be a first element to fail. From it: ancestors come earlier, are transitive and form a chain, the
parent is the nearest of them, and below an element lies the child that leads to each of its
descendants. `NearestParents`: where each element has a set of earlier ones to be around it, nested in
one another, and its parent is the nearest of them, the sets are the ancestors. `Contraction` is what the generators do to a page: some elements are kept, each under its
nearest ancestor that is kept, and then the ancestors of each are those it had that were kept.

### NativeTree_proofs

`TypeCorrect`, `NothingLostHolds`, `AncestryKeptHolds`, `TapTargetHolds`, `SearchTellsAllHolds` and
`LabelsHold` (`LabelsNameTheirTarget`), for pages of any size and any elements, budgets and guard. The
assumptions are that budgets are positive and that a ref base is a sequence, to which a number can be
appended. The inductive invariant:

* `TreeIsPart`: after every pass the snapshot tree is a part of the page, each element under its
  nearest ancestor that is left, all of them in one. Pruning, the collapsing of wrappers and of only
  children, and `OmitDeepest` are each shown to lead from one part to a part.
* `NothingLost`: until something is omitted, what can be acted on, scrolled or read is in that part;
  `OmittedIsSaid` covers what is omitted.
* `RefsAssigned` and `TargetsLinked`: who has a ref, and which ref a text was linked to, as a formula
  over the finished tree; `Untouched` and `NotYet` say what holds before those passes.

The passes are defined by recursion over the tree (`Kept`), whose solution is exhibited as above. That
a text's target is the nearest element it can be tapped through follows because the candidates are
among the ancestors, which form a chain. For the search, a label with two targets yields two distinct
refs, whichever of the index entries and text matches report them.

The proofs showed two conditions that no page of the run had met. A search that asks for a role
compares it with the role of a text that has a ref of its own, as a text in a scrollable element has:
`SearchTellsAll` promises to find texts under any role only when they have none. And a text gives its
tappable ancestor a label only when it is not too deep below it and not inside another text:
`LabelsNameTheirTarget` asks for that (`Near`). The properties were corrected, and the run was given
elements of the kinds that need it.

### WebTree_proofs

`TypeCorrect`, `RefsUniqueHolds`, `LossIsSaidHolds`, `WithinLimitsHolds`, `NestingKeptHolds`, for pages
of any size, by script and by parser, and for all limits (that of the nodes positive; ids are sequences). The
invariant says that elements are visited in document order (`Ordered`), that each collected element is
under the nearest of what is to be around it (`ParentsAreNearest`), that each element on the parser's
stack is around those above it and every element that is to be around the next one is there
(`OpenElements`), that nothing passed
is missing as long as nothing was cut (`NothingMissed`, with `WalkCollects` for the script), and that
`_build_node` has counted what it renders (`Counted`). `RefsUnique` is inductive with the types; that
`_make_unique` finds a free number among `N` is a pigeonhole argument (`FewUsed`,
`UniqueIsFree`).

What is to be around an element (`Over`) is, for the script, its semantic ancestors, and for the parser
its ancestors and the void elements left open that it follows. These sets are nested in each other like
ancestors are (`OverNests`: the elements around one of them are those of the set that come before it),
though the page has no such tree, and that is all `DocumentTree_proofs` needs to conclude that a tree
in which each parent is the nearest of the set has the sets as its ancestors (`NearestParents`);
`NestingKept` follows. For the parser, an end tag removes what has ended and nothing that is around
the next element (`EndTagOpen`), because a void element that is still to be around it lies, by
`OpenElements`, in an element of the stack that has not ended.

### Only model-checked

Liveness: `RequestAnswered`, `CommandEnds` and `RunEnds`. The provers do not handle fairness.

## 5. Plan

Done: RefLifecycle with RefGrant, SessionDaemon, AppiumServer, SnapshotBundle with BundleStore,
ReactLoop, the trees with the search and the operable tree, each with its proofs.

What would come next, in this order:

1. **DaemonRpc**: the accept loop with its backlog, clients that die before or after sending, and a
   reply lost after the action was executed, against a queue of requests executed at most once.
2. **ResolveBounds**: strategies, candidates and bounds of `resolve` as a function, against a
   reference definition over small screens.
3. **FreshSession**: the agent's session manager against SessionDaemon's promises.
4. **PromptMode**: the context mode `openai_tools` shows against the driver's context.
5. Pure operators: `web_refs` paging, form URL building, history compaction, trace formatting.

### Not modelled

The tool registry (tables of tools), `tools/container.py` and `tools/session.py` (read-only queries),
the front ends of `cli/` (argument parsing around one request), the adb and xcrun wrappers, the
agent's configuration, memory notes, skills and token estimates: they hold no state another part
depends on, or are pure input and output.

## 6. Where code and documentation differ

Three have a run whose counterexample shows them, and an entry under `findings`.

| Run | Statement | What the code does |
|---|---|---|
| `ref_superseded` | openai-tools-integration.md:836: "After a new snapshot, old refs are stale" | a superseded snapshot's ref is resolved once its artifacts were loaded, even by the refused attempt of the same request |
| `session_orphan` | session.py:373: an orphan whose quit hangs is killed | the pid is read after the daemon removed it |
| `bundle_target` | ref_resolver.py:145: the id is the one "the current in-memory refs came from" | refs are registered before the step that can fail, the id is recorded after it: `snapshot --target` on a missing target leaves new refs under the old id |

The others were met while modelling and can be seen in the models' definitions; no run is about them.

* ref_resolver.py:489 says "Switch driver to the ref's context if it differs"; a context that cannot be
  read ends the attempt in silence, a switch that fails is logged (line 498), and the strategies, with the
  recorded coordinates as the last, are tried in the old context (`RefLifecycle!Enter`, `LandsIn`).
* web_snapshot_generator.py:681 says that the parser "preserves hierarchy"; after an `hr`, or another
  void tag that line 755 does not list, the siblings that follow become its children (`WebTree!StaysOpen`).
* server.py:128 takes a server whose answer needs more than a second for stopped. A start on another port
  then spawns a second server and records that one, and `server stop` reports success with the first still
  running (`AppiumServer!Silent`, `SpawnServer`); the answer of another server to a start (line 197) makes
  it record a process that never got the port (`mistaken`).
* client.py:25 waits without a limit: a command sent to a daemon whose tool never returns does not end
  (`SessionDaemon!Stuck`).

* actions.py:30 says that without a ref "the driver's current context is invalidated"; what is
  flagged is `state.current_context`, which resolving a ref of another context leaves behind
  (`RefLifecycle!cachedCtx` against `driverCtx`).
* ref_resolver.py:170 says that `mark_stale` is called by tools that change the UI; navigation,
  application management, scripts, dialogs and orientation never call it.
* ref_resolver.py:171 says that a flagged context is refused "until a fresh snapshot"; flags are
  lost with the daemon, the latest pointers are not.
* session-lifecycle.md:54 says that actions "refresh the snapshot automatically"; they flag the
  context and take none.
* session.py:267 wants no "two daemons"; a daemon that is still creating its driver is invisible to
  a second start, which spawns another one.
* session.py:265 says that an unresponsive orphan is killed; the ping before has no time-out, so a
  daemon inside a driver call blocks the start as long as that call.
* `server start --port` asks the port in `server.json` when there is one (server.py:126), also when
  that server is gone; it then spawns a server on the port it was told, which may be in use.
* verifier.py:116 accepts a completion when a call of an observation tool is in the trace, also when
  that call failed (`ReactLoop!GuardPasses`).
* loop.py:484 overwrites the verifier's feedback with the loop detector's warning, so the model is
  not told why its completion was rejected (`ReactLoop!Reflect`).
* native_snapshot_generator.py:614: the persisted tap target of a text may be a list or another
  container with a ref that lies between the text and the element `find_text` would act on
  (`TapTargetIsNearest` allows it).
* web_snapshot_generator.py:161: an anchor with a handler but neither address nor label has no
  locator strategy and gets no ref, while SKILL.md:153 lists such elements as operable.
