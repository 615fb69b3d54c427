# TLA+ models of AndroidLibClashLite

This directory holds a verification development of AndroidLibClashLite: the
library that runs a Clash-compatible proxy core inside an Android app or a root
shell.  It exists twice, on mihomo (`go/`) and on meow (`rust/`), with the same
Java API and the same additions: automatic node switching, subscription
fetching, system DNS forwarding and a TUN bridge.  The cores themselves are
dependencies and are modelled only as far as this code uses them.

| Module | What it is |
| --- | --- |
| `AutoSwitch`, `AutoSwitchProofs` | the Rust auto-switch: checker task, service, control requests, engine stop |
| `MCAutoSwitch` | its small instances; four `.cfg` files |
| `Scan` | what a scan for a replacement promises (abstract) |
| `ScanPool`, `ScanPoolProofs`, `MCScanPool` | the Rust scan, a `JoinSet` of probes; implements `Scan` |
| `GoScan`, `GoScanProofs`, `MCGoScan` | the Go scan, a dispatcher and workers; implements `Scan` |
| `GoAutoSwitch`, `GoAutoSwitchProofs`, `MCGoAutoSwitch` | the Go checker, its engine and manual selections; three `.cfg` files |
| `Tun2socks`, `Tun2socksProofs`, `MCTun2socks` | the TUN device's tasks, UDP sessions and reply readers |
| `SystemDns` | the list of physical DNS servers, shared by the next three |
| `SessionPromise` | what the embedded library promises of its session (abstract) |
| `Session`, `SessionProofs` | Java's calls and `engine.rs`: reset, load with roll-back, TUN, DNS; implements `SessionPromise` |
| `Daemon`, `DaemonProofs` | the command line as a rooted daemon with its DNS helper and watcher |
| `Subscription`, `SubscriptionProofs` | fetches of one ID, their tokens and their cancellation |
| `MCLibrary` | small instances of the last three; two `.cfg` files |

Run `tlc -config X.cfg M` for a row of the table under "Runs", and
`tlapm M.tla` for each module whose name ends in `Proofs`.

## Inventory

For each part: the state it keeps, its operations, how it meets the others, and
what makes it correct.

**Auto-switch checker, Rust** (`rust/src/autoswitch/checker.rs`).  One task per
service.  It keeps, per group, a failure record (node, count, backoff, rounds to
skip) and the drain tasks of early-accepted scans.  Every interval it visits the
configured groups: probe the origin of a pending restore, else probe the current
node, count failures, scan for a replacement, and switch.  A switch takes the
service's `mutations` lock and the core's configuration lock and compares route
table and selection again before it sets.  *Correct if* a manual choice wins, a
switch never lands in another table than the one probed, the restore leads to
the node the user had, counting and backoff are as documented, and a failing
node with an alternative is eventually left.

**Auto-switch service, Rust** (`autoswitch/mod.rs`).  Configured settings, an
override from PATCH and the task handle (`Lifecycle`, behind a mutex), the state
GET reports and the pending restores (`State`).  `apply`, `patch`, `restart`,
`stop`; and across a reload of the engine `suspend_for_reload`, which ends the task
and hands over override and restores, and `restore_reload_state`, with which the
next session's service takes them over.  `restart` aborts the task and waits for it
while it holds `lifecycle`, and its caller holds `mutations`, which the task may be
waiting for.  *Correct if* what is reported is what runs (but for the windows at the
two ends of a session, below), no request hangs, and restores survive exactly as
documented.

**Control API, Rust** (`control.rs`).  A layer over meow's router: it takes
`mutations` for requests that change groups, routes or settings, runs the inner
handler, and applies the new settings after `PUT /configs`.  Also saving the
configuration, session tokens, statistics.

**Engine session, Rust** (`engine.rs`, `lib.rs`, `jni_api.rs`, `Libclash.java`).
The one global session (tunnel, API, listeners, auto-switch, runtime); `start`,
`reload` with rollback, `stop`.  Java's `LIFECYCLE` lock serialises the callers.
*Correct if* a load that fails has brought back what it found, with every change
made before it began, or leaves nothing because that failed as well; retained TUN and
DNS are those of the last notification; and an override outlives loads.

**Auto-switch, Go** (`go/native/autoswitch`).  The same feature as one engine
with a `lifecycle` mutex and one goroutine; a scan adds a dispatcher and
workers.  It has no `mutations` lock: `Now()` and `Set()` of the selector are two
calls.

**TUN to SOCKS, Rust** (`tun2socks.rs`).  A reader, a task that drives lwIP, a writer
and a task per flow over one file descriptor; two global flags and a notification to
stop them; and, outside of these, the engine's NAT table with one detached reply
reader per session.  `start`, `stop`, `retain_for_reload`.  *Correct if* a stop is
never lost, the descriptor and lwIP's global state outlive whoever uses them, and a
session that was replaced does not leave its successor without replies.

**System DNS** (`systemdns.rs`, `SystemDnsHelper.java`; in Go `native/systemdns`).  A
helper process publishes the DNS servers of the physical network; it writes the
latest snapshot to a socket pair whenever it can; a thread of the daemon reads,
compares and sets the process-wide list, and ends the daemon if the helper fails.
*Correct if* the network's last list comes into effect, a requested stop is no
failure, a failure stops the daemon, and nothing is left running or set.

**Subscriptions** (`Subscription.java` with `compat.rs`; in Go `fetch.go`).
Two tables keyed by the caller's ID: Java's tasks and the native cancellation
tokens.  `fetch`, `cancel`, `run` on a worker, `finish`.  *Correct if* a callback
completes once and last, a cancelled task ends and writes nothing after `cancel`
has returned, and tables and tasks stay in step.

**Profiles and overrides** (`profile.rs`, `compatibility.rs`, `go/native/config`):
sequential rewriting of YAML.  **Proxies, providers, connectivity**
(`go/native/tunnel`): thin calls into mihomo, with `PatchSelector` as the manual
selection.  **Listeners, platform, logging, CLI, Go bindings, build scripts,
patches, Android tools**: no concurrent state of their own worth a model.

`Libclash`'s queries, the log level and statistics have no state that another
part waits for.

They interact by calls (Java to JNI or gomobile to engine), through the shared
session, the selectors and the route table (the user, providers and the checker
all change a selection), and by callbacks (fetch completion, DNS notifications).

What is hard about them, and where (each hazard is in `PROJECT.json` with its
line): processes that act between an `.await`'s two sides; aborts at await
points; two locks with a join under both; selections compared by value; probes
that outlive their scan; panicking probes; channel hand-over against
cancellation; requests that are dropped with their client; rollback of a failed
reload; in-place writes.

## What `AutoSwitch` models, and how it corresponds to the code

| State | Code |
| --- | --- |
| `gen`, `members`, `selected` | the tunnel's route table (identity by `Arc::ptr_eq`), live members and current node of each selector |
| `weather` | which nodes answer probes; `"flaky"` ones may do either |
| `configured`, `override` | `Lifecycle` in `mod.rs` |
| `settings`, `phase`, `restores` | `State` in `mod.rs` |
| `saved` | `reload_state`, the override and restores a start is given, until taken over |
| `mutations`, `lifecycle` | holders of the two tokio mutexes |
| `pc`, `cancelled`, `todo`, `group`, `kind`, `from`, `to`, `seen`, `candidates` | the checker task: where it waits and its locals |
| `generation`, `failures` | fields of `Checker` |
| `request` | stages of control requests |
| `engine` | stages of the session: start, up, suspended by a reload, stopped, its runtime dropped |
| `hist`, `streak` | history variables, read by no guard |

The grain of an action is the code between two `.await` points.  At an await point
(`AwaitPoints`) the task may be aborted (`Die`) and others act; inside the code
between two (`RunPoints`) it cannot be aborted, but requests on other worker
threads still act.  So `select()` is `Lock` (the service's mutex), `Compare` (the
core's configuration lock, then table and selection compared), `Set`, and
`Return`, and a provider refresh, which takes no lock, may come between `Compare`
and `Set`.  A request begins (`Begin`) by taking `mutations`; a selection, a
rebuild of routes, `PUT /configs` and PATCH then run to completion with the
service's `restart` in two steps, `Abort` (with `lifecycle` held) and `Restart`
(after the task has ended).

The engine takes no `mutations`.  A behaviour is the life of one session, that is of
one `Service`.  Requests are served from its beginning, before anything is
configured (`engine.rs:250` to `:272`): `SeedOverride` and `SeedRestores` are
`restore_reload_state()`, `ApplyFirst` and `AppliedFirst` the first `apply()`, each with
requests in between.  `SuspendBegin` and `SuspendEnd` are `suspend_for_reload()`,
`StopBegin` and `StopEnd` the service's `stop()`, and `DropRuntime` ends every task that
lingers.  A reload is the end of one behaviour and the beginning of the next: a session
begins with anything in `Saved`, and what a suspended one hands over is in `Saved`
(`ReloadCarriesWhole`), so what is proved of one session holds along any chain of
reloads.  `Session`, below, has the chain itself for the override.

Two windows are part of this and of no promise.  From `suspend_for_reload()`
(`engine.rs:320`) to the stop (`:334`) GET reports the phase and settings of a task that
has ended; a PATCH there is answered with success, starts a new checker and is then
lost, since the override was copied before.  And a PATCH that a new session serves
before `restore_reload_state()` (`:275`) is overwritten by the saved override, or by
none.  `ServiceConsistent` says what holds in these windows and names what does not.

`check_restore` reads the pending restore and, at its end, writes its copy back or
removes it.  The copy is not a variable: it is what is in the map, since only the task
and `restart()`, which has joined it, write there, with the one exception of
`SeedRestores` under a checker that an early PATCH started (`Checked`).

Abstracted: delays, event and progress texts, group statuses, the order in which a
round visits groups (any order), and the inside of a scan: any healthy member of
the best tier.  That last abstraction is what `Scan` and its two implementations
are about.  Modelled from use, not translated (external): meow's selector,
handlers that rebuild routes, and provider refreshes.

## The scan: `Scan`, `ScanPool`, `GoScan`

`Scan` is what the documentation promises of a scan: preferred members first;
the lowest delay of the first tier with a healthy member; with `expected-delay`,
the first member to answer strictly below it; nobody only when every member was
probed.  It knows candidates that answered (`healthy`, `failed`, `lost`) and the
outcome.  A probe is `lost` when its task panicked; a tier may be given up early
once as many probes were lost as run at once, which is what the Rust loop does.

`ScanPool` translates `replacement`, `test_all` and `spawn_probe`: `jobs` is the
`JoinSet`, `ready` the ended probes not joined yet, `queue` the rest of the tier,
`background` the probes left over by early acceptances.  `Join` is one turn of the
loop, `Accept` the early return, `EndTier` the end of the loop, `AbortTask` the
abort of the checker, which drops both sets.  `NextScan` is the next group of the
round; while probes drain it has the same settings, since new settings come with a
new checker.

`GoScan` translates `findReplacement` and `testAll`: `Dispatch` is the rendezvous
on the unbuffered channel, `CloseJobs` the end of the dispatch loop, `Look` a
worker's test of `accepted` and the context before it probes, `Report` the section
under the mutex after the probe, `Return` the final select.  Workers have no
identity; `idle` counts those waiting.  Looking and starting the probe are one
step, since the acceptance a worker has just missed changes nothing it does.

Both are shown to implement the same abstract module: `ScanSpec` is a PROPERTY
of both runs, with the abstract variables kept by the detailed modules
themselves.

## The Go checker: `GoAutoSwitch`

The same feature under other rules, so a module of its own.  `pc`, `todo`, `group`
and `change` are the checker goroutine and the locals of `checkRestore` and
`checkGroup`; `running` its copy of the settings; `cancelled` its context;
`configured`, `override`, `active`, `phase`, `restores` and `lifecycle` are fields of
`engine`; `selected` and `members` are the selector objects of each proxy table,
`cache` the stored selections.  `call` says where each caller of the library is.

A checker is not aborted: `Begin` cancels its context and holds `lifecycle`,
`Restart` goes on once `pc = "dead"`.  In between the checker ends what it does, and
may still switch, since it last looks at the context before the switch.  `Compare`
is `selector.Now()` and `Set` is `selector.Set()`; `PatchSelector`, `SetSelector` and
`StoreSelected` are the steps of a manual selection, which shares no lock with them.
A reload is `Install` (the executor's new table, external) and later `Apply`: between
the two the old checker works on selectors nobody routes through.  Those objects
stay in the model (`change.table`, `call[c].table`), so what is set on them and
what is then stored or remembered can be told apart from the table in use.
`FairSpec` adds weak fairness of the checker (goroutines are scheduled, probes time
out) and strong fairness of each call that has begun: `sync.Mutex` hands over to
whoever waited long enough.

Abstracted: the scan (any other leaf or none; `GoScan` has it), delays, events, the
order of a round, and members that change inside one table.

## The TUN device: `Tun2socks`

`active`, `stopping`, `fd`, `task` are the statics of `tun2socks.rs`; `call` is the one
caller of `start` or `stop` (the JNI layer holds `OPERATION`), `run` how often the
device was opened.  `core` is `run_tun2socks()`: set up, then its joins in their
order, reader, flows, stack, flows again, writer, lwIP's core.  `reader`, `woken` and `ingress` are
the reader task, whether `notify_waiters()` reached its `Notified`, and the channel
to the stack; `lwip` and `writer` are the two other tasks, `flow` and `sess` the tasks
of `track_flow_task()`, `drained` what `abort_flow_tasks()` took.  `nat` is the engine's
session of the one UDP key, `served` each run's `ReplyReaders` map and `reply` the
detached readers, which no join waits for.

`Stop` and `Start` both do `RequestStop`; `Joined` is the end of `stop()`, on the way
into an open, out of a failed one, or back.  `CoreJoined` is the wait for `core_done`
(`tun2socks.rs:374`), which lwIP, external, raises when the stack and every stream it
accepted are dropped (`CoreDone`): the joins before it have seen to both.  A reader that has started holds its
`Notified` before it looks at the flag (`ReaderStarts`, `ReaderLooks`), so a stop is
seen in either order; while it drains the device it does not look (`ReaderReads`), and
it may block on a full channel (`ReaderSends`).  An abort takes effect at an await
point only: not on a flow between `nat_table.get()` and the spawn of a reply reader
(`UdpLooks`, `UdpServed`).  A reply reader ends in two steps, each a compare and remove
under its own lock (`ReplyEvicts`, `ReplyForgets`), beside new packets of the key.

## The session: `SessionPromise`, `Session`

`SessionPromise` is what `rust/README.md` and the comments of `engine.rs` and
`NativeBridge.java` promise: at most one session, protected sockets, TUN only with a
session.  What a session runs is a profile, whether the control API has changed the
configuration since, and whether it overrides the auto-switch settings.  A load is not
atomic there.  It begins and takes note of what runs (`load.found`); it returns
(`LoadReturns`) with the profile asked for, TUN and DNS kept, the override kept; or it
throws, and then everything it found runs as before, TUN and DNS included
(`LoadThrows`).  Only where bringing that back failed too, or where nothing ran before,
may nothing be left, and then nothing half-way (`LoadBreaks`).  While a load is under
way nothing else may stop the session (`Stop`).

`Session` has two locks.  `lifecycle` is Java's monitor; `stopTun()` and
`notifyDnsChanged()` do not take it.  `loading` is the native `OPERATION`, held by
whoever is inside `reload()`; every other native call is one step and waits for it
(`Calls`).  `at` says where each Java thread is.  A load is `Load` (Java's `prepare`),
`Copies` (configuration and configured settings are copied), `Suspends` (descriptor and
DNS kept, the checker suspended, its override kept), `Halts` (`stop()`), `Launches` and
`Reopens`, with `LaunchFails` at each of the two, first into the roll-back and then out
of it.  `Edit` is the control API, which takes neither lock and changes configuration or
override between any two of those steps.  `physical`, `list`, `callback` and `mode` are
Java's own view.

`KeepsPromise` is the refinement: the mapping `Shown` shows what `reload()` found from
its stop until it returns, `LoadShown` the load itself: what is asked for, what was
found, and whether it is already bringing that back.  What the engine really is between
the two is not shown; `Sound`, proved beside it in `SessionIsSafe`, says that it is safe
there too.

What the promise allows on purpose, because the code does it: what the control API
changes after a load began (`engine.rs:297` to `:315`) may be lost, whether the load
returns or rolls back, although it was acknowledged; and when even the roll-back fails
the physical DNS list goes with the session, so that the next load starts without one
although Java still knows it (`stop()` clears it, only `reset()` passes it again).  Also,
`reset()` reads `physicalDns` under `LIFECYCLE` and `notifyDnsChanged()` writes it without
(`Libclash.java:187`, `:287`): the native list may be the older one until the
network changes again.  Nothing in the repository promises more, so no property
says so.

## The daemon and its DNS: `Daemon`

`main` is `run()` of `cli.rs`, from the signal handlers to the exit status; `signal` a
delivered SIGINT or SIGTERM, which kills before the handlers are there.  `helper`,
`snapshot`, `fresh` and `carried` are `SystemDnsHelper`: the handler thread publishes,
`serve()` takes the latest snapshot (`fresh` is `sent` against `generation`) and
writes it.  `channel` is the socket pair, `worker` the watcher's thread, `failed`,
`stopping` and `effective` what it shares with `run()`; `cause` is a history variable.
A failing thread clears the list, sets `failed`, and signals its own process
(`Clears`, `Flags`, `Kills`); a stop is stored before the socket is shut down
(`Stores`, `Shuts`).  A frame may be one that `snapshot()` rejects: the Java filter lets
a broadcast address or an unknown zone through, and the daemon then ends with
status 70.

Three errors of `Watcher::start()` come after the helper was spawned and do not reap
it: the duplicate of the socket (`systemdns.rs:209`) and its timeout, set (`:210`) and
lifted (`:221`), the last with the first list in effect; `cli.rs:65` then returns
without `engine::stop()` (`Quits`, `main = "quit"`).  The socket is closed on the way, so
the helper reads the end of its input, and no thread is there yet; the list goes with the
process.  `NothingLeft` names these exits and says what holds there.

## Fetches: `Subscription`

`task` and `token` are the two tables at one ID, `fired` the tokens that were sent
`true`.  `caller` is `fetch()`, `canceller` the `cancel()` of each task, `work` its `run()`,
which obtains the profile, perhaps a provider, and a child's verdict in turn
(`stage`).  `monitor` is the monitor of a task; `finish()` is three steps inside it
(`Removes`, `Ends`, `Completes`), whoever runs it.  `resource` is the stream or child a
worker waits for, which `cancel()` closes if it is there, `heard` the token its
request subscribed to.  `AppOpens` is the app's `openContent()`, which may never return;
`Assigns` is the stream or child appearing where `cancel()` can see it, `Waits` the
`check()` right after.  `Scratches`, `Starts` and `Deleted` follow the scratch file that
`validate()` writes for the child.  Lookups and registrations are not atomic with each other:
a fetch registers its task and then its token, `cancel()` looks a task up and enters
it later, and `endFetch` removes the ID's token whoever put it there.

Four consequences are visible in the model and break no promise.  Between `Removes` and
`Ends` a fetch of the ID is refused as a duplicate although its task is gone
(`Subscription.java:105`).  And an `endFetch` that comes late can remove a newer
task's token; a request of that task that is under way fails then, a later one at
once.  A worker that has passed the check before `validate()` (`:163`) creates and writes
its scratch file in the profile's directory (`:283` to `:285`) outside the monitor, so
possibly after `cancel()` has returned; it deletes it again.  And while `openContent()`
blocks (`:205`) there is no stream yet that `cancel()` could close: the task ends when the
app returns.

## Runs

| Run | Config | Expected | Question |
| --- | --- | --- | --- |
| `safety` | `MCAutoSwitch_safety` | pass | do chains of switches lead home, do manual choices win, are stale tables left alone? |
| `pacing` | `MCAutoSwitch_pacing` | pass | from a session's start to its end: exclusion, service state, which restores are allowed, threshold and backoff, waiting in a circle |
| `recovery` | `MCAutoSwitch_recovery` | pass | requests end, failing nodes are left, origins come back |
| `survives` | `MCAutoSwitch_survives` | violation | do pending restores survive reloads? |
| `scan` | `MCScanPool` | pass | the Rust scan implements `Scan`, stays full, ends |
| `goscan` | `MCGoScan` | pass | the Go scan implements `Scan`, hands over once, ends |
| `goswitch` | `MCGoAutoSwitch` | pass | is the service consistent, do restarts end, are restores allowed and complete under reloads and patches? |
| `goraces` | `MCGoAutoSwitch_races` | pass | do chains of switches lead home with two calls in flight? |
| `gomanual` | `MCGoAutoSwitch_manual` | violation | does a manual selection always win in the Go core? |
| `tun` | `MCTun2socks` | pass | is every stop heard, does the descriptor go last, do entries of the reader map have readers, do stops end? |
| `library` | `MCLibrary` | pass | does the session keep its promise, does the daemon follow and end, do fetches complete once? |
| `token` | `MCLibrary_token` | violation | does a task own its cancellation token? |

Bounds and why they are enough:

* One group in `AutoSwitch`: groups share only the service's locks and the order of
  a round; the interplay of two groups in one round is that of `todo`, which the
  proofs cover for any set of groups.
* Three interchangeable servers in `safety`: a chain of switches a, b, c is the
  shortest that can lose its first origin.  `pacing` adds DIRECT, a member that is
  no leaf, and a table without the selector.
* One client in flight: mutating requests exclude each other by `mutations`, and
  two of them can only queue.  The exclusion itself (`LockInv`) is proved for any
  number.
* `MaxGen` 2: one new route table may appear under a running check.
* `WithStart` is true in `pacing`: its behaviours begin with a service that nobody has
  configured (`Unset`) and with every state a reload may have saved, and go on to the
  suspension and the stop.  There a constraint, `StartIsShort`, bounds what a checker
  that a PATCH started before the first `apply()` does: no table is installed and no scan
  of it finds nothing, and its count is gone with it.  The other runs begin with sessions
  whose start has gone through (`Started`), those a reload has seeded included.
* `RestoreSuccesses` is 3 in the code and in `survives`; `recovery` takes 2, below and at
  the threshold, `safety` and `pacing` 1: what they check is proved for every number, and
  there a restore need only come between two switches.  `BackoffCap` is 8 in the code and
  4 in `pacing`, so that the doubling from zero, the next one and the cap occur
  (`PausesDouble` is for every cap), 2 in `survives`, and 1 elsewhere, so that a scan is
  put off and still comes.
* Scans: three candidates with one or two probes at a time leave members queued in
  every tier; with one worker two members are queued behind an acceptance, the
  shortest case in which the Go dispatcher could block for good.  Delays 1 and 2
  with `expected-delay` 2 are strictly below it and exactly at it; 0 tests all.  Two
  scans in sequence let the first one's late probes meet the second.

* `GoAutoSwitch`: two tables, the one in use and the older one a call or a check
  may still hold; a third would only be another older one.  `goswitch` has one
  caller, reloads that lose a node or the selector, a nested group, a threshold of
  two and two successes before a restore; `goraces` two callers, so that a selection can be caught
  between the steps of a reload, and three nodes for chains, with one success and
  one failure being enough.

* `Tun2socks`: the device is opened twice, so that what the first run leaves meets
  the second; two flows race for one NAT key, and a second NAT session replaces the
  first under it; a channel of one packet is full as soon as the stack lags.
* `MCLibrary`: two Java threads are one inside a load and one that waits for the
  monitor or is on the calls without it; two profiles and two lists tell a kept from a
  replaced one; a socket pair of one frame is full after one; two fetches of one ID
  are the shortest in which one's token meets the other's task.

The three parts of `MCLibrary` share no variable.  The daemon holds the operation
lock for good, so no session of the first kind is beside it, and fetches run outside
that lock; the composition therefore lets one of them run per behaviour
(`part`) rather than multiply their states.

`recovery` and `pacing` fingerprint states without the histories their properties do not
name (`Mechanism`, `MechanismAndStreaks`): no guard reads `hist` or `streak`, and no other
variable's next value does, so states that differ in them only have the same futures.
Symmetry is used in `safety` and `goraces` only, which have no liveness property;
nodes and clients are interchangeable there because weathers, profiles and member
sets are invariant under permutation.  Only `library` turns the deadlock check off: a daemon exits, and fetches of an ID
are over when all of them are.  Elsewhere a stopped engine and the end of the last
scan are explicit idle steps (`Ended`, `Rest`).

What the passing properties say:

* `LockInv`, `RestoresAllowed`: who holds the lock; that a switched-off feature leaves
  nothing pending, whatever a session took over.
* `ServiceConsistent`: while nobody restarts, suspends or stops, GET reports what runs:
  a checker exactly if the settings ask for one, its phase, the override's settings; but
  for the two windows described above, for which it says what remains.
* `NoWaitCycle`: a request that holds both locks joins a task that may wait for one of
  them, and the engine's first `apply()`, suspension and stop wait for one lock and the task;
  nobody waits for himself.
* `OriginIsHome`, `SwitchesRemembered`: over any chain of switches, restores,
  reloads and aborts the pending restore is for the node the group held before the
  first automatic switch, unless an abort cut a change short (`hist.lost`, which
  is what `survives` then shows to happen).
* `ManualWins`, `NoStaleTable`: action properties of the compare-and-set.
* `ThresholdHeld`, `ScanPacing`: no scan before the threshold on this very node;
  pauses between empty scans of a failing node are exactly 1, 2, 4, ... failing rounds up
  to the cap, until
  a probe of it succeeds or a restore moves the group.
* `RequestsFinish`, `FailedReplaced`, `OriginRestored`: liveness.
* `ScanSpec`, `ScanEnds`: a scan does what `Scan` says, and ends.
* `PoolFull`: as long as members are queued the Rust pool runs exactly `concurrency`
  probes less those that panicked.
* `HandedOverOnce`, `QueuedNeverProbed`: the Go hand-over drops and repeats nothing,
  keeps its workers, and starts no probe after an acceptance.
* `GoRestoresAllowed`: what is pending is wanted by the settings in force.
* `GoOriginIsHome`, `SwitchIsUndone`: the two directions of "`restores` outlives
  checker restarts".  While nobody but the checker moved a group, the pending
  restore is for the node its first switch left; and such a move has its pending
  restore, for exactly the current selection.  `hist.touched` excuses a restore when
  someone else moved the group while it was pending or being made; `hist.lost` says that
  a change which ended on a table no longer in use took it or wrote over it, which the
  code does (below).
* `GoServiceConsistent`: outside of a restart the settings in force, the checker and the
  phase agree.
* `CallsReturn`: whatever the checker is doing, the restart that waits for it ends.
* `ClosedLast`: reader, flows, stack and writer are gone before the descriptor closes
  or another device may open over lwIP's global state.
* `ServedHasReader`: a session in a run's reader map has its reader, however readers end
  while the key's session is replaced; `dispatch_udp()` relies on it.  It says nothing of
  the NAT table, where an abort between the insert and the spawn may leave a session
  without one.
* `NoLostStop`: a stop that was requested is known to the reader, or will be when it
  looks; `notify_waiters()` wakes nobody who is not there yet.
* `StopEnds`: stops end; the joins, that of lwIP's core included, do not wait on each
  other.
* `KeepsPromise`, `JavaAgrees`, `MarkedWhileTun`: a load that fails brings back what it
  found, an override outlives loads, and whatever runs beside a load finds the session
  safe; the mode Java reports; no TUN whose own sockets it would carry.
* `NoChangeLost`: when nothing is on its way from the helper to the watcher, the list in
  effect is the last one published, although each of the two skips what it takes for old.
* `DnsFollows`, `FailureEnds`, `OrderlyIsClean`, `NothingLeft`: the network's last list
  comes into effect; a failed helper ends the daemon even if it fails before `run()`
  waits; a requested stop is clean; no list, helper or thread is left, but for the three
  exits named above.
* `CompletionIsLast`, `NoWriteAfterCancel`, `CancelEnds`: a callback completes once, when
  its worker has let go of everything, the scratch file included; after `cancel()` the
  task writes neither a provider's file nor the profile; and a cancelled task ends although
  no stream or child answers, unless the app keeps it inside `openContent()` for ever.

## Findings

* **A reload can lose a pending restore** (`survives`).  `check_restore` takes the
  restore out of the shared state and then waits for `mutations` (`checker.rs:278`,
  `:319`).  A `PUT /configs` that holds the lock aborts the checker there.
  `rust/README.md:257`: "Reloads preserve pending restores".
* **In the Go core a manual selection can lose** (`gomanual`).  `selector.Now()` and
  `selector.Set()` are two calls (`autoswitch.go:453`, `:522`), and `PatchSelector`
  takes no lock.  `autoswitch.go:452`: "Compare and set: a manual selection made
  during the scan always wins."  The Rust core has the lock (`ManualWins`, proved).
* **A cancelled fetch can leave its token for ever** (`token`).  A `cancel()` between
  the registration of the task and that of its token finishes the task, finds no
  token to remove, and nobody removes the one that follows; every later fetch of the
  ID fails as a duplicate.  `Subscription.java:21`: "A task owns its HTTP cancellation
  token, content descriptor and validation child."  The same mix-up is why `CancelReaches`
  speaks of streams and children only: a request that subscribes late may hear another
  task's token, and then ends with its 60 seconds and not with the cancel.

Some more divergences are stated in the modules; they have no run of their own.  To see the trace, put the definition into the config named here.

* **A change away and back does not abandon a restore** (`OtherChangeAbandons`, with
  `MCAutoSwitch_survives.cfg` as the base).  `checker.rs:254` compares values at its own
  checks.  `go/README.md:205`: "Any other selection change abandons the restore."
* **More than `concurrency` probes at once** (`AtMostConcurrency`, `MCScanPool.cfg`).
  After an early acceptance the next group's scan starts its own pool while the
  probes in flight drain (`checker.rs:427`).  `go/README.md:181`: "1-32 candidate tests
  at once".
* **Two reply readers for one UDP session** (`OneReader`, `MCTun2socks.cfg`).  `stop()`
  says that it joins every reader (`tun2socks.rs:154`), but reply readers are detached,
  and their map is new with every run (`:192`) while the NAT session lives in the
  engine: after a stop and a start the session's next packet spawns a second reader,
  and the two share its replies.  It takes no restart: a flow that stalls between
  `nat_table.get()` and the lock of the map puts its old session over a newer one's entry,
  the old session's reader takes that entry with it, and the next packet of the newer
  session spawns a second reader.

* **In the Go core a change on a stale table can forget a restore** (`hist.lost` in
  `GoAutoSwitch`; drop the `lost` conjunct of `SwitchIsUndone`, `MCGoAutoSwitch.cfg`).  A
  reload installs new proxies between the checker's lookup of the selector
  (`autoswitch.go:494`) and the third success: the pending restore is deleted (`:520`) and
  the old selector set, while the group in use stays on the replacement.
  `go/README.md:205-206`: "Pending restores survive hot reloads while `restore` stays
  enabled".
* **A change by the control API during a reload can be lost** (the actions `Copies`,
  `Suspends` and `Halts` of `Session`; above).  No text in the repository promises otherwise.
* **A panicking probe takes a worker with it** (`PoolFull`).  The Rust loop skips a task that
  panicked without starting the next member (`checker.rs:409`), so after `concurrency` panics
  the rest of a tier is not probed.  `PoolFull` has the lost workers in its formula.

## Fairness

`AutoSwitch!FairSpec` has weak fairness of the checker's step, of each request that
has begun, and of what the engine has begun (`EngineStep`: a start, a suspension, a stop).  The code justifies it: tokio polls every
ready task, probes and sleeps end within a timeout or an interval, and tokio's
mutexes are fair queues.  No fairness is assumed of requests beginning, of the
environment, or of the engine suspending or stopping the session.  The liveness properties are about a calm
system (no request in flight from some point on), because a client that never
stops sending reloads may restart the count for ever.  `ScanPool` and `GoScan` have
weak fairness of the scan as a whole: probes end within their timeout, and every
goroutine or task is scheduled.  Nothing is assumed of late probes, aborts or the
start of another scan.

`Tun2socks!FairSpec` has weak fairness of every task that can run, and strong
fairness of two of the reader's steps.  `tokio::select!` polls its branches in random
order, so a stop that stays pending beside a device that is readable again and again
is taken at last (`ReaderWoken`).  And the device is drained again and again
(`ReaderDrained`): that is an assumption about the apps that use it, not about the
code, since the inner loop looks at no stop request (`tun2socks.rs:340`); under packets
without end `stop()` waits without end.  None is assumed of flows, which are aborted,
of failures, or of the reply readers' own ends.

`DaemonFairness` has weak fairness of `run()`, of the watcher's thread, and of the
helper's two threads, not of its death, of signals or of the network.  `FetchFairness`
has weak fairness of callers, cancellers and workers, and of the answer to a request,
which `http` bounds by 60 seconds; none of `openContent()`, of streams or of children,
so `CancelEnds` carries the proviso that the worker is not for ever inside `openContent()`.

## Proofs

Each module of proofs assumes only the named assumptions on the constants
(`ConstantsOK`, `TunAssumption` and the like), and proves for any sets and bounds:

| Module | Theorem | Property |
| --- | --- | --- |
| `AutoSwitchProofs` | `TypeCorrect` | `TypeOK` |
| | `LockCorrect` | `LockInv` |
| | `ManualChoiceWins` | `ManualWins` |
| | `TableIsTheOneProbed` | `NoStaleTable` |
| | `RestoresStayAllowed` | `RestoresAllowed` |
| | `ServiceIsConsistent` | `ServiceConsistent` |
| | `ReloadCarriesWhole` | what a suspended session hands over is in `Saved` |
| | `RestoresLeadHome` | `OriginIsHome` |
| | `SwitchesStayRemembered` | `SwitchesRemembered` |
| | `NoEarlyScan` | `ThresholdHeld` |
| | `PausesDouble` | `ScanPacing` |
| | `NobodyWaitsForHimself` | `NoWaitCycle` |
| | `AskedHolds` | who joins the checker has aborted it |
| | `AbortIsQuick` | an aborted task only gets nearer its end |
| `GoAutoSwitchProofs` | `GoTyped` | `GoTypeOK` |
| | `GoRestoresKept` | `GoRestoresAllowed` |
| | `GoOriginStays` | `GoOriginIsHome` |
| | `GoSwitchIsUndone` | `SwitchIsUndone` |
| | `GoServiceIsConsistent` | `GoServiceConsistent` |
| | `GoRestartIsHeard` | `RestartHeard`: who joins the checker has cancelled it |
| | `GoCancelIsQuick` | a cancelled checker ends within four steps |
| `GoScanProofs` | `HandsOverOnce` | `HandedOverOnce` |
| | `AcceptanceIsFinal` | `QueuedNeverProbed` |
| | `GoScanImplementsScan` | `ScanSpec`, the refinement |
| | `ScanCanGoOn` | the hand-over never blocks |
| | `ScanWearsDown` | each step of a scan lessens what it has to do |
| `ScanPoolProofs` | `PoolTyped` | `PoolTypeOK` |
| | `PoolStaysFull` | `PoolFull` |
| | `PoolImplementsScan` | `ScanSpec`, the refinement |
| | `PoolWearsDown` | each step of a scan lessens what it has to do |
| `Tun2socksProofs` | `TunTyped` | `TunTypeOK` |
| | `DescriptorGoesLast` | `ClosedLast` |
| | `EntriesHaveReaders` | `ServedHasReader` |
| | `StopIsHeard` | `NoLostStop` |
| `SessionProofs` | `JavaIsRight` | `JavaAgrees` |
| | `TunIsMarked` | `MarkedWhileTun` |
| | `SessionKeepsPromise` | `KeepsPromise`, the refinement |
| | `SessionIsSafe` | the engine's own state is `Sound` at every step, and what is shown of it `Safe` |
| | `LocksMoveOn` | no lock is left held, and its holder waits for nobody |
| `DaemonProofs` | `OrderlyStop` | `OrderlyIsClean` |
| | `LeavesNothing` | `NothingLeft` |
| | `ChangesArrive` | `NoChangeLost` |
| | `FailureIsReported` | `FailureReported`: the safety half of `FailureEnds` |
| `SubscriptionProofs` | `CompletesLast` | `CompletionIsLast` |
| | `CancelIsFinal` | `NoWriteAfterCancel` |
| | `CancelIsNotMissed` | `CancelReaches`: the safety half of `CancelEnds` |

**The auto-switch.**  `TypeOK` contains the one arithmetic fact, that the success counter stays below
`RestoreSuccesses`, so it is proved action by action.  `Compared` is the heart of
the compare-and-set: between the comparison and the change (`pc = "set"`) the table
is the one read, and a fresh manual choice equals the node being left.  It is
inductive because `LockInv` keeps every request out of that window, though not
provider refreshes, which move a selection but are no manual choice.
`RestoresAllowed` is not inductive: a round of the checker carries its group, its
candidates and its targets through many steps while settings could change.
`RestoreInv` adds that while a checker is alive the settings are those that started
it (they change only when it has ended), and that whatever it carries is a leaf and
differs from the node it leaves.  `LifecycleInv` ties stages of requests, those of the
engine, the `lifecycle` lock, the abort flag and the phase together; `CarryInv` says what
the settings and the override of a session are before its first `apply()` has returned
and after, from which with `RestoreInv` `ReloadCarriesWhole` follows.  `HistoryInv` is what
`OriginIsHome` and `SwitchesRemembered` rest on: a group with which nobody interfered
is home, or stands where its pending restore says, and that restore leads home
(`Follows`).  It speaks of no state between the seeding and the end of the first `apply()`,
which settles what was taken over (`Begun`).  Two windows are exempt, between a restore leaving the map and being made
and between a switch being made and being remembered; for them the invariant says
what the selection is and where `remember_origin` will lead, so that every way out of
a window, an abort too, ends in `Follows` or in a loss that the history records.
`CountInv` bounds the checker's count by the failures in a row of the node it names,
which survives a change of the threshold because a task leaves no count behind.
`PauseInv` keeps the checker's record of a failing node in step with the rounds that were
really counted: what is left to skip and what has passed make the pause, and the pause
is what the last one demands.  It needs no facts about powers, since the pause before
is part of the history.  Nothing can be said across a restore, where the code forgets
the record of the group it moves.  `NoWaitCycle` needs `Asked`, that whoever
joins the checker has aborted it: then a checker that waits for `mutations` is dropped
there, the one edge that would close the circle.  `AbortIsQuick` gives `RequestsFinish`
its measure: the groups left in the round, then the steps to the next await point.

**The Go auto-switch.**  No lock keeps a manual selection or a reload out of a switch,
so `HInv` says less than `HistoryInv`: inside the window between `Set()` and the
record, a selection that nobody touched since is the one just made, on the table in
use.  `Normal`, outside of it, is an equivalence: the automatic chain stands exactly
when a restore is pending and nobody interfered.  That is why a restart, which keeps
both or drops both, needs no case of its own.  `LInv` says that the call that joins is
the one that holds `lifecycle`, that a checker ends only when cancelled, and that phase
and settings are the checker's.  `GoCancelIsQuick` counts what a cancelled checker may
still do, at most the comparison, `Set()` and the record of one change.

**The scans.**  Each invariant says where every member of the tier is: queued, on its
way, being probed, answered, and never in two of these.  `PoolFull` follows by counting
what the pool lacks against the probes lost in this tier; `Counted` does the same for
the Go workers.  The refinements map `testing` and the outcome, and split on the end of
a tier, where `Over` needs the count: an empty pool with members left means that
`concurrency` of its probes panicked.  `ScanEnds` itself is liveness, but what it needs
besides fairness is proved: `ScanCanGoOn`, by `Counted`, and a measure that each step
lessens (`Effort`), so that a scan makes finitely many.

**The TUN device.**  `Joining` says, for each join of `run_tun2socks()`, which tasks may
still run there; `Opened` that the descriptor is open all that time.  `ClosedLast` is
their consequence at the last step.  `ServedHasReader` needs `Found`, that a flow carries the number of
a session that exists, so that a new session never takes the number of an old one.
`Raised` is what `NoLostStop` rests on: from the request on the flag stays up until the
run is over, and a reader that holds its `Notified` by then has been woken.

**The session.**  `IInv` says who holds which lock at each place (`Held`), what a
reload has in hand there (`Kept`: its copies can bring back what it found, changes and
override included, and what it found was sound), what the engine is there (`Placed`), and when Java's mode may
differ (`Agrees`).  Without `Kept` nothing is known of a roll-back, without `Placed` of
the device that a reload opens again.  The refinement splits a step by whether a
reload is between its stop and its return: inside, `Shown` does not move; the steps
are the promise's `LoadBegins` (`Copies`), `GivesUp` (a first failure), and out of it
`LoadReturns`, `LoadThrows` or `LoadBreaks`.  `LocksMoveOn` stands
in for the deadlock check that `library` turns off: the order LIFECYCLE before OPERATION,
and `Released`, that every path out of a call gives the monitor back.

**The daemon.**  `Blamed` follows the reason of a failed read: the socket is shut down
only after a stop was stored, so a thread that finds the end of its stream and no
stop can blame the helper.  `Attended` says who will reap the helper at each place of
`run()`, and that past the join nobody writes the list.  `OnItsWay` follows a change: the
helper's last snapshot is still marked fresh, or carried, or the last frame of the channel,
or in the watcher's hands, or in effect, and each thread passes it on.  `Reported` says
the same of a failure, from the watcher's flag over the signal to the exit status.

**The fetches.**  `FInv` says who is inside a task's monitor at each place, whose the
open stream is, and whether `cancel()` or the worker completes the task.  It
mentions neither table: what the two tables get wrong cannot break these properties.
`Reach` adds an order: the flag rises before `cancel()` closes anything, and a task looks
at the flag once more after its stream or child is there, so one of the two sees the other.

Only model-checked: the liveness properties, which are out of the prover's reach.  Proved
for all values and therefore left out of the runs: most type invariants, `RestartHeard`,
`FailureReported` and `CancelReaches`.

## Not modelled

Settings validation and the regular expression; authentication, tokens, saving and
statistics of the control API; event lists, also those a reload carries over, and
snapshots, which only read; YAML
rewriting (`profile.rs`, `compatibility.rs`), which is sequential and has the
repository's tests; the fields of a packet, and which engine component a flow
reaches; marshalling; the Go fetch, one sequential function without a task table;
the Go DNS client and helper, which speak the same protocol as the Rust pair; the Go
command line and bindings; build scripts, patches to the cores and CI.

A client that disconnects drops its request's future (`control.rs:257`).  That can
happen at every await of every handler, and meow's router, which is not in this
repository, decides when; the models let requests run to their end, except for the
engine's stop, so the hazard is listed without a property.
