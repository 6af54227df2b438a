# Goleo in TLA+

A model of the parts of goleo that act concurrently, meet failures, or leave
files behind for their next run: the Go runtime that serves a web page
(`runtime/`), the page's side of the bridge (`bridge/src/bridge.ts`), and the
command that builds and publishes an application (`cli/cmd/`). The modules are
translated from the source; every definition that stands for code is listed with
its lines in `PROJECT.json` ("map").

Contents: [the system](#1-the-system), [what is modelled](#2-what-is-modelled),
[runs](#3-runs), [fairness](#4-fairness), [proofs](#5-proofs),
[findings](#6-findings), [limits](#7-limits-of-the-models), [plan](#8-plan).

## 1. The system

An application is one Go process (`runtime.App`) and one or more pages. Pages
call Go functions ("invokes") and both sides send events.

| component | state | operations | what makes it correct |
|---|---|---|---|
| Bridge core, `runtime/bridge.go` | handler and event-handler maps, subscriptions (64-slot channels), policy; one RWMutex | `Handle`, `On`, `HandleRequestContext`, `DispatchEvent`, `Emit`, `Subscribe`, `Unsubscribe`, `SetPolicy` | no send on a closed subscription; events in order; everybody gets the lock |
| Native IPC, `runtime/nativeipc.go` | per window: alive flag, event pump and its subscription, the UI thread's queue | `onMessage`, `evalRecv`, `startEventPump`, stop | no frame to a destroyed window; same event promise as the hub; stop ends |
| Server and hub, `runtime/server.go`, `runtime/websocket.go` | client map, `register`/`unregister`/`stop` channels, a 256-slot `send` channel per client | upgrade, read and write pumps, one goroutine per invoke, broadcast, `Stop` | every `send` channel closed exactly once, no send afterwards; nobody waits for a slow page; a page that leaves, or a stopped hub, leaves nothing behind; events in order |
| Script runtime, `runtime/jsruntime_call.go` | the VM, `jobs`, `done`, goja's interrupt flag | `startLoop`, `submit`, `Call`, `stopLoop`, `goleo.invoke` | one goroutine uses the VM; every caller returns; an interrupt hits only the job it is meant for; re-entry does not deadlock |
| Page client, `bridge/src/bridge.ts` | the channel or socket, `connected`, `ready`, pending invokes, attempts | `connect`, `reconnect`, `disconnect`, `invoke`, socket callbacks, timers | `connected` only while the link is up; every invoke settles; a dropped link fails its invokes at once |
| Window managers, `runtime/windowmanager*.go` | table of windows, a process or native window each | `Open`, `Close`, `CloseAll`, reaping | no window out of reach; each announced once; none outlives the application |
| Lifecycle, `runtime/app.go` | context, main loop, windows, instance | `Run`, `Quit`, `shutdown` | `Quit` stops the application; ExitOnClose quits |
| Single instance, `runtime/singleinstance` | loopback listener | `Acquire`, `forward`, `handle`, `Close` | a launch that gives way was heard by its own application; a launch does not hang |
| Updater, `runtime/updater` | executable, `.old`, downloaded file | `Check`, `Download`, `ApplyAndRelaunch` | at any crash an executable exists; an update installs something newer |
| Store, `runtime/store` | map and file | `Set`, `Delete`, `Clear`, `load`, `persist`, migration | the file is always a whole store; a failed write leaves nothing behind |
| Build and publish, `cli/cmd/build.go` and its helpers | go.mod, vendor, `dist`, `.goleo`, tool directories, artifacts, manifest | `goleo build` for desktop, Android, iOS, PWA, with installers, signing and `--publish` | what it changes for the build it puts back; success means that what it built, from sources at least as new as when it started, was delivered |
| Policy and file scope | lists | `allowsMethod`, `checkFSPath` | checks in order, deny by default |
| Window state, menus, tray, device features, other commands, mobile templates | the toolkit's, the platform's or none | thin calls | not concurrent cores |

How they interact: `readPump` calls `Bridge.HandleRequest` on a goroutine per
invoke and `Bridge.DispatchEvent` inline; a native window's messages do the same
on a goroutine each. `App.Emit` goes through `Bridge.Emit` into one subscription
per listener: that of `handleEvents`, which broadcasts to every client's `send`
channel, which `writePump` writes to the page; and that of each native window's
pump, which dispatches to the window's UI thread, which evaluates the frame in
the page. A script's `goleo.invoke` calls `Bridge.HandleRequestContext` on the
VM's own goroutine, with a context that marks it, so that a handler that calls
the script again runs inline. `Run` takes the single-instance lock before it
serves; a primary that is launched again raises its window; the updater replaces
the executable and relaunches it through that same lock. `shutdown` closes
windows, instance, script runtime and server, after the context ended the
broadcaster.

What is hard here: `hub.run` closes channels that three other goroutines send
to; bounded queues drop; `select` chooses at random among ready cases; a waiting
writer of an RWMutex blocks readers that its holder needs; an interrupt is fired
at a VM and not at a job; a browser socket reports its end long after `close()`,
into callbacks that look at the bridge's current state; timers race answers; a
window ends by its user, by the program, by `CloseAll` or by its process's death,
and each way is seen by other code; processes die between two renames; a build
that fails half-way has changed files it must put back. `PROJECT.json`
("hazards") lists them line by line with the properties that watch them, and
those that no property watches.

## 2. What is modelled

| module | models | composed with |
|---|---|---|
| `EventFeed` | the promise to a page: emitted events seen in order, at most once, possibly not at all | |
| `Hub` | one `Server`: hub, pumps, invokes, broadcaster, `Stop` | implements `EventFeed` |
| `Native` | bridge core, its lock, and the native sessions: emitters, messages, pumps, UI threads, pages | implements `EventFeed`, for each emitting goroutine |
| `JsLoop` | `submit`, `startLoop`, `Stop`, re-entry, goja's interrupt flag | |
| `BridgeClient` | `class Bridge` over the native channel, WebSocket, HTTP or alone | |
| `Windows` | `Run`, `Quit`, `shutdown` and the window managers | |
| `Launch` | single instance and updater, over processes and one executable | |
| `AtomicStore` | the promise of the store: whole files, replaced as a whole | |
| `Store` | opening, migration, writes and failures of several processes | implements `AtomicStore` |
| `Build` | `goleo build` as a sequence of fallible steps on the project's files | |
| `MC*` | the instances that are model-checked | |
| `*_proofs` | theorems about the module of that name | |

A definition named `Op_what` is `Op` with a plausible bug. It is not part of the
specification; each property of a passing run is shown to fail with one of them.

**Hub.** A `WSClient` object is an element of `Client`, never reused: a page that
reconnects is another element. `hub`, `reader`, `writer` and `bc` are the program
counters of `Hub.run`, of `handleWebSocket` followed by `readPump`, of `writePump`
and of `handleEvents`. `hub = "insert"` and `"remove"` are the moments between
the rendezvous on a channel and the map update under the lock, when the pumps
already run. While the hub drains (`"drain"`) it holds the lock, so `GetAll`
waits. `targets` is the snapshot `GetAll` returned: releases between it and the
sends are possible, as in the code. `closed[c]` and `queue[c]` are the `send`
channel; `TrySend` is `select { case c.send <- m: default: }`, which drops when
full and panics when closed. A panic in any goroutine ends the process (`crash`).
Frames are event numbers, or 0 for answers. `readPump` runs the handlers of a
page's event inline (`reader = "dispatching"`, from `ReadEvent` to
`DispatchReturns`): they are application code, may emit events themselves, and
may never return. What a handler that keeps the bridge's lock does to the
broadcaster is that `BcSubscribe` and `BcReturn` are never owed.
`EventsInOrder` is the specification of `EventFeed` under the identity on
`emitted` and `lastEvent`: `Emit` of the hub is `Emit` of the feed,
`WriteMessage` of an event frame is `See`, everything else stutters.

**Native.** `readers` holds the threads inside a read section that takes more
than a step (`Emit`, `DispatchEvent`); `pending` is the one waiting writer, who
keeps new readers out. Write sections never block and are one step. A `Message`
is the goroutine the webview starts for one call of `__goleoSend`: it is
dispatched to a handler that may register handlers, or to event handlers under
the read lock, which may emit or register in turn; its answer is pushed to the
window. `todo` is what an `Emit` has yet to offer its event to: a subscription
that is full is skipped. The pump takes an event from its subscription, reads
`alive`, dispatches a closure to `ui`; the closure reads `alive` again and
evaluates the frame, which the shim keeps in `inbox` until the page attaches. The
session's stop closes `done`, unsubscribes, marks the session dead and dispatches
the window's end, or comes after it where a window has a run loop of its own
(`RunReturns`). The user may close the window at any time
(`userClosed`), which no session notices. The feed is stated for one emitting
goroutine: `Emit` reads the subscriptions under a shared lock, so two goroutines'
events may reach two pages in different orders.

**JsLoop.** A caller is a goroutine with one call in progress; `pc` is where it is
in `submit`: offering the job, waiting, awaiting the reply after `Interrupt`,
about to `ClearInterrupt`. `loop` is the VM's goroutine: in its select, in the
script, in a Go handler the script called, in a script the handler called inline,
unwinding, about to reply. `owner` is the caller the running job will answer, as
long as that caller is in `submit`. goja reads the flag before each instruction
and never in Go code, clears it when the outermost script call has unwound and
leaves it set when a nested one has; the model does the same (`Unwound`,
`NestedInterrupted`). A script is short or endless. `InitFails` is an init script
that throws: the loop never starts and calls are refused.

**BridgeClient.** One action per task of the page's event loop. `place` says
where the page finds itself: in a webview with the native channel, with a backend,
or alone; `Begin` is the body of `connect`, shared by `Connect`, `Reconnect` and
`RetryFires`. `sock` is the `readyState` of every socket ever made (`"aborting"`
is closed while connecting), `ws` the current one, and the callbacks
`SocketOpens`, `SocketCloses`, `SocketFails` and `ConnectTimeout` act on the
bridge's fields whichever socket they belong to, as the closures in `connect`
do. An invoke goes by the native channel (`via` is `None`), by the socket `via`,
by HTTP or to a local handler, whichever the state allows when readiness comes.
`InvokeTimeout` fires for settled invokes too, since the code never clears that
timer. `attempts`, `retries`: attempts made and reconnect timers that have not
fired.

**Windows.** `kind` is the manager that `Run` selects: a child process per
window, a thread per window (Windows, `InProcessWindows`), or the main loop of
Linux or macOS. `opener`, `reaper` and `closer` are the program counters of a
window's `Open`, of the goroutine that waits for its end, and of the manager's
`Close`; `wins` is the map; `queue` the closures dispatched to the main loop; `said`
the announcements of a window. `main` runs the loop, then closes what
`CloseAll` found in the map (`toClose`), then stops. `missed` records what was
opened but not in the map when it was read: the only windows that may outlive the
application, and only as processes. How a toolkit's loop ends when the
user closes a window is taken from the vendored webview library and differs by
platform.

**Launch.** A `Process` is one launch. `Acquire` binds the port, or connects to
whoever did, sends its arguments, and waits for an answer; `handler` is the
primary's goroutine for that connection. A launch of another application may own
the same port (`Foreign`). `upd` is where a process's `goleo:updaterApply` is:
release chosen, file verified, executable moved aside, new one in place, or rolled
back; `Relaunches` starts another process of the new executable and quits this
one. The handler has a goroutine of its own, so an update goes on while its
process shuts down (`Updates`), until the process has ended. `exe` and `old` are
the two files' versions; a running process may hold its own file (Windows). `Ends`
may come at any step of any process.

**Store and AtomicStore.** `persist` is create, write, sync, rename, each of
which may fail and then removes the temporary file; `file` is the directory
entry, `durable` what may be there after a loss of power: any entry since the
last write-back, torn if the data had not been synced. The migration writes one
`.migrating` file, shared by all processes and never synced; `fd` follows the
open file a migrating process writes to, through renames by others. `IsAtomic`:
with no legacy store, the rename is `Save`, a change in memory and a kill are
`Change`, opening is `Load`, write-back and power loss are their own steps, and
everything else, failures included, stutters.

**Build.** One command at a time: `run` is the request, `pc` the step, named after
the function it stands for; `StepFails` is the error return of a step, with
everything deferred so far (`Unwind`), `Interrupt` the end without it. Files are
what the properties tell apart: the revision of the frontend that is inside (`ui`)
and whether they are signed. `src` is edited at any moment, between and during
commands (`Edit`); `fresh` is the source when the command was given, `dist` what
the command read of it when it built the frontend. `mod`, `vendor`, `saved`,
`before` follow go.mod through the replace directive, the gomobile tool
requirement, the snapshot and its restoration. `tools` is where the JDK, SDK and
NDK are: in the project's `.goleo/android`, where earlier versions put them, or
outside; the NDK is installed into the SDK that was found, the others into the
user-wide cache, or into the old place where there is none (`InstallPlace`). `apk`
are Gradle's artifacts under the names it gives them. The wipe of `.goleo/android`
ignores its error: of the artifacts and of the tools in it any part may stay
(`WipeAndroid`), and `survived` remembers which artifacts did. `syso` is the
Windows resource, `wrote` whether its removal is deferred, `spoiled` whether it
was left for good, by a write that failed half-way, a removal that failed or a
kill. `out` are the delivered files under their default names, `lib` the bound
library, `staged`, `manifest`, `published` the update feed.

## 3. Runs

| run | asks | result | distinct states |
|---|---|---|---|
| `hub_safety` | is every channel closed once and when it should; does the hub implement `EventFeed` | holds | 1 451 881 |
| `hub_release` | does the broadcaster always come back; do leaving and stopping release everything of a registered page | holds, but for a page whose event handler never returns | 74 985 |
| `hub_panic` | does a send never meet a closed channel | **fails**: an invoke that returns after its page left | |
| `native` | does a native window's emit never meet a closed subscription, is no script run in a destroyed window, is each emitter's order kept, does stop end | holds | 108 281 |
| `jsloop` | is every waiting caller answered, no interrupt left behind; does the queue move; does `Stop` end the loop and free its callers | holds | 35 268 |
| `jsloop_lost` | does a cancelled call return | **fails**: its interrupt is erased by an earlier caller | |
| `client` | is `connected` never ahead of the link, does a dropped link fail its invokes at once, does every invoke settle | holds | 464 515 |
| `client_stale` | does an open socket mean connected | **fails**: the late close of a replaced socket | |
| `windows` | can every window that is up be reached, is each announced once, does none outlive the application, do ExitOnClose and `Quit` stop it | holds, with the exceptions the properties name | 311 990 |
| `launch` | was a launch that gives way heard by its own application, does an executable survive, is an update newer, does a launch settle | holds | 1 063 180 |
| `store` | does the store implement `AtomicStore` with failures, kills and power loss; is no temporary file left | holds | 238 112 |
| `build` | is what a build changes put back, does success mean fresh and signed, do releases accumulate | holds, with the exceptions the properties name | 1 531 919 |

Bounds, and why they are enough to meet the interesting cases:

- `hub_safety`: two pages (symmetric; no property tells them apart), so that one
  leaves while the other is served from the same snapshot; `SendCap = 1`, so one
  frame fills a queue; two events and a two-slot subscription, so that events can
  be queued, dropped and overtaken (`BcTake_newest` is noticed).
  Invokes are left to `hub_release`: for these properties an invoke's send is
  the send of a pong or broadcast that may come later, and the theorems hold for any number.
- `hub_release`: one page, up to two invokes in progress, both capacities 1, two
  events. What one page leaves behind does not depend on another.
- `hub_panic`: the smallest instance that shows the behaviour.
- `native`: one window, one emitting goroutine with two events, one message of the
  page, which may be an invoke that registers a handler or an event whose handler
  emits once more. That is one reader, one writer that waits for it, one reader
  that the writer keeps out, and the window's own stop as a second writer. Two
  slots: a queue that holds two events in order, and is full.
- `jsloop`: two callers, one `goleo.invoke` per job. Calls are not bounded: a
  caller that returned calls again. Two are enough for one caller's cancellation to
  meet the other's job. `jsloop_lost`: no `goleo.invoke`.
- `client`: three sockets, so that a replaced, a current and a retried one overlap;
  two invokes, so that they can go by different sockets; one reconnect attempt, so
  that the maximum is reached and reset. All three places a page can be in.
- `windows`: two windows, one with ExitOnClose, under each of the four managers:
  one may open while the other closes and `CloseAll` reads the map.
- `launch`: two processes of the application and one of another on the same port,
  three versions, so that a process may install a second release while another,
  or its own relaunch, runs the first; with and without single instance, on
  Windows and elsewhere.
- `store`: two processes, two keys (both symmetric), with or without a legacy store;
  kills, failures and power losses are not bounded.
- `build`: two commands in a row, any request for any target each, with the
  frontend edited once, before, between or during them. Every property relates one
  command to what an earlier one left, for which one earlier command is enough.
  `GoleoRoot = FALSE`: the project depends on a released goleo, the harder case
  (the network may fail). `HasVendor = TRUE`: it has a vendor tree, which may come
  to disagree with go.mod. `UserCache = TRUE`, and the tools are at first where an
  earlier version left them, without an NDK: a first Android command downloads the
  NDK into the old SDK and may lose both, a second installs them anew. The
  theorems hold for all values and any places of the tools.

Bounds inside the models: `MaxCalls`, `MaxEvents` (Hub), `MaxEmits` (Native),
`MaxInvokes` (JsLoop), `MaxSockets` (BridgeClient), `MaxVersion` (Launch), `MaxRuns`,
`MaxRev` (Build). `SendCap` and `SubCap` are 256 and 64 in the code, `MaxAttempts` is
`config.maxReconnectAttempts`.

Deadlock is checked in `jsloop`, `client` and `store`, where something can always
happen. It is not in the others, which may stop rightly: the hub's events are
bounded, every page may have gone, and a panic ends the system; a native window
that is closed stays closed, and an event handler may wait for itself (see
[findings](#6-findings)); an application, a launch and the last command end.

Every passing property is also run against a mutant of a mapped definition
(`PROJECT.json`, "mutants"): a missing close or a missing delete in the hub,
an early return of the drain, a blocking send, an `Unsubscribe` under the read
lock, an evaluation that does not read `alive` again, a forgotten
`ClearInterrupt`, a reply channel without its slot, an `onclose`
that does not clear `connected` or does not reject, a `CloseAll` that closes only
the first window, an update to any version, a missing rollback, a rename without
the sync, a Windows resource that is not removed, and so on.

## 4. Fairness

- `Hub`: the Go scheduler runs every goroutine that can run (`WF` of `HubRun`, of
  the broadcaster's loop, of each pump's way out). Nothing is assumed of the
  application, of a page, which may never read, or of handlers: a handler of events
  may keep the reader that runs it (`DispatchReturns` is not fair), and the
  bridge's lock with it, which subscribing and unsubscribing need (nor are
  `BcSubscribe` and `BcReturn`). Reading from or writing
  to a dead connection ends (writes have a 10 s deadline), and what a closed
  channel still holds is written out.
- `Native`: goroutines run; an event handler returns, unless it calls back into the
  bridge; who wants the lock gets it in turn (`SF`: `sync.RWMutex` queues writers and
  lets waiting readers in between two of them). Nothing is assumed of users, pages,
  the UI thread or invoke handlers.
- `JsLoop`: as `Hub`, plus strong fairness of the two cases of the loop's `select` (Go
  chooses at random among the ready cases, and blocked senders queue in order) and
  of a handler's return (it may call scripts before). An endless script is not
  assumed to end; contexts need never end.
- `BridgeClient`: timers fire and promise continuations run. Nothing is assumed of the
  network, the host or the backend.
- `Windows`: the main goroutine goes on (the toolkit's loop runs what is dispatched to
  it and returns when it was told to), and so do the goroutines that wait for a
  window's end and a `Close` under way. Nothing of users, of the application's
  calls, or of timeouts.
- `Launch`: a launch that looks for another instance goes on with it, since dialing
  and the connection have deadlines. The primary's handler may hang.
- `Store`, `Build`: none; every property is a safety property.

## 5. Proofs

Each `*_proofs` module proves type correctness and the safety properties of its
module, for all values of the constants: any number of clients, callers, requests,
windows, threads, processes, keys, versions and commands. The first column of
theorems states properties of the runs; the second goes beyond them.

| module | properties of the runs | further theorems |
|---|---|---|
| `Hub_proofs` | `TypeCorrect`, `ClosedOnce`, `HubImplementsFeed` | `NoClientLeaked`, `PanicsOnlyOnDeparture`, `PagesOnlyMoveForward`, `EitherPumpEndsBoth`, `StopClosesEveryChannel`, `PanicsOnlyInWindow` |
| `Native_proofs` | `TypeCorrect`, `EmitNeverMeetsClosed`, `EvalsOnlyLive`, `PipelineIsFeed` | `LockMovesUnlessStuck`, `StuckIsForEver`, `SubscriptionsAreServed` |
| `JsLoop_proofs` | `TypeCorrect`, `WaitersAnswered`, `InterruptsAreCleared` | `JobsAreWanted`, `AnsweredOnce`, `OnlyEndedCallsCancel`, `InnocentHitsAreStale`, `LoneCancelReachesVM` |
| `BridgeClient_proofs` | `TypeCorrect`, `ConnectedIsBacked`, `DroppedFailsFast` | `PendingOnLiveSocket`, `OnlyOverlapDisconnects`, `SettledOnce`, `EveryWaitHasAnEnd` |
| `Windows_proofs` | `TypeCorrect`, `NoWindowOutOfReach`, `EachAnnouncedOnce`, `ChildrenAreClosed` | `MapFollowsWindows`, `EndsAreObserved`, `ShutdownIsNeverStuck`, `AbandonedLooksOpen`, `NothingFreesALostLoop` |
| `Launch_proofs` | `TypeCorrect`, `ForwardedLaunchIsHeard`, `ExecutableAlwaysSurvives`, `UpdateInstallsNewer` | `NobodyRunsUnasked`, `NobodyDisturbsReplacement`, `CutShortIsForEver` |
| `Store_proofs` | `TypeCorrect`, `TempRemoved`, `StoreIsAtomic` | `PersistNeverTears`, `LoneMigrationTearsNothing` |
| `Build_proofs` | `TypeCorrect`, `CommandCleansUp`, `SuccessDeliversFresh`, `ManifestAccumulates` | `PublishesWhatWasAsked`, `FeedNeverGoesBack`, `PlatformsKeepApart` |

They assume only the named assumptions on the constants: capacities are positive
naturals, bounds naturals, switches Booleans, the sets of names disjoint where the
model tells them apart. Two theorems have a hypothesis on the behaviour besides, which
their statement names; they are discussed below.

### The arguments

A property alone is seldom inductive. What had to be known besides:

- `Hub`. `HubInv`: that no channel is closed twice needs to know that a client in the
  map has an open channel, which needs to know where a client that is neither in the
  map nor in the hub's hands can be; so it goes through a client's life. `FeedInv`: the
  order seen by a page needs the order along the whole way, from the page's last
  event, through its queue, to the event being broadcast and the subscription.
  `PumpInv`: which states of the two pumps go with which states of the connection,
  and that an unregistered client holds nothing.
- `Native`. A thread that has subscriptions yet to serve is among the readers, so
  nobody unsubscribes; a destroyed window has no session alive unless the user closed
  it; `OrderInv`: what a page has handled, its inbox, the UI queue, the pump's event,
  the subscription and what is being emitted hold a thread's events in increasing
  order. For the lock: a waiting writer is the only one, and each reader
  it waits for either goes on by itself or is a handler that calls back.
- `JsLoop`. The job has at most one owner, which is in `submit` and unanswered; a set
  flag has a caller about to clear it; who cancels has a context that has ended.
- `BridgeClient`. `PendingInv`: a pending invoke is with the native host or was sent on
  a socket that has opened and not ended; sockets end only in the two callbacks that
  reject every pending invoke, and a page that has gone native stays so. Sockets are made
  in order, and `ws` is the last one made.
- `Windows`. Which states of `opener`, `reaper` and `closer` go together with being in
  the map, being up, having a closure queued and having been announced; and who, of
  the reaper, `Close` and a queued closure, owns the end of a window.
- `Launch`. A connection that was acknowledged is one of the same application; a
  process that runs without the lock has a peer; the executable is missing only while
  an update is between its renames or stranded there; the release being installed is
  newer than the version that runs.
- `Store`. Without a legacy store no process migrates and no migration file exists;
  what `persist` has synced is the map it was given; with one, a lone migrating process
  writes to the file it will rename.
- `Build`. The stage a command has reached determines what go.mod, the embedded
  copies, the bound library and the delivered file contain: the frontend in `dist`, which
  lies between `fresh` and `src` from the moment it is built. Each of Gradle's
  artifacts is the command's own or outlived its wipe (`OwnOrOutlived`). What is
  published is never newer than `fresh` while a command is under way, so the feed
  does not go back. `PlatformsKeepApart` rests on what the platforms' files are
  called (`NamesApart`): only Linux and macOS share one.

Three theorems are refinements: `HubImplementsFeed` and `PipelineIsFeed`
(two implementations of `EventFeed`) and `StoreIsAtomic`. `PagesOnlyMoveForward`
and `PersistNeverTears` are what the first and the last of them mean to the one who
uses the component.

### What is true where a property fails

Three runs refute a property that the repository states. The theorems say how much of
it holds:

- `hub_panic` refutes "a send never meets a closed channel". `PanicsOnlyOnDeparture`:
  it takes a page that left, or `Stop`. `PanicsOnlyInWindow`: and an invoke still in its
  handler, a broadcast whose snapshot still names the page, or, after `Stop`,
  a page that still sends pings.
- `jsloop_lost` refutes "a cancelled call returns". `LoneCancelReachesVM`: an interrupt
  is lost only where two cancellations overlap; it has the hypothesis
  `[]OneCanceller`, that they never do, which any application with one cancellable
  call at a time satisfies. `InnocentHitsAreStale`: the opposite mistake, an interrupt
  that hits another's job, happens exactly between the answer of a cancelled call and
  its `ClearInterrupt`.
- `client_stale` refutes "an open socket means connected". `OnlyOverlapDisconnects`:
  it takes an earlier socket that has ended; a bridge on its first socket is never wrong.

Likewise for the exceptions that the properties of `windows`, `launch` and
`native` name: `StuckIsForEver`, `NothingFreesALostLoop`, `AbandonedLooksOpen` and
`CutShortIsForEver` (once the process that was cut short is gone) show that they
are permanent, so that no retry and no later call makes up for them.
`LoneMigrationTearsNothing` is the part of the migration's promise that holds:
with `[]OneMigrator`, that no two processes migrate at once, only a loss of power
tears the store.

### Only model-checked

The eleven liveness properties (`BroadcastNeverStalls`, `StopReleasesRegistered`,
`LeaverIsForgotten`, `StopCompletes`, `QueueMoves`, `StopEndsLoop`,
`StopFreesCallers`, `EveryInvokeSettles`, `ExitOnCloseQuits`, `QuitStops`,
`LaunchSettles`), since liveness under fairness is out of the prover's reach. Of
six the safety half is proved, for any number of actors: that whoever
waits has somebody or something that will end the wait, which is the part a
larger instance could break.

| liveness, checked by TLC | safety half, proved |
|---|---|
| `StopReleasesRegistered` | `StopClosesEveryChannel` |
| `LeaverIsForgotten` | `EitherPumpEndsBoth` |
| `StopCompletes` | `LockMovesUnlessStuck` |
| `EveryInvokeSettles` | `EveryWaitHasAnEnd` |
| `ExitOnCloseQuits` | `EndsAreObserved` |
| `QuitStops` | `ShutdownIsNeverStuck` |

That these steps are then taken, and that taking them comes to an end, is the
fairness of [section 4](#4-fairness).

## 6. Findings

Three runs show the code doing what its comments, documentation or tests say it does
not; details and quotations are in `PROJECT.json` ("findings").

1. `hub_panic`: `select { case c.send <- m: default: }` does not protect from a
   closed channel, and an invoke outlives its page (`websocket.go:162`).
2. `jsloop_lost`: a late `ClearInterrupt` (`jsruntime_call.go:121`) erases the next
   caller's interrupt; an endless script is then never stopped.
3. `client_stale`: the close event of a replaced socket disconnects the bridge
   (`bridge.ts:104`).

The models also show, or their writing brought up, behaviour that has no run of
its own. Where a property holds only with an exception, the exception is one of
these.

Runtime:

- A page that is registering when the hub stops waits for ever:
  `h.register <- c` (`server.go:245`) has no stop case.
- A late `Interrupt` (`jsruntime_call.go:119`) stops the next caller's job, which
  is then reported as that caller's error.
- An event handler runs under the bridge's read lock (`bridge.go:179`): one that
  registers a handler waits for itself, one that emits waits for itself as soon
  as anybody waits to write.
- A page's events are dispatched on the goroutine that reads its socket
  (`websocket.go:173`), although invokes are not, so as not to "stall this read
  loop" (`websocket.go:148`). A page whose event handler never returns is read no
  more: when it disconnects it is not unregistered, and its goroutines and its
  channel stay until the server stops; even then its reader stays.
- `nativeipc.go:102` says of a page's messages that they run "on the webview UI
  thread"; each has its own goroutine, so two events of a page may be dispatched
  out of order.
- A frame may be evaluated for a window that the user has closed: nothing stops
  its session.
- ExitOnClose is not honoured when the user closes a window of the main-loop
  manager, contrary to `windowmanager.go:31`; with a thread per window only if it
  was the last one.
- On Windows with a thread per window, closing the primary window with others open
  leaves a main loop that `Quit` cannot end.
- A window may end before its `Open` returns. With a process per window it is then
  announced closed before opened (`windowmanager.go:142`), but its entry goes. With
  a thread per window `Open` enters it in the map after it has ended, and nothing
  removes the entry.
- An `Open` that gave up after ten seconds leaves its closure queued
  (`windowmanager_mainloop.go:95`); the window may still appear, in no map. With
  `Background` and in-process windows on macOS and Linux nothing runs the loop, so
  every `OpenWindow` ends so.
- A child process opened after `CloseAll` has read the map outlives the application.
- `app:shutdown` is emitted after the context has ended (`app.go:509`), when the
  broadcaster and the pumps may have returned.
- After an update with `SingleInstance`, the new copy may forward its launch to the
  dying old one and exit (`updater.go:266`); none runs then. Two processes that
  update may lower the version on disk, each comparing with the version it runs.
- On Windows a replacement cut short between its two renames is never repaired
  (`CutShortIsForEver`): no executable is left to start, and no process that still
  runs can install a release.
- `store.go:120-121` says that the migration leaves the old or the new store; all
  processes share one unsynced `.migrating` file, so the store may be torn after
  a power loss or by a second migrating process, and a slow migration may replace
  a newer store. A failed persist leaves the map in memory ahead of the disk
  (`store.go:216`), the error of a failed open sticks for the process's life, and
  two processes lose each other's keys, each writing the map it knows.

Page:

- `disconnect()` does not cancel the reconnect timer or the connection timeout
  (`bridge.ts:221`), so a bridge may connect after it.
- When connects overlap, the promise of one `connect()` may never resolve
  (`bridge.ts:80`).
- `invokeHTTP` has no timeout (`bridge.ts:377`).
- On a native page `reconnect()` clears `connected` and `connect()` then returns at
  once (`bridge.ts:49`): `isConnected()` stays false while every invoke works,
  and `fs.ts` and `store.ts` fall back to local storage. After `disconnect()`
  invokes still work.

Build:

- The build removes `.goleo/android` (`build.go:486`) after it may have found its
  tools there: projects that were to "keep working without re-downloading"
  (`android_deps.go:163-165`) lose them, as does a machine without a user cache
  directory whatever it installs (`android_deps.go:56-60`), and an NDK downloaded
  into a found old SDK is thrown away by the same build
  (`android_deps.go:786-805`).
- The error of that removal is ignored. Where an old `app-release.apk` survives
  it, it is looked for before `app-release-unsigned.apk` (`build.go:143`,
  `:649`) and delivered as this build's.
- A `.syso` that could not be written to its end, or removed, stays without a
  word (`winres.go:45-52`) and is linked into later builds.
- The programs of Linux and macOS are by default the same file `app`
  (`build.go:366`): a build for one overwrites the other's.
- An unsigned AAB is not detected (`build.go:666`); the iOS check finds the
  `GoleoApp.app` of an earlier build (`build.go:967`); a `.dmg` is skipped in
  silence without hdiutil (`bundle.go:270`).
- The manifest is written in place (`publish.go:63`); one that was cut short is
  taken for an empty one, and what was published for other platforms is forgotten.
- On macOS `--publish` stages the raw, unsigned binary, and on Windows it does so
  unless an NSIS installer is made.
- If the fallback over the network fails, go.mod stays without its goleo
  requirement (`replace.go:139-145`); an interrupted build leaves the `.syso` and
  go.mod's changes.
- An NDK whose extraction was cut short is accepted ever after; two commands at once
  share the names of their downloads.
- A custom `build_command` that succeeds without filling `dist` is not noticed: the
  copy is skipped when there is no `dist` (`build.go:392`, `:477`), and what an
  earlier build embedded is delivered.
- `goleo emulate` drops a save that comes during a rebuild (`emulate.go:213-216`),
  and Ctrl-C during one exits without restoring go.mod.

## 7. Limits of the models

- `Hub`: origin and token checks, the lazy creation of the hub and the content of
  frames are left out. A frame that is not valid JSON changes nothing. Shutdown is
  any number of `Stop` calls at any time; the broadcaster may return at any time,
  as the application may cancel its context.
- `Native`: policy is left out, so is the content of frames; a window is opened at most
  once. The webview, its dispatch queue and its shim are external and taken from
  how the code uses them.
- `JsLoop`: arguments and results are left out. Handlers pass on the context they
  were given; a handler that starts from a fresh context queues behind itself until
  that context ends, and one that gives its context to another goroutine runs
  scripts beside the VM's owner. Both are hazards without a property.
- `BridgeClient`: application callbacks on bridge events do not call back
  synchronously; a failing socket fires error and close in one task; each invoke
  is made once; delays are left out, any timer may be the next to fire; a native
  host injects both parts of its channel.
- `Windows`: window options other than ExitOnClose, titles, menus and tray are left out.
- `Launch`: versions are numbers, signatures and digests either match or do not.
- `Store`: a value is there or not; the bridge handlers around the store are left out.
- `Build`: the contents of generated files and the choice of tool versions are
  left out; one command runs at a time. A frontend build that reports success has
  filled `dist` (Vite does; see [findings](#6-findings)), and reads the source at
  one moment: what it makes of an edit while it runs is left out. The `-o` flag is
  not used. Gradle writes an artifact whole. A directory of embedded files that
  could not be removed before the copy (`build.go:394`, `:479`) is taken to be
  gone; files only it had would be embedded besides. A step that fails leaves the
  worst that the code allows of what it was writing.

### Not modelled

Component by component, with reasons, in `PROJECT.json` ("components"). About a
quarter of the repository's source lines are experiments under `spikes/`, mostly a fork of
a webview library, which the application does not link; another large part is
text: project templates, bindings for each platform's toolkit, command output,
and device providers that pass one call on. They keep no state whose order could
go wrong. `PROJECT.json` maps the lines that do.

## 8. Plan

1. Proofs: composition of `BridgeClient` and `Hub` for events across reconnects, and of
   `Windows` and `Native` for a session's stop at shutdown, each as a module with
   its invariant built from those above.
2. `JsLoop`: a second kind of handler that drops the inline context.
   `BridgeClient`: connect's own promise.
3. `dev` and `emulate`: the watcher and the processes it restarts.
4. Policy and file-system scope as functions, checked against a reference
   definition.
