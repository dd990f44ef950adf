# Remote Screen in TLA+

This directory specifies the parts of Remote Screen whose correctness depends
on the order in which things happen. A Node.js backend (`backend/`) manages
digital-signage screens. Each screen runs an Android player
(`android-player/`), and operators use a Next.js dashboard (`dashboard/`). The
modules are model-checked with TLC, and the main safety results are proved with
TLAPS for every value of the constants.

## Inventory

| Component | State | Operations | Interacts with | What makes it correct |
|---|---|---|---|---|
| **Command service** (`services/command.service.ts`) | `Command` documents in MongoDB; `activeTimeouts` | `queueCommand`, `dispatchCommandById`, timer callback, replay, `processDeviceAck`, recovery | HTTP routes, the device room, MongoDB | no more attempts than `maxAttempts`; no queued command left behind; given up only when exhausted; one document per `command_id` |
| **Device namespace** (`sockets/index.ts`, `registry.ts`) | rooms, per-socket listeners | connection, `COMMAND_ACK`, `disconnect` | command service, player | a connection replays what was queued before it; results are answered |
| **Player commands** (`SocketClientManager.kt`, `PendingCommandAckStore.kt`) | `inFlightCommands`, stored results | dispatch callback, executions, flush | device namespace | a result is kept until it is confirmed; one start per attempt |
| **Device presence** (`sockets/index.ts`) | `HeartbeatBuffer`, `disconnectTimers`, the stored status | beat, flush, delayed offline, sweep | device documents, fleet list | a connected device is online in the end, a gone one offline |
| **Pairing** (`pairing.route.ts`) | the device document, pairing codes with claims | request, session, confirm, unpair | player session | one code pairs once; a device changes hands only by being unpaired |
| **Player session** (`SessionManager.kt`) | tokens, a refresh loop, the socket | refresh, reset, connect | pairing, socket client | a session is replaced, never lost, by a failure or a stale answer |
| **Content sync** (`ContentSyncManager.kt`) | directories, Room rows, applied markers | stage, activate, roll back, recover, clear | socket client, playback | rows and files belong together; the newest content wins in the end |
| **Playback** (`PlaybackCoordinator.kt`) | current item, saved position, jobs | loop, reloads, watchdog | content sync, player UI | every item gets its turn; what is shown belongs to the playlist |
| **Player UI** (`PlayerUiStateStore.kt`, `OperatingHoursManager.kt`) | one state object, written by three threads | setters, crashes, operating hours | playback, commands | the hours prevail; the player comes into view |
| **Circuit breaker** (`lib/circuit-breaker.ts`) | state, failures, probe flag | `canExecute`, `recordSuccess`, `recordFailure` | every repository | never wedged; opens and closes with the database |
| **Shadow repositories** (`repositories/*`, `lib/retry.ts`) | PostgreSQL rows beside the documents | upserts, retries, repair, parity checks | routes, breaker | a row is a version its document had; reports are true |
| **Schema migrations** (`lib/postgres-migrations.ts`) | `schema_migrations`, an advisory lock | runs of overlapping deployments | PostgreSQL | a file is applied once; success means complete |
| **Content library** (`routes/content.route.ts`, `apps.route.ts`) | playlists with versions, assignments | save, publish, delete, app update | dashboard pages, device namespace | a version names one content; nothing dangles |
| **Media storage** (`content.route.ts`, `media-storage.service.ts`) | media, files, folders | upload, move, remove | content library | media and files come and go together |
| **Accounts** (`auth.route.ts`, `super.route.ts`, `account-lifecycle.service.ts`) | users, tokens, tenants, caches | sign-in, edit, deactivate | every route and socket | deactivated accounts own and reach nothing |
| **Screen settings** (`screens/[deviceId]/page.tsx`, `content.route.ts`) | form, document, commands, the screen | edit, save, push, replay | command service | the screen follows the document |
| **Screen preview** (`command.route.ts`, page) | files, a pointer, captures | capture, upload, poll | player, page | the pointer names a stored file; one image per device |
| **Fleet list** (`screens/page.tsx`, `device-presence.ts`) | the list and its clock | poll, events, search | presence | no false "online" |
| **Fleet socket** (`use-fleet-socket.ts`) | ticket, socket, timers | connect, retry, unmount | dashboard namespace | live again after an outage; nothing left after unmount |
| **Command polling** (`command.route.ts`, two pages) | status reads, timers | send, poll, acknowledgement | command service | a polling ends, with the right answer |
| **Operations** (`ops.route.ts`, `governance.service.ts`, `check-*.ts`) | counts read in parallel | evaluations, gates, rollouts | telemetry, documents | the verdicts agree with each other |
| Rendering of apps, diagnostics, other pages, one-shot scripts, deployment | | | | not modelled, see below |

What makes this code hard to test:

- **One event loop with many awaits.** A handler reads a document, awaits, and
  then writes it without a condition. Another handler may have run in between.
- **Two ends and a network.** Either end may notice a lost connection first.
  Packets of the old socket are lost, and results are sent again.
- **Timers against answers.** A timeout may be in progress while the result
  arrives; a retry may repeat what was already done.
- **Restarts on both sides,** between any two effects on a disk, a table or a
  document.
- **Pages that close over an old render,** and loads that are answered out of
  order.
- **Two stores** that are written one after the other.

`PROJECT.json` lists forty of these hazards, each at its line, with the
properties that cover them. Some have a note instead: there the code lets the
hazard happen, and no property that passes can exclude it (two owners who remove
each other, two sessions that add to one playlist, a credential overwritten by a
stale save, a late retry, a folder that vanishes under a move, a playlist pushed
from an old document). Others are covered in part, and their note says which.

## Modules

| Module | Models | Uses |
|---|---|---|
| `DeviceLink` | the Socket.IO connection of one player: both ends' views of each socket, packets in flight | |
| `CommandService` | the backend's side of commands | extends `DeviceLink` |
| `PlayerCommands` | the player's side | extends `DeviceLink` |
| `CommandDelivery` | the pipeline from end to end, with fairness | both sides over one link |
| `CommandBackend` | the backend against any player that keeps to the packet format | extends `CommandService` |
| `CommandLifecycle` | abstract specification: what the pipeline promises of each command | instantiated by `CommandDelivery` |
| `CircuitBreaker` | the breaker under overlapping calls | |
| `Presence` | one device's stored status on one or more backend nodes | |
| `Pairing` | the four pairing endpoints and the removal of a device | |
| `PlayerSession` | the session loop and what connects the socket | extends `Pairing` |
| `ContentSync` | the disk, the table and the preferences of one player | |
| `Playback` | the playback loop and its reloads | |
| `PlayerUi` | the state the screen is drawn from | |
| `ShadowSync` | shadow writes, repair and parity checks | |
| `SchemaMigrations` | the runner of the PostgreSQL migrations | |
| `ContentLibrary` | playlists, media usage, apps, assignments and the pages that chain their calls; `overlap` says whether calls may overlap | |
| `MediaLibrary` | uploads, files, folders; `working` and `together` say who makes requests and whether they may overlap | |
| `Accounts` | accounts, tokens and tenants | |
| `ScreenSettings` | one screen's settings from the form to the screen | |
| `ScreenPreview` | captures, their files and the pointer | |
| `FleetView`, `FleetSocket`, `CommandPolling` | the dashboard's list, live connection and polling | |
| `Ops` | every decision of the operations endpoints | |
| `MC*` | small instances for TLC | |
| `*Proofs` | theorems | extend the modules above |

An action is the code from one await (or suspension point) to the next, because
nothing interrupts it there. Where threads really are parallel, an action is
one read or one write of what they share. A handler that is under way is a
record: `pc` names the await it is parked at, and the other fields hold what it
has read. What the code has read and later uses is therefore kept, however
stale it has become. A rejected call and the `catch` it ends in are actions of
their own, and so are crashes. Each definition that models code names its
lines in `PROJECT.json`. Definitions marked `Mutant` are plausible bugs, one for
each checked property: putting one in place of the definition it mutates makes
TLC report the property as violated.

### The command modules

| Actions | Code |
|---|---|
| `PostCommand`, `CreateCommand` | `queueCommand`: `findOne`, then `create` under the unique index |
| `CheckDispatch`, `CheckRoom`, `ClaimDispatch`, `EmitDispatch` | `dispatchCommandById`: read, `hasConnectedDevice`, `findOneAndUpdate`, then emit and schedule |
| `TimerFires`, `TimerReads`, `TimerRequeues`, `TimerRedispatches`, `TimerExpires`, `TimerClears` | the callback in `scheduleCommandTimeout` |
| `Connect`, `JoinRoom`, `ReplayQueued`, `ReplayNext`, `StartListening` | the connection handler and `dispatchPendingCommandsForDevice` |
| `AckArrives`, `AckReads`, `AckWrites`, `AckFinishes`, `AckDropped` | the `COMMAND_ACK` listener and `processDeviceAck` |
| `DatabaseFault`, `BackendRestarts` | a rejected call; loss of the process, then `recoverPendingCommands` |
| `DispatchChecked`, `DispatchStarted`, `ExecutionEnds`, `ExecutionLeaves` | the player's dispatch callback and its executions on the thread pool |

`armed` holds the keys of `activeTimeouts` whose timer has not fired.
`clearCommandTimer` removes the key of the command whichever timer it belongs
to, as in the code. `recorded`, `ended` and `created` are history variables. In
`DeviceLink`, `PlayerLosesSocket` leaves the old socket in the backend's room as
a zombie until `BackendDropsSocket`. A room emission reaches the player only if
its current socket is in the room.

`CommandLifecycle` does not promise that a terminal status is final, because it
is not (see the disagreements below). It promises what does hold: attempts stay
within their budget, the player starts a command at most once per attempt, and
a command is given up only when its attempts are used or it was never sent in
time.

### Notes on the other modules

- **Presence.** A heartbeat's age and phase stand for its time stamp: the phase
  says before which disconnect it was made. Buffers and timers belong to a
  node, documents and rooms to all.
- **ContentSync.** Directories and the table are functions from file names to
  checksums. A restart may fall between any two effects. Commands run outside
  the mutex a sync holds.
- **Pairing, PlayerSession.** One hardware id. The session loop talks to the
  modelled endpoints, so its requests race with confirmations and removals.
- **PlayerUi.** A setter is a read and a later write of the whole state, because
  `_state.value = _state.value.copy(…)` is.
- **ShadowSync.** An open breaker, a lost query and PostgreSQL being away are
  one fault: the caller cannot tell them apart. The repair does not remove rows
  whose document is gone.
- **SchemaMigrations.** The advisory lock belongs to a session. Files that opt
  out of transactions may leave half of their work.
- **FleetView** counts time in units of 15 s and **CommandPolling** in units of
  2.5 s. What is due happens before time goes on.
- **Playback.** A command that reloads runs under a timeout. It may give up while
  it waits for the mutex, or after it has cancelled the loop and before it starts
  the next. The screen then has no loop until the next reload.
- **Accounts.** The save of an edit and the disconnection of the account's
  sockets are two steps of one process; a process that ends between them ends its
  sockets too. The assets of a deactivated account go to any active
  account that the request names, or to another owner.
- **ScreenPreview.** The update of what a screen plays is not awaited: it may
  take effect late, fail, or be lost with the process. A screenshot sent with the
  token of an earlier tenant is refused. A page without a fresh preview also
  takes a screenshot from the command history; this is left out, and only makes
  the page of the model slower.
- **CommandService.** `ReplayQueued` and `StartListening` join two awaits of one
  connection. What other handlers do in between is decided by the claim of each
  command, which is a step of its own.
- **Ops.** Counts arrive one by one, because `Promise.all` takes no snapshot. The
  scripts (`Check…`) have definitions of their own where their code has its own
  copy of a formula, and `ChecksAgree` says where the answers differ: the
  guardrails script lets a hold pass, and the objectives script does not count
  devices. A fleet with four of ten devices offline is critical for the endpoint and
  passes the script.

## What the runs check

Most runs check several independent parts of the system side by side. The MC
module's variable `part` is chosen in the initial state. The part it names
moves, the others rest, and the properties of all parts hold along every
behaviour. A property that groups those of several parts says so in its comment.

| Run | Parts | Properties and what they show |
|---|---|---|
| `commands_safety` | the pipeline; the backend against any client; the same with a failing database | `TypeOK`, `ResultNeverLost`, `NoStrandedCommand`, `QueuedIsClaimable`, `SingleDispatcher`, `CreatedOnce`, `GivenUpOnlyWhenExhausted`: no result lost, no command stranded, dispatched twice at once or given up early |
| `commands_live` | the pipeline under `FairSpec` | `ResultEventuallyConfirmed`, `QueuedEventuallyLeaves`, and the refinement `LifecycleSpec` |
| `backend_safety` | breaker, presence on two nodes, pairing, three instances of the shadow, a calm shadow, migrations | `BackendTypeOK`, `HalfOpenHasProbe`, `ClosedIffBelowThreshold`, `OwnedHasCredential`, `TransferOnlyAfterUnpair`, `ShadowReportsAreTrue`, `LedgerIsTrue`, `DoneIsComplete` |
| `backend_live` | breaker, presence, an endless outage, migrations | `RecoversWithDatabase`, `BackendSettles`, `NobodyWaits`: breakers close, presence follows the connection, writes end, no deployment waits for ever |
| `player_safety` | session, sync, playback | `TypeOK`, `RowsMatchFiles`, `ShowsCurrentPlaylist`, `NeverUnpairedByFailure` |
| `content_live` | sync, playback | `EventuallyShown`, `EveryItemShown`. An older playlist may be shown in between; a loop that a timed-out command has cancelled waits for the next reload |
| `screen_live` | session, session with a user, UI | `SessionSettles`, `ScreenSettles` |
| `library_safety` | calls one after the other, overlapping pairs; overlapping uploads with crashes, folders of operators, folders of administrators | `VersionNamesContent`, `LibraryAtRest`, `NobodyLosesWork`, `MediaStayReachable` |
| `dashboard_safety` | badge, two polling pages, fleet socket, previews and two more instances of them (re-pairing, time) | `NoneAfterUnmount`, `PagesAreTrue`, `PreviewIsStored` |
| `dashboard_live` | list, removal, polling, socket, preview | `PagesCatchUp`. A screen's page ends up with an image unless the update of what it plays has failed: nothing repeats that update |
| `operations` | verdicts on a grid, counts that move, a fleet that worsens, accounts, four instances of settings | `VerdictsAgree`, `TenantHoldsTogether`, `ScreensFollow`: evaluations and scripts agree up to the differences `ChecksAgree` names; accounts and assets hold together through crashes; the screen follows its document, with a retry or with a second command |
| `rerun_after_result` | the pipeline | expects a violation of `NoRerunAfterResult` |

### Where the code does something else than it says

`rerun_after_result` finds the gravest one. A timer callback that has read a
command writes `queued` over a result recorded after its read. The command is
dispatched again to a player that has dropped the confirmed result it would
have deduplicated with. `src/.github/agents/digital-signage-plan-v2.agent.md:21`
asks that every command be idempotent.

Other properties are stated in the modules as what a comment, a test or a page
says. The code does not keep them, and no run of this directory includes them.
Each was seen violated by TLC on an instance of its module:

| Module | Property | What happens instead |
|---|---|---|
| `CommandDelivery` | `SentIsTimed` | a callback's late `clearCommandTimer` removes the timer of a newer dispatch; the command stays sent until a restart |
| | `RemovedOnlyAfterCommit` | a result after the timeout is answered `accepted: true` and never recorded |
| | `CompletedNeverTimesOut` | the timeout is written over a recorded result |
| | `NoRerunWhilePending` | an execution ends between the callback's lookup and its `inFlightCommands.add` |
| | `NoCommandResultEvicted` | acknowledgements of `init-*` pushes are never accepted and fill the store |
| `CircuitBreaker` | `OneProbeAtATime` | a late failure reopens the circuit under its probe |
| `Presence` | `StaleEntriesSkipped` | a flush overwrites a newer time stamp; `dirtyAt` is never read |
| `ContentSync` | `GenerationKept`, `SkipOnlyWhenOnDisk` | after a restart, files of one version are taken for those of another with the same names |
| | `OlderVersionSkipped`, `ClearedIsRefetched`, `NoRedundantDownload` | an older push handled last is applied; a cleared cache is not fetched again; a playlist with one medium twice is downloaded at every push |
| `Playback` | `NeverLeftTransparent`, `ResumesItemItLeft`, `GraceEndsWithItem` | a cancelled crossfade stays transparent; the saved position goes to another item; the grace period is always used up |
| `Pairing` | `RotatedOnlyByConfirmation` | a request that read the device early overwrites the credential of a confirmation |
| `PlayerSession` | `SocketFollowsSession`, `RemovedEventuallyDisconnected`, `ResetUnpairs` | the startup replaces a newer socket; a removed player may stay connected; a failed unpair call is ignored |
| `Ops` | `HoldKeepsTraffic` | a hold at 0 % recommends 1 % |
| `ContentLibrary` | `NothingLostUnseen`, `ScreenShowsTheMedium`, `UpdatesReachScreens`; `DeletedIsCleared`, `PlaylistsHoldMedia`, `AppsAreCurrent` when calls overlap | additions without `expected_version` drop others; wrappers are found by file name; a saved playlist waits for a publication |
| `ShadowSync` | `RepairRestores`; `FailedParityIsTrue` beyond the sample | rows of deleted documents stay; samples of the two stores differ |
| `Accounts` | `FirstIsOwner`, `EditsOnlyWhatWasTouched`; `OwnerRemains`, `NoOrphanAssets`, `ConnectedAreCurrent`, `ClosedTenantIsCutOff` when requests overlap | the last two owners may remove each other; a handshake checked early connects late |
| `PlayerUi` | `SteadyIsBright`, `ShowsWhatPlays`, `OvernightIsWhole` | overlapping setters undo each other; a late callback restores an old page; a night ends at midnight |
| `ScreenSettings` | `PushIsCurrent`, `TypedTextStays`, `SavedFollows`; `RemovedCommandsStay` when requests overlap, `ConnectionHeals` with retries beside newer commands, `UntouchedFollows` for empty names | the handler pushes what it read before; a load overwrites typed text; a timer sends the older setting again |
| `MediaLibrary` | `NoLostFolder` with operators beside an administrator, `NothingStranded` with overlapping calls | a medium ends in a folder no list shows |
| `ScreenPreview` | `NewCaptureIsFresh` with a clock ahead; one image after a re-pairing | a start up to a minute ahead is accepted and makes a new image look old; a file of another tenant is not removed |
| `FleetView` | `HealthyIsOnline`, `ClockTicks`, `ListIsOfSearch`; `NoFalseOnline` while typing | a late answer replaces the list of a newer search |
| `CommandPolling` | `PollRunsOut`; `PollEnds` on the remote-control page | an acknowledgement of another command ends the polling; while reads fail the time is not looked at |
| `FleetSocket` | `LiveAgain` after long outages or edits, `FlagSettles` with failing tickets | nothing reconnects the socket |
| `SchemaMigrations` | `RecordedIsComplete` | a cancelled online index build is recorded as applied later |

Where a property is listed with a condition, a run checks it without that
condition.

### Bounds

| Bound | Value | Why it is enough |
|---|---|---|
| `Commands`, `Sockets`, `Procs` | 1, 2, 2 | Commands share only the store's capacity and a replay. Two sockets give a loss, a zombie in the room and a reconnection. The races are between pairs of handlers |
| `MaxAttempts` | 2 | one retry and one final attempt; the proofs cover 1 to 5 |
| `MaxInFlight`, `MaxPackets` | 1 or 2 | duplicates and losses occur; bounds on traffic, not in the code |
| `MaxFaults` | 0 to 2 | failed calls beside another handler |
| `Capacity` | 50 | the code's value |
| `Callers`, `FailureThreshold` | 6 and 5, 3 and 2 | more calls than the threshold, so that reports come late |
| `Nodes` of `Presence` | 2 | a device moves from one node to another while the first flushes |
| `Runners`, `NFiles` | 2, 3 | two deployments; an ordinary, a legacy and an online file |
| `Tenants`, `Proofs`, `Codes`, `Procs` of `Pairing` | 2, 2, 2, 2 | an owner and a stranger, a lost claim, two overlapping handlers |
| `Payloads`, `MaxSyncCrashes`, `MaxSyncFaults`, `MaxCommands` of `ContentSync` | 3, 2, 1, 0 or 1 | two versions of a playlist whose file keeps its name, and none; a crash in the recovery from a crash |
| `MaxPlayCrashes` of `Playback` | 1 | a restart resumes what was saved |
| `Calls`, `Playlists`, `Media` of `ContentLibrary` | 2 or 3, 3, 2 | every pair of calls overlaps; sequences of three run one by one |
| `Uploads`, `MaxMedia` of `MediaLibrary` | 3 | a duplicate of a file whose first upload is being removed |
| grid of `Ops` | 1000 windows | each threshold from both sides, for each ratio |
| `Users`, `MaxRequests` of `Accounts` | 2, 4 | administrators acting on each other, and a crash |
| `MaxCommands`, `MaxLinks` of `ScreenSettings` | 2, 3 | an older and a newer command across a reconnection |
| `Attempts`, `MaxOutages`, `MaxDrops`, `MaxFails` of `FleetSocket` | 5, 2, 2, 2 | 5 is the code's value |
| `Captures` | 2 | a capture overtakes another |

Two numbers in a row stand for several instances. Counters of crashes, faults,
requests and commands bound the environment, never the code under check.
Only `content_live` checks for deadlock. In the other runs the environment's
budgets run out and the system rests, so what must not rest is stated as
liveness (`QueuedEventuallyLeaves`, `NobodyWaits`, `PagesCatchUp`).

### Fairness

Crashes, lost connections, failed calls and user actions are never fair. Only
their budgets bound them.

| Part | Assumed | Why the code justifies it |
|---|---|---|
| `CommandDelivery` | WF of every handler step, of timers, packets of a live connection, dropping a zombie, reconnecting, flushing and executions | the event loop answers every await; timers fire; Socket.IO's ping timeout; `Int.MAX_VALUE` reconnections; every heartbeat flushes; `withTimeoutOrNull` bounds executions |
| `CircuitBreaker` | WF that time passes, calls end and calls keep coming | `RecoversWithDatabase` is conditional: from some point on no call fails |
| `Presence` | WF of heartbeats, flushes, timers, callbacks and the clock; SF of the sweep and of a batch being written | intervals run for ever. A strong assumption is needed because another write may disable a batch for a moment, and because it may fail, though not every time |
| `ShadowSync` | WF of each call's steps | the retries of `withRetry` are bounded, so an endless outage ends each write |
| `SchemaMigrations` | WF of each runner's statements, SF of the lock | the lock is free again and again while others deploy, and PostgreSQL queues its waiters |
| `ContentSync` | WF of the sync's steps, of a command's steps, of taking a payload, of reconnecting and its push | coroutines run; the player reconnects again and again |
| `Playback` | WF of the loop and of a reload | coroutines run |
| `PlayerSession` | WF of waits, the boot, the collector, authentication and the backend; SF of the player's steps, joining, the expiry of codes and an unpaired answer | each call succeeds now and then: a call that fails every time keeps the player where it is, as in the code. `attended` adds that a user types the code that is shown |
| `PlayerUi` | WF of a setter's return; SF of playback, the page's recovery and the hours' tick | threads run; a tick every minute |
| `FleetView`, `CommandPolling`, `ScreenPreview` | WF of time, beats, flushes, answers and the steps of each capture | intervals run; a request is answered or fails |
| `FleetSocket` | WF of the network coming up, retries, tickets and openings; SF of an opening that succeeds | `ShortOutages` or `MaxFails = 0` name the condition under which the page is live again |

In a run of several parts one fairness conjunct may serve two parts, because
only one of them moves in a behaviour.

## What is proved

The theorems hold for every value of the constants under the named assumptions
of the modules: any number of commands, sockets, handlers, callers, runners,
files, tenants, payloads, playlists, media, calls, uploads, captures, faults,
crashes and attempts. No assumption restricts more than the code does. `MaxAttempts \in
1..5` is the code's clamp, and that the file names of a playlist differ is what
`parsePlaylistItems` checks of the positions they begin with
(`PayloadAssumption`). `StampAssumption` asks for six stamps, because up to five
tokens are in use when a new one is issued. `NameAssumption` and `UserAssumption` say
that the root is no folder's name (`createFolder` refuses it) and that one
account has one role. `LibraryAssumption`, `PlaylistAssumption` and
`PreviewAssumption` only say of which kind each constant is.

Some promises of the libraries hold only while calls come one after the other.
Whether they overlap is a variable that the initial state chooses and no step
changes (`overlap`, `together`), and so the theorems say both what holds of
overlapping calls and what needs them apart. MediaLibrary's `working` is chosen
in the same way: any set of operators and administrators.

| Module | Theorem | States |
|---|---|---|
| `CommandDeliveryProofs` | `AnyClientTypes`, `AttemptsMonotonic` | types; no step takes an attempt back |
| | `GivenUpExhausted` | `AnyClientSpec => GivenUpOnlyWhenExhausted` |
| | `OneDispatcher`, `OneDocument` | `AnyClientSpec => []SingleDispatcher`, `AnyClientSpec => []CreatedOnce` |
| | `TypeCorrect`, `NoResultLost` | `Spec => []TypeOK`, `Spec => []ResultNeverLost` |
| | `QueuedCanBeClaimed`, `NoneStranded` | `Spec => []QueuedIsClaimable`, `Spec => []NoStrandedCommand` |
| | `ImplementsLifecycle` | `Spec => LifecycleSpec`: the pipeline implements the abstract specification |
| `CircuitBreakerProofs` | `TypeCorrect`, `ProbeAlwaysUnderWay`, `ClosedBelowThreshold`, `ProbesOnlyAfterReset` | the breaker is never wedged; the last branch of `canExecute` is dead |
| `PairingProofs` | `TypeCorrect`, `CredentialKept`, `TransfersThroughUnpair` | an owned device has a credential and changes hands only by being unpaired |
| | `SessionTypeCorrect` | `PlayerSession`'s `Spec => []TypeOK` |
| | `FailuresKeepPairing` | `Spec => NeverUnpairedByFailure`: only a reset, a reinstallation or a lapse in the backend unpairs the player |
| `PlayerContentProofs` | `SyncTypeCorrect`, `RowsKeepFiles`, `RowsMeanTheirFiles` | a row has a file after any crash, and its own file without one (`SyncSpec => []RowsMatchFiles`) |
| | `LoopTypeCorrect`, `CurrentIsShown` | `PlaybackSpec => []ShowsCurrentPlaylist`: once no reload is due, the loop plays the stored playlist |
| `ContentLibraryProofs` | `TypeCorrect`, `VersionsNameContents` | `Spec => []VersionNamesContent`: a version a screen shows was written under that number, also when calls overlap |
| | `RestIsTrue` | `Spec => []LibraryAtRest`: what holds whenever nobody is at work |
| | `WorkIsKept` | `Spec => NobodyLosesWork` |
| `MediaLibraryProofs` | `StorageTypes`, `MediaStay` | `MediaSpec => []MediaStayReachable`: media, files, shadow rows and folders stay together |
| `SchemaMigrationsProofs` | `TypeCorrect`, `LedgerTrue`, `DoneComplete` | `schema_migrations` says what was applied; success means complete |
| `DashboardProofs` | `SocketTypes`, `LeftForGood` | nothing of the fleet socket survives unmounting |
| | `PreviewTypes`, `PreviewStored` | `PreviewSpec => []PreviewIsStored`: the pointer names a stored file, and no other file stays |

Every property of `commands_safety`, `player_safety` and `library_safety` is
proved, and the refinement of `commands_live`. The proofs follow these arguments:

**Handlers.** Types alone are not inductive in the command service, because a
handler's next step uses the command, result or socket it was given. `HandlersOK`
says for each `pc` what the handler holds. `ServiceInv` is preserved by every
step of the service, whoever is at the other end.

**Turns** (`OneDispatcher`, `QueuedCanBeClaimed`). A queued command passes
through many hands: the timer of its last dispatch, the callback, a replay, a
dispatch. `TurnsOK` says that at most one handler has the turn of a command
(it emits, or it is a timer callback before its write), and that this handler is
alone: the command is not queued and no timer is armed for it. It adds that a
requeue under way has an attempt left. `SingleDispatcher` and
`QueuedIsClaimable` follow. Neither is inductive by itself, since both depend on
what a timer that has not fired yet will do.

**GivenUpExhausted.** The callback decides before an await. `ExpiresExhausted`
says a command whose handler is about to expire it still has no attempt left. It
holds because attempts never shrink, and that needs `AbsentUntried`: a document
that does not exist has no attempts.

**NoResultLost.** The player drops a result on an `accepted` packet, so the
invariant follows the packet back to its cause. `PacketsOK` says such a packet
exists only for a command that has ended. `AcksOK` says the handler about to
send one has seen or written a terminal status. `TerminalHasEnded` says a
terminal document is in `ended`. The invariant speaks of `ended` and not of the
current status, because a status may be overwritten.

**NoneStranded.** `Watched` says who will look at a queued command while the
room is occupied: a handler that dispatches it, a connection before its replay,
or a replay that has it in its list. `ReplaysOK` adds that a replaying
connection's socket is known, so that the room cannot become occupied without a
connection that has still to replay.

**ImplementsLifecycle.** The refinement needs to pay for every start of a
command with an attempt. `RunsPaid` says that the executions, the callback under
way, the dispatches in flight and an emission about to be made are together no
more than the attempts of the document. Dispatches in flight are counted in the
packet sequence, and two lemmas say how appending and taking a packet change the
count. `TriedOK` says a command with a timer or a turn was attempted, and
`ReportsOK` that a result comes from an execution. `StepMaps` then maps each
step of the pipeline to a step of `CommandLifecycle` or to none.

**Breaker.** `FlagIffHalfOpen` (the probe flag is set exactly while the circuit
is half open) is kept beside `HalfOpenHasProbe`, because the flag alone does not
say that somebody will report.

**Pairing.** `CodesHaveProofs` and `HandlersHaveProofs` say that whatever a
handler will save as a credential is one. `ClaimsAreHeld` says a claim belongs to
a confirmation that has not answered.

**Migrations.** `AppliesUnrecorded` and `PassedIsRecorded` say that what a runner
has looked up stays true until it records, because nobody else changes the table
while it holds the lock.

**ContentSync.** A directory *serves* the table if it has a file for every row,
and, as long as nothing was restarted, the very file. `DiskInv` says which
directory serves at each point of a sync: the active one, except between the
renaming of the old generation and the commit of the new rows, when it is the
backup. A recovery finds one of the two (`Recoverable`), and keeps one that
serves. `RowsHaveTheirFiles` shows that a playlist with one medium at two
positions loses a row but no file.

**PlayerSession.** `SessionInv` has three parts. `EndpointsInv` is the invariant
of `Pairing`, which the session's own requests keep because they are requests
the endpoints allow. `PlayerOK` types the player and relates its parts: it is
paired exactly while it holds a token, and has a socket exactly while the socket
has one. `HistoryOK` carries the reason of an unpairing from where it arises to
where it takes effect. An answer against the player (`VerdictsMeanLapsed`), a request
for a pairing code (`CodesMeanLapsed`) and an empty store (`StoreBacksState`)
each mean that the pairing had lapsed in the backend, and without a lapse the
device is owned with this very credential (`LapsedOK`). A reset stops the loop
(`ResetStopsLoop`). None of this is visible in the step that unpairs, and the
answer it acts on may be much older.

**Playback.** `PlayInv` says that an index is inside its list wherever the loop
uses it (`InList`), and that the loop plays the stored list unless a reload is due
or under way (`InCurrentList`). The count of missing files stays below the
length of the list while an item is being looked for, or the loop could leave
its list.

**ContentLibrary.** `IInv` holds however calls overlap. `HistoryOK` says that the
document's version is the length of the history of what was written, `CallsOK`
what a call that is parked at an await may still believe, `DevicesOK` that what
was pushed was written under its number, and `CalmOK` that a connection which
nothing has disturbed pushes what the document holds now. `LibraryAtRest` is far
from inductive: each of its parts is broken while a call is under way. `SingleInv`
names the call that will mend it, for calls one after the other: a stale app in a
playlist has a call that renews it (`AppsRenewed`), a deleted playlist on a
device a call that clears it (`AssignedLive`), a screen that shows an older
assignment a call that tells it (`AssignedTold`). `Knows` says that what such a
call has read is still so, which is what overlapping calls break. When nobody is
at work no call is left to be named, and the rest follows.

**MediaLibrary.** `IInv` holds for overlapping requests: a file in the storage
belongs to a medium or to a request that will store or remove it (`FilesOwned`,
without a crash), and no request that has not stored its medium shares a number
with one that exists (`UploadsOK`). `SerialInv` holds for requests one after the
other. The rows follow the media except for a request that is late with its own
row (`RowsOK`). Where folders are renamed, the rows are what the same renaming
makes of them. With one role at work, a medium lies in a folder its owner sees,
or a request that is moving folders will put it there (`FoldersOK`). A step
outside of these requests is shown to leave media, rows and folders alone by
three lemmas (`LoneTurn`, `LoneHeld`, `LoneStays`), which every action then uses.

**ScreenPreview.** The pointer names a file because an upload removes only the
file its own update has replaced. `RemovesItsOwn` says why that file is nobody
else's: it is in the store, the pointer has left it, no other upload will remove
it, and no upload before its publication has its name. `PointerIsPublished` and
`StoredIsThere` keep that true when the next upload moves the pointer. That one
file remains needs the opposite direction. `Accounted` says whose every file is:
of an upload that has yet to move the pointer, of the pointer, or of an upload
that will remove it. The history variable `orphaned` is set where a file is left
for good: by a restart or a failing update between storing and removing, by a
removal that fails, and by a change of the tenant.

**FleetSocket.** The page is told of a connection only while it has a socket
(`ToldOfASocket`).

**Only model-checked:**

- liveness (`*_live`), because TLAPS does not reason about fairness and
  `ENABLED`;
- the properties of `PlayerUi`, `Presence`, `ShadowSync`, `Accounts`,
  `ScreenSettings`, `FleetView`, `CommandPolling` and `Ops` (`BackendTypeOK` and
  the groups `ShadowReportsAreTrue`, `PagesAreTrue`, `VerdictsAgree`,
  `TenantHoldsTogether`, `ScreensFollow`), and of `ScreenPreview` what the page
  shows;
- `ContentSync` with commands that remove files, about which only
  `EventuallyShown` says something. `RowsHaveFiles` does not hold then: the
  directory is removed before the rows are.

## What is not modelled

- **Several backend processes**, except in `Presence` and the caches of
  `Accounts`. `recoverPendingCommands` of one would requeue commands another is
  waiting for.
- **Batch limits** of recovery (5000, at most 10000) and replay (100, at most
  500), and results over 256 KB, which the player's store does not keep.
- **Time** in the command modules: a timer may fire at any moment after it was
  armed, and commands in `Expirable` may be over a day old at any reconnect.
- **What a command does.** An execution is its end. Those whose effect matters
  are actions of `ContentSync`, `Playback`, `PlayerUi` and `ScreenSettings`.
- **The rendering of apps** (`apps.route.ts`, RSS, QR codes), **previews of
  layouts**, the restaurant menu editor: functions from data to HTML.
- **Telemetry queries, metrics, diagnostics, audit exports:** reading only.
- **Maintenance scripts** other than the migrations, the repair and the checks:
  run once, by one person.
- **Validation, file type detection, size limits, rate limits.** Each depends
  on one request.
- **Deployment.**

## Plan

1. Proofs for the next components: `PassedParityIsTrue` and `RowsAreVersions`
   (`ShadowSync`), the screen that follows its document (`ScreenSettings`).
2. More of the code: device removal beside commands under way, several backend
   nodes in `CommandService`, the maintenance scripts that write.

## Running

`tlc -config commands_safety.cfg MCCommands` checks a run. `PROJECT.json` names
the module of each. A run takes between half a minute and four minutes with two
workers. `tlapm CommandDeliveryProofs.tla` checks the proofs of a module, in
one to six minutes for the command, library, content and pairing modules and in
seconds for the others.
