# CherryPlay: a TLA+ model of the party core, its desktop and its viewers

CherryPlay runs dance parties. A DJ's desktop application (`CherryPlayList`, Electron/TypeScript) plays
music, or follows the AIMP player through a native plugin (`CherryPlayAimpPlugin`, C++), and streams the
playback state to a server (`CherryPlayServer`, ASP.NET/C#), which keeps each party in a database and
relays it over SignalR to the guests' web viewer (`CherryPlayWeb`, React). Administrators and organizers
also change parties through a REST API.

This directory models the parts of the system whose correctness depends on the order in which things
happen:

- on the server, what becomes of a party's stored session, its lifecycle, its card and playlist while
  organizers connect, disconnect and publish, administrators intervene, parties are created, edited
  and deleted, and the server restarts;
- on the desktop, how it connects, starts and ends sessions, publishes and recovers; how it is fed by AIMP;
  how it saves projects; how it undoes edits;
- in the browser, how a viewer's page follows all this through broken connections and late answers.

TLC checks the models on small instances; TLAPS proves most of their safety properties - of the server's calls,
the hub, the catalogue, the viewer, the desktop's streaming, its saving and the AIMP bridge - for every value of
the constants.

- [Inventory](#inventory): the system's components and what makes each correct
- [Plan](#plan): what is done and what comes next
- [Modules and code](#modules-and-code): state and actions against the source
- [Runs](#runs), [Bounds](#bounds), [Fairness](#fairness)
- [Proofs](#proofs)
- [What the checks found](#what-the-checks-found)
- [What is abstracted or left out](#what-is-abstracted-or-left-out)

## Inventory

Paths are relative to `src/`.

| Component | State | Operations | Interacts with | Hard because | Correct when | Module |
|---|---|---|---|---|---|---|
| Organizer connection tracker (`CherryPlayServer/Infrastructure/OrganizerConnectionTracker.cs`) | two dictionaries connection -> party and party -> connections, the time each party lost its last organizer | `RegisterOrganizer`, `TryRemoveOrganizer` (any / expected party), queries | called by the hub, read by the administrator's commands and the display status | a connection can be re-joined, moved to another party, or removed after it was moved; the process can restart | the dictionaries are inverse; a mark means no organizer; no connection outlives its disconnect | `OrganizerTracker` |
| Party activity coordinator (`Core/Services/PartyActivityCoordinator.cs`) | 256 semaphores, chosen by a hash of the party id | `ExecuteAsync` | wraps every hub and administrator operation | two parties share a semaphore; every way out must release it | mutual exclusion per party; every call returns | `PartyCommands` |
| Playback session (`Core/Services/StreamingService.cs`, `Core/Entities/PlaybackState.cs`) | one session row per party | start, end, reset, position, full state | read-modify-write of the row through `EfStreamingRepository` | each operation awaits between its read and its write | no update is lost; only a start turns a session on | `PartySession`, `PartyCommands`, `SessionObject` |
| Administrator commands (`Core/Services/AdminPartyCommandService.cs`) | lifecycle and visibility columns, session row | `SetLifecycleState`, `ResetSession`, `SetCatalogVisibility` | same coordinator; asks the tracker | check, then act | never acts on a party that is on air | `PartyCommands`, `PartyCatalog` |
| Party service (`Core/Services/PartyService.cs`, `EfPartyRepository.cs`) | the party table | create, update, delete, lifecycle transition, playlist, metadata | REST; deletes the session row | outside the coordinator; whole rows are read and written back; a limit and a unique code span several rows | codes are unique, the limit holds, no edit brings an older value back | `PartyCommands`, `PartyCatalog` |
| Party hub (`Hubs/PartyHub*.cs`) | SignalR groups, one grace task per disconnect | join, leave, the five session operations, notifications | everything above; viewers | announcements are computed and sent outside the coordinator; grace tasks overlap | viewers end up with the server's status; they learn that the organizer went offline | `PartyHub` |
| Display status (`Core/Services/PartyDisplayStatusService.cs`) | none | `Compute` | hub, queries | depends on four sources read at different times | agrees with what is announced once all is quiet | `DisplayStatus` |
| Streaming orchestrator and SignalR client (`CherryPlayList/src/shared/streaming`, `services/signalRService.ts`) | config, generation counters, attempts, timers, promises; the connection | start, stop, teardown, syncLiveSession, recover, reconnect, publish | stores of the desktop; the hub | every method awaits; a newer call makes an older one's result stale | no stale result takes effect; an ended start leaves no session on the server; a running orchestrator is never stuck | `StreamingOrchestrator` |
| AIMP bridge (`CherryPlayAimpPlugin/src`, `CherryPlayList/electron/aimp/service.ts`) | two snapshots, request and dirty flags, a pipe, the service's connection state | collecting, dialing, handshake, snapshots, heartbeat, goodbye; replacing and refusing clients | AIMP's main thread, the orchestrator's AIMP source | three threads and another process, each of which may end or restart; a handshake with a timeout | the desktop's copy catches up and is of one piece; the plugin can be unloaded (two ways in which it cannot are [below](#what-the-checks-found)) | `AimpBridge` |
| Project files (`electron/ipc/project.ts`, `AppHeader.tsx`) | a `.cherry` file, copies of tracks, the dirty mark | save, save as, portable package, load | file system, undo history | a save is a dozen steps, each may fail; names of copies are used again | a portable project always opens with its own audio; clean means saved | `ProjectSave` |
| Documents and undo (`globalHistoryStore.ts`, `shared/commands`, `projectStore*.ts`, `useDragDropExecutor.ts`) | a list of items per workspace, one history for all | edits, moves between workspaces, groups, undo, redo | drag and drop | commands speak of ids and positions and are right in one state of the document only | undo and redo walk through the documents as they were | `UndoHistory` |
| Web viewer (`CherryPlayWeb/src`) | last state, connection, two timers, fetches | connect, join, apply messages, ask, reconnect, retry | hub, REST | three ways back after a break; answers that overtake messages | it is in the group when connected, and shows the party when nothing is on its way | `PartyViewer` |
| Desktop playlist sync (`partyPlaylistSync.ts`) | debounce timer, fingerprint | upload of the playlist | REST | coalesced uploads, failed ones | the last playlist wins | none |
| Accounts (`AuthService.cs`, `PasswordResetTokenHelper.cs`), OAuth and desktop codes | users, tokens, codes with expiry | register, log in, reset, exchange | mail, browser, desktop | two requests, a token redeemed twice (`AuthService.cs:244`) | single use | none |
| Themes, entitlements, queries | tables | reads and writes | REST | little | | none |
| Audio playback of the desktop, layout; React library; deployment | UI state, media elements | | | | | none |

The hazards these parts are exposed to, each at its line with the properties that cover it, are the
list `hazards` of `PROJECT.json`.

### How the parts work together

Every organizer call of the hub and every administrator command enters
`PartyActivityCoordinator.ExecuteAsync(partyId, ...)`: it waits for the party's semaphore, runs the
operation (several awaits on the database) and releases the semaphore in a `finally`. The tracker
lives in memory, the party and the session in the database. After a hub operation the handler goes on,
*outside* the coordinator, to announce what happened to the party's viewers: it reads the party and
the session again, computes the display status and sends it. `OnDisconnectedAsync` removes the connection
through the coordinator, announces that the organizer is offline and starts a task that announces the
status once more when the grace period is over. The organizer's REST calls - creation, edits, playlists,
deletion and lifecycle transitions - enter no semaphore at all.

On the desktop the orchestrator takes the playback state from one of two sources, the desktop's own player or
AIMP. AIMP's state comes over a named pipe from the plugin. Whatever the DJ does to the playlists goes through
the undo history; saving is done by the main process.

## Plan

1. **Core (done)**: `PartySession`, `OrganizerTracker`, `PartyCommands`, `SessionObject` and
   `PartyCommandsRefinement`.
2. **Announcements (done)**: `DisplayStatus` and `PartyHub`, which composes `PartyCommands` with the announcements
   and grace tasks of the hub; `PartyHubProofs` for both: everything proved of the calls holds of the hub as well.
3. **Desktop streaming (done)**: `StreamingOrchestrator`. It takes what the hub makes of a session from
   `PartySession`, so a start that timed out and was carried out all the same shows in the session.
4. **Catalogue (done)**: `PartyCatalog`.
5. **Viewer (done)**: `PartyViewer`, over `DisplayStatus` and `PartySession`.
6. **Desktop documents (done)**: `UndoHistory`, `ProjectSave`.
7. **AIMP (done)**: `AimpBridge`.
8. **Proofs (done)**: `PartyHubProofs`, `PartyCatalogProofs`, `PartyViewerProofs`, `StreamingOrchestratorProofs`, `StreamingSessionProofs`,
   `ProjectSaveProofs`, `UndoHistoryProofs` and `AimpBridgeProofs`, each with the inductive invariant of its component.
   `PublishedIsLatest`, `LiveSessionIsReal` and `StoppedMeansEnded` have one more each, on what the unanswered wire
   makes of the party's session.
9. **Not planned**: single-use codes and reset tokens, the playlist sync's debounce, the audio engine.

## Modules and code

### PartySession

A session record keeps what decisions depend on: `active`, `mode`, `status`, whether `SessionStartedAt` is set
(`started`), whether any playback marker is set (`marks`). `Started`, `Ended`, `Cleared`, `Positioned` and
`Published` are the five `...CoreAsync` methods of `StreamingService`, `Blank` and `ChangedByReset`
`PlaybackState.ResetForAdministration`. `Started` takes the one thing it does not know, whether
`SanitizeRestoredState` keeps the markers, as a parameter. `Published` shows a detail worth noticing: the
DTO has no `IsActive`, so a stored session keeps its own, and one that never existed gets the entity's
default, true.

### OrganizerTracker

The three dictionaries as functions; a missing key is `NoParty`, the empty set or `"never"`. Each method holds `_gate`
throughout and is one step. The time stamp of a disconnect is abstracted to the one question asked of it:
`"within"` the grace period or `"past"` it, and `GraceElapses` is the passage of time.

### PartyCommands

| Code | Model |
|---|---|
| a call in flight, at one of its awaits | `req[x]`, a record with the operation, the party, `at` and what it has read so far |
| `_locks[hash & 255]` | `owner[l]`, `LockOf` |
| party and session rows | `lifecycle`, `deleted`, `session` |
| SignalR runs a connection's calls one after the other | a caller has at most one call; `Disconnect` waits for it |
| `EnsurePartyOwnershipAsync`, then `ExecuteAsync` | `HubCall`, `Acquire` |
| `GetPartyByIdAsync` / `GetMutablePartyAsync` with their early returns | `ReadParty`, `PartyDeclines` |
| `GetSessionStateAsync`, refusals | `ReadSession`, `SessionDeclines` |
| `SetSessionStateAsync`, which inserts a missing row and fails if the row goes away meanwhile | `WriteSession`, `RowVanished` |
| the administrator's broadcast, awaited inside the semaphore | `Notified` |
| `JoinPartyAsOrganizer`, `OnDisconnectedAsync` inside the coordinator | `Join`, `Leave` |
| `TransitionPartyLifecycleAsync`, `DeletePartyAsync` | `TransitionCall` - `WriteTransition`, `DeleteCall` - `DeleteSession` - `DeleteParty` |
| the process ends and starts again | `Restart`: memory is empty, the database is kept |

The write of a row and the release of the semaphore that follows without an await are one step.

### SessionObject and PartyCommandsRefinement

`SessionObject` says what the calls promise together: each operation happens at once on the stored session; an
administrator's only while the party is not on air; a party whose deletion has begun (`doomed`) promises
nothing more. `PartyCommandsRefinement` maps `online` to the tracker and `doomed` to a deletion past its first
step.

### DisplayStatus and PartyHub

`Compute` is the decision table of `PartyDisplayStatusService.Compute`. `PartyHub` adds to every action of
`PartyCommands` what its handler does next: a task per handler (`online`/`offline` - `party` - `session` - `send`) and
one grace task per connection slot (`wait` - `party` - ...). `shown` and `announced` are the last events sent to a party's
group; SignalR delivers a group's events in the order they are sent, so they are also what a connected viewer
has.

### StreamingOrchestrator

| Code | Model |
|---|---|
| fields of `StreamingOrchestrator` and of `SignalRService`, the promises and continuations they hold | the record `desk` |
| a method, up to its first await | an operator from desk to desk: `Connect`, `Recover`, `TakeDown`, `EndSession`, ... |
| the event loop: one callback at a time | a step runs from one await to the next |
| `doConnectAndSubscribe` | `desk.step`: `checking` (party exists?) - `dialing` - `joining` - `starting` - `syncing` |
| `generation` counter compared after an await | what belongs to an older generation is marked `fresh = FALSE`, or forgotten where the code returns without an effect (`Superseded`, and `Orphaned` for an invocation) |
| `sessionStartAttempt`, `sessionStartInFlight`, `activeSessionAttempts`, `handledSessionStartAttempts` | `lastAttempt`, `inFlight`, `active`, `handled`; `late` are the starts whose end waits for a newer start |
| `lifecycleTail`, the queue of teardowns | `desk.lifecycle`; its head goes `queued` - `waiting` (for a start) - `ending` - `ended` - `resetting` |
| `HubConnection.invoke` and its promise | an `Invocation` in `desk.wire`, with who waits for it |
| the connection: preparing (`getApiConfig`), starting, connected, reconnecting | `desk.link`; a closed connection is `"none"` |
| what the hub stores, and for which party it has this connection down | `session`, `joined` |
| `isLiveSessionActive()` of the two broadcast sources | `sourceLive` |
| `publishFullState`, coalesced and repeated while the source changes | `SourceChanges`, `Publish` invocations, `desk.coalescing` |
| hooks: the store's subscription, then `syncLiveSession` | `GoLive`, `StopLive`, `SyncAimp`; a project's replacement while the player is on, `NewProject` |
| `withTimeout` (8 s) | `DialTimesOut`, `JoinTimesOut`, `StartTimesOut`, `PublishTimesOut` |

*The wire.* The hub runs a connection's invocations one after the other (`AddSignalR` at `Program.cs` sets no
`MaximumParallelInvocationsPerClient`), so those under way are a sequence, answered in order. A refusal by the hub arrives as
a message and not as a rejection of the promise. When the connection goes, all promises are rejected while the
hub has carried out some first part of them (`CloseConnection` and `CarriedSome`, recursive functions along the
wire): a start may have failed here and worked there. That is so when the network drops the connection (`ServerLoses`) and when
a teardown disconnects (`Respond`). A start that has timed out stays on the wire: its promise is given up, its answer comes.

*Joining two steps.* When a running orchestrator gets another configuration, the React hooks run the teardown of
the old and the start of the new one in one flush when the party changes, and call `start` alone when the source does: `Start(c)` and
`Stop` followed by `Start` are both behaviours of the model.

*Scenarios.* A behaviour has one scenario: what users and the network may do in it, how often altogether, and to which
parties. A property that the code keeps only in part is claimed for the scenarios in which it does.

### PartyCatalog

| Code | Model |
|---|---|
| table `parties` | `rows`; `date` stands for every column `ApplyTo` writes |
| a request between its reading of the party and its write | `req[r]`, with its own `copy` of the row |
| the row in the request's `DbContext`, as the repository's own SELECT found it | `tracked`, read by `Find` |
| `SaveChanges`: an UPDATE of the columns that differ from what was read | `SaveChanges`, `Merged`, `Sent` |
| `CreatePartyAsync` | `BeginCreate` - `TakeLockAndCount` (with the limit) - `InsertParty` |
| `UpdatePartyMetadataAsync` | `BeginMetadata` - `TakeLockAndCount` - `Find` - `WriteLimited` - `WriteListed` with the limit, `Find` - `WriteMetadata` without |
| `UpdatePartyPlaylistAsync` | `BeginPlaylist` - `Find` - `WritePlaylist`: the whole copy, no lock |
| the administrator's `SetCatalogVisibilityAsync` | `BeginVisibility` - `Find` - `WriteVisibility` |
| `pg_advisory_xact_lock` per organizer | `lock` |
| the unique index on `ShortCode`, which covers deleted rows; the lookup, which does not | `CodeFree`, the guard of `BeginCreate` |
| `PartyLimits:EnforceFuturePartyLimit`, read from the settings | the constant `Enforce` |

A request reads its party twice: the service reads it without tracking and changes that copy, the repository finds it again and sets the
copy's values on what it found. EF then sends the columns that differ from the second reading, whatever is stored by then. An
edit that names the visibility writes twice in one context (`EfPartyRepository.cs:176`, `200`): the second SELECT gives back the instance
of the first, as it was after the first write (`WriteListed`). The card is therefore not sent again, and the visibility is not sent
when the instance has it already, even if an administrator has changed the row in between.

`shown` and `slipped` are ghosts: the requests whose party has been, at some moment since they began, what they ask for, and
whether a write outside the lock has put a party into the future.

### PartyViewer

| Code | Model |
|---|---|
| `PartyView`, `usePartyState` | `page`: status, whether there is playback, the two timers, the playlist, `loading`, `error`, `reachable`, the two-second throttle |
| `useSignalR` | `hook`: the status it reports, how far `connect()` is (`dial` - half a second, `settle` - `join`), whether the first attempt was made |
| `signalRService` | `net`: the link (`off`, `up`, `retry`), `isConnected` (`flag`), `currentShortCode` (`code`); `group` is on the server |
| both directions of the connection | `calls` to the server, `inbox` to the page; lost with the connection (`Drop`) |
| `PartyHub.Viewer`: `JoinPartyAsViewer`, `RequestFullState` | `Read` - `AnswerJoin` or `AnswerState`; an exception becomes a message, `RefuseJoin` |
| automatic reconnect, given up after its retries | `Reconnected`, `GiveUp` |
| `checkConnection` every second; a new attempt every thirty | `Poll`, `PeriodicConnect` |
| `loadPlaylist`, silent or not | `fetches`, `FetchDone`, `FetchFails`, `TwoSecondsPass`, `Retry` |
| an operation of the organizer with its messages | `Organize`, `OrganizerJoins`, `OrganizerLeaves`, `GraceEnds`, `Complete`, `SavePlaylist`, one step each |
| `mergePartyViewerStatus`, `resolveShowPlayerByStatus` | `ViewerStatus`, `ShowsPlayer` |

*Races.* A behaviour has a set of races (`allowed`) that may happen in it; each is a place where the code is known to
leave the page behind, so that what it does otherwise can be claimed in full. They are listed at the constant
`Race`; what each breaks is said [below](#what-the-checks-found).

### UndoHistory

| Code | Model |
|---|---|
| `ItemsState` of a workspace | `docs[w]`: the root list and the tracks of each group |
| `useGlobalHistoryStore`: actions, index, trimming | `history`, `historyIndex`, `Push` |
| a composite action and its parts, a command per workspace | a sequence of `[workspace, command]` |
| the commands of `shared/commands` | `Execute`, `UndoCommand` by `type`, over the positions they recorded |
| edits of the stores and of drag and drop | `AddItem`, `RemoveItems`, `RemoveSelectedItems`, `CreateGroup`, `UngroupGroup`, `MoveWithin`, `Transfer` (move or copy between workspaces) |
| `undo`, `redo`: part by part, stopping at a part whose store is gone | `Undo`, `Redo`, `Applied`, `ApplyAll` |
| `slice`, `splice`, `filter`, a stable `sort` | `Take`, `Drop`, `Splice`, `Without`, `ByIndex`, with places that may be beyond the end |
| a collection's panel is deleted; a project is opened | `DeleteCollection`, `NewProject` |

`timeline` is a ghost: the documents after each action of the history, as they were the first time. `torn` says that an undo or redo
stopped after its first part, `unrecorded` that `removeSelectedItems` recorded a command that does not match its edit.

### ProjectSave

| Code | Model |
|---|---|
| a running handler of `project:save` or `project:savePortableAs` | `saves[i]`, at `previous` - `check` - `copy` - `named` - `open` - `write` - `sweep` - `answer`, or `stage` - `rename` |
| tracks of the playlist, absolute paths | `project`: pairs of a song and the path it is at |
| `resolveUniqueDestPath`: `01.mp3`, `01_2.mp3`, ... | `ChooseName`, `FirstFree`; a copy is its number |
| `fs.copyFile`, `writeFile` in place, rename of a staged folder | `CopyFile`, `OpenFile` (the file is `Torn`) - `WriteFile`, `StagePackage` - `RenamePackage` |
| copies the previous `.cherry` used and the new one does not | `ReadPrevious`, `Sweep` |
| the answer: `resetDirty`, paths; after a portable package `setPortableMode(true)` comes after `resetDirty` and marks the project dirty again (`AppHeader.tsx:396-403`, `projectStore.ts:1160-1165`) | `Saved`; `SaveFails` leaves the renderer alone |
| the menu is disabled while a save runs (`isSaving`), the dialog of Save as is modal | `UserMayAct`: only during a plain save may the user go on working |
| `merge` of the persisted store after a restart | `Restart` |

*Disturbances.* `allowed` holds what may happen in a behaviour besides saving and editing in turn: faults, a user who goes on
working during a save, undo across saves, a second project in the folder.

### AimpBridge

| Code | Model |
|---|---|
| AIMP: playlists, the active one, what plays, a volume or position that changed | `aimp`; `tick` is the last |
| the members under `state_mutex_` | `plug`: observed playlist, two snapshots, dirty flags, requests (`want`), stop flags, goodbye reason |
| `SnapshotLoop` | `TakeRequests` - `Execute` - `ReadAimp` (- `KeepSnapshot`) for each part of the request |
| `ExecuteInMainThread(..., WAITFOR)`; without `IAIMPServiceThreads`, directly | `onMain`; on the main thread AIMP stands still while it is read, beside it AIMP may change between reading and keeping |
| `TransportLoop` | `Dial` - `Accepted` / `Rejected` - `Nap` - `Wake` - `SendList` - `SendPlay` - `SendHeartbeat`; `WriteFails`, `Goodbye`, `StopDialing` |
| 500 ms between playback snapshots | `trans.cool`, `CoolDown` |
| `WriteFile` without a timeout, over the pipe's own buffer | `Write` waits while the pipe is `Full`: `Buffer` lines nobody has read |
| `Finalize` on the main thread: two `join`s that pump no messages | `Finalize` - `StopTransport` - `Finalized`; `MainServes` only before the first, so a task still queued then is never run |
| a desktop that hangs, and is ended by its user | `Hangs`, `DesktopEnds` |
| a pipe instance | `pipe[s]`: both ends, the lines on their way, the answer to the hello |
| `AimpIntegrationService` | `app`; each callback of its sockets and its server is an action |
| `processProtocolLine`, every check in its order | `ProcessLine`, `RouteMessage` |
| `closeClient`, `resetDisconnectedState` | `CloseClient`, `StopListening` |
| `reconcilePlaybackSnapshotWithPlaylist` | `Reconcile` |

`setup` says how a behaviour is set up: whether both sides speak the same version, whether collecting runs on the main
thread, what AIMP does at the start, and how many changes in AIMP and how many faults may happen. A fault is a killed or ended AIMP,
its start, a broken socket, a failed listen, silence for fifteen seconds, a desktop that hangs, or a switch to the other source.

## Runs

| Run | Instance | Properties | Shows |
|---|---|---|---|
| `live_party` | 2 connections, 1 party, administrator, REST client, all operations, restarts (1.9 M states) | `CommandsTypeOK`, `AdminSparesLiveParty`, `NoLostUpdate`, `NoGhostOrganizer`, `OnlyStartActivates`, `SessionsAreAtomic` | the coordinator does its work against every interleaving with joins, leaves, deletions and restarts; the calls refine `SessionObject` |
| `two_parties` | 2 connections, 2 parties that share a semaphore, administrator, restarts (240 k states) | `MapsAgree`, `MarkMeansOffline`, `EveryCallReturns` | moving between parties keeps the tracker consistent; no way out of a call keeps the semaphore and colliding parties do not block each other |
| `organizer_offline` | 2 connections, starts, administrator's reset, completion by the organizer, staleness, restarts (402 k states) | `OfflineIsPending`, `OfflineReachesViewers` | overlapping disconnects, reconnects and grace tasks never leave viewers with "live" for ever |
| `streaming` | 2 parties, 2 sources, four scenarios of users, losses and timeouts | `NeverStuck`, `ConnectWaits`, `ReadyMeansJoined`, `PublishedIsLatest`, `LiveSessionIsReal`, `StoppedMeansEnded`, `ReadyWithLatest`, `Recovers`, `TeardownEnd` | the desktop is never left without an attempt, a timer or a working connection; ready means joined and published; a start that comes late does not end a newer session; teardowns end, and leave nothing on the air; it becomes ready by itself or gives the party up |
| `viewer` | one page, 2 operations of the organizer, 2 breaks, the races one group at a time | `ConnectedMeansJoined`, `QuietPageIsRight`, `LiveHasPlayback`, `NoPlayerOffAir`, `ComesBack` | however the connection breaks and comes back, the page returns to its group and, when nothing is on its way, shows the party as it is |
| `catalog` | 2 parties, 2 requests at a time, 1 playlist, limit enforced (468 k states) | `UniqueCodes`, `LimitHolds`, `VisibilityAsAsked`, `AnsweredIsShown` | overlapping edits of whole rows keep the codes apart, respect the limit where they take the lock, bring no older visibility back, and are not answered before they had their way |
| `catalog_unlimited` | 1 party, 2 requests at a time, 3 playlists, no limit (138 k states) | `PlaylistSurvivesEdits` | as the program is delivered, an edit of the card brings no older playlist back |
| `undo` | 2 workspaces, 4 tracks, 1 group, 4 edits | `UndoTypeOK`, `UndoRestores`, `NoItemTwice` | undo and redo in any order give back the documents as they were, also after trimming and with moves between workspaces |
| `save` | 2 songs, 2 project files, faults, undo, a shared folder | `CopiesExist`, `CopiesMatch`, `CleanMeansSaved` | a crash or a failure between any two steps of a save leaves a portable project with its own audio; without faults and edits during a save, a project that is not dirty is on disk |
| `aimp` | 2 playlists, 2 pipe slots, both versions, on and off the main thread (753 k states) | `PluginIsAccepted`, `StreamIsWhole`, `CopyCatchesUp`, `FinalizeReturns` | no flag is lost between the three threads; replaced, refused and stale clients leave nothing behind; two things alone keep the plugin from being unloaded, a task queued for the main thread and a full pipe that nobody reads |
| `lost_start` | 1 party | `LiveIsStarted`, violated | a disagreement between documentation and code, see [below](#what-the-checks-found) |
| `unsaved_edits` | one plain save, a user who goes on working | `UnsavedChangesAreDirty`, violated | the same |

The type invariants of `PartyHub`, `StreamingOrchestrator`, `PartyViewer`, `PartyCatalog`, `ProjectSave` and `AimpBridge`
(`HubTypeOK`, `StreamingTypeOK`, `ViewerTypeOK`, `CatalogTypeOK`, `SaveTypeOK`, `BridgeTypeOK`) are proved, and no run lists them.

Deadlock is checked in every run of the server's hub and commands, where somebody can always connect. The other runs switch
it off: there users, network and faults are bounded, and once nothing more comes the program rightly rests. That it
does not rest too early is `NeverStuck` and `Recovers` of the orchestrator, `ComesBack` of the viewer,
`CopyCatchesUp` of the bridge.

## Bounds

- *Connections*: two are enough to have one connection leave while another joins, starts or publishes, and to
  have two grace tasks overlap. A connection slot is reused for a new connection any number of
  times; in `PartyHub` only once its grace task has ended, which bounds the tasks.
- *Parties*: one where calls compete for one party, two where a connection moves or parties share a semaphore.
- *Administrator, REST client*: one call each in flight. Two administrators exclude each other by the same
  semaphore an administrator and a connection do.
- *Inputs*: one published state (playing, in session), lifecycle targets `Draft` and `Completed` (`two_parties`: `Ready`, which is declined as
  the party's present state; `organizer_offline`: `Completed` by the organizer); `started`, `marks` and all
  modes still vary through the operations.
- *Ops*: the operations used by a run, named in its configuration.
- `Permutations(Conn)` is a symmetry of `live_party`: connections are interchangeable, in `SessionObject` too, and the run checks safety only.
  `catalog`, `undo` and `save` use the symmetry of their parties, requests, codes, playlists, tracks and songs; they check safety only, too.
- No counter of the server's modules grows; they have no other bound.
- *Orchestrator*: what the code does by itself - attempts, retries, answers, timers - is not bounded; users and the network are, by the
  scenarios of `MCStreaming`: anything, four times, to two parties; to one party five disturbances without a source that
  stops, four without a failure, six starts, stops and sources going live. The hazards listed take two or three
  disturbances; one more of any kind fits on top. Attempt numbers stay below that bound by themselves.
- *Viewer*: `MaxOps` operations and `MaxDrops` breaks, two each; one break (`MaxRacyDrops`) in a behaviour with a race. Two
  are needed to break a connection that has come back. The run's races are none, `state` with `throttle`, `http`, and `refused` with `deaf`.
- *Catalogue*: two requests are enough for one to write between another's reading and writing; a limit of one for two to exceed it.
  `Enforce` is a setting of the server, so each of its values has a run. One playlist is enough
  where cards, codes and visibilities compete; three tell an older one from the one asked for. What `AnsweredIsShown` says of songs is left to its theorem.
  There are as many codes as parties, so a creation must meet a code that is taken.
- *Undo*: `MaxDepth` 3 keeps the history shorter than the four edits, so that it is trimmed; `MaxLength` bounds the items of a list. The code's own
  history is 50 actions deep. `MaxSelected` 2: two items can be clicked in the other order than they stand, the case that the sorting is about.
- *Save*: `MaxCopies` 4 names, more than two songs need, so that a name is used again only because it became free; one
  save at a time, since the menu is disabled while one runs (the keyboard shortcut is not, see below); one fault.
- *Bridge*: five setups; each has at most two of the faults and one change of what AIMP plays. `BeatMatters` sends a heartbeat only when
  it changes something: after a stale period, to find the pipe closed, or to fill a pipe that nobody reads. Two slots: one connection that
  lingers and its successor. `Buffer` 2: a snapshot fits, and two heartbeats fill the pipe.

The theorems below hold without any of these bounds.

## Fairness

`CommandsFairness` (and `HubFairness`): a call that can take its next step takes it (weak fairness: the thread pool
runs continuations, database calls return or fail), and a waiter of a semaphore is not overtaken for ever (strong
fairness: `SemaphoreSlim` queues its asynchronous waiters). Grace tasks run and time passes. No fairness is assumed of
arrivals, disconnects, restarts or staleness: nobody has to call anything.

`FairSpec` of `StreamingOrchestrator` has weak fairness of `Progress` alone: as long as a callback is ready, an answer is due or a timer is set, one of
them runs. It does not say which, and needs not: promises, answers and timers are independent and finite
between two disturbances. Nothing is assumed of users and failures, and as they are bounded, `Recovers` reads "once
failures cease". That the hub answers at all is the assumption behind `Respond`; when it does not, the
timeouts and losses of `Failures` stand for it.

`FairSpec` of `PartyViewer`: the server serves calls (`Server`), the browser delivers messages and runs timers (`Browser`), each fetch ends,
`connect()` goes on and the thirty-second timer starts it again (`Connecting`), an automatic reconnect either succeeds or is given up, and
the one-second poll runs. Nothing is assumed of the organizer, of the freeze and grace timers of the page, or of the network, whose
failures are bounded.

`FairSpec` of `AimpBridge`: both threads of the plugin are scheduled, the half second of `CoolDown` passes, `Finalize` goes on once what it waits for
is done, and the desktop's event loop runs each callback that is due unless the process hangs. A task queued for AIMP's main thread runs as long as that
thread pumps messages, which it does not while it is in `join()`. Nobody has to start or close AIMP, play anything or
select AIMP as the source.

`PartyCatalog`, `UndoHistory` and `ProjectSave` promise nothing that needs fairness.

## Proofs

Every invariant that a passing run checks is also proved, for every value of the constants; `OfflineIsPending` for
every value with a single party, as it is checked.

### The calls

`PartyHubProofs` proves of `PartyCommands`, for every number of connections, parties, administrators, REST clients and
semaphores, and every hash of parties to semaphores:

| Theorem | Statement |
|---|---|
| `TypesHold` | `CommandsSpec => []CommandsTypeOK` |
| `InvariantHolds` | `CommandsSpec => []IInv` |
| `AdministratorSparesLiveParty` | `CommandsSpec => []AdminSparesLiveParty` |
| `UpdatesAreNotLost` | `CommandsSpec => []NoLostUpdate` |
| `NoGhosts` | `CommandsSpec => []NoGhostOrganizer` |
| `TrackerMapsAgree`, `MarksMeanOffline` | `CommandsSpec => []MapsAgree`, `[]MarkMeansOffline` |
| `StartsActivate` | `CommandsSpec => OnlyStartActivates` |
| `CallsAreAtomic` | `CommandsSpec => SessionsAreAtomic`, the refinement of the atomic object |

Assumptions: the sets of callers are disjoint and contain neither `NoCaller`; `LockOf` maps parties to
semaphores; the inputs are of their types; the special values differ from the records they stand in for.

*The argument.* None of the properties is inductive alone. `NoLostUpdate` fails after an arbitrary step unless
one knows that two calls past the semaphore of one party are the same call; that is `Coordinated` (a call past the semaphore
owns it), which in turn needs `CallsAreTheirs` (which phases an operation has, so that a REST call in `"write"` is not
taken for a coordinated one). `AdminSparesLiveParty` needs `ConnectedIsCurrent`: `ResetSessionAsync` asked the
tracker one await *before* it read the session, and the answer is still good because a join needs the semaphore.
`NoGhostOrganizer` needs `CallersAreOpen`: a join in progress belongs to an open connection. `ArgumentsFit` carries what
an operation's snapshot and arguments are known to be. `IInv` is their conjunction.

*The lemmas.* `StepCases` splits the next-state relation once. `RequestSteps` says how a call can have changed if it is not over (it is
new, or moved on by one of its own actions), `CallEnds` how it ended, `OwnerSteps`, `SessionSteps` and
`TrackerSteps` what changes a semaphore, a session and the tracker. Each part of the invariant is then
preserved for the same reason everywhere: either nothing it speaks of changed, or the one who changed it
had to be the call itself. For the refinement, `DoomArises` and `DoomStays` say when a party's deletion begins, and one
lemma per kind of step finds the object's step.

### The hub

It also proves, for every number of connections, parties and administrators:

| Theorem | Statement |
|---|---|
| `HubImplementsCommands` | every behaviour of the hub, with its announcements and grace tasks, is one of `PartyCommands`; the theorems above therefore hold of the hub as it is composed |
| `HubTypesHold`, `HubInvariantHolds` | `HubSpec => []HubTypeOK`, `[]HubInv` |
| `OfflineStaysPending` | as long as no connection of a party joins another one, some handler or grace task of that party is still going to announce the end of its grace period |
| `OfflineIsAlwaysPending` | with a single party, `HubSpec => []OfflineIsPending` |

*The argument.* A handler's announcement has one place per connection, its grace task another, and
`OfflineIsPending` would be lost if a step started a task where one is still owed. `HandlerIsFree` (a call runs only
after the handler of the call before) and `GraceSlotIsFree` (no grace task where one may yet be started, which needs
`LeavingIsClosed`) say that this cannot happen. `AnnouncementsFit` and `ResetKnowsLifecycle` type what the
announcements have read. The hypothesis of `OfflineStaysPending` is the one that [the checks](#what-the-checks-found) show to be needed: a
connection that moves to another party leaves the first without any announcement.

### The catalogue

`PartyCatalogProofs`, for every number of parties (finite), requests, codes and playlists and every limit: `CodesAreUnique`
(`UniqueCodes`), `LimitIsKept` (`LimitHolds`), `VisibilityIsAsAsked` (`VisibilityAsAsked`), `AnswersAreShown` (`AnsweredIsShown`), `EditsKeepPlaylists`
(`PlaylistSurvivesEdits`), over `CatalogInvariantHolds` and `CatalogTypesHold`.

*The argument.* `RequestsFit` says that a granted request owns the lock and that only a creation is about a party
not yet stored, `CreatedOnce` that nobody else works on that party. `LimitHolds` says nothing between the count and
the write; `Granted` does: as long as nobody wrote around the lock, the party of whoever holds it fits under the limit. Its proof
counts: `Future` grows by at most the holder's party. `KnownIsShown` is what EF costs: a column is not sent because the
instance in the context has the asked value already, and then the request was as it asks at the moment that instance was read or
written. That is all that can be promised: an administrator who changes the row after that moment is not overwritten.

### The viewer

`PartyViewerProofs`, for every set of races and any number of operations, breaks and messages: `ConnectedPagesAreJoined`
(`ConnectedMeansJoined`), `QuietPagesAreRight` (`QuietPageIsRight`), `LivePagesHavePlayback` (`LiveHasPlayback`), `NoPlayerIsLeft`
(`NoPlayerOffAir`), over `ViewerInvariantHolds` and `ViewerTypesHold`.

*The argument.* The properties speak of a quiet page, the invariant of what is on its way. For each of status, playlist,
playback and timers (`StatusComes`, `ListComes`, `PlayComes`, `TimersFit`): either the last message under way that bears on it
says what is true of the party (`LastIn`), or none bears on it and the page already is right, or the full state is being
read (`Reading`), or it will be asked for after the group is joined (`WillAsk`). `ReadIsTrue` adds that what was
read stays true until it is sent, which is where the race `state` is excluded, `OneJoin` that a join is called once per
connection.

### Saving

`ProjectSaveProofs`, for every set of songs, files and copies and any number of saves, edits and faults: `PortableCopiesExist`
(`CopiesExist`), `PortableCopiesMatch` (`CopiesMatch`), `CleanIsSaved` (`CleanMeansSaved`), over `SaveInvariantHolds` and
`SaveTypesHold`.

*The argument.* The invariant is claimed scenario by scenario (`Without`), as the properties are. With one save at a time, the
name it chose is still free when it copies (`NameIsFree`) and its copies stay (`DoneExists`); with one project in the folder
(`OnlyCherry`), the sweep takes only copies that no document uses. `KnownTracksMatch` covers everybody who
still knows a track - files, the project, the undo history, the save itself - because the name of a swept copy is
used again. `SavesCarryProject` ties a running save to the playlist for `CleanMeansSaved`, which says something of plain saves and
loads: a package leaves the project dirty.

### The bridge

`AimpBridgeProofs`, for every playlist, every number of pipe slots, changes and faults and every size of the pipe's
buffer: `PluginIsNeverRefused` (`PluginIsAccepted`), `StreamStaysWhole` (`StreamIsWhole`), over
`BridgeInvariantHolds` and `BridgeTypesHold`.

*The argument.* `EndFits` follows one pipe instance from the transport thread to the service, whichever of its ends
is closed: until the hello has been read, it is the first line (`Unread`); after that only higher numbers follow
(`Rest`); nothing on the wire is above the number the thread last gave out (`Below`). That is what makes every check of
`processProtocolLine` succeed for a plugin of the same version. `AppFits` says the same of the service's side and carries
`StreamIsWhole`.

### Undo

`UndoHistoryProofs`, for any workspaces, tracks and groups and any depth of the history, lengths and number of edits:
`UndoTypesHold` (`UndoTypeOK`), `UndoRestoresHolds` (`UndoRestores`), `NoItemTwiceHolds` (`NoItemTwice`), over
`UndoInvariantHolds`.

*The invariant.* `UndoRestores` compares the documents with one entry of `timeline`; an undo leads to another entry, so the
invariant has to know that every action of the history, applied or not, fits its two entries. A composite action has parts for
several workspaces, and a workspace that is deleted keeps its parts in the history, so it is claimed per workspace:
`Leads` says that an action's parts take one workspace's document from a to b whatever the others hold. `WalkInv` asks it of each
action from its entry to the next and, with the parts reversed, back. Every entry is `Neat` besides (no item twice), for an
undo that speaks of places is right only in a document where each item has one place.

*The argument.* An edit keeps `WalkInv` if its parts match it (`Matches`, `PushKeeps`), whether the history is trimmed or
its undone end is cut off; undo and redo because the entry they lead to is known (`WalkKeeps`). That each edit matches is the
heart of it. `Restore`: to take a selection out of a list and put its items back at their recorded places, in the order of these, gives the
list; after k insertions the items put back are exactly the first k (`RestoreStep`). `MoveThere` is the same for a move within a
list, whose destination counts the places before the selection was taken out. `GroupUndone` and `UngroupUndone` are about
the group's tracks as one run of the list.

*Recursion.* The commands fold over the items they move and sort the recorded positions. The
folds are recursive functions, whose value at each sequence has to be derived from existence (`KeepingExists`, `InsertingExists`,
`ApplyingExists`); for that and for their properties the module proves an induction on numbers and one on sequences (`Reaches`,
`AllSequences`) from the least number principle, for sets rather than operators. The stable sort is
handled by ranks (`Ranks`, `Nth`).

### Streaming

`StreamingOrchestratorProofs` and, for the last four, `StreamingSessionProofs`, for every set of parties and every scenario, so without a bound on users, failures, attempts or
invocations under way:

| Theorem | Statement |
|---|---|
| `StreamingInvariantHolds`, `StreamingTypesHold` | `Spec => []StreamingInv`, `[]StreamingTypeOK` |
| `NeverStuckHolds` | `Spec => []NeverStuck` |
| `ConnectWaitsHolds` | `Spec => []ConnectWaits` |
| `ReadyMeansJoinedHolds` | `Spec => []ReadyMeansJoined` |
| `ReadyWithLatestHolds` | `Spec => ReadyWithLatest`, an action property |
| `PublishingInvariantHolds` | `Spec => []PublishingInv` |
| `PublishedIsLatestHolds` | `Spec => []PublishedIsLatest` |
| `LiveInvariantHolds` | `Spec => []LiveInv` |
| `LiveSessionIsRealHolds` | `Spec => []LiveSessionIsReal` |
| `EndedInvariantHolds` | `Spec => []EndedInv` |
| `StoppedMeansEndedHolds` | `Spec => []StoppedMeansEnded` |

*The argument.* `NeverStuck` counts on an attempt under way to end, so it needs `Awaits`: the promise an attempt waits for is on the wire. A
promise that is settled by mistake, or twice, breaks that, so `WaitersFit` says that at most one invocation has the
attempt waiting and that it belongs to the attempt's party and step; `StartsFit` that a start under way has a number of its own and that
the one in flight has not been given up; `TeardownsFit` that only the first teardown waits, for what it is at. `JoinFits`
is `ReadyMeansJoined` for an unanswered wire: a join on it is for the present party, or none is and the hub has the desktop down for it. `LinkFits`,
`PartyFits` and `RestFits` tie the connection's state to the orchestrator's. `ReadyWithLatest` follows because the publication
waited for says what the player does, or `behind` makes the orchestrator publish again (`WaitersFit`).

Inside a handler the invariant does not hold: the head of the wire is taken off, or a closing connection has rejected some
invocations and not yet the others. So its parts are stated of a desk and a wire apart (`Orderly`, `JoinFits`, `Awaits`, `Attended`), each method of
the code has a lemma that says what it keeps of them, and a handler's proof composes the lemmas as the handler composes the methods.
`CloseConnection` and `CarriedSome` recur along the wire. What holds before the first rejection and is kept by each holds
at the end (`CloseRejects`); that is proved from the least number principle (`Reaches`), because the library's induction theorems cannot be
used here.

`PublishedIsLatest` is about a desktop with nothing under way, so the invariant has to say where the latest word on the player is
while something is. `PublishingInv` adds `Tells` to `StreamingInv`, for an orchestrator whose source is the player. Ready and connected,
either it is going to speak or to leave (`coalescing`; a project's end on the wire; a join after a reconnection, which publishes anew), or
the party has been `Told`. The word may have been said: the session is right and nothing on the wire will change that
(`Said`). It may be on its way: a `Publish` with the present state, after which nothing puts the session wrong (`OnItsWay`). Or it
is announced: a `NotifyStateChanged` whose answer the coalesced publication awaits to send that state (`Announced`), whatever
precedes it. Here `RightAfter` looks at what the hub does with an invocation - a start puts the party on the air, an end or a reset takes it
off - and `LatestAfter` at the notifications that another publication will follow. `SyncFits` says the same of the publication an attempt waits for,
from the moment it is sent until `BecomeReady`; it holds unless `behind` makes the attempt publish again. That needs `CalmFits` (to a ready orchestrator no
end of a late start is under way, and a start is one that `syncLiveSession` waits for) and `TimerFits` (a ready one tries again only after
its client has given up). Every handler tells: its lemma ends in `Tells` of the next state, and `RespondTells` is
one lemma per invocation, since the session changes with the answer.

`LiveSessionIsReal` is about an orchestrator that believes in a session, and it could be wrong in two ways: something behind the
start on the wire ends the session, or the orchestrator believes in a start that is not its own any more. `LiveInv` adds `Airs` to `StreamingInv`.
`NumbersFit` is for every scenario: all starts that still count have one number, the latest one; whoever gave up a start has
an older one, and a teardown that knows of the one in flight still waits for it. The rest is for scenarios in which no source stops of itself.
`OursFit`: a start that is the orchestrator's (`Ours` - it has joined, the start is waited for, or the join is
ahead of it) has nothing behind it that takes the session off the air: no end, no reset, and with AIMP, whose publications
carry the mode, no publication of an idle player. `AirFits`: when it believes in its session, the session is on the air and nothing on the wire
takes it off, and starts that time out late are older than the session's number, so that their answer ends nothing
(`endLateStart`). `WordsFit` says that no invocation of a project's end or of a stopped player is on the wire at all. That the
session of a live player also has a session's mode is what `PublishedIsLatest` says.

`StoppedMeansEnded` is about a desktop without connection, while only users interfere with one party. `EndedInv` says more: whenever
there is no connection, no party has a session on the air. A connection goes in one way then, by a teardown that has ended its
party's session and reset its playback, so the proof has to show that the reset is the last word: `Within` says that the desktop speaks of that
party alone, and that behind the reset of a teardown that will disconnect no start is on the wire. A start can get there only from an
orchestrator that runs again, and then the teardown's disconnect is not carried out (`fresh`). `Off` is what the reset leaves, and
nothing but a start undoes it (`CarryOff`), so it holds for any part of the wire that the hub still carries out when the connection closes.

TLC checked `PublishingInv`, `LiveInv` and `EndedInv` on the `streaming` scenarios and in long random behaviours before they were proved.

### Assumptions of these proofs

They are the named ASSUMEs of the modules, which TLC evaluates in the runs: special values (`None`, `NoRow`, `Idle`,
`NoParty`, `NoConfig`, `NoRequest`) differ from the data they stand in for; bounds are natural numbers; `Party` of the catalogue is finite, since it is
counted; at least one playlist has a track; scenarios are made of the disturbances and races there are;
tracks, groups and the root are different things, and the project is no collection.

### Only model-checked

- *Liveness* (`EveryCallReturns`, `OfflineReachesViewers`, `Recovers`, `TeardownEnd`, `ComesBack`, `CopyCatchesUp`,
  `FinalizeReturns`) depends on fairness, which is beyond the proof system used.
- *`OfflineIsPending` for several parties* is false in general (see below) and proved per party under its hypothesis.
- *`UndoIsAtomic`* and the other sentences of the table at the end of the next section are false, and are not proved in
  any form.

## What the checks found

Two runs check a sentence of the documentation that the code does not keep.

- `lost_start`: a player that goes live while the orchestrator is still connecting gets ready and is published as live, but
  no `StartSession` is sent: `syncLiveSession` returned early and nothing calls it again
  (`CherryPlayList/docs/modules/systems/streaming.md:117`).
- `unsaved_edits`: `handleSave` resets the dirty mark when the main process answers. An edit made while the file was being written is
  marked as saved and dropped without the question that `save-load.md:20` describes.

More of what the documentation says, or a reader would expect, fails. No run is kept for these; the property, put
into the configuration named, finds them (the runs' own properties make way for it):

| Property | Configuration | What happens |
|---|---|---|
| `DeletedPartyHasNoSession` | `LiveParty` | `DeletePartyAsync` does not enter the coordinator: a call that has read the party writes the session back (`DATABASE.md:310`) |
| `OfflineReachesViewers` | `OrganizerOffline`, two parties | a connection that joins a second party leaves the first without a disconnect: nothing is announced or scheduled for it (`docs/integration/streaming.md:25`) |
| `SettledConnectionStatus` | `OrganizerOffline` | "offline" is announced outside the coordinator, possibly after a new connection's "online" (`backend-test-cases.md:150`) |
| `SettledDisplayStatus` | `OrganizerOffline`, `Ops` of joins, leaves, starts and ends | two announcements read the session in one order and send in the other (`CONTRACTS.md:95`) |
| `SettledLifecycle` | `OrganizerOffline` | a lifecycle transition changes the display status and sends no event (`CONTRACTS.md:95`) |
| `OrganizerTransitionsHold` | `LiveParty` | check and write of a transition are two database calls; an administrator's command in between makes `draft -> completed` possible (`CONTRACTS.md:371`) |
| `FutureWithinLimit` | `Catalog` | a playlist update writes the card it read, without the lock: a party moved to the past meanwhile is in the future again (`CONTRACTS.md:373`) |
| `NoOrphanSession` | `Streaming` | a switch of the source or the party on the air supersedes the old session without ending it (`streaming.md:148`) |
| `PlayerIsOnAir` | `Streaming` | a player that stops while its start is under way leaves `liveSessionActive` true behind, and its next session is not started (`streaming.md:45`) |
| `StoppedMeansEnded` without `OneParty` | `Streaming`, users only, two parties | a start for another party supersedes the session of the first, or one still under way, and a later teardown ends its own party's alone (`streaming.md:147`) |
| `StoppedMeansDisconnected` | `Streaming`, scenarios `StartThenStop` | a teardown while `connect()` awaits its configuration finds no connection to stop; one is built and started afterwards (`streaming.md:149`) |
| `PlaylistIsLive` | `Viewer`, with the scenario `{"throttle"}` | a change of the playlist within two seconds of the last fetch is dropped (`CONTRACTS.md:397`) |
| `CopiesMatch` without its exception for `"undo"` | `Save` | a track put back by undo refers to a deleted copy whose name another song has by then |
| `CopiesExist` without its exceptions | `Save`, with `"shared"`, or `"busy"` and `MaxSaves = 2` | projects in one folder, or two saves at once, delete each other's copies |
| `NoItemTwice` without its exception | `Undo`, five edits | group two tracks, remove the group with another item as a selection clicked in the other order; undo puts the two at each other's places, and undoing and redoing the grouping by index leaves a track both in the group and in the list |
| `UndoIsAtomic` | `Undo` | a move between workspaces is undone part by part; when one workspace is gone the undo stops half way |
| `SnapshotsFollowAck` | `Bridge` | a hello that is not answered in time counts as accepted (`CherryPlayAimpPlugin/README.md:11`) |
| `PlaybackIsConsistent` | `Bridge` | a snapshot taken between two changes names a track that is not in the playlist sent before it (`CherryPlayAimpPlugin/README.md:98`) |
| `SavedIsClean` | `Save` | a project saved as a portable package is dirty at once: `AppHeader.tsx:401` resets the mark, then `setPortableMode` sets it (`projectStore.ts:1160`). `save-load.md:76` has one rule for every way of saving ("dirty-флаг обновляются"), `project-store.md:36` describes the code |
| `ActiveIsObserved` | `Bridge` | "The plugin observes the **active playlist** first" and does not switch "the snapshot to the playing playlist" (`CherryPlayAimpPlugin/README.md:97`, also `docs/integration/aimp-streaming.md:86`); `TrackObservedPlaylistLocked` takes the playing track's playlist first (cpp:1094-1123), so that activating another one while a track plays changes nothing |
| `TaskReturns` | `Bridge` | `Finalize`, on AIMP's main thread, joins the snapshot thread (cpp:1021), which may be in `ExecuteInMainThread` with `WAITFOR` (1061): each waits for the other, although the comments at 855 and 1051 order the calls "to avoid deadlock" |
| `TransportIsJoined` | `Bridge` | "never blocks the main thread" (`CherryPlayAimpPlugin/README.md:93`, cpp:1738): `StopTransport` joins, on the main thread (1938), a thread whose `WriteFile` (1630) waits for ever when the desktop hangs and the pipe is full; the goodbye is left out against this only for `PluginShutdown` (1785) |

Two more that the bridge shows: a playback snapshot that the desktop dropped as inconsistent is not sent again when the playlist catches up, and a
failed `listen` is not retried until the source is selected again.

*The viewer's races* break the following, each when allowed alone and the property's exception is dropped:

| Race | What the page gets wrong |
|---|---|
| `state` | an answer with what held before the last operation arrives after that operation's message; status, playlist and the player's visibility stay behind |
| `early` | the poll reports a connection that has not joined: nothing is asked for afterwards, the status and even the playback of a live party may be missing |
| `throttle` | the playlist of two seconds ago |
| `http` | a silent fetch that fails replaces the page by an error |
| `refused`, `deaf` | the page is connected and outside its group |

## What is abstracted or left out

On the server:

- Track ids, positions, volumes and names: only whether markers are set. Which event payloads are sent with
  `OnSessionStarted`, `OnPlaybackStateChanged` and so on is not observed; the display status and the connection status are.
- One organizer owns all parties: the ownership check is the party's existence. Authentication is not modelled.
- `SetSessionStateAsync` looks the row up and saves it; the model writes in one step or fails (`RowVanished`).
- The grace task checks the tracker twice before it announces; the two checks are one step. Computing a status and sending it, with no await between that could change
  its inputs other than the tracker, are one step.
- Playback staleness is judged when an announcement reads the session.
- A lifecycle transition to the state the party already has changes nothing and is left out.
- After a restart viewers reconnect and fetch the computed status (`JoinPartyAsViewerWithState`).
- The database neither fails nor loses writes, except where a row has gone.
- The catalogue's columns are a date, a visibility, a code and a playlist; validation of requests is left out.

On the desktop:

- Streaming: position ticks, AIMP's frozen state, expired tokens, what is said to the user. A publication
  carries whether the source is live, nothing else of the playback state. `StreamingOrchestrator` has one desktop and its own copy of the
  server's session, changed by its invocations alone. Left out: a superseded `connect()` that was waiting for
  an older one and then dials by itself (`signalRService.ts:116-129`). Several organizers and the administrator are `PartyCommands`.
- Undo: renames and settings of tracks, and the moves of the stores that no component calls (`moveItem`, `moveSelectedItems`, `moveItemsToContext`,
  `addItemToGroup`, `removeItemFromGroup`, `moveItemInGroup`).
- Saving: all tracks are in the main playlist. The folders of groups and collections are left out, and with them a track that moves from one to
  another between two saves (`project.ts:319-383`, `538`); so is the keyboard shortcut behind the dialog of Save as. Path validation,
  symbolic links and left-over copies of an aborted save are not told apart.
- AIMP: `liveStreamStarted`, the renderer's copy of the state, the checks of environment and manifest, logs, the
  two-megabyte limit of a line, an answer to the hello that refuses for another reason than the version, and the validation of payloads beyond what drops
  a client, the desktop's check of the derived track key among it (lower case there and in `ToLowerCopy` need not agree). The calls of AIMP's listeners
  under `state_mutex_` (cpp:1125-1136) are part of the step that makes them.

In the browser: merging of positions, `program_ended`, the demo party.

### Not modelled

Accounts, reset tokens and OAuth codes (their races do not touch a party's state), themes and entitlements, public queries (reads
only), the desktop's upload of the playlist (the server's side is in `PartyCatalog`), its layout and its audio engine (media elements of the browser), the React
component library and the deployment scripts.
