# Mizar (RivalHub-Broadcast): a TLA+ development

Mizar is a broadcast tool for CS2 tournaments. A companion process (Node, TypeScript) listens to
the game server's state (GSI posts, CSTV), decides what the match is, keeps the result of the
series, and feeds browser pages (HUD, operator console), OBS and a remote service. This directory
models the companion's state machines and their counterparts in the browser, checks the models with
TLC, and proves for all sizes what seventeen of them promise with TLAPS.

Contents: [inventory](#inventory), [modules](#modules), [runs](#runs), [fairness](#fairness),
[bounds](#bounds), [proofs](#proofs), [findings](#findings), [observations](#observations),
[not modelled](#not-modelled), [plan](#plan).

To repeat: `tlc -workers 2 -config <run>.cfg <MC module>` and `tlapm <module>Proofs.tla`.
`PROJECT.json` lists the runs, the source lines of every definition, and for every property a
mutation of one definition that TLC must refuse.

## Inventory

The parts of the system with state of their own, and what makes each of them correct. All of the
companion runs on one JavaScript thread: a handler is atomic up to its next `await`, so the hard
behaviours are what may happen between an await and its resumption, process deaths, and the
messages of the outside world.

| Part (main files) | State | Operations | Works with | Hard behaviour | Correct when |
|---|---|---|---|---|---|
| Reliable outbox (`output/reliable-outbox.ts`, `output/service.ts`, `match-context/durable-json.ts`, `serial-commit.ts`) | records and delivery scope, in memory and in one JSON file; a queue of jobs | `enqueue`, `flush`, `sweepRetryable`, `updateContinuity`, `load`, `start`, `retry` | runtime mutations put events in; an HTTP sink takes them | death between write and memory, a send whose answer is lost, a failing write, a scope changing during a walk | nothing acknowledged is lost, a file it wrote can be loaded, every event settles, acceptance is never invented |
| Snapshot channel (`channel-publisher.ts`, `latest-wins.ts`, `websocket-transport.ts`; `acceptance.ts`; `local-channel-client.ts`, `local-channel-store.ts`) | newest snapshot, per connection a one-slot backlog and a heartbeat; per page a socket and an acceptance state | publish, subscribe, write callback, cleanup, tick; connect, receive, retry, dispose | projections publish, pages show | slow, hung and broken sockets, connection limit, restart with smaller sequence numbers | a page never returns to an older snapshot and ends up at the newest |
| Programme cue lane (`program-cue-coordinator.ts`, `program-cue-publisher.ts`; `program-cue-acceptance.ts`; `program-cue-client.ts`) | current baseline, per page a bounded queue with barriers; per page baseline, recent cues | observation, runtime mutation, source health, publish, drain; receive, resubscribe | CSTV source, programme snapshots | overflow, expiry, a new lane while cues are queued, order against the snapshot channel | each cue shown at most once and in order, no replay, no terminal rejection, ends up in the current lane |
| Series progress (`series-progress/reducer.ts`, `program-runtime.ts`, `checkpoint-store.ts`) | slots of the map plan with status, epoch and winner; queued checkpoints and a file | frame, game-over, bind by the operator, bind and unbind of the match, save, restart | runtime reducer, match context | maps out of the plan, epochs reused after a restart, a lost save | a frozen result is the real one of that slot, is never changed and never forgotten |
| Programme telemetry (`core/src/runtime/*`) | generation, sequence, map epoch, per-round damage, explosion clock | frame, generation advance, reset | GSI ingress, `dispatchObservation` | frames lost before they are numbered, holes in a round, silence across a restart | damage counts whole rounds exactly, edges come once, clocks are this round's |
| Capture recorder (`telemetry/capture-recorder.ts`, `capture-storage.ts`) | bounded frame queue, pump, file offsets, reference journal, lifecycle | `tryRecord`, pump, `tryRecordObjectiveReference`, `finalize` | ingress, objective detection, shutdown | overflow, failing or hanging writes, drain timeout racing a write | every frame accounted for; what is published is whole |
| Match context and LKG (`match-context/controller.ts`, `lkg-store.ts`, ...) | active binding, selection generation, staged candidate, last-known-good file | select, restore, stage, activate, fall back | RivalHub API, runtime | selections overtaking each other over load, save and activation | the newest request wins in memory and on disk |
| Schedule window (`schedule-window-controller.ts`, `-store.ts`) | window, generation, commit queue, file | refresh, clear, fall back | RivalHub API | overlapping refreshes, each over a load, a write and a fallback | the window asked for last is on show, and never an older schedule of it |
| RivalHub connection (`rivalhub-connection.ts`) | installation, claimed source, schedule cache | pair, claim, release, disconnect, upload, poll the schedule | remote service, another device | operations that do not exclude each other, answers that come late or never | a source was granted, a device that lost it notices, a late release spares a newer claim's source, a late schedule replaces no newer one (a late refusal may clear a newer source: see Observations) |
| CSTV sources (`cstv-source-manager.ts`, `telemetry-cstv/src/session.ts`) | source state, generation, reconnect timer, recent events | start, stop, connect, terminal, reconnect | parser session, cue coordinator | callbacks of a replaced session, stop racing a settling start | a dropped source is never given up, a stopped one stays stopped, recent events are one stream |
| Programme scenes, director (`program-scenes/*`) | active scene, queue of takes, revision, hold; cues, pace and request of the director | select, automatic switch, hold, resume, force, tick | OBS adapter | takes overtaking changes, a request that timed out but takes effect | a take that fails leaves nothing of it on air |
| OBS adapter and reconciliation (`obs/*`) | connection, serial queue | switch, repair, reconcile | OBS | a request that timed out but takes effect | reconciliation converges |
| HUD configuration (`hud-config/*`, `hud-config-client.ts`, `HudConsolePage.tsx`, `hud-console-drafts.ts`) | document and file; drafts, bases and conflicts of an editor page | save, activate, poll, merge | pages | two editors, polls crossing saves, a write that fails | no lost update, the file is what is shown |
| BP workspace (`bp/*`) | local draft, reveal session | pick, ban, reveal, undo | scenes, operator | revisions | reveals follow the draft |
| Local tournament (`local-tournament-*.ts`, `rivals-rehearsal.ts`) | library and file | CRUD, selection, rehearsal | match context | two queues that know nothing of each other, a restart between their writes | a restart brings the same match back |
| Identity (`core/src/identity/*`, `projection-coordinator.ts`) | identity and lineup kept between frames | resolve sides and lineups, retain, reset | projections | torn and missing lists, stand-ins, observers, halftimes | who plays for whom is shown as far as a full list proved it |
| Projections (`projections/*`, `core/src/projection/*`) | last projections, one timer for the age of the picture | refresh, deadline | channels, cues, outbox | a deadline between two frames, a timer early or late | the picture tells how old it is |
| Replay (`replay/session.ts`) | cursor, timers, play clock, rebuild in flight | play, pause, seek, abort, dispose | the console | seeks overtaking each other, dispose during a seek | the last seek decides |
| Qualification (`qualification/*`, `scripts/qualification/evidence/*`) | markers in memory and in `scenario.jsonl`, freshness, ended outcome | live markers, next execution, controlled restart, end; both verdicts | runtime, capture recorder, operator | an await between what a marker checks and what it writes, restarts | a marker shows what it names, and page and evidence agree |
| Support, testkit | archives | collect, export | operator | - | - |
| GSI ingress (`gsi-ingress.ts`, `telemetry-gsi`) | sequence number | accept, refuse | runtime | frames refused after numbering | numbers only grow |
| Desktop host and product runtime (`main.rs`, `windows_startup.rs`, `product-runtime.mjs`, `product-control.mjs`) | mutex, job, exit event, `runtime.json`, port | launch, hand over, stop, exit, roll back | supervisor, Companion, other launches | two launches over one directory, a death or crash between any two steps | one desktop, no orphan, a failing start spares what it found |
| Web UI, radar, assets, tokens, platform adapters, composition | rendering | - | - | - | - |

Interaction: the GSI ingress numbers a frame, offers it to the recorder and hands it to
`dispatchObservation` (`app.ts:455`), which advances the source generation when the silence was too
long, then lets the runtime reduce the frame and synchronise the series, whose changed progress is
queued for the checkpoint file. In the same turn the projections are refreshed and published (snapshot
channel), the output service derives and enqueues reliable events (outbox), and the cue coordinator
moves its baseline. A change of the match context (`app.ts:434`) goes through the output service, the
projections and the cue coordinator in the same way. Everything after that, writing files, sending,
delivering to sockets, continues on its own promise chain.

## Modules

| Module | What it is |
|---|---|
| `EventDelivery` | Abstract: what the reliable lane promises of one event. |
| `ReliableOutbox` | The outbox, the output service that drives it, its file, the sink, process deaths. |
| `ReliableOutboxProofs` | Type correctness, loadability, the refinement of `EventDelivery`, the checkpoint of the scope, the count of sends. |
| `LatestValue` | Abstract: what a snapshot channel promises its viewers. |
| `LatestWins` | The one-slot consumer (`LatestWinsConsumer`) as operators on a record. |
| `SnapshotChannel` | Publisher, consumers, WebSocket transport with limit and heartbeat, reconnecting client. |
| `SnapshotChannelProofs` | Inductive invariant, the server's promises, the refinement of `LatestValue`. |
| `ProgramCueLane` | Coordinator, bounded queues, page and its acceptance rules. |
| `CstvSource` | A source with its sessions, generations, reconnect timer and recent events. |
| `ReplaySession` | Playback clock, timers, overlapping seeks. |
| `EventSourceProofs` | Theorems about `CstvSource`, `ReplaySession` and `ProgramCueLane`. |
| `SeriesProgress` | The game server, runtime epochs, slot binding, checkpoint file, operator. |
| `IdentityLineup` | Who plays for whom, on which side, from lists that may be torn or missing. |
| `ProgramDirector` | The choreography of the director over the phases of a series. |
| `ProgramTelemetry` | The game and the frames it posts, runtime reducer, statistics, edges, explosion clock. |
| `ProgramScenes` | Takes against a slow or failing OBS, hold and resume, BP reveal, production mode. |
| `ProgramProofs` | Theorems about `ProgramScenes`, `SeriesProgress`, `IdentityLineup` and `ProgramDirector`. |
| `HudConfig` | The HUD document's compare-and-swap, its file, and an editing page that polls. |
| `StaleDeadline` | The timer by which the picture admits its age. |
| `CaptureRecorder` | Frame queue and pump, reference journal, finalisation and publication. |
| `CaptureRecorderProofs` | Inductive invariant and the safety theorems. |
| `RivalHubLink` | Claims, releases, pairings, schedule and uploads against RivalHub and another device. |
| `ScheduleWindow` | Overlapping refreshes of schedule windows over a durable copy. |
| `MatchContext` | Selections, candidates, the last-known-good file, the local library, restart. |
| `ControlRoomProofs` | Theorems about `ScheduleWindow`, `HudConfig`, `MatchContext` and `StaleDeadline`. |
| `DesktopSession` | Desktop hosts, supervisors, Companions and stop commands over one directory. |
| `OutsideProofs` | Theorems about `DesktopSession` and `RivalHubLink`. |
| `QualificationRun` | The markers of a qualification run and the two verdicts over them. |
| `EvidenceProofs` | Theorems about `ProgramTelemetry` and `QualificationRun`. |
| `MC*` | Compositions, symmetry and concrete parameters for TLC. |

`SnapshotChannel` extends `LatestWins`; `ReliableOutbox` and `SnapshotChannel` instantiate their
abstract specification under a refinement mapping.

`MCCues`, `MCMatch`, `MCControlRoom`, `MCOutside` and `MCProgramTelemetry` put several parts into one run. The parts of one
run share no variable in the code either, so interleaving them would multiply states and add no
behaviour of any part; a constant variable `focus` says which of them moves, and the others stay in
their initial states. Each conjunct of a composed property then speaks of the part in focus.

### ReliableOutbox

`disk` is the file, `mem` is `this.records` with `this.continuity`. Because every array the code
commits comes out of `trim`, terminal records stand before pending ones, and the array is the pair
`[terminal, pending]`. `queue` holds the jobs of the `SerialCommitQueue`; the head is running and
`pc` says where: starting, walking (`loop`), waiting for the sink (`sending`), before the rename
(`replace`), before the assignment to memory (`install`). `RuntimeMutation` is `afterRuntimeMutation`:
it sets the scope and queues the continuity job and the enqueues in the order of the code.
`StartEnqueue`, `StartContinuity` and `StartWalk` are the job's synchronous beginnings, `Walk*`,
`SinkAnswers` and `SinkFails` one iteration of the flush loop, `WalkEnds` the single commit after it.
`Crash` may fall between any two steps; `Restart` is `start`, with or without recovering the scope.

`RetryTimer` does nothing while the bound match is a fixture (`service.ts:279`): then nothing is sent and
nothing expires, so `EveryEventSettles` is stated for behaviours in which some day no fixture is bound any more.

Abstracted: event contents (a model value and what was fixed at its derivation), evidence checks of
`canSend` (any record may find its evidence missing), the 4 MB limit of the file, and the directory
operations inside `replaceDurableJson`, which end in one atomic rename.

Worth knowing, from reading the code: a continuity write that fails is not repeated for the same
scope (`requestedScope` is already set), so `CheckpointIsLatest` is stated for runs without a failed
write. In the refinement, an event whose pending record is expired or superseded counts as settled.

### SnapshotChannel

A slot is one WebSocket with both ends: `link` is the server's view, `open` whether data flows,
`writing` what the delivery in flight waits for, `hung` a page that neither reads nor answers pings.
A client that reconnects takes an unused slot while the server may still be cleaning up the old one;
unused slots are interchangeable, so `Dial` takes a fixed one instead of TLC exploring them all.
`Terminate`, `CleanUp`, `CleanupEnds` and `HeartbeatTick` follow the transport's two-step cleanup (the
subscription closes asynchronously; the timer is looked at again afterwards). `Receives` applies
`acceptSnapshot` on the state one socket has accumulated. The refinement maps a store to the
`<<producer, seq>>` it shows. The protocol error state is left out of this module, as no peer of the
modelled versions violates the schema, and so is the limit of the transport on the size of one message.

### ProgramCueLane

`moments` is the history of runtime cursors, `source` the CSTV source; each mutation of either runs the
coordinator's `publishBaselineIfNeeded` in the same step. `sub` is a `ProgramCueSubscriber`: delivery in
flight, reset barrier, queue and how many of the oldest queued cues
have expired. A page shows the cues that fit the picture of its programme snapshot (`picture`), connects anew when
that moves to another continuity, and would stop for good on a rejected message, which `NeverProtocolError` excludes.
`joined` and `shown` are history for the properties.

### SeriesProgress

`plays` is the real series the companion must get right without seeing it: a sequence of map
executions, with the slot of the plan each of them fills (0 for a warm-up) and its winner. Frames show
only map name, phase and, when sides are proven, the winner. `runtime` is the epoch machine (one
epoch per change of map NAME), `progress` the reducer's slots. `GsiFrame` does everything
`dispatchObservation` does to them: accept the frame, synchronise the series, queue the checkpoint.
`ResetMapExecution` is the operator's `reset-map-execution`: the frame is dropped, an epoch opened under the same
name, and the bound slot, if it is open, starts again under that epoch.

Assumed of the world, and stated in the module: no map of a series is played twice; a running
companion sees at least one frame of each execution; the operator binds only when asked and truthfully, and resets
on a page that shows the frames of the game (what happens otherwise is an [observation](#observations)).

### ProgramTelemetry

`game` is the real game, `plays` the damage really dealt in each round it played. Every frame is a
picture of `game`, perhaps with one section missing; frames may be lost before the companion numbers
them or refused after. `state`, `stats` and `anchor` are the reducer's. Assumed: a freezetime or
live phase outlasts `staleAfterMs`, so one nobody heard makes the next frame start a new generation;
a phase that frames arrive in is shown by one with a round section, except `over`; a frame lacks at
most one section. A bound: maps change after their last round only.

In `dispatchObservation` the generation is advanced before the reduction, so the reducer's own branch
for a recovery after staleness is not reachable through it; the model has no such step.

### CaptureRecorder

A frame is the number of its offer. `queue`, `active`, `pending`, `dropped` and `recorded` are the
counters and buffers of the class; `chain` and `journal` belong to the second file. `stage` is the
await `finalizeInternal` stands at; its catch branches are disjuncts of the stage's action.
`DrainTimesOut` discards the queue and abandons the write in flight, whose late completion makes the
pump tidy up the handle (`TidyTruncate`, `TidyClose`). The byte limit and a failing encoder are a refusal
that may meet any frame. The reference journal is not synced by the code and no property claims it is.

### CstvSource

`session` is the parser session of the current generation, `abandoned` ones may still call back. An
attempt settles, fails or is overtaken by `stop`; `scheduleReconnect` arms a timer whose delay grows
with the attempts up to `BackoffSteps`. `recent` is the bounded list of events the cue coordinator
reads. Left out: diagnostics, ticks and the Go process behind a session.

### ReplaySession

`cursor` is what the page sees; a seek starts a rebuild whose answer may be overtaken by the next one.
`timers` counts the playback timers, which the code arms and clears in five places. Time is the frame
that is due.

### IdentityLineup

A frame is how each player is listed and whether the list is complete; `identity` and `lineup` are what
the coordinator keeps between refreshes. `Refresh` is the whole of `refreshIdentity`: what it resets with the
match, the map or the generation, resolution, side mapping, retention, and the stable lineup.
`lastClear` and `lastExact` are history for the properties. Left out: issues and wording, ordering, the
local override (never given by the companion), starters, the cap on extras.

### ProgramDirector

`match` is what the director observes: stage, seconds, pause, whether a result is confirmed, what is lost, and the
numbers of the match context and of the execution. `cues` and `pace` are its memory, `request` the one
switch in flight, which takes up to `SwitchTime`. The director ticks at least once in each unit of time (`DirectorTick`
before `TimePasses`), as its interval does. The scene controller is `ProgramScenes`; here it is a request that ends,
well or not.

`Key` is `contextKey` and `executionKey`: what the director remembers is valid under one key. `SomethingIsLost` takes
away the trust in the context or the identities, the telemetry, the assignment of the map, or the match; the telemetry
only comes back as another execution (`ExecutionIsRenewed`: a silence advances the source generation), and
`ContextIsReplaced` changes both keys. A confirmed last map leaves no current map order, which is another key too.
`played` is what the properties remember, and they forget it with the key.

Left out: the recommendation on display, the pause of the BP clock, overtime, and two losses at a time. While something is
lost the match may go on as if it were seen; the director does nothing then, whatever it sees.

### ProgramScenes

`takes` is the queue of `selectSerial`; `phase` says where its head is: before OBS is asked, calling,
on air but not yet committed, rolling back. `late` holds calls that timed out and that OBS may still carry
out. `ResumeAutomatic`, `ForceScene`, `NewExecution`, `BpCommand` and `ChangeMode` fall between any two of
these steps. Which scene the director wants is any.

### HudConfig

The document stands for its revision, which is a hash of it. `hudJobs` is the store's queue of mutations,
each compared with the editor revision before it is written; `hudPage` the editor: the document it saw, its
drafts, the bases they were made from, and conflicts. Another page is a client that always knows the
document of the moment. Left out: save-as, resetting, contents.

### StaleDeadline

A frame is its number, when it came, and whether it has a running clock. `Refreshed` publishes the picture and
arms the timer for the nearest of the two deadlines; the timer may fire up to one unit early
(`DeadlineIsNotYetPast` re-arms it) and late by any time.

### RivalHubLink

Each operation is a record that goes from the request to RivalHub's decision to the answer, in an order of its
own; `claim` tells source objects apart, as the code compares them by identity. RivalHub is external:
it grants the match under a growing revision and answers 403 to any other. A release inside another operation that
exceeds its time limit, after which that operation goes on, is left out.

### ScheduleWindow

A schedule is told apart by the generation that loaded it. A refresh goes through loading, its job in the
serial queue, writing, and the fallbacks to memory and file. The protocol is the controller's; the
companion's `app.ts` does not construct it, only its tests do.

### MatchContext

Two serial queues: the controller's commits (`commits`, `commitStep`) and the library's (`libraryJobs`,
`libraryStep`), whose steps interleave freely. A request has a number, which stands for its moment and for
the content it brings. `stamp` is `Date.now()` at the beginning of a write, by which the start of `app.ts`
chooses between the two files (`LibraryGoesFirst`). `CompanionDies` may fall between any two steps.

### DesktopSession

A launch, its supervisor and its Companion share one number. `port`, `runtimeFile`, `job` and `exitSignal` are
what they meet in. `HostTerminates` is `job.terminate()`, which may fail: then `child.kill` ends the supervisor only, and
a job that had been told to spare its processes leaves the Companion behind (`main.rs:1088-1097`). Time limits are choices: what has one may end at any time. `borrowed` remembers the
runtime a launch found, for the property that a failing start spares it. Left out: logs, windows, browser.

### QualificationRun

Every frame and every marker takes a stamp of the companion's monotonic clock. `service` is what the process
knows of itself, `accepted` the last frame the programme took, `transitions` the debug store's bounded list.
A marker is asked for, checked against what is shown now, and put into `writes`, the chain that appends to the
file; the next execution writes two markers with the reset between them. `ServiceRestarts` is the exit the
supervisor answers with another process over the same run, whose clock starts anew; the stamps of a process are
those of its own residue modulo `Processes`, as clocks in fractions of a millisecond do not coincide. `Live...` are the page's verdicts
over the markers in memory (`evaluateChecks`), `Final...` those of the scripts over the file.

A frame may come without a map (`adapter.ts:54`): until one names a map the telemetry is fresh and the epoch 0.

Left out: the marker `cs2-closed` and the check of the silence, recorder rotation, host checkpoints, the profile
of objective timing, archives and pages.

## Runs

| Run | Question | Answer |
|---|---|---|
| `outbox` | Two events, two matches and a fixture, one death at any step. | `NothingIsForgotten`: an acknowledged event and an idle outbox's newest scope are in the file. The next process can load it (`AlwaysLoadable`), and it implements `EventDelivery` (`DeliveryKept`). |
| `outbox_live` | One event, a match and a fixture, three clock values, any sink behaviour, one failed write and one death. | Attempts account for sends (`SendsAreCounted`); every recorded event leaves pending by its expiry once no fixture is bound any more (`EveryEventSettles`). |
| `channel` | One viewer, two sockets, a limit of one, two faults among break, hang, slow consumer, closed page and restart. | `ChannelInv`: a busy consumer owes exactly the newest snapshot, no connection escapes the heartbeat. The viewer implements `LatestValue` and converges (`EveryViewerConverges`). |
| `cues` | Lane: one page, two source generations, two moments, three cues against a queue of one. Source: two generations and a stop. Replay: three seeks, two plays. | `LaneInv`, `NoReplay`, `EveryPageGoesLive`: cues once, in order, without replay; no terminal rejection; the page gets back into the lane. `CstvInv`: a source is never given up, a stopped one stays stopped, the recent events are one stream. `ReplayInv`: one timer, and the last seek decides. |
| `match` | Series: a best of three with warm-ups and unplanned maps, one fault, and a reset of the second execution. Identity: two sides of two, four kinds of list, three contexts. | `SeriesInv`, `ResultsStay` (`FrozenResultsStay` and `CheckpointKeepsResults`): frozen results are real, stay, and survive in the file. `IdentityInv`, `RefreshIsIdempotent`: what is shown of the sides was proven. |
| `series_lost_epoch` | The series when a restart recovers no epoch. | **Violation**: see findings. |
| `telemetry` | Telemetry: two maps, three plays, one silence or reset, frames lost, refused and incomplete. Qualification: two frames and one disturbance (a further frame, a silence, a failing write, a restart, another next execution), frames with and without a map, two writes at a time. Director: two maps, slow switches, one intervention of the operator, the telemetry or the match. | `TelemetryInv`: average damage is exact, the running round's damage is its own, edges come once, the explosion clock is this bomb's. `QualificationInv`: a live marker shows the execution it names, staleness once told is recorded, page and evidence agree on the first demo if its marker names an execution, a second demo that passes was played after the reset. `DirectorInv`: the HUD is up when the round begins, a result gives way. `NothingIsPlayedTwice`, as long as the director knows the execution for the same. |
| `control_room` | Scenes: two takes, two changes, one OBS fault. HUD: two saves, two edits, one fault. Age: three frames to a horizon of 14. Capture: six frames over a queue of two, three references, anything failing. | `ScenesInv`, `AutomaticIsStillWanted`, `TakesReplaceWhatWasSeen`, `RequestsAreAnswered`; `HudInv`, `DirtyDraftsSurvivePolls`, `EditorFollowsDocument`; `PictureTellsItsAge`; `CaptureInv`, `FinalizeReturns`. |
| `outside` | Link: three calls, two pairings, one claim of another device, one fault. Schedule: three generations. Context: three requests, one failing write or death. Desktop: two launches, one stop command or crash. | `LinkSound`, `LostAuthorityIsNoticed`; `ScheduleSound`; `ContextInv`, `NewestWins`, `DecidedOnWhatIsShown`; `DesktopInv`, `RollbackSparesBorrowed`. |
| `capture_recorder_hang` | The recorder with a journal append that hangs. | **Violation**: see findings. |
| `hud_lost_update` | A draft in conflict is saved after one more poll. | **Violation**: see findings. |
| `desktop_exit` | One launch and one exit, nothing failing. | **Violation**: see findings. |

A property ending in `Inv` is the conjunction of the part's type invariant and its named safety
properties, each with its comment in the module. `CHECK_DEADLOCK FALSE` stands where the
modelled system may stop: the bounds end the composed parts, the channel's page may be closed or have
everything, the last round may be over. Symmetry is used in `outbox` (events are only compared) and `match`
(entrants are only compared), which check no liveness.

## Fairness

* Outbox: the event loop runs ready jobs, the one-second timer fires (and does its work unless a fixture is bound),
  an operator restarts a dead companion, time passes. Nothing is assumed of the receiver: it may never answer, because the
  five-second timeout does (`SinkFails` is a job step of this process).
* Channel: callbacks run, the heartbeat interval and reconnect timers fire, closes are noticed, the
  peer that is not hung takes its data. No publication, no fault, no recovery of a hung page is required.
* Cue lane: sockets take their messages and the page's steps happen. The bounds on moments and
  generations end the changes of lane; otherwise a page could be moved on forever.
* Scenes: every wait of a take has a timeout (`ScenesFairness`); OBS itself owes nothing.
* HUD: the queue of the store works, the network answers, and the page polls every half second.
* Age of the picture: a timer that is due fires in the end, and time goes on; nothing is assumed of frames.
* Link: snapshots keep coming (an upload is tried every second) and RivalHub answers within the limit
  of the call; no operation of the operator is required.
* Recorder: the operations `finalizeInternal` itself awaits settle and the drain timer fires. Writes of
  frames carry no fairness. The passing run also assumes that an append to the reference journal
  settles; the violation run drops only that.

Source, replay, series, identity, director, telemetry, qualification, schedule, context and desktop are checked
for safety only.

## Bounds

The state machines compare rather than count, so small instances reach their cases: an array at its
limit needs limit + 1 elements, a stale answer one newer request, a queue with a barrier one entry on each
side of it.

* `outbox`: two events fill `MaxPending` and make `trim` drop a terminal record; one fixture stops the timer; one death is
  enough for each property, since a second starts from a file the first could have left. `outbox_live`
  has one event but `Retention` 2, so that a record is retried before it expires, and one more failure.
* `channel`: the second socket dialled while the first lingers meets the limit of one; three
  publications are the fewest that overwrite a backlog; two faults let a hang be followed by a restart.
  A second viewer would only compete for the limit, which the lingering socket already does.
* `cues`: a queue of one overflows at the second waiting cue; two generations and two moments
  give a barrier of each kind; `MaxWire` lets a message travel while the page resubscribes. Two source
  generations give an abandoned parser beside a current one, three events one that is dropped from the
  recent two. Three seeks are the fewest of which a middle one overtakes and is overtaken.
* `match`: three executions over three slots and one spare name; `MaxOffPlan` counts the slots that are skipped
  and the maps outside the plan together, so the series has either a map played one ahead of its turn, or one that
  replaces a slot's, or a warm-up between two of them; one save under way is enough for memory and file to differ.
  One reset, of the second execution (`ResetEpoch`), has executions before and after it.
  Sides of two, because a torn list must show one player and miss one; three contexts differ by
  match and by roster.
* `telemetry`: three plays of two rounds include a repeated round, a next round and a new map, the last one
  not of a repeated round (`LastPlayIsNew`; `TelemetryIsExact` has no such bound); damage 1
  is enough to notice a remainder or a loss; one break is one silence or one reset. Two frames are one for each
  demo; one disturbance may fall between any two steps of the evidence; two writes at a time are the fewest that
  let a marker be checked while another waits; two transitions fill the debug store's list. The director's timings keep
  their order in the code (the lead of the HUD is shorter than the freeze, the short opening shorter than the long
  one), and one switch may take one unit; two maps are a map with a next one and a last one. The director
  starts with and without a BP to show.
* `control_room`: two takes let one wait while another is called, and a change falls into each of its
  phases; `hud` has two kinds because a preset's activation also moves the document; the age needs a
  lease shorter and one longer than the time to stale; six frames pass a queue of two three times,
  three references put one before, in and after a failure.
* `outside`: three calls let an old answer meet two newer ones; one claim of the other device takes the
  match away once; three generations over two windows give a refresh of each window overtaken by the
  other's; three context requests, at most two refreshes among them, are the fewest in which a save is
  overtaken twice; two launches are the fewest that can hand over.

## Proofs

Every theorem holds for all values of the constants that satisfy the named assumptions of the module it is about; the
bounds of the exploration are constants like any other, so a theorem says it for any number of crashes, requests or
faults. TLC checked each inductive invariant on a small instance before it was proved. All proofs have one shape:
`Init => IInv`, one lemma per action or per group of actions that moves the same part of the state, the QED that
combines them over `Next`, and the theorem.

### Outbox

`ReliableOutboxProofs` proves `TypeCorrect` (`TypeOK`) and `FileAlwaysLoadable` (`AlwaysLoadable`) from `IInv`.
`AlwaysLoadable` is not inductive: the file on disk is within its limits because the document being committed was, and
that because of the memory it was computed from. `IInv` therefore says it of `disk`, `mem` and `file`, together with the
type invariant and `JobShape` (where the running job stands agrees with the queue and the walk). The walk is the hard
step: what it commits at its end has as many records as the memory it walked, so a continuity that had a record
to stand beside still has one (`TrimLimits`, `WalkEndsIInv`).

What the outbox promises to the outside follows in the same module:

* `OutboxDelivers`: `Spec => DeliveryKept`, the refinement of `EventDelivery`. The abstract specification sees only the
  file, so each step must be explained by what the job knew when it computed its document. `DInv` keeps that:
  `DiskIsMemory`, `WalkCovers` (every record passed by the walk is in one of its two lists), `DocumentOfJob` (what the
  document to be written says against the memory it was made from), `AcceptedWasReceived`, `QueuedIsFresh` and
  `TwinsAreAdjacent` (the same event may be queued twice, and the twin that runs second finds the record of the
  first), `KnownWasDerived`. A replacement of the file maps to one abstract step for each event, everything else to a stutter.
* `OutboxForgetsNothing` (`NothingIsForgotten`): `AckedNeverLost` is part of `DInv`; `CheckpointIsLatest` needs `CInv`, which
  says of a running process without a failed write that the scopes of memory, of each queued job and of the
  request agree along the queue up to the next request to save.
* `OutboxCountsSends` (`SendsAreCounted`): `SInv` follows the attempts through memory, kept list, document and file,
  each with the sends it may be behind by.

Assumed: `SizesAssumption` (limits are positive and the pending limit and the kept terminal records fit the record
limit, as the constants in `reliable-outbox.ts` do), `PlaceAssumption`, `BoundsAssumption`, `SinkAssumption`.

### Capture recorder

`CaptureRecorderProofs`: `IInv` strengthens the properties by what relates the two halves of the recorder: `Phases` (which
stages go with which lifecycle and handle), `FramesAccounted`, `Ordered` (recorded, active and queued frames are
the offers in their order as long as nothing was dropped), `OneUserOfTheHandle`, `JournalOrdered`, `LossesMarked` (a drop
or failure made the capture incomplete) and `Closing` (what the manifest says is what the file holds at the
stage where it is written). `TypeCorrect`, `NoFrameUnaccounted`, `HandleExclusive`, `PublicationSound` and, with the lemma
that a capture given up stays so (`GivenUpStays`), `CaptureSound` (`CaptureInv`, what the run `control_room` checks)
follow. Assumed: `LimitAssumption`, `BoundsAssumption`.

### CSTV source, replay and cue lane

`EventSourceProofs`. `ReplayFollowsLastSeek` (`ReplayInv`) needs `RInv`: seeks under way have numbers of their own and none
is newer than the counter, and either the clock or the last seek moves the cursor. `SourceIsNeverGivenUp`
(`CstvInv`) needs `SourceInv`: `ControlInv` (a timer is of the next generation of a source that goes on; before
its start and after its end a source has no attempt) and `StreamInv` (parsers are of generations there were, and
of the parser whose events are taken, each is in the stream). Assumed: `ReplayAssumption`, `CstvAssumption` and the bounds.

`CuesAreSound` (`LaneInv`) and `NothingIsReplayed` (`NoReplay`) need `LaneIInv`. A message goes through four places (the queue
or the reset of its subscriber, the delivery in flight, the wire, the page), and what must hold is about their
order: `WireOK` (the wire is in order, newer than what the page accepted, and each cue is under the cursor of the
message before it), `ShownOK` (what was shown comes before what is on the wire, and nothing is past `Frontier`, the
identity of the source's newest event), `QueuedOK` (a queued cue is under the current baseline and comes after all
that was sent), `SubOK` (either a reset waits, or the last message sent has the cursor of the current baseline).
So no page ever meets a cue that its acceptance rejects for good, although the queue drops cues anywhere. What
happens to one page is proved without the state, as lemmas about `Drain`, `OfferBaseline`, `OfferCue`, `Complete` and
`Accepted` (`DrainKeeps` to `HearKeeps`); each step of the model then is one of them, for one page or for all. Assumed:
`MaxPendingAssumption`, `LaneBounds`, `NoMessageAssumption` (the mark for "nothing" is no message and no subscriber).

### Snapshot channel

`SnapshotChannelProofs`. `ChannelKeepsLatest` (`ChannelInv`) and `ViewersNeverGoBack` (`ViewersSeeLatestValue`, the refinement
of `LatestValue`) follow from `ChInv`. That a viewer never goes back is a fact about three places at once, so `InOrder`
orders them: `SlotInOrder` (what is on the wire of a connection is in the order of publication, and what its consumer
still holds comes after it), `ViewerIsBehind` (a viewer is not past anything its socket still brings, nor past the
newest). `SubscribersAreAttached` is what lets a publication touch consumers only. Order is lexicographic over
producer and sequence number; that restarts make sequence numbers small again is no exception but the case. Assumed:
`ChannelAssumption` (the marks for "no slot" and "no snapshot" are neither), `MaxConnectionsAssumption` and the bounds.

### Schedule, HUD document, match context

`ControlRoomProofs`.

* `ScheduleIsSound` (`ScheduleSound`). `ScheduleInv`: exactly the refreshes with a job are in the queue, each once
  (`QueueIsOfJobs`); only its head has begun (`OneJobRuns`); nothing was made by a refresh yet to come (`MadeBefore`);
  the newest refresh asks for what is wanted (`NewestIsWanted`).
* `DocumentIsKept` (`HudInv`) and `DraftsSurvivePolls` (`DirtyDraftsSurvivePolls`). `HudIInv`: the page's own mutation is queued or
  answered, never both, and the page knows that it waits (`OneMutation`); the file is ahead of the document by
  the mutation just written and nothing else (`FileIsAhead`). Assumed: `HudAssumption`, `HudKindsAssumption`.
* `ContextIsSound` (`ContextInv`), `NewestRequestWins` (`NewestWins`) and `DecisionsAreCurrent` (`DecidedOnWhatIsShown`). `ContextIInv`
  in layers, each proved over the earlier ones: `ContextTypes` and `HeadInv` (what the heads of the two queues
  are while they run); `SelectionInv` and `CandidateInv` (of the loads and jobs under way only the newest has the
  current generation, and it is not older than what is shown or staged); `DecisionInv` (a decision under way is
  on the active binding or out of date); `StampInv`, `LibraryInv`, `SavedInv` (the two files' stamps differ and
  are of the past; a standalone match is in the other file only as an overlay of the library) and `FoundInv`: when nothing was
  stamped after the save behind what is shown, one of the two files has it. The start after a death then finds it
  by comparing the stamps. Assumed: `ContextAssumption`, `ContextBounds`, `NoBindingAssumption` (the mark for
  "no binding" is no binding).

### Scenes

`ProgramProofs`: `ScenesAreSound` (`ScenesInv`), `TakesReplaceTheirScene` (`TakesReplaceWhatWasSeen`) and `AutomaticIsWanted`
(`AutomaticIsStillWanted`). `ScenesIInv`: the director has one take in the queue exactly while it waits for one, and a take
decided at the current revision saw the current scene (`TakesInv`); OBS shows the active scene until it was asked otherwise and
again when the take is over (`OnAirInv`); a reveal begun by a take plays, and either BP is on air or the take
that will end it is under way (`RevealInv`). Assumed: `ScenesAssumption`, `ScenesBounds`.

### Series progress

`ProgramProofs` too.

* `ResultsAreKept` (`ResultsStay`), for every plan and also when a restart recovers no epoch (`ContinuityKept` either
  way). That synchronizing never touches a completed slot is a chain of lemmas over the reducer's functions
  (`EnsureKeeps`, `EndKeeps`, `CompletionKeeps`, `SyncKeeps`); `endMap` writes to one slot and no other because never
  two are current (`OneCurrent`). For the file, `SavedInOrder`: file, queue and memory
  hold versions of which each keeps the results of the one before. An `Unbind` breaks that, hence `unbinds = 0`.
* `SeriesIsSound` (`SeriesInv`) assumes two things of the constants: `ContinuityKept`, without which it is false (run
  `series_lost_epoch`), and `DistinctPlan`, no map name planned twice (see [observations](#observations)).
  `Sound` says of every version in memory, in the queue and in the file: a completed slot names the
  execution that filled it (`Real`), and a slot that is current under the runtime's epoch is the bound one, not awaiting the
  operator, and the execution that this epoch shows is that slot's (`Tied`). `Tied` survives because a name is an epoch:
  `RuntimeOK` ties the epoch, its name and the last frame to the executions played; a reset moves the epoch on under the
  same name, and the slot it renews is the one the frame on show is of (`Resets`). What is sound stays sound
  when the runtime goes on (`EveryMoves`), which covers the versions that only lie in the file.

Assumed in the module: the named assumptions on the plan and the bounds; of the world, what [above](#seriesprogress) lists.

### Identity and director

`ProgramProofs` as well.

* `IdentityIsSound` (`IdentityInv`) and `RefreshingIsIdempotent` (`RefreshIsIdempotent`). `IdentityIInv` says of what the
  coordinator keeps that it is a function of the past: the identity belongs to the source, match and map last
  refreshed (`IdentityOfThePast`), it is what resolving the last frame gave (`IdentityIsRead`), as are the lineup and
  the brands of the sides (`LineupIsRead`, `BrandsAreRead`); who is matched was proven by a complete list since the last
  reset (`MatchedIsProven`), and exact rails agree with the brands (`RailsMatchBrands`). That a second refresh
  changes nothing is a fact about `ResolveIdentity` and `ResolveLineup` applied to their own results, proved case by
  case of what is retained. Assumed: `IdentityAssumption`, `FramesAssumption`.
* `PlayedOnce` (`NothingIsPlayedTwice`) needs `DirectorIInv`: what was played has been noted in cues that are of
  this key, the warmup reveal in cues of this context (`PlayedInv`), while the match or its assignment is lost nothing is
  remembered that hangs on it (`LostInv`), a request has the key of the cues and a cue not yet ticked off
  (`RequestInv`), and halftime is noted once (`HalftimeInv`). It holds for all timings.
* `DirectorIsSound` (`DirectorInv`) is about time, and needs `DirectorTimeInv`: `PaceTypes`, `ShownInv` and `CalmInv` (what an
  undisturbed director has on air and has asked for), `OpeningInv` and `ClosingInv` (how much of the freeze, or of the time
  after the result, is left at least, counting the switch in flight). Its hypothesis `PromptSwitches` says that
  the switches of OBS fit into the lead the director gives them, as its timings do for an OBS that answers within the
  time; it is tight, TLC refutes `DirectorInv` with a lead of one unit, a freeze of two or no time for the
  result. `MCProgramTelemetry` assumes it, so that TLC evaluates it. Also assumed: `DirectorAssumption`, `DirectorBounds`.

### Telemetry and qualification evidence

`EvidenceProofs`. Both proofs need a fact about data of any length, and get it without induction: of the places
where the fact fails one is the smallest (`SmallestExists`, from the well-foundedness of finite sets under inclusion), and
there it cannot fail.

* `TelemetryIsExact` (`TelemetryInv`). `DamageIn` is a recursive function; `DamageIsTheSum` says that it is the one sequence of
  partial sums, `DamageOfOneMore` and `DamageOfOthers` what it becomes when a play is appended and when a
  play outside changes. `TelemetryIInv`: `RoundInv`, that a round the statistics believe fits the game
  (`RoundFits`): once a frame has shown the phase it is of that phase and its damage not more than dealt, and
  before that it is of the phase before, unless a whole phase passed in silence, after which the next frame is late and nothing is
  believed any more. `CountInv`: plays are counted in increasing order, the running one never. `EdgesInv`: after an
  edge of the running play was named, neither the game nor the last frame is before it. `AnchorInv`, `EpochInv`,
  `WorldInv`: the clock's bomb, epochs by names and resets, what was heard of the phase. The heart is `FrameRoundFits`,
  the case analysis over everything `reduceMapPlayerStats` does with a frame.
* `EvidenceIsKept` (`QualificationInv`). `EvidenceIInv`: `FrameOnShow` (the last frame is of the execution it was taken in unless the
  telemetry was cleared since), `MarkersInOrder` (markers in memory and in the chain of writes were taken in the
  order of the process's past, those of the chain with what was shown then), `StaleIsTold` (a page was told only what
  a marker waiting or written says). `VerdictsAgree` compares first markers of a kind, which exist by
  `SmallestExists`, and needs that a stamp tells the process it was taken in (`StampsDiffer`).

Assumed: `TelemetryBounds`, `NoneAssumption` (the mark for "none" is no number, round or picture), `QualAssumption`,
`QualBounds`.

### Age of the picture

`ControlRoomProofs`. `PictureIsWatched` and `StaleIsNotTakenBack` are the safety parts of `PictureTellsItsAge`:
`FreshnessIsWatched`, `SilenceIsQuiet` and `StaleStaysStale`, for every lease, threshold, and order of frames, timers and
refreshes. None is inductive. `AgeInv`, which TLC checked first, adds what a timer is for: a frame that is not marked stale has a
timer, whose deadline is the clock's as long as the picture shows one running and the frame's afterwards
(`TimerIsForPicture`); what the picture no longer shows can no longer be true (`PictureIsOfHeld`); a frame is marked only when
it is stale, and then the timer is gone (`MarkedIsOver`); one refresh takes the clock off and one marks the frame
(`RefreshesAreFew`). `RefreshedIsRight` proves the first of these of `refresh` once, for whatever frame,
timer and mark it is called with. Assumed: `StaleAssumption`, `NoTimerAssumption` (the mark for no timer is no timer).

### Desktop and RivalHub link

`OutsideProofs`.

* `DesktopIsSound` (`DesktopInv`) and `RollbackSparesTheFoundRuntime` (`RollbackSparesBorrowed`). A Companion
  may outlive a launch only where its job was told to spare it, after `ready`. `DesktopIInv`: the port is with
  the Companion that serves (`PortInv`); a supervisor spawns once, before it writes the file (`SpawnInv`); what the job
  holds when (`JobInv`); who gives a stop command and to what (`StopInv`); and `BorrowInv`: a Companion found at the
  launch is past once the launch has one of its own, because the new one could only listen after the old one had
  closed the port. So the target a failing start reads from the file, which it only does when it had a Companion, is no
  runtime that still serves. Assumed: `DesktopAssumption`.
* `LinkIsSound` (`LinkSound`). `LinkIInv`: a source was granted by a claim that is over, under a revision RivalHub
  has reached (`WasGranted`, for the source in force and for the one each operation under way remembers); the source an
  operation releases is of the installation it was asked under, and once the release was answered with success RivalHub does not
  grant it any more (`CallInv`), which stays so because a revision is never granted again; requests for the schedule have
  numbers of their own, none of them the one on show (`SchedulesDiffer`). Every step changes at most one operation, which
  `OneCallMoves` proves once for all of them. Assumed: `LinkBounds` (a companion has been paired once).

### What the proofs changed

Proving showed CASE expressions whose arms overlapped in states that are not reachable (TLC takes the first arm that holds, TLA+ may take
any); they are IF chains now. The age of queued cues is a number (how many of the oldest have waited too long) instead of a
mark on each, since what waits longest is oldest. Constants that stand for "none" got the assumption that they are none of the
values. The stamps of a qualification run were of two residues, so that with a third process two could coincide and
`VerdictsAgree` fail, which the run with one restart could not show; each process has its own residue now.
The damage of several plays is a recursive function instead of a fold. The proof of `SeriesInv` failed where a plan repeats a map, which is an
observation below. No property was weakened; where one was not inductive the strengthening above was found and checked first.

### Only model-checked

* Liveness: `EveryEventSettles`, `EveryViewerConverges`, `EveryPageGoesLive`, `RequestsAreAnswered`, `EditorFollowsDocument`,
  `SilenceIsShown` (the part of `PictureTellsItsAge` that is left), `FinalizeReturns`, `LostAuthorityIsNoticed`. The prover has
  no rules for fairness and `ENABLED`.

Every invariant and every action property that a passing run checks is proved.

## Findings

* **`series_lost_epoch`** (code bug). After a restart that recovers no delivery continuity, map epochs start
  at 1 again while the checkpoint still holds an unfinished slot with epoch 1. `mapForEpoch`
  (`series-progress/reducer.ts:171`) then takes the unplanned map running now for that slot and freezes its
  winner, although `ensureBinding` has just paused the series for the operator. `docs/product.md:116` and
  `docs/decisions/0003-runtime-state-delivery-invariants.md:12` say the series waits.
* **`capture_recorder_hang`** (divergence of code and docs). `finalizeInternal` awaits the reference journal's
  chain before the bounded drain, without a timeout (`capture-recorder.ts:469`); `docs/telemetry.md:269`
  calls finalisation at shutdown bounded.
* **`hud_lost_update`** (code bug). `mergeHudEditorDocument` compares a new document with the one before it
  only: the second document after a conflict advances the base of the draft in conflict
  (`hud-console-drafts.ts:140`), and saving it replaces the other page's content without a refusal.
  `docs/product.md:140` says a dirty draft must not overwrite silently.
* **`desktop_exit`** (divergence of code and docs). `stopProduct` is done when `/health` no longer answers, which
  is before the `onClose` hooks have closed outputs and capture; `main.rs:1088` then terminates the job.
  `docs/decisions/0015-desktop-startup-diagnostics-and-recovery.md:42` describes a graceful stop with a bounded wait.

## Observations

Met while reading and modelling, without a run of their own: either no document says otherwise, or the model
allows them and the properties are stated around them.

* Taking the match context away and giving it back while a checkpoint is still queued loads the older file, so a
  result saved later is overwritten (`program-runtime.ts:166-271`); `CheckpointKeepsResults` is stated for
  processes whose context was never taken away.
* A plan that names a map twice: `ensureBinding` refuses to guess between two open slots of one name, but not when one of
  them is completed already. A match bound with the first result known, while its game-over is still the last frame,
  fills the second slot with that same game-over (`reducer.ts:300`, `:443`; found as the reason why
  `SeriesIsSound` needs `DistinctPlan`, and with TLC on the plan A, B, A). Vetoes do not repeat maps and
  `bp/local-draft.ts:213` refuses it, but an upstream plan is not checked for it (`manifest/validate.ts:199`).
* A continuity write that fails is not repeated for the same scope (`output/service.ts`).
* A torn list with contradictory evidence on one side after `matched` yields `mismatch`
  (`side-mapping.ts:97`, `resolve.ts:499`), although the comment at `resolve.ts:506` and
  `packages/rivalhub/test/identity.test.ts:284` describe retention. After halftime a partial list that is not
  degraded flips the branding of the sides while the rails wait for a full one (`active-lineup.ts:274`).
  An observer in `allplayers` keeps the identity `degraded` while the lineup is complete.
* A staged candidate is lost on a failed refresh (`match-context/controller.ts:503`, against
  `architecture.md:462`); a superseded refresh may mark a fresh binding stale (`:511`); a late local answer
  overrides a newer selection (`local-tournament-routes.ts:206`), and a local save compares revisions only when it
  is requested (`:218`).
* The director hears answers from before a hold after the resume, and latches a failure it did not
  cause (`director.ts:223`, `:270-279`); an operator who leaves `map_result` and resumes is not moved on
  (`:170`). A failed rollback is swallowed (`program-scenes/controller.ts:133-143`).
* A claim in flight when production finishes is granted afterwards (`rivalhub-connection.ts:304`); a poll of an
  old pairing clears a newer pending one (`:208`, `:237`); a late 403 or refused claim clears the source of a
  newer claim (`:313`, `:359`): uploads then return `retry` without a request (`:346`) until the operator claims
  again.
* Edits made while a save is under way are overwritten by its answer (`HudConsolePage.tsx:606`).
* A schedule file may be newer than the memory the fallback prefers (`schedule-window-controller.ts:175-206`).
* `play()` during a seek keeps the old anchor of the clock (`replay/session.ts`).
* `reset-map-execution` compares no map names (`resetCurrentMap`, `reducer.ts:504-529`), and its route
  (`qualification/controller.ts:787-830`) asks for no frame. Given after a restart that recovered the epoch, when the save of
  the map now played was lost and before its first frame, it binds the slot of the map before, which the checkpoint
  has as current, to the new epoch; the first frame then asks for the operator while that slot takes in what the
  map reports. TLC finds this when the guard on the frame is taken from `ResetMapExecution`.
* The director forgets with the key. After a silence in a long first freeze the opening begins again by itself, and after
  one at the end of a map the result is shown a second time (`director.ts:83-84, 117-125`; `app.ts:455-474` advances the
  generation). `docs/decisions/0017-program-direction-and-presentation.md:11` says '暂停、过期和直播已开始时不补播开场',
  which is about openings that were missed, not about one played again; `NothingIsPlayedTwice` is stated for one execution.
* On the first demo page and evidence differ when its marker was set before any frame named a map: the page wants
  `mapEpoch > 0` (`qualification/controller.ts:231`), the evidence does not ask (`checks.mjs:133-140`), so a run that the
  page holds back can pass. `VerdictsAgree` is stated for markers that name an execution.
* A desktop launch whose `job.terminate()` fails, after the job was told to spare its processes, kills its
  supervisor only, and the Companion goes on serving (`main.rs:1088-1097`); so it does when the host dies then.
* A supervisor's cleanup removes `runtime.json` whoever wrote it (`product-runtime.mjs:307`).
* In a qualification run, a second request for the next execution that overlaps the first can make
  `demoBRecovery` unreachable, and a controlled restart restarts the monotonic clock, which can make the whole
  evidence unreadable (`scenario.mjs` refuses stamps that go back).
* Some branches are not reachable through their only callers: the reducer's recovery after
  staleness (the generation is advanced before), and `projection-coordinator.ts:419-427, 441-449, 659-662, 686`.

## Not modelled

* The web pages, the overlay and the radar: presentation and geometry without shared mutable state beyond the
  realtime clients and the HUD editor, which are modelled. They are half of the code.
* Parsing, validation and conversion of contents: GSI blocks, manifests, tournaments, HUD presets, archives. Their
  outcome (accepted, refused) is an input of the modules.
* Of qualification: the objective timing profile (an offline analysis of the capture's stream), host checkpoints,
  recorder rotation, the check of the silence. Support: archives and their redaction, which are conversions.
* Platform adapters: lookups over HTTP without state.
* Inside the modelled components: static hosting and origin policy, wording of events, the round
  history of a series slot, start money and action durations, the derivation of cues from CSTV observations, the
  64-player limit, the start of a pairing, what the OBS reconciliation creates and removes, the assessment of BP,
  save-as and reset of HUD resources. `PROJECT.json` names them with each component.

## Plan

Done, in this order: outbox with its abstract promise and proofs; snapshot channel; cue lane; series progress;
programme telemetry; capture recorder with proofs; match context and schedule window; scenes and
director; RivalHub link; HUD configuration; CSTV source and replay; desktop; identity; age of the picture; the
evidence of a qualification run. Then the proofs: the outbox's refinement, source and replay, the channel's
refinement, schedule, HUD, scenes, desktop, match context, RivalHub link, cue lane, series, identity, director,
telemetry, the evidence of a qualification run, the age of the picture.

Next to model, by what a wrong step would cost: the BP local draft and its reveal; the round history of a slot;
recorder rotation.

Nothing that the prover can reach is left to prove of the present properties; new parts bring new ones.
