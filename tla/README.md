# A verification model of the secure monitoring system

TLA+ specifications of the parts of this repository where order, concurrency and
failure decide whether the system is right: detection zones and their cache, the
camera workers, the frames of a camera on their way through motion gate, tracker,
risk rules, deduplicator and smart zones to events, the delivery of events, and
the windows, tokens and event lists of the desktop program. TLC checks them on
small instances; TLAPS proves every safety property of the passing runs for every
instance.

Paths below are relative to the repository.

## The system

    cameras -> frame extractor -> AI service -> RabbitMQ -> backend -> browsers
                     ^               ^  |                     |  ^
               control API     HTTP: zones  <--- zones.updated   zone API

| Part | State it keeps | Operations | Talks to |
|---|---|---|---|
| Frame extractor (`local/frame_extractor_service`) | SQLite table of cameras; a worker per camera with its asyncio task, status and stop event | add, patch, start, stop, remove; startup, shutdown; the task's connect / read / throttle / process / send loop; a motion detector per camera | cameras (RTSP), AI service (HTTP) |
| AI service (`cloud/ai_model_service`) | zone cache with a lock per camera; tracks; deduplication table; accumulators of the smart zones | `/detect` for one frame; zone announcements | backend (HTTP), RabbitMQ |
| Backend (`cloud/backend_service/backend`) | zones, events, users (PostgreSQL); list of WebSocket connections | zone API, event consumer, `/ws/events`, sessions | RabbitMQ, database, browsers |
| Frontend (`local/frontend_service/frontend`) | list of events, session tokens | fetch, live events, refresh of tokens | backend |

What is hard: all three services run on event loops, so between any two awaits
another request, frame, message or callback can run; three of the connections
(RabbitMQ, HTTP, WebSocket) fail on their own; two tables outlive the processes.
`PROJECT.json` lists the hazards line by line with the properties that cover
them.

What makes each part correct:

- zones: a frame is judged by the zones in the table, except for a bounded time
  after a change or a failure; an announcement takes effect; one read at a time;
  no frame waits for ever;
- deduplication: an event passes exactly when the cooldown of its key is over,
  though the table forgets keys;
- frames: those of a camera are analysed in order; a failed frame holds up no
  other; who stands in a zone is reported again and again, whatever becomes of
  other tracks;
- from a camera to its events: an intruder who stays is reported within a known
  number of frames although the gate holds frames back and some are lost; what a
  schedule has lowered comes back at its full level; scores follow the clock and
  not the number of frames;
- cameras: a camera runs or does not run as its last start or stop asked, no
  task is out of reach, the table holds what is configured, a stop returns, a
  lost camera is connected again;
- events: what the broker took is stored or refused for a reason, through
  crashes and redelivery; a broadcast misses a browser only where its list shifts;
- event lists: of the events that have come, over the socket or with the history,
  a page shows the newest, each once and in order;
- sessions: a logout and a login hold in all windows, whatever the refreshes that
  are under way do.

## Modules

| Module | Models | Kind |
|---|---|---|
| `ZoneCache` | `ZoneService`, `ZoneRepositoryImpl`, `RabbitMQClient`, `RabbitMQService`, `ZoneManager` | specification |
| `ZoneCacheProofs` | | proofs about `ZoneCache` |
| `RateLimit` | what the deduplicator promises | abstract specification |
| `EventDedup` | `EventDeduplicator` | specification, implements `RateLimit` |
| `EventDedupProofs` | | proofs about `EventDedup` |
| `FrameAnalysis` | `AnalyzePipeline.process`, `TrackerRegistry`, `CameraTracker`, `Track`, `RiskEngine` on single tracks | specification |
| `FrameAnalysisProofs` | | proofs about `FrameAnalysis` |
| `TimeWindows` | `TimeWindowDTO`, the clock of `RiskScheduleEvaluator` | operators |
| `MotionGate` | `MotionDetector`, `MotionDetectorProcessor` | component |
| `RiskRules` | `RiskEngine.analyze` with its rules and `RiskScheduleEvaluator`, on top of `EventDedup` | component |
| `SmartZone` | `SmartZoneAnalytics` | component |
| `Surveillance` | `CameraWorker._run` and `AnalyzePipeline.process` as the composition of `MotionGate`, `CameraTracker`, `RiskRules` and `SmartZone` | specification |
| `SurveillanceProofs` | | proofs about `Surveillance` and its parts |
| `CameraLifecycle` | `CameraManager`, `CameraWorker`, `SQLiteCameraRepository`, the control API | specification |
| `CameraLifecycleProofs` | | proofs about `CameraLifecycle` |
| `EventDelivery` | `RabbitMQService.publish_event`, `EventConsumer`, `EventRepositoryImpl`, `ConnectionManager`, `websocket_endpoint` | specification |
| `EventDeliveryProofs` | | proofs about `EventDelivery` |
| `AuthSession` | `baseQueryWithRefresh`, `authSlice`, `App`, the title bar, the login page, the auth controller and service | component |
| `EventStream` | `useEventStream` on top of `AuthSession`, `GET /events` | specification |
| `EventStreamProofs` | | proofs about `EventStream` and `AuthSession` |
| `Lists` | what sorting and filtering of lists give, entry by entry | operators |
| `ListLemmas` | | lemmas about `Lists`, finite sets and induction |
| `MC...` | | small instances for TLC |

Operators marked "Mutant" stand beside the definition they spoil. No
specification uses them; each shows that a property notices a plausible bug.

### ZoneCache

A row of the zones table has a camera, `is_active` and a "shape", which stands
for everything else. `CreateZone`, `UpdateZone` and `DeleteZone` commit a row;
`PublishZoneUpdate`, the handler's next step, announces it. The AI service's
queue is exclusive: it disappears with the connection (`Disconnect`) and is
declared again by `connect_robust` (`Reconnect`).

A call of `get_zones` goes through phases, one action per await: it waits for
the camera's lock, looks at the cache again, and asks the backend for the
camera's own id and then for its alias ("3" and "camera3"). `Serve` is the moment
at which the backend reads its table and `Receive` the moment at which the
answer is handled, so that a change, an announcement or another camera's frame
may come in between. `RequestFails` is an `httpx.HTTPError`, caught inside the
loop over the ids; `FallBack` is any other exception, after which the old entry
is stored anew. A hit returns at once, changes nothing and is no action.

History variables: `disturbed[c]` is the last time a row of camera c changed or
a read of it failed; `unannounced` holds the cameras whose entry the news could
not reach; an entry remembers when its read began and whether anything happened
to the camera meanwhile.

### RateLimit and EventDedup

`should_fire` is `Fire` or `Suppress`; a key that is not in the table counts as
fired at 0, as in `_last_fired.get(key, 0.0)`. Every `CleanupInterval` events
`_evict_expired` drops the entries older than the longest of all cooldowns.
`RateLimit` keeps every key; the history variable `sent` is the mapping.
`clear_camera` is called from nowhere and left out.

### FrameAnalysis

A call of `process` is at the detector's semaphore or in the detector
(`"detect"`), waits for the lock of the reload (`"lock"`), or asks the backend for
the zones (`"fetch"`). `detectors` and `loaders` are semaphore and lock: the first
in the queue holds it. `Detected` takes the tracker, as the code does, before the
zones are there; `Loaded` and `Fetched` go on with it although it may have been
removed from the registry since (`Reset`). From the zones to the events nothing is
awaited, so `Analyze` is one step: matched tracks are hit, the others missed, new
ones made, old ones dropped, and each rule that fits a confirmed track asks the
deduplicator.

Which box matches which track, and which rules fit which track, is chosen freely:
the properties hold for every matching and every geometry. `lastFired` is
`RateLimit`'s table, which `EventDedup` implements. The zone cache is one bit; what
it may hold when is `ZoneCache`'s subject. `dwell` is what `enter_zone` and
`exit_zone` would add to: nothing in the pipeline calls them.

History variables: `looked[g]` is the time of tracker g's last update; a track's
`since[r]` is when rule r began to fit it.

### MotionGate, RiskRules, SmartZone and Surveillance

`FrameAnalysis` interleaves the calls of one camera and leaves tracks and rules
to chance; `Surveillance` has its calls one after the other and everything else
in full. Once a tick the camera gives a scene: which objects are in view, of
which class, in which zones, moving how. `MotionGate` compares it with the
background; what it lets through goes to the AI service (`Analyze`), gets lost
(`Lose`) or is held back (`Hold`). `NoFrame` is a camera that has to be connected
to again, `Switch` the switch of its detector.

`Analyze` is `AnalyzePipeline.process` without the awaits before its last part. The
object's detection goes to the object's own track. `RiskRules!AnalyzeFrame` lists
the questions that the rules ask the deduplicator, in the order of the code, and
`Answer` puts them one by one: `EventDedup`'s `Fire` or `Suppress`. `SmartZone` gets
the number of people in each zone. `_parse_backend_zone` passes on neither rules
nor schedules (`BackendZone`), so the zones as deployed have the default rules of
their type only; zones with rules and schedules of their own are those the tests
of the engine build. Of `ZoneRule`, `active_time_start` and `active_time_end` are
read nowhere, and so are `risk_weight` and `max_people_allowed` of the smart zones:
the models do without them. Scores are whole numbers in units of the clock.

History variables: `seen[o]` counts the frames that object o has been in view for
since the gate was last switched on, without those that were lost on the way; `owed[k]` is a level that every frame since has
asked for and the last event of key k had not; `level` and `smartLevel` are the
levels of the last events; `charged[z]` is the last update of zone z with people
in it; `vacant` holds the zones that frames held back have shown empty since the
last frame analysed.

### CameraLifecycle

`ready` is the event loop's queue. A coroutine runs from one await to the next
when its handle is at the head; `Complete` puts back the handle of a task whose
connection, read, timer or AI request is done, and `End` those of the stop
handlers that await a finished task. This order decides which races exist, so
it is kept exactly. A task is at one of the awaits of `_run`; the statements
between two awaits are one action. The steps of `CameraManager` that do not
await (`add_camera`, `update_camera`, `start_camera`) are one action each;
`stop_camera` and `remove_camera` are split at the await of
`CameraWorker.stop` into `AwaitStop` and `StopCamera` or `RemoveCamera`.

`connect`, `read` and `send` may each end at once or later and in every way the
code distinguishes. A camera's configuration is its `enabled` flag and its
address; `source` is the address the RTSP source was created with. The reply of
SQLite to an insert is the largest id plus one, so ids are used again. A stop of
the process, orderly or not, loses everything but the table.

`update_camera` neither starts nor stops a task: it assigns the new values to the
worker and saves the row.

History variables: `wanted[w]` is what the last start, stop, addition or load asked
of worker w (a processor that raises sets it to FALSE, since nothing starts that
camera again); `patched` holds the workers whose `enabled` a PATCH has changed since
then, which `ObeysLastRequest` and `Reconnects` leave out and `PatchTakesEffect` is
about; `overlapped` holds the cameras for which two requests were in flight together.

### EventDelivery

A message is ready in the queue (`queued`), or held by a running call of
`_handle_message` that has not acknowledged it (`owned`). The broadcast and the
thread of `asyncio.gather` are two independent lines of steps in the record of
the call. The broadcast keeps an index into the list of connections, as Python's
loop over a list does, so an entry taken out at a smaller index shifts the
others past it. `Select` and `Insert` are the two statements of the repository,
between which another thread may insert the same id. `Settle` is the
acknowledgement: after both lines, or after a failed save, while the broadcast
goes on. `ChannelLost` gives the messages back while the calls go on, those that
aio_pika cancels with their broadcast cut short.

Each WebSocket is opened at most once; a browser that reconnects is another one.

### AuthSession and EventStream

Every window has a redux store of its own (`token`); `access` and `refresh` are in
the localStorage all windows share. Access tokens are numbers in the order in
which they are issued, and expire in that order (`AccessExpires`); a refresh token
is the number of its login, since a refresh returns the one it was asked with. A
request is sent with the token of the store, or else of the storage; after a 401
it reads the refresh token (`AskRefresh`), waits for the answer (`Refreshed`,
`RefreshFails`) and is sent again. Between these steps the user logs out or in, in
this window or in another, whose "logout" message (`told`) is handled later. A
failed login is a request too: its 401 starts a refresh like any other. A
successful login is one step. A request without a token is answered 401 as well: so
does `HTTPBearer` in the FastAPI that the backend's `uv.lock` pins (0.129.0).

`useEventStream` asks for the history when it is mounted and opens the socket; the
answer replaces the list. An event is its timestamp. `ReadHistory` is the moment
at which the backend reads the table, `End` the arrival of the answer, so that
events are stored and pushed (in either order, see `EventDelivery`) before,
between and after. `Push` is a push that reaches the page; one that passes it over,
because the broadcast's list shifted under it, or is lost with the connection, is no
step of the page, so any open page may miss any event. An event may also be pushed
again. `FetchBreaks` is a history that fails on the way or cannot be parsed: the list
stays, or is emptied when the refused first request is the answer that counts. The
page is left when its window is logged out.

History variables: `session` is what the user did last; `late` holds the
refreshes that were under way then, and `disturbed` says that one of them has
ended since, or a "logout" message from before the login was handled, or a
refresh failed though its token was good. `live` holds the events that the socket
has brought since the list was last replaced, the last to come first.

## What is checked

| Run | Specification and bounds | Shows |
|---|---|---|
| `zone_time` | one camera and zone, 1 handler, 7 instants, 2 faults; times to live 2 and 1, fetch 1 | types; `BoundedStaleness` |
| `zone_coherence` | two spellings of a camera, zones may move between them, 2 handlers, 1 fault, no clock, fair | `StaleOnlyUntilAnnounced`, `SingleFlight`, `GetZonesReturns` |
| `zone_race` | one camera, no fault | `UpdatesReachTheCache` is violated |
| `frame_analysis` | 3 calls, 4 frames, 2 tracks, 2 trackers, 1 rule, 2 instants after the first, 1 failure of the detector | types, `NoSilentIntruder`, `QueuesAreServed`, `OvertakesOnlyWaiters` |
| `frame_delay` | 1 call, 4 frames, 1 track, a rule with a delay | `DelayedRulesFire` is violated |
| `surveillance` | a restricted zone behind a gate, or two zones with rules and schedules without; days of 4 instants, instants 4 to 12; 2 objects, 2 tracks, 1 lost frame, 2 switches; clean-up every 3 events | types, `TableInv`, refinement of `RateLimit`, `IntruderReported`, `FullLevelReturns`, `DecayByTheClock` |
| `surveillance_ghost` | the zone behind the gate, no lost frame | `EmptyTimeIsNotCharged` is violated |
| `camera_workers` | 2 cameras, 1 address, 2 requests in flight; 3 requests, or 2 and a restart; 2 tasks; fair | types, `NoOrphan`, `ObeysLastRequest`, `TableIsMemory`, `RequestsReturn`, `Reconnects` |
| `camera_patch` | 1 camera, 1 request | `PatchTakesEffect` is violated |
| `camera_orphan` | 1 camera, 2 requests | `StopStops` is violated |
| `event_delivery` | 1 event, readable or not, 2 handlers, 2 browsers, 1 fault, fair | types, `MissesAreShifts`, `ListMatchesEndpoints`, `NoneLost`, `EventuallyStored` |
| `browser` | 2 windows, 2 requests, 3 access tokens, 2 logins; or a page with 3 events and a list of 2; or a page and a request beside it | types, `LogoutHolds`, `LoginHolds`, `ShowsNewest` |

Why the bounds are enough to see the cases that matter:

- `zone_time` lets an entry be stored, outlive its time to live and be read
  again after a lost announcement and after a failed read; one camera is enough
  since the entries of a camera depend on no other but its alias.
- `zone_coherence` has every overlap of two reads of a camera (one lock each),
  of a change and a read, and of an announcement and a read. Its clock stands
  still, so an entry never expires: that only makes the property harder to keep.
- `surveillance` has keys with cooldowns 2, 3 and 4, and reaches clean-ups with
  fresh, expired and just-expiring entries of each. The gate opens on the second
  frame with motion and closes 4 instants after the last, so it can open, close
  and open again, with a track in between. Two switches turn the detector off and on
  again, with what it counted before. A schedule begins and ends twice, on
  days that count and on days that do not, with the cooldown of a lowered event
  on either side of its end.
- `browser`: two windows are what a "logout" message takes, and two requests what
  two refreshes at a time take; three access tokens and two logins let a token
  of the first login come back after the second. With three events, a list of
  two overflows, and one event may be in the answer while another comes over the
  socket, comes again, or does not come at all.
  Request slots are interchangeable, so the run uses their symmetry; its three
  properties are invariants.
- `frame_analysis`: the three calls can be at once in the fetch, behind it at the
  lock, and with the detector, which is what an overtaking takes. Two tracks and
  two trackers are enough for one track to be held back by another's event.
- `camera_workers` has all orders of three requests, two of them in flight at a time,
  or of two and a restart, for one or two cameras, at every await of a running task.
  A camera removed and added again has a second worker under an id used again. One
  bound counts requests and restarts together (`MaxRequests`). With one address no
  change of the address is seen here; the safety properties are proved for all values.
- In `event_delivery` the one fault is a crash, a lost channel or a database
  error, in every place; after a lost channel two handlers work on the event at
  a time. Two browsers are enough for an index to shift past one of them.

`CHECK_DEADLOCK FALSE` is set where the modelled system may really stop: a
service without requests, cameras or events has nothing to do, and where a clock
or the tokens are used up. The zone runs check deadlock.

### What the violated properties mean

- `UpdatesReachTheCache` (`docs/api-reference.md:279`): an invalidation handled
  between the backend's read and the store has nothing to delete, and the old
  zones then have a full time to live of 30 seconds.
- `StopStops` (`docs/api-reference.md:554`): the task ends, a start already
  waiting in the event loop's queue makes a new task, and only then does the
  stop go on: it sets `_task` to None and `enabled` to False. The new task runs
  on and no request can reach it.
- `PatchTakesEffect` (`schemas/camera_update_request.py:16`: the field is to "enable or
  disable the camera processing"): `update_camera` sets `enabled` and saves the row, and
  that is all. A running camera whose `enabled` is set to false goes on until the
  service is restarted, and one that is stopped is not started by true.
- `DelayedRulesFire` (`schemas/events.py:67`): `get_zone_events`, which alone calls
  `enter_zone`, is called by a test only. A person in a parking zone, whose
  default rule has a delay of 30 seconds, is never reported.
- `EmptyTimeIsNotCharged` (`backend/application/dto/zone_dto.py:74`: the score falls
  per second while nobody is in the zone): `max_misses` counts frames that are
  analysed, and the gate holds frames back. Somebody seen in one frame, just
  before the gate closes, leaves a track that is not yet confirmed and misses
  nothing while the gate is closed, although the frames held back show the zone
  empty. When motion opens the gate again, the track is confirmed by its second
  frame, and `elapsed` is the whole time since the frame before: the score grows by
  it, times the people, times the multiplier.

Two more disagreements can be seen in the models and have no run of their own. A
worker's `source` keeps the address it was created with through a stop and a start
(`CameraLifecycle`; `api/cameras.py:86` says a restart takes the new one). And a
browser behind one that leaves during a broadcast is skipped (`EventDelivery`;
`docs/api-reference.md:312` has the event pushed to all): `MissesAreShifts` is the
part of that claim that holds.

What holds only with a premise is said in the properties themselves.
`LogoutHolds` and `LoginHolds` except refreshes that were under way: one of them
may log a user in again who has logged out. `ObeysLastRequest` excepts cameras whose
`enabled` a PATCH has changed (`PatchTakesEffect`) and those with two requests at a
time (`StopStops`). `ShowsNewest` speaks of the events that have come to the page. Of
others nothing can be promised: nothing asks again for an event that was pushed while
the socket was not open, that the broadcast passed over or that was lost with the
connection, and the history replaces the live events that came before it, in it or
not. `FullLevelReturns` is true of zones in which no rule hides a riskier one of the
same key behind it (`Unhidden`): the deduplicator gives an event to the first rule that asks. `IntruderReported` counts from the last
time the detector was switched on, and needs a machine that has been up for the
longest cooldown when the service starts (`LongBooted`): a key without entry counts
as fired at 0. The configuration of the run meets both (`MCConditions`).

## Fairness

- `ZoneCache`: `CallStep` of each handler is weakly fair. The event loop resumes
  a coroutine whose lock is free or whose answer has come, and the HTTP client
  has a time limit. New frames and the broker are not fair.
- `CameraLifecycle`: the event loop turns; what a task waits for ends, since
  the FFmpeg capture and the HTTP client have time limits and sleeps end; the
  process is started again (the compose files restart it). `Connected` is
  strongly fair: a camera that is tried again and again answers once more. Only
  `Reconnects` depends on that. Clients are not fair.
- `EventDelivery`: the process is started again, the broker delivers, queries
  and sends end (the WebSocket server pings its peers) and the endpoint notices
  a lost browser. Publishing, browsers and faults are not fair.

## What is proved

`ZoneCacheProofs`, for all sets of cameras, aliases, handlers and zones, all
times and all bounds:

- `TypeCorrect`: `[](TypeOK /\ LockInv)`. `LockInv` says that a call queues on
  the lock of its camera exactly once and asks the backend only at the head. It
  is needed because `SingleFlight` alone does not say what the lock's next
  holder is when the present one leaves.
- `SingleFlightHolds`: a conjunct of `LockInv`.
- `StalenessIsBounded`: `BoundedStaleness`. `FetchInv` says that a read which is
  not what the table says now has been disturbed since it began, and has not
  lasted longer than `FetchMax`; `EntryInv` carries this over to the entry. The
  age of an entry is at most its time to live, so the disturbance is at most one
  time to live and one fetch ago.
- `AnnouncementsInvalidate`: `StaleOnlyUntilAnnounced`, which with the "clean"
  half of `FetchInv` is inductive.

Assumptions: `Alias` is an involution, `EmptyTTL` is at most `ZoneTTL`, `None` is
no camera, row or entry.

`EventDedupProofs`, for all keys, cooldowns and intervals:

- `DedupTypeCorrect`, `TableIsHistory`: `[]TypeOK`, `[]TableInv`.
- `DedupRefinesRateLimit`: every step is one of `RateLimit`. By `TableInv` a key
  that was forgotten has been silent for longer than every cooldown, so
  `CooldownOver` and `Due` agree. Assumption: `MaxCooldown` bounds the cooldowns.

`FrameAnalysisProofs`, for any number of calls, frames, tracks, trackers and
rules:

- `FramesTypeCorrect`, `NoSilence`, `QueuesServe`, `FramesInOrder`: the four
  properties of `frame_analysis`. The inductive invariant is `TypeOK`,
  `NoSilentIntruder` and `OrderInv`. `OrderInv` says that each queue holds exactly
  the calls in its phases, in the order of their frames; that whoever waits for
  the zones is ahead of whoever waits for the detector; and that the zones are
  not cached while one asks for them. `OvertakesOnlyWaiters` is false of a step
  from a state without it. `AnalyzeStep` is the step for the tracks.
- Assumptions: each cooldown is positive and at most the time for which the machine
  has been up (a key without entry counts as fired at 0); `MinHits` and `MaxMisses`
  are positive; `None` is no number.

`SurveillanceProofs`, for any setups, objects, rules, schedules and cooldowns and any
number of tracks, lost frames and switches. The invariants are proved one after the
other, each step lemma with those before it as hypotheses:

- `ScoresDecay`: `DecayByTheClock`. `ScoreInv` says that at each update since the last
  one with people a zone has lost what the clock says, down to 0. That decaying in
  parts is decaying at once (`DecayInParts`) is where it could go wrong.
- `PipelineDedups`: `PipelineSpec => Spec`, the pipeline's steps are steps of
  `EventDedup` or leave it alone. So all that is proved of the deduplicator holds where
  the rules ask it: `PipelineLimitsRates`. What it takes is that each
  question is of one of `Keys` (`PendingInv`), for which `AnalysisMade` follows the
  lists of questions from rule to zone to track to frame. `KeyAssumption` says which keys
  the setups need, rule by rule; the theorem says that no other is asked for.
- `PipelineTypes`: `PipelineTypeOK`. `TracksInv` adds that tracks have different ids.
- `LevelsReturn`: `Unhidden => (PipelineSpec => []FullLevelReturns)`. `OwedInv` says of a
  level that is owed that its key is cooling down or is still to be asked for at that
  level. For this the riskiest question of a key must come first, which is the second
  half of `PendingInv` (`Ordered(pending, Falls)`): it is false of zones that hide a rule.
- `IntrudersReported`: `LongBooted => (PipelineSpec => []IntruderReported)`. `SeenInv`
  counts: the frames somebody has been in view for are at most those the gate has held
  back in its streak (`MinFrames - 1` of them) and the hits of his track, unless that is
  confirmed. A lost frame raises the streak only, a frame analysed raises the streak or
  the hits, and one held back the streak. So after `Needed` frames the track is confirmed
  and no frame is held back; `IntruderInv` follows it through the questions of the frame
  (`IntrusionAsked`) and the people in the zone (`IntruderCounted`) to the events.
- Assumptions (`SetupAssumption`, `KeyAssumption`, `NoneAssumption` and those of the
  parts): the zones and settings are what the schemas let pass, a detection is in a zone
  once, objects and zones are finite sets, `None` is neither scene, track nor level.

TLC has checked `SeenInv`, `IntruderInv`, `OwedInv`, `TracksInv` and `PendingInv` on the
instance of `surveillance`.

`CameraLifecycleProofs`, for any number of cameras, tasks, requests and restarts:

- `CameraTypes`: `TypeOK`, from `ShapeInv`, which is true whoever asks for what. Its parts:
  types (`BasicInv`); the event loop has every runnable task and request once, and no task
  that is over (`QueueInv`); who waits for a task has cancelled it and is on its list once
  (`WaitInv`); registry, table, workers, tasks and requests agree on which there are
  (`LinkInv`); nothing is left after a crash (`DownInv`); and the bounds leave room for
  what the requests in flight make (`RoomInv`).
- `NoOrphans`, `RequestsObeyed`, `TableFollows`: `NoOrphan`, `ObeysLastRequest`,
  `TableIsMemory`. None of them is inductive, and neither is any statement of a camera
  with two requests at a time: `StopStops` is violated. `CameraInv` says of a camera whose
  requests came one at a time that its live task is its worker's, that whoever waits does
  so for that task, and that worker and table agree, with the last request too unless
  a PATCH has changed `enabled` since; `OverlapInv` says that
  no two requests for such a camera are in flight, so that the one that acts finds nobody
  else half way.
- Assumptions: the bounds are numbers and leave a task for each camera; finitely many
  requests are in flight; `None` is no record.

`EventDeliveryProofs`, for any number of events, browsers, handlers and faults
and any prefetch count:

- `NothingIsLost`: `NoneLost`. The invariant is `CallInv`: a call whose thread
  says "saved" has its event in the table. It is needed at the one step that
  gives an event up, the acknowledgement. Most of the proof shows that the
  broadcast, which rewrites the positions of the other calls too, changes no
  call's event, outcome or ownership.
- `DeliveryTypes`, `ListsMatch`: `TypeOK`, `ListMatchesEndpoints`, from `DeliveryInv`. A
  broadcast takes dead connections out of the list when it is over, long after it met
  them: `CallsInv` says that those it has noted are gone, or else the list would lose a
  browser that is still there.
- `BroadcastsMiss`: `MissesAreShifts`. `CountInv` says it of a broadcast that is under way:
  the connections before its position that are listed, still there and without the event
  are at most the entries that left the list at or before the position. `WithoutMoves` is
  what taking entries out does to the others' places.
- Assumption: `Prefetch` and `MaxFaults` are numbers.

`EventStreamProofs`, for any number of windows, requests, tokens, logins and events and
any length of the list:

- `BrowserTypes`: `TypeOK`; the list holds an event once and `MaxEvents` at most.
- `LogoutsHold`, `LoginsHold`: `LogoutHolds`, `LoginHolds`. `LogoutInv` adds that every
  refresh under way is one from before the logout, `LoginInv` that those from after the
  login carry its token: what a refresh will do to the storage is decided when it begins.
- `NewestAreShown`: `ShowsNewest`. `ListInv` says it before the history has come as
  after: the list holds only what came, in order, and whatever it does not show is below
  all of a full list. Two facts carry it: putting an event in front, and nowhere else,
  leaves the order of the others alone, and what is cut off was the last of a list that
  is full and stays full.
- Assumptions (`SessionAssumption`, `RequestAssumption`, `StreamAssumption`): the setups
  have windows and numbers of tokens, logins and events; the list has room for one event.

`ListLemmas` has what these proofs share. The provers cannot open `SelectSeq` and
`SortSeq`, since what the library says of them takes an operator as parameter; `Lists`
gives the same lists by rank, and the lemmas say where each entry goes. Induction is
used in one form only (`NaturalSteps`): a set of naturals that has 0 and with each number
the next one has all of them. With it `Flattened` and `FlattenOrdered` say what
`FlattenSeq`, a recursive function, makes of a list of lists.

Only model-checked are the liveness properties, which are beyond the prover:
`GetZonesReturns`, `RequestsReturn`, `Reconnects` and `EventuallyStored`. Of the violated
properties nothing can be proved.

## What is not modelled

Listed with reasons in `PROJECT.json`: the neural network, geometry, rendering,
image arithmetic, cryptography, pages and deployment. Within modelled parts:

- the duration of the zone fetch is the constant `FetchMax`: the HTTP client's
  limit of 5 seconds is per read, and two endpoints with one connection retry
  may be asked;
- the fps, width, quality and motion parameters of a camera, and the rewriting of
  localhost addresses;
- the executor thread that reads a frame while the source is released;
- the areas and solidity of moving regions, the slow blending of the background,
  and the change of a frame's size under the motion detector (its effect, a
  processor that raises, is in `CameraLifecycle`);
- an event that passed the deduplicator and is then not published: `EventDelivery`
  loses it, and the deduplicator is told nothing, in the code as in the models;
- a frame whose request times out is taken as never analysed (`Lose`), though the AI
  service may go on with it; and `Surveillance` analyses one frame after another, so a
  frame that is overtaken and sets `last_update_timestamp` back
  (`smart_zone_analytics.py:105`) is not seen;
- a save that fails is a fault within the bound (`SaveFails`), the `ValueError` for an
  unknown risk level among them, which every such message would meet; a commit of
  unknown outcome is left out;
- users, passwords and roles; of a session only its tokens;
- the pages. One of them reads time windows for itself, and differently from
  `TimeWindows`: `isZoneRelaxed` (`pages/Monitoring/CameraTile.jsx:12`) knows no window
  over midnight and counts the last minute in, so what it draws as relaxed is not
  what the AI service treats as relaxed;
- a read that ends without an await (the capture is closed) is a wait that ends
  at once.

## Plan

1. Proofs: the safety that the liveness properties rest on, such as that a call that waits
   in `ZoneCache` is on the queue of a lock that somebody holds, and that a camera that is
   wanted has a step to make.
2. `FrameAnalysis`: matching by classes of IoU instead of any matching; events that
   are fired but not published, together with `EventDelivery`.
3. `MotionGate`: a change of size.
