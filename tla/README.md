# Eye Maps in TLA+

Eye Maps is an iOS app that places 3D audio in the world so that blind people
can find their way in an unfamiliar place: somebody maps a place, puts spoken
directions at points of it and shares it; somebody else opens it and hears each
direction as they walk up to it. The app's own code is the Swift under
`src/Access/Access` (27 files, 2800 lines). `src/Access/Pods` holds the
libraries it ships with. One of them carries the app's shared state: the
Firestore client, whose C++ core keeps the writes of `setData` and the reads of
`getDocuments` going through closed streams, restarts and lost connections.
Those two paths are modelled; the other libraries are not. The repository has no
tests of the app, and its documentation is three lines of README and the
comments.

Paths below are relative to `src/Access/Access`, or, when they begin with
`core/` , `local/` or `remote/`, to
`src/Access/Pods/FirebaseFirestore/Firestore/core/src`.

## 1. The system

### Components

| Component | Sources | State | Operations |
|---|---|---|---|
| Audio guidance | `AR/ARViewExtension.swift`, `AR/CustomARView.swift` | globals `entities`, `step`, `coolDown`, `transformations`, `directions`; two repeating 1 s timers per box; delayed blocks | `session(_:didAdd:)` / `addAnchorEntityToScene`, play timer, distance timer, `asyncAfter` block, camera timer of `setup` |
| Places | `Views/SelectView.swift`, `Views/AddView.swift`, `Views/ContentView.swift`, `Data/Location.swift` | `locations`, `locations.txt`, the Firestore collection, the sheet, the draft, the globals the open place is edited through, one 0.1 s timer per view ever opened | launch (`load`, `loadNearby`), plus button, row, Begin Mapping, direction menu, 0.1 s timer, `onChange`, `onDisappear` |
| World maps | `AR/SaveLoadMap.swift`, `AR/SaveLoadBtn.swift`, `AR/SaveLoadState.swift`, `AR/ButtonState.swift`, `AR/SnapshotAnchor.swift`, `Views/ContentView.swift` | `SaveLoadState` (shared by all views), UserDefaults, calls of `getCurrentWorldMap` in flight, main queue | `makeUIView`, `updateUIView`, `saveExperience` and its completion, `loadExperience`, `onDisappear` |
| Placing anchors and points | `AR/Gestures.swift`, `Views/ContentView.swift`, `AR/ARViewExtension.swift` | globals `addAudio`, `placeIntitialAnchor`, `placed`; `virtualObjectAnchor` of each view; its AR session | gesture timer, `rayCastingMethod`, `handleTap`, the two buttons, the refresh of `showInitial`, relocalization |
| Focus square | `AR/Foucs/FocusEntity*.swift` | `state`, `onPlane`, `isOpen`, segments, `currentAlignment`, `currentPlaneAnchor`, two histories, subscription | `updateFocusEntity`, `setAutoUpdate`, `moveTo`, `destroy` |
| Frames | `AR/ARViewExtension.swift`, `AR/CustomARView.swift`, `Views/ContentView.swift` | globals `meters`, `classification`; the lazy `classificationRequest`; one background block per frame | `session(_:didUpdate:)` with its background block, `processClassifications`, the `onChange` of the two texts |
| User's position | `Location/LocationManager.swift` | two published fields | two CoreLocation callbacks |
| App shell, plain views | `AppDelegate.swift`, `SceneDelegate.swift`, `Views/LocationView.swift` | none | start-up |
| Helpers, unused types | `AR/Extensions.swift`, `AR/ARState.swift`, `AR/AssetModel.swift`, `AR/Plane.swift`, `AR/Foucs/float4x4+Extension.swift`, `AR/Foucs/FocusEntity+Colored.swift` | none | descriptions, matrix accessors |
| Firestore client: the write path | `core/sync_engine.cc`, `local/leveldb_mutation_queue.cc`, `remote/remote_store.cc`, `remote/stream.cc`, `remote/write_stream.cc` | the mutation queue on disk, its next batch id, the callbacks, the write pipeline, the write stream with its handshake, close count and timers | `WriteMutations`, token, handshake, result, close with an error, backoff, idle timer, `RestartNetwork`, start-up |
| Firestore client: the read path | `api/query_core.cc`, `core/event_manager.cc`, `core/query_listener.cc`, `core/view.cc`, `core/sync_engine.cc`, `remote/remote_store.cc`, `remote/remote_event.cc`, `remote/online_state_tracker.cc` | listeners, the view, listen targets, the watch stream, the aggregator's target state, the online state with its timer | `getDocuments`, events to the main queue, adding and removing listeners, the watch changes, errors, timers |
| Firestore client: limbo resolution | `core/sync_engine.cc`, `core/view.cc` | the queue of documents in limbo, two maps of active resolutions, their listens | updates of the query, answers and rejections of a limbo listen, the end of the query |
| Other vendored libraries | the rest of `src/Access/Pods` | - | - |

### How they interact

- **Global variables.** The parts do not call each other much; they share
  mutable globals. A button of `ContentView` sets `addAudio`; a timer of
  `CustomARView` sees it, places a point and appends to `transformations`; the
  0.1 s timer of `ContentView` copies `transformations` into
  `locations[index]`; `onChange` of `AddView` writes the file; and
  `addAnchorEntityToScene` turns the same array into boxes with sounds when an
  anchor is added.
- **Timers that are never invalidated.** Every `ContentView` that appears starts
  a 0.1 s timer, and every `CustomARView` a 1 s gesture timer and a 1 s camera
  timer. Nothing stops them when the view is closed, so all views opened since
  launch keep acting on the globals.
- **Asynchronous answers.** Firestore answers `loadNearby` once, at any time;
  `getCurrentWorldMap` calls back at any time; a classification runs on a
  concurrent queue and reports through the main queue; an advance of `step`
  leaves a block that runs five seconds later.
- **Shared buttons.** `SaveLoadState` belongs to the scene, not to a place: the
  Save and Load buttons of all places are the same two objects.
- **Persistence.** `locations.txt` holds the places, UserDefaults the world maps
  (by place id), Firestore the shared places (by id). The process may end at any
  point between two of these writes.

- **The Firestore client.** `loadNearby` calls `getDocuments` and the upload
  calls `setData`. Both hand a task to the client's worker queue, a serial queue
  of its own, and hear of the outcome through the main queue. The worker queue
  also runs the callbacks of two streams, one that watches and one that writes,
  and their timers; the mutation queue lives in LevelDB and survives the process.
  `MapStore` sees the client only as an answer that comes once, at any time, and
  as documents that appear; `Uploads`, `WritePipeline`, `GetDocuments` and `Limbo`
  model what is behind that.

Nearly all of the app runs on the main run loop, so an action of a model is one
callback, run to its end, and the process may end between any two; in the client
an action is one task of the worker queue. SwiftUI's `onChange` and `onAppear` are
callbacks of their own: they run when the screen is next brought up to date, after
the event that changed the state, so that blocks and timers, or the end of the
process, may come in between, and before the user acts on the new screen (`UpToDate`
in `MapStore`). `OpenAdd` and `OpenRow` of `MapStore` alone take the tap and the
presentation of the sheet together: what the button sets is read by the sheet only.
The exceptions are the classification of frames, whose blocks run
concurrently (`FrameFeed` cuts them at their accesses to shared state), and a
process that ends within a task, between a write to LevelDB and a callback
(`CrashInSuccessfulWrite`, `CrashInRejectedWrite`).

### What is hard, and what makes each component correct

- *Guidance.* Any box's distance timer may advance the shared `step`, and play
  timers look at it only once a second. Correct: sounds start in route order,
  only while their stop is current and never twice; no stop is passed unheard;
  the shared `coolDown` neither freezes the guidance nor is lifted early.
- *Places.* Three copies of a place (array, file, Firestore) and a fourth in the
  globals, kept in step by `onChange` and by timers of which some belong to
  places closed long ago, with an answer of Firestore in between. Correct: no
  place is lost when the process ends, but for a draft whose `onChange` is still to
  come, the file never loses one, the open place
  and the globals agree, an upload is what was mapped and overwrites nothing.
- *World maps.* A save completes when its place is closed or another is open.
  Correct: Load is offered only for a map that exists, and is offered when one
  does; one press loads once; a press of Save ends.
- *Placing.* Requests are flags that many views poll. Correct: one request, at
  most one point or anchor; a missed ray retries the anchor and does not hang
  the point; the anchor button disappears only when there is an anchor.
- *Focus square.* Several handlers update parts of one state. Correct: the parts
  agree after every order of hits, misses and moves; smoothing neither flickers
  nor gets stuck.
- *Frames.* Blocks overtake each other, and may race to create the request they
  share. Correct: when all is done the label is that of the last image one of the
  requests was performed on, and the screen shows it.

- *Writes.* An answer of the backend carries no id: it is taken to be about the
  front of the pipeline. Queue on disk, pipeline, wire and callbacks must be one
  order of writes through every close, resend, crash and reuse of ids. Correct:
  writes are settled in order and once, nothing is lost, the document is never
  older than a write reported stored, and the queue is never left without a
  stream.
- *Reads.* A get is a listener that lives until its first event has reached the
  main queue, and several gets share a view and a target whose answers are only
  counted. Correct: every get is answered once, by the backend or from the cache;
  no answer of an earlier watch is taken for one of the present watch; listeners,
  view, target, stream and timers agree.
- *Limbo.* A hundred documents are resolved at a time, the others wait. Correct:
  no document is forgotten, none waits while a place is free, the maps agree. That
  the number of listens stays within the limit is what the code says of itself and
  does not keep (`limbo_bound`).

Every such hazard is listed, at its line, under `hazards` in `PROJECT.json`.

## 2. The modules

| Module | What it is |
|---|---|
| `Announcements` | what the audio guidance promises, without timers (abstract specification) |
| `Guidance` | the timers that carry it out; implements `Announcements` |
| `MapStore` | array, file, Firestore and the open place |
| `WorldMap` | the Save and Load buttons and the asynchronous save |
| `Placement` | requests for points and anchors, the gesture timers, the AR sessions |
| `FocusEntity` | the focus square |
| `FrameFeed` | frames, background classification, the two texts |
| `Uploads` | what `setData` promises, without streams (abstract specification) |
| `WritePipeline` | the write path that keeps the promise; implements `Uploads` |
| `GetDocuments` | gets, listeners, the watch stream and the online state |
| `Limbo` | the bookkeeping of limbo resolutions |
| `GuidanceProofs`, `PlacementProofs`, `FocusEntityProofs`, `FrameFeedProofs`, `WritePipelineProofs`, `WorldMapProofs`, `GetDocumentsProofs`, `MapStoreProofs` | theorems about the module of that name; `GetDocumentsProofs` also has those about `Limbo` |

A constant whose name begins with `Max` is a bound. Operators such as
`AppearStale`, `RedrawAlways` or `PointAlwaysAsked` that stand directly before a
definition and are used nowhere are faulty versions of it: each property is
known to fail when one of them takes the definition's place (`mutants` in
`PROJECT.json`). Variables marked *(history)* are not in the code; they only
record what happened, for a property.

### Guidance

`addAnchorEntityToScene` appends one box per stored transformation to the global
`entities` and gives each box two repeating one-second timers. `AddAnchor(n)` is
that handler: n boxes, of which any may fail to load their sound (the early
`return` of the load leaves the box in `entities` without timers). `FirePlay` is
the timer that starts the sound when `entities[step]` is its box and then
invalidates itself; `FireNear` the one that measures the distance, stops the
sound within 1.1 m and advances `step` unless `coolDown`, leaving a block that
clears the flag. `CameraTick` is the camera timer: it changes nothing in the
model except that a second has passed for the pending blocks; `CoolDownOver` is
the delayed block. The run loop is the sequence `ring`: its head fires and goes
to the back, because a timer that fires is due again one second later, after
every timer that is due now. Distances are a choice: close or not. `playSound` is
never called and left out.

`Announcements` has two steps, `Announce` (the sound of the current stop starts)
and `Reach` (a sound ends, the current stop may move on by one). `Guidance`
implements it with `current <- step` and the state of each audio controller
mapped to silent, sounding or over.

### MapStore

`Launch` is `SelectView.onAppear`; `NearbyArrives` the answer of Firestore with
`removeDuplicates`; `OpenAdd`, `OpenRow`, `BeginMapping`, `AddDirection` and
`CloseSheet` what the user does; `Tick(t)` the 0.1 s timer of a `ContentView`
that was created with index t; `PlacePoint` the gesture timer as far as a place
sees it; `RowsDisappear` the write of the file when rows vanish; `Kill` the end of
the process. Begin Mapping takes three steps: the button appends the draft to the
array and does no more (`BeginMapping`); `OnChange`, the `onChange` of `AddView`,
writes the file and sets `next` (`sheet` becomes `"next"`); `MapAppears` is the
`onAppear` of the map, bound to the last place. `OnChange` is due whenever the array
is not what `AddView` has last seen of it (`seen`), whoever changed it: a timer or
Firestore may bring the form to the map as well, and several changes may be seen as
one. An index out of range is a trap
in Swift: `Gone`, the end of the process. A place is its id, its directions and
its points; title, coordinates and the (always empty) `worldData` are left out.
Left out as well: a file that cannot be read or written, and the else-branch of
`AddView` (lines 113-136), which no state reaches.

### WorldMap

`OpenPlace` is `makeUIView`, `ClosePlace` is `onDisappear`. `UpdateSaves` and
`UpdateLoads` are `updateUIView`, which SwiftUI may run at any time while a press
is pending: a press of Save is reset by a block of the main queue, a press of
Load at once. `SaveCompletes` is the completion of `getCurrentWorldMap`, for the
place the save was asked for; it stores the map and sends a block that shows the
Load button. `SnapshotFails` is the missing frame or orientation that ends the
program. The contents of a map and its archiving are left out, and with them
failures of either; `resetTracking` cannot be reached from the user interface.

### Placement

`GestureTimer(v)` is the one-second timer of view v, open or not: first the ray
for a point (`rayCastingMethod`), then the ray for the initial anchor; each hits
or misses. `AskPoint` and `AskAnchor` are the buttons, `Refresh` the line of the
0.1 s timer that hides the anchor button, `Tap` is `handleTap`, `Load` and
`Relocalize` what loading a map does to the session. Where a ray hits is left
out.

### FocusEntity

`Frame` is `updateFocusEntity`: nothing hit (`Lose`, as a billboard if it was
tracking), a plane or an estimated surface (`Track`); `Redraw` opens and closes
the segments, `Align` is `updateAlignment` with its threshold over the recent
alignments, `Place` is `updatePosition`. `SetAutoUpdate`, `MoveTo` and `Destroy`
are the public operations. Eight segments that are changed alike are one. Left
out: the rotation and `isChangingAlignment`, which only paces it; the delegate,
which is never set; `hide`, `scaleEntityBasedOnDistance`, `normalize` and
`scaleBasedOnDistance`, which are never called; the coloured style, which is
never chosen; the rounding of the segments' shifts, which are exact here.

### FrameFeed

`DeliverFrame` is `session(_:didUpdate:)`. The block it starts reads the lazy
request (`ReadRequest`), creates it if there was none (`CreateRequest`, which
several blocks may do, as Swift does not protect a lazy variable), performs it
(`Perform`) and reports to the main queue (`Complete`); `Classified` is the block
of `processClassifications` there, and `EvaluateBody` the evaluation of
`ContentView.body` at which `onChange` compares values. Image contents and the
fixed index into the depth map are left out, and the text of a second view.

### WritePipeline and Uploads

One document (the app gives each place one), and writes numbered in the order of
`setData`; a batch is its id and its write. `WriteMutations` appends it to the
mutation queue, registers its callback and fills the pipeline. `TokenAnswered(c)`
is `ResumeStartWithCredentials` for the token asked for at close count c;
`HandshakeComplete` sends the whole pipeline; `MutationResult` takes an answer to
be about the front of the pipeline, acknowledges it and fills up;
`WriteRejected` is a close with a permanent error, which drops the front, and
`StreamFailed` one with a transient error, which keeps it. `BackoffElapsed`,
`IdleTimeout` and `RestartNetwork` are the two timers and the change of the
network. A process that ends (`Crash` and the two crashes inside a task) loses
all but the mutation queue; `Launch` is the first use of the client in the next
process. `FillWritePipeline` is part of each action that calls it, with the start
of the stream and the sends it causes. The backend (external) answers the
requests of a stream in order, and a refused write closes the stream. Stream
tokens, local views, the delays of the backoff and the document's contents are
left out, and so is the code for several users: the app signs nobody in.

`Uploads` has four steps beside the bound: a write is issued, reaches the
document (perhaps again), is settled, and the process stops or starts.
`WritePipeline` implements it with `settled <- issued - Len(mutationQueue)` and
the callbacks as those who wait to be told. Where the code is cut between telling
the caller and removing the batch, or the other way round, `Stop` says what that
looks like from outside: a write told and settled again later, or settled and
never told.

### GetDocuments

`GetDocs` is the call; `AddQueryListener` and `RemoveQueryListener` are the tasks
of the worker queue it leads to, with the view, the target and the stream they
start or stop (`Listen`, `StopListening`); `DeliverEvent` is the main queue, where
`ListenOnce` mutes the listener and asks for its removal. `TargetAdded`,
`TargetRemoved`, `TargetIsCurrent`, `WatchSnapshot` and `TargetRejected` are the
messages of the watch stream, `StreamOpened`, `StreamFailed`, `BackoffElapsed`,
`IdleTimeout`, `OnlineTimeout` and `RestartNetwork` its life and timers. The
backend (external) answers requests in order, sends CURRENT once for a target it
serves, and snapshots after changes; it may refuse the query (`permitted`). All
gets are of one query, as in the app, so there is one target id. Documents,
resume tokens and existence filters are left out; a snapshot may or may not
change the result.

### Limbo

`QueryUpdated(new)` is an update that leaves the documents `new` in limbo;
`LimboResolved` and `LimboRejected` are the two answers to a limbo listen,
`InitializeView` and `StopQuery` begin and end the query, and
`ApplyOnlineStateChange` is the fall of the view from current. `Track`,
`RemoveLimboTarget` and `Pump` are the three operations on the bookkeeping; `Added`
and `Removed` apply them document by document, in key order, as the code does.

## 3. The runs

| Run | Properties | What it shows |
|---|---|---|
| `guidance` | `TypeOK`, `CoolDownHasItsReset`, `NoStopSkipped`, `AnnouncesRoute`, `CurrentIsAnnounced` | sounds start in route order, each while its stop is current and never again; no loaded stop of a single anchor is passed before its sound was started; `coolDown` has exactly one pending reset; the current stop is announced |
| `map_store` | `TypeOK`, `PlacesAreSafe`, `OpenPlaceIsRight`, `FileIdsKept`, `UploadIsRight`, `PointReachesFile` | with kills, late answers and leaked timers no place on screen is lost, except the draft between the tap on Begin Mapping and the `onChange` that saves it; no write of the file drops a place and no document is replaced; a place opened on clean globals is edited and uploaded consistently; a point placed during mapping reaches `locations.txt` |
| `world_map` | `TypeOK`, `LoadButtonIsRight`, `ButtonsComeToRest` | Load appears only because of a stored map and one press loads once; a stored map is offered and a press of Save ends |
| `placement` | `TypeOK`, `NeverMoreThanAsked`, `HiddenWithAnchor`, `AnchorIsRetried`, `PointRequestEnds` | the timers of all views together answer a request once; see section 1 |
| `focus` | `TypeOK`, `SquareIsRight`, `FollowsItsView`, `NoFlicker`, `Settles` | the parts agree, segments do not drift, smoothing neither flickers nor gets stuck |
| `frame_feed` | `TypeOK`, `LastImageWins`, `ScreenCatchesUp` | answers that overtake each other leave the label of the last image of a request, of the last image of all unless blocks raced to create the request, and the screen shows it |
| `write_pipeline` | `TypeOK`, `LayersInOrder`, `StreamIsAttended`, `KeepsPromise`, `EveryWriteSettles` | through crashes, closed streams, refusals and restarts the five places that hold a write stay in one order, the stream is attended, and `setData` keeps what `Uploads` promises; every write is settled while the app runs |
| `get_documents` | `TypeOK`, `LayersAgree`, `OneAnswerEach`, `SnapshotOfPresentWatch`, `GetsEnd` | two gets that overlap, with stream errors and network changes: each is answered once, by the present watch or the cache, and leaves nothing behind |
| `limbo` | `LimboTypeOK`, `ResolutionsInOrder`, `LimboEnds` | the bookkeeping never disagrees with the listens, no document in limbo is forgotten, none waits while fewer keys have a target than there are places; limbo ends if none had to wait |

Some properties are conjunctions of named parts, each a definition with its own
comment: `OpenPlaceIsRight` of `OpenPlaceIsMirrored` and `PointsCovered`; `UploadIsRight` of
`UploadIsWhatWasMapped` and `UploadsNeverOverwrite`; `LoadButtonIsRight` of
`ShownForAMap` and `OneLoadPerPress`; `ButtonsComeToRest` of `StoredIsOffered` and
`SavePressEnds`; `SquareIsRight` of `Consistent` and `SegmentInPlace`;
`LayersInOrder` of `PipelineIsPrefix`, `WireFollowsPipeline`, `CallbacksPending`,
`IdsIncrease` and `NeverBehind`; `StreamIsAttended` of `NeverStalled`,
`IdleWhenDone` and `OneAttempt`; `LayersAgree` of `QueryIsWatched`,
`NobodyWaitsInVain`, `OutstandingUnderWay`, `TimerMeansUndecided` and
`IdleMeansUnneeded`; `OneAnswerEach` of `AnsweredOnce` and `NoGetForgotten`; `GetsEnd`
of `EveryGetAnswered` and `TargetReleased`; `ResolutionsInOrder` of
`ListensAccounted`, `NoLimboForgotten`, `PlacesUsed` and `ListensAreLimbo`.

Three more runs check a sentence of the repository that the code does not keep;
TLC finds the behaviour that breaks it.

| Run | The sentence | What the code does |
|---|---|---|
| `load_verified` | "Map data should already be verified to exist before Load button is enabled." (`AR/SaveLoadMap.swift:24`) | a save that completes, or whose block runs, after its place was closed shows the Load button that `onDisappear` has hidden; the next place, which has no map, inherits it, and pressing it ends in that `fatalError` |
| `get_rewatched` | 'current' "implies that the Watch backend has sent us all changes up to the point at which the target was added" (`remote/remote_event.h:158`) | when the removal of an earlier watch is acknowledged while the new watch is pending, `current_` survives `ClearPendingChanges` (`remote/remote_event.cc:158-161`), and the first snapshot of the new watch counts as current |
| `limbo_bound` | "Starts listens for documents in limbo that are enqueued for resolution, subject to a maximum number of concurrent resolutions"; without the bound "the server can fail" (`core/sync_engine.h:244-251`) | a document that leaves limbo while it waits stays in the queue (`core/sync_engine.cc:557`) and is enqueued again when it returns (`:534`); both entries are started for the one key, and the pump (`:541`) counts keys, so three listens run with two places |

Deadlock is checked except in `write_pipeline`, `get_documents` and `limbo` and in
their violations, where the bounded calls and faults come to an end and a
client that has nothing to do rests.

### Observations

Met while modelling, and not run: `AR/Gestures.swift:91` announces that placing is
disabled while relocalizing and no statement follows; `:41` and `:101` announce
that the existing anchor is removed and nothing is; a square that becomes a
billboard keeps the plane anchor `AR/Foucs/FocusEntity.swift:167` describes as that
of a plane it is on; the scale of `FocusEntity+Classic.swift:23` is applied once and
not when the square closes; the depth is read at a constant index
(`AR/ARViewExtension.swift:204`); every camera frame leaves a block that retains it
(`:173`); any change of the array while the form of `AddView` is on screen acts as
Begin Mapping (`Views/AddView.swift:73`); a process that ends between Begin Mapping
(`Views/AddView.swift:57`) and the `onChange` that writes the file (`:70`) loses the
draft, an empty place as yet, which is the exception in `PlacesAreSafe`; a file that cannot be decoded is replaced
by the next write (`Views/SelectView.swift:50`); a timer of a closed view may answer
a request in its own coordinates (`AR/Gestures.swift:81`). In the client: `StopListening`
(`remote/remote_store.cc:187`) clears the online timer of an attempt that is still
under way, and a `Listen` that finds the stream started sets none (`:163`), so
with a backend that stays silent a get may wait without end, where
`remote/online_state_tracker.cc:44-46` speaks of going Offline "rather than waiting
indefinitely"; a refused
query that is no longer watched leaves its answer counted as outstanding until the
stream closes; and with more documents in limbo than places one may be resolved
for a query that has gone, by a listen that nothing ends, from the queue that
`core/sync_engine.cc:557` does not look into (`limbo_bound` shows what else follows
from that).

### Conditions in the properties

Some properties hold only where the code keeps its parts in step, and say so.

- `clean` (`MapStore`): the place was opened when no points and no request of
  another place were left in the globals, the map of `AddView` is that of its draft
  if the draft is in the array, and no answer of Firestore has changed the array
  since. Without it leaked timers and the late answer really do mix
  places up; the hazards at `ContentView.swift:64`, `:116` and `AddView.swift:105`
  describe how. `PlacesAreSafe`, `FileIdsKept` and `UploadsNeverOverwrite` need no
  such condition.
- the draft while its `onChange` is due (`PlacesAreSafe`): the code saves it then and
  no earlier.
- `anchors <= 1` (`NoStopSkipped`): a second anchor appends boxes whose play
  timers have already been overtaken by `step`, which is never reset.
- first view, no map loaded (`HiddenWithAnchor`): `placed` outlives its view.
- every request in use has a label (`LastImageWins`): a request whose last image
  gave none leaves the label of an earlier one. When blocks race to create the lazy
  request there are several, and the label is that of the last image of one of them,
  not always of the one performed last.
- `permitted` (`OutstandingUnderWay`): a refused target is dropped while its
  removal may still be under way, so its answers are not all counted.
- `~waited` (`ListensAreLimbo`, `LimboEnds`): see the last observation and
  `limbo_bound`. A pump that is forgotten, so that documents wait for ever, is found
  by `PlacesUsed`, not by `LimboEnds`.
- `~running` (`EveryWriteSettles`): nobody has to launch the app again. That a
  write survives until somebody does is `KeepsPromise`.

### Bounds

- `guidance`: 3 boxes, 2 anchors, `step` up to 4, 2 camera ticks of cool-down.
  Three boxes give a current, a previous and a next stop, and a distance timer of
  a box that is not current; `step` can run past the last box. The code's 5 s are
  at least 4 ticks of the 1 s timer; 2 is the smallest number for which
  `NoStopSkipped` holds, so every longer delay only adds idle turns.
- `map_store`: one direction word, one draft, two places, one
  direction per place and one point per process. With a second place there is a
  timer of a closed place beside that of the open one, and an answer of Firestore
  that moves the end of the array; kills and relaunches are unbounded.
- `world_map`: two places, two saves in flight for each, three blocks, two
  presses of Load: a save of the first place completing under the second is the
  case that matters.
- `placement`: two views, two requests of each kind, two anchors per session: one
  leaked view competing with the open one.
- `focus`: two views; windows of 4 alignments and 2 positions stand for 20 and 10.
  With four alignments the thresholds differ (all four must be horizontal, three
  vertical ones suffice), the window fills, and old entries fall out of it;
  `NoFlicker` is proved for every window.
- `frame_feed`: three frames, two labels, two depths: two blocks racing to create
  the request and a third that finds it.
- `write_pipeline`: four writes, of which the second is refused, two places in the
  pipeline (the code has ten), three faults. Two writes wait behind a full
  pipeline; a refusal has writes before and behind it; three faults allow a crash,
  a crash inside a task after it, and a closed stream in between. Nothing in the
  code depends on the number of places but the comparison with it, and the proofs
  of section 4 hold for every number.
- `get_documents`: two gets, two faults: the second get may come before, while and
  after the first is answered, removed and unwatched. A third would meet nothing
  that the second has not: the target is shared or watched again.
- `limbo`: three documents, two places (the code has 100), four updates of the
  query: one document waits, is dropped or resolved while it waits, and comes
  again; with the fourth update a further one takes the place that `limbo_bound`
  finds counted twice.

### Fairness

Liveness is claimed only under what the platform's scheduling gives: a scheduled
repeating timer goes on firing (`RunLoop`, `Tick(t)`, `GestureTimer(v)`,
`EvaluateBody`, which the 0.1 s timer of `ContentView` keeps causing), a block
that was dispatched is run (`CoolDownOver`, `RunBlock`, `Classified`,
`Background(f)`), SwiftUI updates a view whose state has changed (`UpdateSaves`,
`UpdateLoads`, `OnChange`), a running session updates its scene (`Frame`), and ARKit answers
`getCurrentWorldMap`, with a map or an error (`SaveCompletes`). All of it is weak
fairness. Nothing obliges the user, Firestore, ARKit's anchors or the end of the
process. `WF_vars(Frame)` says that frames go on coming; its toggling `tick` makes
every frame a step, also one that changes nothing else.

In the client, the tasks of a serial queue are run in order, whatever else
happens, and its timers fire: `WF_vars(WorkerQueue)` and `WF_vars(Client)` treat
them as one, since none of them can be overtaken for ever. `WF_vars(Backend)` says
that the backend answers while a stream lives. That streams fail is not fair, and
`MaxFaults` says that they stop failing: without it no client could promise that a
write is ever settled. `Spec` of `GetDocuments` has no fairness of the backend.
`Limbo` assumes that each limbo listen is answered. No fairness is assumed of
`GetDocs`, `WriteMutations`, `Launch`, `IdleTimeout`, crashes or network changes.

## 4. What is proved

TLAPS checks the following for every value of the constants, from the assumption
named in the module (`GuidanceAssumption`, `PlacementAssumption`,
`FocusAssumption`, `FeedAssumption`, `WritePipelineAssumption`,
`WorldMapAssumption`, `GetDocumentsAssumption`, `LimboAssumption`, `MapStoreAssumption`, and `CoolDownIsLong`: types of the
constants, and that special values are not ordinary ones; nothing about the bounds
but that they are natural numbers, that there are at least two alignments and one
position in the windows of the focus square, one place in the write pipeline and
one for limbo resolutions, and two camera ticks in the cool-down).
Fairness is not used: these are safety properties, and the fair specifications of
the runs imply `Spec` (`LimboSpec` has fairness, which the proofs drop).

| Module | Theorem | Statement |
|---|---|---|
| `GuidanceProofs` | `TypeCorrect` | `Spec => []TypeOK` |
| | `CoolDownPaired` | `Spec => []CoolDownHasItsReset` |
| | `ImplementsAnnouncements` | `Spec => AnnouncesRoute`: the timers implement `Announcements` |
| | `NoneSkipped` | `Spec => []NoStopSkipped` |
| `PlacementProofs` | `TypeCorrect` | `Spec => []TypeOK` |
| | `OnePerRequest` | `Spec => []NeverMoreThanAsked` |
| | `HiddenOnlyWithAnchor` | `Spec => []HiddenWithAnchor` |
| | `AnchorRequestKept` | `Spec => AnchorIsRetried` |
| `FocusEntityProofs` | `TypeCorrect` | `Spec => []TypeOK` |
| | `StaysRight` | `Spec => []SquareIsRight` |
| | `UpdatesFollowView` | `Spec => []FollowsItsView` |
| | `NeverFlickers` | `Spec => NoFlicker` |
| `FrameFeedProofs` | `TypeCorrect` | `Spec => []TypeOK` |
| | `LastImageIsShown` | `Spec => []LastImageWins` |
| `WritePipelineProofs` | `TypeCorrect` | `Spec => []TypeOK` |
| | `WritesStayInOrder` | `Spec => []LayersInOrder` |
| | `StreamStaysAttended` | `Spec => []StreamIsAttended` |
| | `ImplementsUploads` | `Spec => KeepsPromise`: the write path implements `Uploads` |
| `WorldMapProofs` | `TypeCorrect` | `Spec => []TypeOK` |
| | `LoadButtonStaysRight` | `Spec => []LoadButtonIsRight` |
| `GetDocumentsProofs` | `TypeCorrect` | `Spec => []TypeOK` |
| | `LayersStayInAgreement` | `Spec => []LayersAgree` |
| | `EachGetIsAnsweredOnce` | `Spec => []OneAnswerEach` |
| | `SyncedByPresentWatch` | `Spec => SnapshotOfPresentWatch` |
| | `LimboTypeCorrect` | `LimboSpec => []LimboTypeOK` |
| | `ResolutionsStayInOrder` | `LimboSpec => []ResolutionsInOrder` |
| `MapStoreProofs` | `TypeCorrect` | `Spec => []TypeOK` |
| | `PlacesStaySafe` | `Spec => []PlacesAreSafe` |
| | `OpenPlaceStaysRight` | `Spec => []OpenPlaceIsRight` |
| | `FileKeepsIds` | `Spec => FileIdsKept` |
| | `UploadsStayRight` | `Spec => UploadIsRight` |
| | `DuplicatesRemoved` | `RemoveDuplicates(list)` has each element of `list` once, no other, in the order of the first occurrences |

The arguments:

- **Guidance.** That a sound never starts twice rests on which timers exist. The
  inductive invariant is `TypeOK /\ RingInv /\ FreshBoxes`: the timers of the ring
  are pairwise different and belong to boxes that exist; the box of a play timer
  that is still in the ring has not been announced; boxes that do not exist yet
  have no sound. Without "pairwise different", dropping one play timer would not
  end the announcing of its box; without `FreshBoxes`, a new anchor could bring a
  sound back from `over`. `CoolDownHasItsReset` is inductive with the types: an
  advance needs `coolDown = FALSE`, hence no pending block, and leaves one. The
  refinement theorem maps each action to `Announce`, `Reach` or a stutter.
  `NoStopSkipped` is about the phase of the ring and has an invariant of its own,
  `SkipInv`: the play timer of an unannounced box is still in the ring; the first
  box's is before every near timer; and while the current box is unannounced the
  block that ends the cool-down still waits, with the play timer before the camera
  timer once a single tick is left. `OrderKept` says that firing the head of the ring
  leaves the order of the others. This is the one proof that needs `CoolDownIsLong`
  (`CoolDownTicks >= 2`, the 5 s of the cool-down against timers of 1 s); with
  fewer ticks the property is false.
- **Placement.** `NeverMoreThanAsked` counts the flag that is still set and is
  inductive with the types. `HiddenWithAnchor` needs `FirstViewInv`, which also
  speaks of `placed` (the button is hidden because of `placed`, not of the anchor),
  and `FreshSessions`, so that opening the first view cannot meet a session that
  has already loaded a map. `AnchorIsRetried` is proved action by action.
- **FocusEntity.** `Consistent`, `SegmentInPlace` and `FollowsItsView` need one
  another's parts: the segments are in place because `Redraw` is called with
  `isOpen = ~ onPlane` already true. `NoFlicker` adds `TurnedByMost`: a frame that
  turned the square left an alignment that most of the history has. One more
  entry changes a count by at most one (`CountGrowsByOne`, `RecentShifts`), and
  the counts of the two alignments add up to the length of the history
  (`CountsAddUp`), so that the other alignment cannot be that of most in the next
  frame (`MajorityStays`). This holds from windows of two on, hence the
  assumption.
- **FrameFeed.** The key part is `OnTheWay`: as long as the label is not that of the
  last image of any request, some block has still to report or to run. `Creators`,
  `NoEarlyResults` and `BlocksInv` tie blocks to requests that exist, so
  that every later report reads what its request was left with; a request that a
  race has just added has no label yet.
- **WritePipeline.** The inductive invariant says, entry by entry, what
  `LayersInOrder` says of whole sequences: `QueueInv` (the queue holds the last
  writes issued, in order, with growing ids), `PipelineInv` (the pipeline is the
  front of the queue *and is full*: as long as the queue allows it, every place is
  taken), `WireInv` and `AnswersInv` (requests and answers on the wire are about
  the front of the pipeline, answers first), `StreamInv` (which timer or request
  goes with which state of the stream), `NeverBehind` and `CallbacksPending`. That
  the pipeline is always full is what carries the others: `NextAfterFront` and
  `FilledIsFull` show that filling takes exactly the entries that follow, so that a
  new write enters the wire behind all others. `FrontIsAnswered` then says that
  the front of the pipeline, to which the code applies an answer that names no
  write, is the one the backend answered, and that it is the front of the queue.
  The refinement maps `WriteMutations` to `Issue`, `MutationResult` and
  `WriteRejected` to `Settle`, `AnswerWrite` to `Store` or a stutter, the three
  crashes to `Stop`, `Launch` to `Launch`, everything else to a stutter. All of it
  holds for any number of writes, of places in the pipeline, of faults, and any set
  of refused writes.
- **WorldMap.** `ShownForAMap` is not inductive: a block that will show the button
  may still be in the main queue, so `UnhidesAreStored` says that each of them is for
  a place that has a map by then (the map is stored before the block is sent).
  `OneLoadPerPress` rests on `PressedIsShown` (a pending press means a visible button
  of an open view) and `PressToCome` (a pending press is counted and not yet loaded,
  so there are fewer loads than presses): the flag is reset in the very call that
  loads, which is what makes a second update of the view harmless.
- **GetDocuments.** Three parts, each inductive with the types. `GetsInv` follows a
  get from its call through the worker queue and the listeners to the main queue;
  `AnsweredIsQuiet` and `RemovedWhenMuted` are what keeps an event posted before the
  removal from answering a second time, and `Posted` is the lemma about what raising
  an event adds to the main queue. `LayersInv` holds the agreement of query, target
  and timers. `WireInv` ties the number of outstanding answers to the requests and
  answers under way (`PairsAppended` and `PairsTaken` count them), and adds
  `LastRequest` and `LatestIsServed`: the last request names the present watch, and
  when nothing is outstanding everything left on the wire is about what the backend
  serves now. Since the aggregator hands on only changes of a target with nothing
  outstanding, the snapshot that makes the view synced is of the present watch:
  `SnapshotOfPresentWatch`. The proof covers any number of gets, of stream errors and
  of network changes.
- **Limbo.** The proof is about the operations first and about the actions last.
  `Books` are those in which the two maps and the listens agree, no id is used
  twice and no more keys have a target than there are places; `Rest` are those whose queue is empty or all
  of whose places are taken. `StartKeepsBooks`, `DropKeepsBooks` and
  `PumpOnceKeepsBooks` say that each single change keeps them, `PumpKeepsBooks` that
  the loop of the pump ends at rest and loses no document on the way,
  `RemoveKeepsRest` and `TrackKeepsRest` the same of the two operations, and
  `RemovedKeepsRest` and `AddedKeepsRest` of the loops over documents, for any
  number of them. `LimboIInv` then says that the books are at rest and know every
  document in limbo that is not known to be deleted (`Covers`) and, as long as none
  had to wait, nothing else (`Tight`: no target is left over from an earlier
  resolution of its key). It needs one fact that no property states: a current view
  keeps no deletion back. An empty queue after `Track` was empty before, which is
  why looking at the queue after a whole update is enough for `waited`.
- **MapStore.** `PlacesAreSafe` alone is not inductive, for three reasons, each a part
  of the invariant. `IdsAreFresh`: no id is given twice; `AddView` has not seen its
  draft in the array before the map is to be shown (`draft \notin Ids(seen)`), so a
  draft that is in the array has its `onChange` still to come, which is what bounds
  the exception of `PlacesAreSafe`; and until its map is closed it has no document,
  so the upload cannot remove another place's, which `PlacesAreSafe` may be relying
  on. `FileIsOnScreen`: what is in the file is on screen, so rewriting the file with
  the array drops nothing; this is all that `FileIdsKept` needs, together with the
  fact that an answer of Firestore only adds. `OpenPlaceExists`: the open place is in
  the array, and `clean` is set only while one is open. `DraftIsLast` then says what
  the upload, which takes the last place of the array, needs. `ArrayChange` is the
  lemma about a change of the array, which writes nothing: no place is lost if none is
  dropped and every new one is in Firestore or is the draft of a form that will see
  the change; `FileWritten` is the one about the writes, `PlaceAppears` the one about
  `ContentView.onAppear`.
- **removeDuplicates.** The loop is a recursive function in `MapStore`. Its induction
  is on a set instead of a predicate (`SetInduction`: a set with 0, and with n + 1
  for each n in it, has no smallest missing number), which needs no operator as a
  parameter. `LoopRuns` constructs the run of such a loop, so that the function
  exists and unfolds; `DuplicatesRemoved` is the invariant of the loop, and
  `MergedPlaces` draws from it what an answer of Firestore does to the array. The
  loops of `Limbo` rest on the same two lemmas, stated again in `GetDocumentsProofs`.

### What is only model-checked

- Liveness (`CurrentIsAnnounced`, `PointReachesFile`, `ButtonsComeToRest`,
  `PointRequestEnds`, `Settles`, `ScreenCatchesUp`, `EveryWriteSettles`, `GetsEnd`,
  `LimboEnds`): fairness and ENABLED are out of the prover's reach.

Every invariant and every action property of the passing runs is proved. No module uses
RECURSIVE; loops are recursive functions, see *removeDuplicates* above.

## 5. What is not modelled

- `LocationManager`: two fields, each overwritten by one callback; no guard, order
  or interplay to check. `MapStore` takes a place without its coordinates.
- The app shell, `LocationView`, and the AR helpers: start-up and descriptions.
  `ARState`, `AssetModel` and `Plane` are not used by the running program.
- `playSound`, `resetTracking`, the else-branch of `AddView` (113-136), and the
  parts of `FocusEntity` that nothing calls, as said in section 2.
- Failed reads and writes of `locations.txt`: the code swallows them, and the next
  write replaces the file; nothing is promised that could be stated.
- The contents of images, depth maps, world maps and sounds, and all geometry.
- Of the Firestore client: credentials and users (the app signs nobody in),
  transactions, garbage collection of the cache, resume tokens, existence filters,
  bundles, the local views and the contents of documents; several queries or
  collections at once, since the app has one of each.
- The other vendored libraries (gRPC, BoringSSL, Abseil, LevelDB and the rest of
  Firebase): generic infrastructure whose behaviour the app sees only through the
  client. They are the bulk of the repository's lines, which is why the share of
  it that the models cover is small although the app's own code is covered.

## 6. Plan

Done: the modules of section 2, in the order `Guidance`, `MapStore`, `WorldMap`,
`Placement`, `FocusEntity`, `FrameFeed`, then the Firestore client below the app
(`Uploads` and `WritePipeline`, `GetDocuments`, `Limbo`), each with its runs, and the
proofs about all of them. To come, in this order:

1. **A composition of `Placement` with the places and the guidance**: a direction
   is chosen, its point placed by some view's timer, copied into the place, and
   becomes the box that announces it; with a second place opened in the same
   process. Properties: box i is at the point of direction i, for places opened on
   clean globals; no point is placed into a place it was not asked for, under the
   same condition.
2. **The rotation of the focus square** and `isChangingAlignment`, which paces the
   alignment; then the text of a second view in `FrameFeed`.
3. **An abstract specification of the places** (a set of ids that survives every
   end of the process) that `MapStore` implements.
