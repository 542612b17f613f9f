# Dolphin Explorer: models and proofs

Dolphin Explorer is a C++20/Qt 6 desktop application for hydrographic survey
data: it imports sonar files (XTF, JSF, SEG-Y), keeps a parsed store (`.dlpd`)
next to each, draws the survey on a map, and records everything in a project
manifest (`.dlp`).  This directory holds TLA+ models of its stateful core, the
TLC configurations that check them, and TLAPS proofs.  Source paths below are
relative to the repository root (`src/app/...`).

## 1. Inventory

The program is one main thread (the Qt event loop: all user interface, all
project state, all signals and slots) and one global thread pool that decodes,
scans and rasterises.  A pool task never touches the project; it hands a result
to a `finished()` handler on the main thread.  What makes the code hard is
therefore not data races but *order*: posted events, message boxes that run an
event loop inside a handler, signals that call other handlers before `emit`
returns, results that arrive for things that are gone, counters that must
balance over a dozen early returns.

| Component | State | Operations | Hard part | Correct when |
|---|---|---|---|---|
| **Import queue** `app/import/ImportJobManager` | queue, running and awaiting counts, active-job map, epoch, batch summary | `importBatch`, `reindexLayer`, `cancelQueue`, `dispatchNext`, four slots on the service | handlers nest in message boxes; deferred dispatches; cancel overtakes jobs under way | a slot per job and no leak; no job lost or counted twice; cap respected; each batch reported |
| **Import service** `app/services/ImportService` | active sources (process wide), scan queue, scan tokens, scan count; layer states | `importFile`, `reindexLayer`, `rebuildCacheIndex`, `cancelPendingRebuild`, their completions | completion may find its layer removed, its file re-imported, its project closed | one build per source; holds released on every path; scans bounded and never stuck |
| **Classification, recovery** `app/import/ImportClassifier`, `app/project/ProjectRecovery` | none (reads the project) | `classifyImportAction`, `planMissingArtifactRecovery` | two layers of one file; stale stores | a file is reused only when its store is valid |
| **Project session** `ui/mainwindow/ProjectSessionController` | project, dirty flag, load generation | open, close, save, save as, delete, exit | all of them race imports, scans and map builds of the project that goes | nothing of an old project reaches a new one |
| **Project model** `app/project/Project*`, `app/layers` | layers, sources, contacts, features, groups, CRS | add, commit, fail, remove, rename, prune | references between the parts | no dangling reference |
| **Persistence** `Project.Serialization*`, `PathAuthority` | the manifest | save, open, save as, rename | what is saved and what is accepted back are written twice, in two places | what was saved can be opened |
| **Parsed store** `io/cache/ParsedCache`, `util/AtomicFile` | one file: records, then an index footer | write, replace, scan, append a footer | crash or failure while writing; old stores are extended in place under their readers | a path shows a whole store or none; an index is of its store |
| **Operations** `app/tasks/OperationManager` | entries, keys, lanes (cap, running, queue), external tokens | `run`, `cancel*`, `setLaneCap`, finished handlers | callbacks call `run` from inside the manager's loops | lanes bounded, latest wins, `on_finally` once for every operation |
| **Sidescan map** `ui/features/map/sidescan` | loaded layers, staged refreshes, build count | activate, unload, quality, live and geometry corrections | tier builds superseded, cancelled and completed in any order | the map ends up showing the latest parameters |
| **Viewers** `ui/features/waterfall`, `ui/features/subbottom` | line, band, window of rows, pings or traces held, parameters, state, timers | open, scroll, band, parameters, navigation, load, rebuild | loads, rebuilds and navigation runs supersede each other under one key | a window at rest shows its line with its parameters |
| **Corrections, processing** `CorrectionBatchOperator`, the two correction services, `ProcessingService`, `ProjectOperationCoordinator` | job maps, generation, batch counters, reserved paths | apply, bake all, run, run all, cancel, commit | background functions cannot be interrupted; cancel resets counters while they run; signals name the layer only | a batch ends once; imported data is never replaced; no late result is committed |
| **Node graph** `pipeline/NodeGraph*`, `ui/features/nodegraph` | nodes, edges, groups | draw, reroute, delete, group, sort, save, read | keys during a drag; refused edges; a reader stricter than the editor | no loose edge, no cycle, every saved graph is accepted |
| **Contacts, undo** `Project.Contacts`, `Project.Groups`, `LayerCommands`, bin, layer tree | contacts, bin, groups, id counter, undo stack | pick, recycle, assign, group, undo, redo, restore, purge | redo makes new ids; the bin and the tree bypass the stack | ids and default labels are not given twice; groups exist |
| **Workers** `app/execution`, `app/workers`, `app/contracts` | run records, contracts | read, written, copied | none: the orchestrator has no caller | |
| Format readers, geodesy, rendering, processing nodes | none between calls | decode, transform, filter | numerical | out of a model checker's reach |

`PROJECT.json` lists the same components with their sources and status, and the
hazards at the lines where they bite.

## 2. Plan

Order: what can lose the user's data or block the program first.  All of these
stand, each with its runs; the sections below describe them.

1. **Import core**: `ImportTypes`, `ImportJobManager`, `ImportService`, composed
   in `ImportPipeline`.
2. **Operations and sidescan map**: `OperationManager`, composed in
   `SidescanTiers` with the map controller that drives it, and in `Viewers` with
   the waterfall and sub-bottom windows.
3. **Bakes and graph runs**: `CorrectionBatch` and `ProcessingService`, composed
   in `LayerBakes` with the project they are committed to.
4. **Stores on disk**: `AtomicStore`, what a store's path promises; `StorePublish`,
   the writers, which implement it; `ParsedStore`, the readers beside them.
5. **Project editing**: `NodeGraph` (operators on graphs), `GraphEditor`,
   `ContactUndo`, composed in `ProjectEditor`, which saves and opens both.
6. **Projects and their stores on disk**: `ProjectFiles`.

Twelve runs, eight that must pass and four that show a disagreement.  Left for
later: reopening a project in the import model; pings told apart by their corrections
in the viewers; the three invariants of section 8 that need induction over data.

## 3. The import core

### Modules

- `ImportTypes`: layers, files, jobs.
- `ImportJobManager`: the variables of the class and one operator per handler.
  A handler that emits `jobFailed` is two operators, before and after the emit,
  since the receiver (`ExecutionController::onJobFailed`) opens a message box.
- `ImportService`: sources being built, the pool, scans, layer states.
- `ImportPipeline`: the main thread.  `stack` is its call stack, `posted` its
  event queue.  An event is taken when the stack is empty or its top call sits
  in a message box.  Every action is one atomic stretch of main-thread code
  between two such points; `WorkerDone` is the only action of another thread.
- `MCImportPipeline` with the `MC*.cfg` files: instances.

| Model | Code |
|---|---|
| `queue`, `activeCount`, `awaiting`, `activeJobs`, `epoch`, `activeJobEpoch`, `summary` | `m_queue`, `m_active_count`, `m_awaiting_start_count`, `m_active_jobs`, `m_epoch`, `m_active_job_epoch`, `m_summary` |
| `signal`, `accepted`, `announced` | history: last job signal per layer, jobs taken in and not reported, whether `batchCompleted` was emitted since |
| `sourceJobs`, `generation` | `g_active_source_jobs`; a source id is a file and its incarnation, since a removed and re-added source gets a new id |
| `pool` | tasks of `QtConcurrent::run`, from launch to their finished handler |
| `scanQueue`, `scanTokens`, `scansRunning` | `m_rebuild_queue`, keys of `m_rebuild_tokens`, `m_rebuilds_running` |
| `DispatchCall`, `PumpCall`, `HealCall` | the loops of `dispatchNext`, `pumpRebuilds` and of the recovery at project open, each turn an action because the loop body emits |
| `MissingBox`, `FailedCall`, `ConfirmBox` | the three boxes that can be open |

What a file contains, whether its hash still matches and whether a parse or a
save succeeds are choices of the environment (`\E` in the actions).

### Bounds

`MaxRequests`, `MaxBatch`, `MaxCancels`, `MaxSplit` and `MaxRemovals` bound the
operator; the guards name them.  Three files and a cap of two are the least with a job waiting
while two run: in `import_live` the operator asks for two files and the third, whose
store is dead, is asked for by the recovery at opening, so a slot that comes back
hands over to the job that waits, and the cap binds.  Two cancels are the least for
a job that is two epochs old.  `MaxDeeds` bounds what is asked for, cancelled and
removed taken together, the recovered job apart: with three of them the operator asks for two
files and cancels once or removes one, or asks for one and does two of these, in any order.
`Worker` has a thread for every task that can be in flight, because the pool's
own queue is unbounded in the code: `Launch` never blocks in an instance.  The
project is opened once in a behaviour.

`Overlap = FALSE` restricts the operator: no file is asked for while a job of
it is queued or under way.  The accounting invariants need it, and are checked and
proved under it; run `slot_leak` shows what the code does without it.  What the service promises
(`OneBuildPerSource`, `SourceJobsExact`, `ScansExact`, `TokensRunning`) is checked
and proved with overlap allowed.

### Fairness

`FairSpec` assumes weak fairness of the main thread's actions (the event loop
runs while there is something to run), of closing a question box one way or the
other, and of every pool thread's task ending.  The first is Qt's event loop;
the second is the user; the third holds since parse and scan are loops over a
finite file.  Nothing is assumed of the operator's other actions.

### Runs

| Run | Instance | What it shows |
|---|---|---|
| `import_live` | 3 files, one recovered at opening, one of up to two layers, cap two, up to three deeds, failures with their boxes, fair; a job waits while two run | `QueueBooks` (`SlotsExact`, `AwaitingExact`, `TrackingExact` and `CapRespected` together), `EveryJobCounted`, `SilentAfterCancel`: the counters agree with the jobs under way at every point of every handler; `BusySettles`, `BatchReported`, `StartedSettles`, also when one import reports several layers |
| `import_overlap` | 1 file, 2 layers with stale stores, one recovered at opening, overlap, 2 removals, one scan at a time, fair | `TypeOK`, `OneBuildPerSource`, `SourceJobsExact`, `ScansExact`, `TokensRunning`, `ScansDrain` |
| `slot_leak` | overlap, 1 request, fair | *violated* `BusySettles`: a rebuild of a layer whose build is under way costs a slot for good |

`PROJECT.json` quotes, under `findings`, the comment a violated property states.
Four lesser disagreements are reached by the model, and no property forbids them:
a re-import of a layer being scanned leaves `m_awaiting_start_count` above zero;
`batchCompleted` can be emitted twice for a batch, the second time with an empty
summary; a re-parse that ends in an exception or an unsaved project leaves a
layer `Indexing` with no parse; a scan past its last look at its token commits
after the project was closed.

Deadlock checking is off in the configurations: the program rests when there is
nothing to do and the bounds are used up.

### Proofs

`ImportPipelineProofs`, in four parts, the first three for every value of the
constants, overlap allowed:

- The queue: each operator keeps `ManagerTypeOK`.
- The service: `ServiceStep` is the disjunction of everything the
  pipeline does to the service, `ServiceInv` an inductive invariant of it.
  `OneBuildPerSource` is not inductive: a second build is refused by a look at
  `sourceJobs`, so it needs `SourceJobsExact`, and that in turn needs that two
  builds never share a source, and that a task's source id is one its file had
  by then.  `ScansExact` needs that the pool's scans and the counter move
  together; `TokensRunning` holds because a scan that ends takes the token of
  its layer with it.
- The pipeline: every action of `Next` is a `ServiceStep` or leaves
  the service alone, so `ServiceInv` carries over; with the types of the loop's
  variables this gives `PipelineInv`, and from it `TypesHold`, `OneBuildHolds`,
  `HoldsAreExact`, `ScanCountHolds` and `TokensHold` (`Spec => []...`).
- The books of the queue, under `Apart`: `Overlap` is FALSE, and no store is left to
  be scanned when the project opens.  Both conditions are needed: `slot_leak` shows the
  first, and TLC finds each of the three properties violated when a stale store is
  added to the instance of `import_live`: a scan that fails is counted as a job that
  failed, and a rebuild of the layer being scanned leaves a start awaited for good.
  Any files, layers, cap, batches, cancels, failures and removals remain.
  `BooksInv` is inductive together with `PipelineInv`.  Its parts: `OneJobPerFile`, that
  the jobs of a file in the queue, in the calls on the stack and on the pool are at
  most one together, so that no entry of `activeJobs` is overwritten; `StackFit`, how
  the calls nest, a message box and what runs inside it included; `BuildsFit`, that
  each build is in the map as started and of the epoch it was dispatched in;
  `ServiceFit`, that a job on its way to the service is the one dispatched last, so
  that a failure without an entry is charged to the right epoch; and four balances,
  `Slots`, `Awaited`, `Tracks` and `Ledger`, each of which says of a counter which calls
  and builds it counts.  The balances alone are not inductive: a handler decides by
  the map whose slot it gives back.  From it: `BooksHold` (`QueueBooks`), `JobsCounted`
  (`EveryJobCounted`), and `CancelSilences` (`SilentAfterCancel`, an action property: a
  build of an older epoch is the only job of its file and its layer is not
  `started`, so no handler has a signal to give for it).

Only model-checked: all liveness (fairness is out of the prover's reach).

## 4. Operations and the sidescan map

### Modules

- `OperationManager`: entries, keys and lanes, and one action per stretch of
  `run`, `cancelAll`, `pumpLane` and the finished handler.
- `SidescanTiers`: the map controller, which submits the operations and supplies
  `on_done` and `on_finally`; the deeds of the operator and of the window.
- `OperationManagerProofs`: lemmas about the manager's operators, whoever its client is.
- `SidescanTiersProofs`: the theorems about the map as its client.
- `MCSidescanTiers`, `MCSidescanMap.cfg`.

Everything here runs on the main thread; the pool appears only as the set
`launched`.  What interleaves is the manager's loops with the callbacks they
make: `cancelAll` walks the queues and calls `on_finally`, which may call
`prebuildTier`, which calls `run`, which appends to a queue.  So `calls` is the
main thread's stack, a frame per call that is not finished, and every turn of a
loop is a step.  `PoolFinishes` (a `finished` event) is taken only when the stack
is empty or a modal dialog is on top.

| Model | Code |
|---|---|
| `entries`, `keyed`, `nextId` | the keys of `m_entries`, `m_keyed`, `m_next_id` |
| `op`, `cancelled` | what an operation's closures captured; whose token is cancelled |
| `running`, `waiting`, `Cap` | `Lane::running`, `Lane::queue`, `Lane::cap` |
| `launched` | operations on the pool, until their finished handler starts |
| `pump`, `sweep` frames | the loops of `pumpLane` and of `cancelAll` |
| `settle`, `finally` frames | the finished handler after `finishOp`; `on_finally` about to be called |
| `complete` frame | `prebuildTier`'s `on_done` at `handleRefreshTierComplete` |
| `reload` frame | the loops over layers that call `activateLayer` |
| `deactivate`, `dialog` frames | `deactivate(clear_map)`; the message box of `deleteProject` |
| `loaded`, `resident`, `intensity`, `staged` | `m_loaded_layers`, `m_resident_quality`, `m_layer_intensity_cache`, `m_staged_refreshes` |
| `builds`, `dataState` | `m_active_builds`, `m_data_state` |
| `params`, `shown` | the layer's stored parameters and the raster on the map, as versions |
| `applied`, `crossed`, `removed`, `finals` | history for the properties |

`m_quality_tier_cache` is not a variable: `prebuildTier`'s `on_done` fills the
entry, hands it on and erases it before it returns, so it lives within the
`complete` frame.

Left out: `registerExternal` (no caller); `setLaneCap` as an operation (each
caller sets one value for its lane, so caps are constants); loads from persisted
rasters only (`cache_only`); recolouring, which changes pixels and no state; the
qualities CoverageOnly and Medium, which take the paths of Low and High.  The
layers are indexed sidescan layers of the open project.

An append to `Lane::queue` inside the `for` over it invalidates the loop's
iterators.  `SweepNext` takes the mildest outcome, that of a `std::deque` with
room in its last node: the loop ends where the queue ended on entry.

### Bounds

`Plans` bounds how often the operator does each thing, how many builds fail and
how many rasters are written to disk; `MCSidescanTiers` has eight such budgets.
`MaxOps` bounds `m_next_id` and never binds: a `run` frame at the bound would
block the stack, and deadlock is checked in every run of this part.  Caps are
those of the code: two for `map` and `sss:apply`, one for the raster cache.  One
layer reaches a full lane, since a tier operation that is superseded stays on
the pool until it returns; a CRS change or a second selection while its old
builds run makes a third wait.  A raster layer's
load stands for the loads of other layers, which compete for the same lane.

### Fairness

`FairSpec`: the main thread goes on with what is on its stack (`Controller`,
`Manager`), and every function given to the pool returns (`PoolFinishes`), since
each is a loop over a finite store.  Operator deeds are not fair.

### Run

| Run | Deeds | What it shows |
|---|---|---|
| `sidescan_map` | two selections with a live and a geometry correction and an unload; the same with a raster write; a geometry correction, quality (Off included) and CRS change and `deleteProject`, with and without its message box; the overview in place of the CRS change; load, overview, reload, project switch and a raster layer; two geometry corrections, a replaced store, a palette change and a failing build; a palette reload and a second selection that meet a staged refresh; fair | `LanesExact` (the raster cache has one slot), `LatestWins`, `BusyEnds`; `LateResultsDropped` when the unloaded layer is selected again while its old builds run; `LiveShows`, `NewestShown`, `RefreshEnds` |

Two properties make an exception of what the code does.  `repaletteAllLayers`
reloads a layer and cancels nothing, so the reload may cross a tier of the layer that
is under way, of a staged refresh or of a live correction (`crossed`), and that tier,
built from older parameters, then replaces a newer raster: `NewestShown` leaves such
layers out.  A selection that upgrades a layer whose
refresh is staged asks for a tier of no generation, under the key of the refresh's
target, and `handleRefreshTierComplete` ignores it: nothing is owed of such a layer
(`applied` is 0), as with a live correction that meets a refresh.

`OneOutcome` and `BooksExact` are not properties of the manager under every client.
With two geometry corrections and a live one before `deleteProject` a preview tier
waits in a full lane when `cancelAll` sweeps it, the sweep's callbacks submit another
operation, and that one is dropped without `on_finally`.  It stands as a hazard; the
two are checked and proved for the viewers (section 5), whose `on_finally` asks for
nothing.

Where the model disagrees with what a comment says and no run is kept for it:
a live correction made while a refresh is staged can leave the map with the older
parameters (`LiveShows` owes nothing of either then); a correction stored while its
layer's load runs is not shown when the layer is selected again; after a project switch the finaliser of an old load can
report Ready while a new load runs; turning map sonar off during a reload leaves
the old raster on the map.

### Proofs

All for any set of layers, operations, caps, bounds and budgets; of the set of layers
it is assumed that it is finite, since the operator reloads them one after the other.

*Lanes, for any client* (`LanesAreExact`: `Spec => []LanesExact`).  `LanesExact` alone
is not inductive.  A slot is counted by `running` and held by an operation in
`launched`, and it passes from queue to pool by `PumpStart`; if the head of a queue
could already be on the pool, or were of another lane, the count would rise with no
operation behind it.  `LaneInv` adds `QueuesApart`: what waits in a lane was asked for
it, is not on the pool, and waits once.  That in turn needs that a new id is above
every id in use (`LaneTypes`).  Each manager action keeps `LaneInv` (one lemma each);
a client that only pushes calls and cancels leaves the lanes alone.

*Keys, for any client.*  `KeyBooks` says that `keyed` names registered operations under
their keys and reaches every one that no cancel has reached, and that each registered
operation is the newest of its key or cancelled (`Newest`).  `KeyedWithout` looks at the
operation and not at its key, which is what keeps this when an operation ends after its
successor was registered.

*The ledger, for clients whose `on_finally` calls nothing.*  `Ledger` gives every
operation one place: registered (on the pool, or in a queue and not passed by a sweep),
owed its `on_finally` by a frame on the stack, or finalised once.  From the three follow
`OneOutcome` and `BooksExact` (`LedgerBalances`, `BooksBalance`).  The map is no such
client: this is the hazard above.

*The map.*  `TierInv` is the inductive invariant of `SidescanTiers`, and `TiersStep` its
induction.  Its parts:

- `StackInv`: which calls may stand above which (`Above`).  Nothing comes between the
  controller and its request for a load or a preview; under a pump or a finished handler
  nobody asks for anything; closing a project happens outside every other call.  So the
  nesting of a re-entrant manager is bounded by what can call what, and each step need
  only look at the top of the stack.
- `Registered`: what is on the pool is registered, and so is what waits, in every lane
  that is not being swept.  Hence a cancel by key reaches every build of a layer.
- `Recent`: every build that may still reach the map has an id above the one at which its
  layer was last taken off.  `unloadLayer`, Off and `deactivate` keep this because they
  cancel by key before they clear, and because no outcome is being delivered then.
- `LoadsHeld`, `Counted`: a load whose `on_finally` has not been called is on the pool,
  about to call it, or in a queue; and there is one behind every build that is counted.
- `Generations`, `Unpreviewed`: a refresh waits for the generation it was given, and the
  operation it waits for as its preview is never dropped by `pumpLane`.  Otherwise
  `on_finally` would call `run` from inside the loop of `pumpLane`, which the stack
  discipline rules out.

A step of the operator or of the controller is a `Turn`: it returns from the call on top
and makes others, and may only cancel.  What a turn does to the map is bounded by
`RemovalTurn`, `StageTurn` and `CountTurn`; `TurnKeeps` proves once that such a turn keeps
`TierInv`, and each action is shown to be one.  A step of the manager leaves the map
alone and moves operations forward only (`QuietStep`).

From `TierInv`: `MapLatestWins` (`LatestWins`), `BusyAlwaysEnds` (`BusyEnds`: at rest no
frame is left, so an open load would be pending) and `LateResultsAreDropped`
(`LateResultsDropped`, an action property: only `LoadSettled` and the three completions
put a raster on the map, and `Recent` holds of the operation they handle).

*Versions.*  `VersionInv`, inductive on top of `TierInv`, compares the version on the map
and the version applied with `Coming(a)`: the builds of a layer whose result will be
looked at (registered and not cancelled, or in a frame that settles or completes) and
those in a `run` frame, about to be asked for.

- `Ordered`: nothing on the map or to come is newer than the stored parameters; a load
  comes for an unloaded layer only and is not older than its raster; nor is a tier that
  may be shown, of a layer no palette reload crossed; and behind a preview, or a tier
  that completes, nothing older comes.
- `Kept`: what comes is not older than what was applied.  An applied version the map
  does not show (`Unshown`) has a tier coming that will be shown whatever else happens
  (`WillShow`), or the `on_finally` of its preview is due, which asks for the target; or
  the project is closing.  This is why a failed preview loses nothing.

A step of the manager or of the pool is a `FlowStep`: it lets fewer builds come.  Any
other step `Asks` for some, for one layer or none, and what `VersionInv` says of the
other layers is proved once (`Aside`, `AsideTells`).  `VersionsStep` is the induction.
From it: `NewestIsShown` (`NewestShown`, an action property) and `LiveIsShown`
(`LiveShows`).  `NewestShown` is not true of a layer with a live correction's tier under
way at a palette reload: the case was met in the proof, and `crossed` covers it.

Only model-checked: the liveness of this part.

## 5. The viewers

`Viewers` extends `OperationManager` as `SidescanTiers` does: the same manager,
another client.  The waterfall holds a window of rows of one band of its line; a
load, a rebuild after a change of parameters and a navigation run share the key
`wf:pipeline`, so each supersedes the others.  The sub-bottom window loads all
traces of its line and then processes them, under a key each.

| Model | Code |
|---|---|
| `wf` (`layer`, `band`, `first`, `params`, `raw`, `rows`, `state`) | `m_layer`, `m_selected_frequency_hz`, `m_window_first_row`, and of the view `m_params`, `m_raw_pings`, `m_rows`; `m_data_state` |
| `wf.repipe`, `wf.scroll`, `sb.proc` | the timers `m_repipe_debounce`, `m_scroll_debounce` (with `m_pending_abs_row`), `m_proc_debounce` |
| `sb` | `m_layer`, the three parameter sets, `m_traces_raw`, the view's traces, `m_data_state` |
| `OpenLine`, `ReloadLine`, `ChooseBand`, `Scroll`, `ChangeParams`, `ChangeStretch`, `ApplyTools`, `ApplyNav`, `OpenProfile`, `ChangeProfileParams`, `Replace` | what the operator and the coordinators do |
| `ScrollFires`, `RepipeFires`, `ProcFires` | the timers |
| `WindowLoaded` ... `ProcFails` | the `on_done` of the five kinds of operation, by outcome |
| `nav`, `noTraces`, `clear` frames | what a coordinator calls next in the same handler |
| `overtaken`, `sb.gone`, `finals` | history |

Pings, rows and traces are where they were read from and the parameters they
were made with; a navigation run keeps the place.  Left out: opening and closing
the windows, painting, contacts, features, seabed picks, QC ranges.

| Run | Instance | What it shows |
|---|---|---|
| `viewers` | two lines, one without sub-bottom traces, two bands, two windows of rows; six budgets: a line with band, scroll, parameters and a failure; reload, apply and parameters; two lines with navigation, scroll and project switch; two profiles with parameters, a failure and a file that is gone; both windows and a project switch; four waterfall loads beside a profile; fair | `RowsTrue`, `TracesTrue`, `ViewersSettle`, `OneOutcome`, `BooksExact` |
| `viewer_ready` | two lines selected one after the other | *violated* `ReadyIsCurrent` |

The heavy lane has its default cap of two, and five loads fill it and its queue.
`MaxOps` does not bind.  The run also checks what the manager promises a client whose
`on_finally` asks for nothing: `OneOutcome` and `BooksExact`.  `FairSpec` adds to the
fairness of the manager that a timer which is left alone fires.

`RowsTrue` has two parts.  The rows of a waterfall that says Ready were built with
the parameters on its controls, always: this is what the comparison at the end
of a load (`Stale`) and the timer are for.  They are those of its line, band and
first row unless the load was `overtaken` by a rebuild, which `viewer_ready` shows
to happen on every change of line.  `ViewersSettle` excepts a sub-bottom line
whose file is gone: its load ends without traces, and nothing takes the window
out of Loading; it is model-checked only, as all liveness.

### Proofs

`ViewersProofs`, for any lines, bands, parameters, caps and budgets; the last two sets
are assumed not to be empty (`ViewersAssumption`), since the controls always show one.

- The stack is one of few shapes (`StackInv`): idle or about to ask for something; a
  finished handler below at most a pump and the `on_finally` of what it drops; or
  `cancelAll` with what the closing project calls after it (`Clearing`).  So the client asks for nothing under a pump or a sweep, and `BookInv`
  (lanes, keys, ledger) is inductive.  It gives `ViewersOneOutcome`, `ViewersBooksExact` and
  `ViewersLatestWins`.
- `Coming(k)` is what the manager may still deliver under key `k`: the registered or
  settling operations that are not cancelled, or the request on top of the stack, which
  supersedes them all: `keyed` leads to every registered operation of the key that no
  cancel has reached.
- `RowsInv` and `TraceInv` say of each thing to come that it is of the window's line with
  its parameters, or that a timer is set to ask again; and of the window itself that what
  it shows is right once nothing is to come.  A project switch suspends them between
  `cancelAll` and the clearing of the windows.  They give `WaterfallRowsTrue` and
  `ProfileTracesTrue`.

## 6. Bakes and graph runs

### Modules

- `CorrectionBatch`: `CorrectionBatchOperator` and the jobs of the
  `DiagnosticsHub` it opens.  A job and the service call behind it are one record.
- `ProcessingService`: graph runs and the paths they reserve.
- `LayerBakes`: both, with the stores they write, the coordinator that commits
  their results to layers, graph edits, reverts, closing and opening.
- `MCLayerBakes`, `MCLayerBakes.cfg`; `LayerBakesProofs`.

| Model | Code |
|---|---|
| `jobIds`, `jobGenerations`, `generation` | `m_job_ids`, `m_job_generations`, `m_generation` |
| `batch` (id, total, pending, succeeded, dispatched, layers, queue) | `m_sss_*` and `m_sbp_*` |
| `jobs`, `hubBatches` | the rows of the hub; the calls of the correction services |
| `runs`, `activePaths` | calls of `ProcessingService`, `m_active_paths` |
| `layers` (artifact, index, origin, applied) | `artifact_store_path`; everything a layer remembers of its store; `processing_origin`; `applied_graph_json` |
| `stores` | the files: the role marked in them and what made their data |
| `session`, `crossed` | history |

A background function reads its inputs when it is called and cannot be stopped;
its outcome is chosen when it returns (persisted, skipped, failed), its signal is
a later step, and closing or opening the project, or another bake, may come
between.

### Run and bounds

`layer_bakes`: two sidescan layers of one file (each with its own sidecar, one
baseline) and a sub-bottom layer, which is baked from its active store; three
budgets: two batches and a reopening; graph runs of one layer and of all with an
edit and a revert; a single bake and two runs with a revert and a reopening.
`MaxConcurrent` is 1, so that a batch of two has a layer waiting.  It shows `BatchBooks`, `OneWriter`,
`BaselineKept`, `StoresTrue`, `LateNotCommitted` and, under fairness of the
background functions and of the delivery of their results, `BakesSettle`.

`StoresTrue` excepts layers where a bake and a graph run crossed, or a bake and
its project's closing: there the model finds a layer that remembers the index of
one writer over the file of the other (see the hazards).  Nothing in the
repository promises otherwise.

### Proofs

- `BaselinesAreKept`: a sidecar's path is never that of a baseline
  (`SidecarPath`), so no write touches one.
- `OneWriterOfALayer`: a layer whose bake has not settled is not `Free`, whatever
  generation the call is of, because a cancel keeps the ids of the calls that
  still run; and `activePaths` are those of the runs under way.  The invariant
  links the two maps with the calls.
- `LateBakesAreDiscarded`: a call of an earlier opening has an earlier generation
  than the current one, and that is what `acceptCurrentGeneration` tests.

- `BatchBooksExact` (`BatchBooks`).  `BooksInv` says that an open batch counts the calls
  that carry its id and have not settled (`Counts`).  A cancel forgets the counters while
  calls still run; what keeps their late results from being counted is that a batch's
  id is used once (`HubInv`: every id in use is below the hub's next one, and the two
  modalities never share one), and that the calls of an open batch are of the current
  generation, so that `handleFinished` does not discard them uncounted.
- `StoresAreTrue` (`StoresTrue`).  `LayerTrue` says what the file of a layer holds while a
  result is between the disk and the layer: the data of the persisted bake that is still
  to be handled, or of the persisted request of the run under way, and otherwise what the
  layer remembers.  It needs that all writers of a layer write its own sidecar and no
  other (`SidecarPath`), that no bake of an earlier opening is running (`Stray`), and that
  a run executes requests of different layers in order (`RunOrder`).  It excepts the
  `crossed` layers, as the property does.

Model-checked only: `BakesSettle`.

## 7. Stores on disk

- `AtomicStore` is the promise: a path names nothing, or the whole of what one
  writer had to write; a writer that fails or is stopped has changed nothing.
- `StorePublish`: the two write functions and `replaceFileAtomically`.  A file is
  what directory entries name; its content is a sequence of blocks.  The property
  `PublishedWhole` is `AtomicStore` under a refinement mapping: what a path shows
  is the content of the file it names, a writer's aim is its target while it is
  busy.
- `ParsedStore`: `open`, `buildIndex` and `quickIndex` beside the writers.  A store
  without a footer is scanned and gets its footer appended in place, through a
  handle opened again by path.
- `MCParsedStore`, `MCStores.cfg`; `StorePublishProofs`.

`stores`: two writers for two paths, two readers, two artifacts at most;
`ReplaceOpen` is FALSE, as on Windows, the supported platform (`README.md:450`).
Stores of this version and old ones (no footer) are scanned by two readers together,
with a crash between any two steps; readers and writers are symmetric, and
exchanging two of a kind changes no property.

Nothing in the code keeps two readers from appending to one old store at a time, and
nothing rolls back the footer in which the application ended.  Either leaves a partial
footer, or one in the middle, and every later scan of that store returns nothing.  The
model does both; the history variable `spoilt` has the files it happened to, and
`FooterHarmless` speaks of all others.  Without the exception TLC finds both in a few steps (a
crash after `AppendEntries`; a rollback under a second reader's trailer).  The comment
on the append (`ParsedCache.Index.cpp:158`) promises less than that, a *failed write*,
so this stands as a hazard and not as a finding.

`StoresArePublishedWhole` (`StorePublishProofs`) is the refinement for any paths,
writers and artifacts: initial states map to initial states and every step to a
step of `AtomicStore` or a stutter.  Its invariant says what a writer has in its
file at each stage, and that a file found at a path has been left by its writer.

The readers come next, for any number of them, where an open file cannot be replaced
(`ReplaceOpen = FALSE`); `ParsedAssumption` only tells the parts of a footer from records.

- `ReadStoresStayWhole`: the refinement holds with readers beside the writers: an append
  to a store in place, and its rollback, change nothing of what the path shows.
- `IndexesAreOfTheStore` (`IndexIsOfTheStore`).  `ReadInv` says that every footer block in a
  file names that file (`OwnFooters`), and what a reader at each stage knows of the file
  it opened (`OfScan`): while it is open the path still names it, so the handle that is
  opened again by path appends to the file that was scanned.
- `FootersAreHarmless` (`FooterHarmless`): for any number of readers, writers and crashes,
  with stores of either kind, and nothing assumed of `Plans`.  `FooterInv` says that
  records end where the writer's artifacts did (`RecordsEnd`), so that every scan that
  got past them knows the same size; that whoever appends to a file that is not spoilt
  does so alone and at its end (`OfAppend`); and that such a file, where a path
  names it, ends with its footer, holds records only, or is being appended to (`Indexed`).

## 8. Project editing

- `NodeGraph`: operators on a graph (nodes, inputs, edges, groups): the editing
  methods, `wouldCreateCycle`, `topoSort`, and what `fromJson` accepts.
- `GraphEditor`: mouse, keys and menus of the node graph window on the project's
  graph; every change is saved at once by `autoSave`, which may fail; then the
  project is closed and opened again from the manifest.
- `ContactUndo`: contacts, recycle bin, groups and the undo stack with its
  macros.  The stack holds ids taken when a command ran; the bin's commands and
  those of the layer tree change the project without it.
- `ProjectEditor`: both in one project, one dirty flag, one manifest.  A refused
  graph costs the contacts too, and the other way round.
- `MCProjectEditor` with `MCProjectEdits.cfg`, `MCRegrouped.cfg`;
  `ProjectEditorProofs`.

| Run | Instance | What it shows |
|---|---|---|
| `project_edits` | three nodes (a filter, a merge, a MultiMerge) drawn, rerouted, deleted, grouped, widened; or up to three contacts picked, recycled, restored, purged, grouped, undone and redone; reopened once | `EdgesSound`, `TopoComplete`, `Reopens`, `ContactsDistinct` |
| `regrouped` | three groups, one ungrouped | *violated* `Reopens`: two groups get one id, and the project is refused |

Three nodes are the least for a cycle through two edges beside a refused third;
deeds are bounded by `Plans` and `Allowances`, and `Errands` pairs them, since
graph and contacts meet only where the project is saved and opened.
`project_edits` has no grouping after ungrouping and no narrowing of a MultiMerge
below a connected port: both make `Reopens` fail, and `regrouped` shows the first.
It does group contacts, but undo and redo of "new group and assign" make a group
with another id, so a contact can be left in a group that does not exist; this
stands as a hazard.

Proved: `EdgesAreSound`, for any nodes and numbers of inputs and whatever is done
beside (each operator keeps a sound graph sound), over `EditorOfTheProject`, by
which every behaviour of the composed project is one of the node graph window
with edits elsewhere.  `TopoComplete` rests on reachability, a recursion over
data, and is model-checked; so are `Reopens`, for the same reason, and
`ContactsDistinct`: undo and redo fold over the children of a macro, and what a fold
computes takes an induction.

## 9. Projects and their stores on disk

`ProjectFiles` has several projects in several folders.  A project's stores are
in the folder `data` beside its manifest, whatever the manifest is called, so
projects of one folder share it.  A layer is here the two stores it names, the
active one and the baseline, and whether it is indexed (`index_built`); a manifest is
what was saved of them; an imported file's store is named after the file and a
sidecar after the layer.

Opening reads the index of a layer from its store again.  A layer saved with an
index whose store is gone loses the name; one saved without keeps it, for only
indexed layers are looked at (`Readable`).  Any set of the stores that are there
may be `stale` at an opening, with no footer that can be read: their layers open
without an index, and cannot be processed until the scan that opening asks for has
read the whole store (`Rescanned`), which need not happen.

| Model | Code |
|---|---|
| `projects`, `open` | `Project` objects and `m_project`: a build keeps the object it was started for alive and commits to it, open or not |
| `dirty`, `temp` | `m_project_dirty`, `m_temp_project` |
| `manifests`, `files` | `.dlp` files with the stores they name; `.dlpd` files there are |
| `tasks` | imports, reindexes, bakes and graph runs: `dest` is fixed at the start, `live` is lost when a session ends that announces it |
| `Create`, `Adopt`, `Load`, `Close`, `Delete`, `Restart` | `newProject`; `createSessionProject` and importing into a new project; `loadProjectPath`; `closeProject`; `deleteProject`; the application's end and `purgeStaleTempProjects` |
| `Readable`, `Rescanned` | `restoreLayersFromJson`'s choice of index and store; `rebuildCacheIndex` with the handler of its scan |
| `SaveProject`, `SaveAs`, `Rename` | `save`, `saveAs` with `copyProjectOwnedCaches`, `renameOnDisk` with its rollback |
| `Completes`, `Delivers` | `completeImport` and `completeReindex`; the coordinator's handlers |
| `stray`, `missed`, `owed`, `imported` | history |

Three histories keep the properties honest about what the code does not promise.
A layer is `stray` once a task of an earlier session, or of a project that has moved
since, gave it a store, or once its store was missing when the project moved.  It is
`missed` when its manifest held it without an index and its store had gone; the
code then keeps the name, and the next save writes it again.
`owed` says that the open project differs from its file because opening found
stores missing, because a build could not save, or because the build of an
abandoned object saved over it.

| Run | Instance | What it shows |
|---|---|---|
| `project_files` | paths `x` and `y` in one folder, `z` in another, `t` of the session; a file of two layers and one of one; two project objects; six budgets: copying with bakes and reverts, runs that cross a save-as, renaming and deleting with failures, adopting, leaving with a restart, and a store that is stale at one opening and gone at the next | `SelfContained`, `CleanIsSaved`, `SavedWhole` |
| `deleted_stores` | create, import, save as in the folder, delete | *violated* `KeptUntilDeleted`: deleting one project removes the stores of the other |

Two paths in a folder and one outside are the least for both kinds of save-as;
two objects the least for a build whose project was left; a file operation fails
at most once in a behaviour.  Without the exception for `missed` layers the run
finds, in the last budget, the name of a store that went while its layer was
not indexed in a manifest that is written later.

`CleanIsSaved` compares what layers name.  Indexes are not compared: a scan gives a
layer its index without marking the project, and the next opening reads it again.

`ProjectsAreSelfContained` is `SelfContained` for any folders, paths, layers,
objects and budgets.  It is not inductive: a build commits to an object that need not be
open, at a place fixed when it began.  The invariant `IInv` therefore says that every
manifest (`ManifestsPlaced`) and every object that is open or held by a build
(`ProjectsPlaced`) names stores of its own folder, and that a task writes where its
project lay when it began, unless the layer it reads was stray already
(`TasksAimed`).  The step lemmas follow the actions.

`WhatIsCleanIsSaved` is `CleanIsSaved`, inductive with `IInv`: a step that changes the open
project's layers marks it dirty, saves it, or leaves a save owed.  The cases that matter
are the handlers of builds: one that commits to the open project either saves or owes,
and one that commits to an abandoned object owes when its save lands on the open
project's path.  A scan changes no name.

`WhatIsSavedIsWhole` is the action property `SavedWhole`: a manifest is written only over
stores that exist, or names one that has gone in a layer that is stray, or that was not
indexed in the manifest it comes from and still is not.  `WholeInv` says this of every project that may be saved, the open one
and those builds work for (`ObjectsWhole`), and of what a task of this session has
written (`TasksWritten`).  Stores go when a project is deleted and when the session's
folder is purged; then no project is open and no build of this session holds one, and a
run that lands later makes its layer stray.

`NoManifestAssumption` says that no set of rows is the value for "no file".  Bounds on
budgets are not needed in any of these proofs.

## 10. Findings

`PROJECT.json` quotes the sentence each contradicts.

- `slot_leak`: a rebuild of a layer under way loses a slot; the project can no
  longer be closed.
- `viewer_ready`: after a change of line the waterfall says Ready over the pings of
  the line before, and the load of the new line is gone.
- `regrouped`: a project saved after grouping, ungrouping and grouping again is
  refused on opening.
- `deleted_stores`: a project saved under a second name in its folder and deleted
  takes the stores of the first with it.

Hazards without a property say in their note what the model reaches and why no
property forbids it.  Also reached by a model, and kept out of the list:

- Saving as in the same folder fails once a layer was baked and its baseline is not
  active: `copyProjectOwnedCaches` copies the baseline onto itself
  (`src/app/project/Project.cpp:83`, `CopiesOntoItself`).
- Two projects of one folder that have the same layers write the same sidecars, so
  a bake in one replaces the data the other shows.

- Apply (`applyActiveTools`) starts a navigation run with the rebuild's timer set; when
  the timer fires first, the rebuild, from pings without the corrections, supersedes
  it.  The model has the steps and does not tell corrected pings from raw ones.
- A band change or a scroll overtaken by a parameter change leaves the new band or
  first row over the old rows.

Met while reading, and in no model: a worker's graph is kept as a raw pointer by the
node graph window until the layer's data changes
(`src/ui/mainwindow/MainWindow.cpp:311`); candidates of stores that a crash left are
never removed; the dirty flag stays set after a refused open
(`ProjectSessionController.cpp:437`); contact pictures are named after ids that an
undone and redone contact does not keep.

## 11. What is not modelled

`components` in `PROJECT.json` gives status and reason for each.  In sum:

- Four fifths of the sources are panels, views, painting, dialogs, format
  readers and numerical processing: functions of their input, or state that only
  says what is drawn.  The models cover the stateful core, a small share of the
  lines; a larger share cannot be reached without transcribing widgets.
- Project: the list of recent projects; pruning of unused artifacts; layers'
  display fields; layer groups; features, whose commands work as those
  of contacts.
- Contacts: pasting (a pasted contact keeps its label, so default labels are
  distinct only among picked ones) and renaming; their pictures, which are files
  named after ids.
- Graph: `execute`'s data and caches, layout, copying.
- Stores: the encoding of records; reading one artifact.
- Viewers: opening and closing the windows, thumb dragging (it arms the same timer),
  seabed picks, QC ranges, features and contacts drawn in them.
- Workers, contracts and execution history: the orchestrator has no caller.
- Liveness is model-checked under the stated fairness and not proved, and so is
  what recursive definitions compute: both are out of the prover's reach.
