---------------------------- MODULE ImportService ----------------------------
(***************************************************************************)
(* app/services/ImportService: the background parse of a source file (a    *)
(* "build"), the background scan of an existing parsed store (a "scan"),   *)
(* the process-wide set of sources being built, and the layer states they  *)
(* drive.  Builds and scans run on pool threads; every operator here runs  *)
(* on the main thread except TaskEnds.  As in ImportJobManager, an         *)
(* operator with an underscore is a plausible bug in the one after it.     *)
(***************************************************************************)
EXTENDS ImportTypes

CONSTANTS
  Worker,         \* threads of the global pool
  MaxScans,       \* kMaxConcurrentRebuilds
  ParsedLayers,   \* project layers whose index is in the manifest
  StaleLayers,    \* sequence: project layers with a parsed store but no index
  DeadLayers      \* project layers saved without parsed data

StaleSet == {StaleLayers[i] : i \in DOMAIN StaleLayers}

ASSUME ServiceAssumption ==
  /\ IsFiniteSet(Worker)
  /\ MaxScans \in Nat \ {0}
  /\ ParsedLayers \subseteq Layer
  /\ StaleLayers \in Seq(Layer)
  /\ DeadLayers \subseteq Layer

VARIABLES
  layerState,    \* DataLayer::state; "none" before addLayer, "removed" after removeLayer
  generation,    \* how often the file's ProjectSource was dropped: its id is new each time
  sourceJobs,    \* g_active_source_jobs
  pool,          \* what each pool thread runs, or has finished
  scanQueue,     \* m_rebuild_queue
  scanTokens,    \* the keys of m_rebuild_tokens
  scansRunning   \* m_rebuilds_running

serviceVars == <<layerState, generation, sourceJobs, pool, scanQueue,
                 scanTokens, scansRunning>>

LayerState == {"none", "Placeholder", "Indexing", "Ready", "Failed", "removed"}

\* A ProjectSource id: the file, and which incarnation of it.
SourceId == Source \X Nat

IdleTask == [kind |-> "none", layer |-> NoLayer, source |-> <<>>, epoch |-> 0,
             phase |-> "idle", cancelled |-> FALSE]
Task == [kind : {"import", "reindex", "scan"}, layer : Layer, source : SourceId,
         epoch : Nat, phase : {"running", "done"}, cancelled : BOOLEAN]

ServiceInit ==
  /\ layerState = [l \in Layer |->
       IF l \in ParsedLayers THEN "Ready"
       ELSE IF l \in StaleSet \cup DeadLayers THEN "Placeholder" ELSE "none"]
  /\ generation = [s \in Source |-> 0]
  /\ sourceJobs = {}
  /\ pool = [w \in Worker |-> IdleTask]
  /\ scanQueue = <<>>
  /\ scanTokens = {}
  /\ scansRunning = 0

-----------------------------------------------------------------------------
(* The project's layers, as the service sees them.                         *)

Present(l)  == layerState[l] \notin {"none", "removed"}
Linked(s)   == {l \in Layer : Present(l) /\ SourceOf[l] = s}
Fresh(s)    == {l \in Layer : layerState[l] = "none" /\ SourceOf[l] = s}
CurrentId(s) == <<s, generation[s]>>

\* markLayerIndexing, commitLayer and markLayerFailed.
Indexing(st)  == IF st = "Placeholder" THEN "Indexing" ELSE st
Committed(st) == "Ready"
FailedFrom(st) == IF st = "Ready" THEN st ELSE "Failed"

\* removeLayer: the last layer of a source takes the ProjectSource with it.
DropLayer(l) ==
  IF Present(l)
  THEN /\ layerState' = [layerState EXCEPT ![l] = "removed"]
       /\ generation' = IF Linked(SourceOf[l]) = {l}
                        THEN [generation EXCEPT ![SourceOf[l]] = @ + 1]
                        ELSE generation
  ELSE UNCHANGED <<layerState, generation>>

-----------------------------------------------------------------------------
(* Builds: importFile and reindexLayer up to their QtConcurrent::run.      *)

IdleWorkers == {w \in Worker : pool[w].phase = "idle"}
Tasks(kinds) == {w \in Worker : pool[w].kind \in kinds}
Builds       == Tasks({"import", "reindex"})
Scans        == Tasks({"scan"})

\* tryAcquireSourceJob would find the source's id in the set.
SourceTaken_Never(s) == FALSE
SourceTaken(s) == CurrentId(s) \in sourceJobs

NewTask(kind, l, e) ==
  [kind |-> kind, layer |-> l, source |-> CurrentId(SourceOf[l]), epoch |-> e,
   phase |-> "running", cancelled |-> FALSE]

Launch(task) ==
  LET w == CHOOSE v \in IdleWorkers : TRUE IN
  /\ IdleWorkers # {}
  /\ pool' = [pool EXCEPT ![w] = task]

StartBuild(kind, l, e) ==
  /\ ~SourceTaken(SourceOf[l])
  /\ sourceJobs' = sourceJobs \cup {CurrentId(SourceOf[l])}
  /\ Launch(NewTask(kind, l, e))
  /\ UNCHANGED <<generation, scanQueue, scanTokens, scansRunning>>

\* importFile: addLayer, then markLayerIndexing.
StartImport(l, e) ==
  /\ layerState[l] = "none"
  /\ StartBuild("import", l, e)
  /\ layerState' = [layerState EXCEPT ![l] = Indexing("Placeholder")]

StartReindex(l, e) ==
  /\ Present(l)
  /\ StartBuild("reindex", l, e)
  /\ layerState' = [layerState EXCEPT ![l] = Indexing(@)]

\* The parse or scan ends on its pool thread, which looks at the token last.
TaskEnds(w) ==
  /\ pool[w].phase = "running"
  /\ pool' = [pool EXCEPT ![w].phase = "done"]
  /\ UNCHANGED <<layerState, generation, sourceJobs, scanQueue, scanTokens,
                 scansRunning>>

\* The source id a build was started with: its layer may be gone by now.
HeldBy_Now(w) == CurrentId(SourceOf[pool[w].layer])
HeldBy(w) == pool[w].source

\* The finished handler lets go of the source and of the thread's result.
EndBuild(w) ==
  /\ pool[w].phase = "done"
  /\ w \in Builds
  /\ sourceJobs' = sourceJobs \ {HeldBy(w)}
  /\ pool' = [pool EXCEPT ![w] = IdleTask]
  /\ UNCHANGED <<scanQueue, scanTokens, scansRunning>>

\* completeImport refused by the parser, an exception or a vanished store: the
\* placeholder layer goes.
ImportFails(w) ==
  /\ pool[w].kind = "import"
  /\ EndBuild(w)
  /\ DropLayer(pool[w].layer)

\* completeImport whose save() fails: only the first layer is marked.
ImportUnsaved(w, extra) ==
  LET l == pool[w].layer IN
  /\ pool[w].kind = "import"
  /\ Present(l)
  /\ extra \subseteq Fresh(SourceOf[l])
  /\ EndBuild(w)
  /\ layerState' = [k \in Layer |-> IF k = l THEN FailedFrom(layerState[k])
                                   ELSE IF k \in extra THEN "Placeholder"
                                   ELSE layerState[k]]
  /\ UNCHANGED generation

\* completeImport to the end: the layer, and those split off from it, commit.
ImportCommits(w, extra) ==
  LET l == pool[w].layer IN
  /\ pool[w].kind = "import"
  /\ Present(l)
  /\ extra \subseteq Fresh(SourceOf[l])
  /\ EndBuild(w)
  /\ layerState' = [k \in Layer |-> IF k \in extra \cup {l}
                                   THEN Committed(layerState[k]) ELSE layerState[k]]
  /\ UNCHANGED generation

\* completeReindex refused by the parser or a vanished store.
ReindexFails(w) ==
  LET l == pool[w].layer IN
  /\ pool[w].kind = "reindex"
  /\ EndBuild(w)
  /\ layerState' = IF Present(l)
                   THEN [layerState EXCEPT ![l] = FailedFrom(@)] ELSE layerState
  /\ UNCHANGED generation

\* An exception on the pool thread, or a save() that fails: no layer is marked.
ReindexUnsaved(w) ==
  /\ pool[w].kind = "reindex"
  /\ EndBuild(w)
  /\ UNCHANGED <<layerState, generation>>

\* completeReindex to the end: every layer of the source commits.
ReindexCommits(w) ==
  LET l == pool[w].layer IN
  /\ pool[w].kind = "reindex"
  /\ Present(l)
  /\ EndBuild(w)
  /\ layerState' = [k \in Layer |-> IF k \in Linked(SourceOf[l])
                                   THEN Committed(layerState[k]) ELSE layerState[k]]
  /\ UNCHANGED generation

-----------------------------------------------------------------------------
(* Scans: rebuildCacheIndex, pumpRebuilds, startRebuild.                   *)

QueueScans(ls) ==
  /\ scanQueue' = scanQueue \o ls
  /\ UNCHANGED <<layerState, generation, sourceJobs, pool, scanTokens,
                 scansRunning>>

CanPump == scansRunning < MaxScans /\ scanQueue # <<>>

\* startRebuild on a layer that is gone: the request is dropped.
DropScan ==
  /\ ~Present(Head(scanQueue))
  /\ scanQueue' = Tail(scanQueue)
  /\ UNCHANGED <<layerState, generation, sourceJobs, pool, scanTokens,
                 scansRunning>>

StartScan(e) ==
  LET l == Head(scanQueue) IN
  /\ Present(l)
  /\ scanQueue' = Tail(scanQueue)
  /\ scanTokens' = scanTokens \cup {l}
  /\ scansRunning' = scansRunning + 1
  /\ layerState' = [layerState EXCEPT ![l] = Indexing(@)]
  /\ Launch(NewTask("scan", l, e))
  /\ UNCHANGED <<generation, sourceJobs>>

TokensLeft_All(w) == scanTokens
TokensLeft(w) == scanTokens \ {pool[w].layer}

\* The finished handler up to its call of pumpRebuilds.
EndScan(w) ==
  /\ pool[w].phase = "done"
  /\ w \in Scans
  /\ scanTokens' = TokensLeft(w)
  /\ scansRunning' = IF scansRunning > 0 THEN scansRunning - 1 ELSE scansRunning
  /\ pool' = [pool EXCEPT ![w] = IdleTask]
  /\ UNCHANGED <<layerState, generation, sourceJobs, scanQueue>>

\* ... and its end, when the scan brought an index back.
CommitScan(l) ==
  /\ Present(l)
  /\ layerState' = [layerState EXCEPT ![l] = Committed(@)]
  /\ UNCHANGED <<generation, sourceJobs, pool, scanQueue, scanTokens, scansRunning>>

\* cancelPendingRebuild: only a scan still running can see its token.
CancelScans_Zeroes ==
  /\ pool' = [w \in Worker |->
       IF w \in Scans /\ pool[w].phase = "running" /\ pool[w].layer \in scanTokens
       THEN [pool[w] EXCEPT !.cancelled = TRUE] ELSE pool[w]]
  /\ scanTokens' = {}
  /\ scanQueue' = <<>>
  /\ scansRunning' = 0
  /\ UNCHANGED <<layerState, generation, sourceJobs>>

CancelScans ==
  /\ pool' = [w \in Worker |->
       IF w \in Scans /\ pool[w].phase = "running" /\ pool[w].layer \in scanTokens
       THEN [pool[w] EXCEPT !.cancelled = TRUE] ELSE pool[w]]
  /\ scanTokens' = {}
  /\ scanQueue' = <<>>
  /\ UNCHANGED <<layerState, generation, sourceJobs, scansRunning>>

ServiceTypeOK ==
  /\ layerState \in [Layer -> LayerState]
  /\ generation \in [Source -> Nat]
  /\ sourceJobs \subseteq SourceId
  /\ pool \in [Worker -> Task \cup {IdleTask}]
  /\ scanQueue \in Seq(Layer)
  /\ scanTokens \subseteq Layer
  /\ scansRunning \in 0..MaxScans

-----------------------------------------------------------------------------
(* What the service promises, whatever is asked of it.                     *)

\* No source is parsed by two builds at once, so no two threads ever write the
\* same parsed store: tryAcquireSourceJob against removals and re-imports.
OneBuildPerSource ==
  \A v, w \in Builds : pool[v].source = pool[w].source => v = w

\* A source is held exactly as long as a build of it is under way.  A hold
\* left behind by one error path would refuse the file until a restart.
SourceJobsExact == sourceJobs = {pool[w].source : w \in Builds}

\* Scans stay within kMaxConcurrentRebuilds, and the counter that says so
\* agrees with the pool through cancellation, failure and hand-over.
ScansExact == Cardinality(Scans) = scansRunning /\ scansRunning <= MaxScans

\* isRebuildingLayer answers yes only while a scan of the layer is under way.
TokensRunning == scanTokens \subseteq {pool[w].layer : w \in Scans}
=============================================================================
