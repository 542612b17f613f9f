------------------------ MODULE ImportPipelineProofs ------------------------
(***************************************************************************)
(* What holds of the import pipeline for any number of layers, files, pool *)
(* threads, jobs and cancels.  In four parts: the handlers of the queue    *)
(* keep the types of its state; the service keeps its bookkeeping of       *)
(* sources, scans and pool threads whatever is asked of it (ServiceStep is *)
(* any one step it can take); every step of the pipeline is one of those   *)
(* or leaves the service alone, with files re-imported and layers removed  *)
(* at any moment; and where files do not overlap (Apart) the books of the  *)
(* queue say where each job is, so that its counters are exact (BooksInv). *)
(***************************************************************************)
EXTENDS ImportPipeline, FiniteSetTheorems, SequenceTheorems, TLAPS

-----------------------------------------------------------------------------
(* The queue: one lemma per operator of ImportJobManager, each about a     *)
(* step that takes the operator from a state of the right types.           *)

Signals == {"none", "started", "completed", "failed"}

\* The counts a handler adds are naturals: they count layers.
LEMMA LayerCount ==
  ASSUME NEW S \in SUBSET Layer
  PROVE  Cardinality(S) \in Nat
BY LayerAssumption, FS_Subset, FS_CardinalityType

\* An empty summary is a summary.
LEMMA EmptyType == EmptySummary \in Summary
BY DEF EmptySummary, Summary

\* A summary has a natural total.
LEMMA TotalType ==
  ASSUME NEW s \in Summary
  PROVE  Total(s) \in Nat
<1>1. /\ s.imported \in Nat
      /\ s.rebuilt \in Nat
      /\ s.reused \in Nat
      /\ s.failed \in Nat
  BY DEF Summary
<1> QED BY <1>1 DEF Total

\* Counting more of an outcome leaves a summary.
LEMMA CountType ==
  ASSUME NEW s \in Summary, NEW m \in Nat, NEW n \in Nat
  PROVE  /\ [s EXCEPT !.reused = @ + n] \in Summary
         /\ [s EXCEPT !.failed = @ + n] \in Summary
         /\ [s EXCEPT !.rebuilt = @ + m, !.imported = @ + n] \in Summary
<1>1. [s EXCEPT !.reused = @ + n] \in Summary
  BY DEF Summary
<1>2. [s EXCEPT !.failed = @ + n] \in Summary
  BY DEF Summary
<1>3. [s EXCEPT !.rebuilt = @ + m] \in Summary
  BY DEF Summary
<1>4. [s EXCEPT !.rebuilt = @ + m, !.imported = @ + n] \in Summary
  <2> DEFINE t == [s EXCEPT !.rebuilt = @ + m]
  <2>1. t \in Summary /\ t.imported \in Nat /\ t.imported = s.imported
    BY <1>3 DEF Summary
  <2>2. [t EXCEPT !.imported = t.imported + n] \in Summary
    <3> HIDE DEF t
    <3> QED BY <2>1 DEF Summary
  <2>3. [s EXCEPT !.rebuilt = @ + m, !.imported = @ + n]
          = [t EXCEPT !.imported = t.imported + n]
    BY <2>1, Zenon DEF t
  <2> QED BY <2>2, <2>3
<1> QED BY <1>1, <1>2, <1>4

\* The initial state is well typed.
LEMMA ManagerInitType == ManagerInit => ManagerTypeOK
<1> SUFFICES ASSUME ManagerInit PROVE ManagerTypeOK
  OBVIOUS
<1>1. activeJobs \in [Layer -> ActiveJob]
  BY DEF ManagerInit, NoJob, ActiveJob
<1>2. queue \in Seq(Job)
  BY EmptySeq DEF ManagerInit
<1> QED BY <1>1, <1>2, EmptyType DEF ManagerInit, ManagerTypeOK

\* importBatch and reindexLayer take well-typed jobs in.
LEMMA AcceptJobsType ==
  ASSUME ManagerTypeOK, NEW jobs \in Seq(Job), NEW reused \in SUBSET Layer,
         AcceptJobs(jobs, reused)
  PROVE  ManagerTypeOK'
<1>1. queue' \in Seq(Job) /\ Len(jobs) \in Nat
  BY ConcatProperties, LenProperties DEF ManagerTypeOK, AcceptJobs
<1>2. summary' \in Summary /\ Cardinality(reused) \in Nat
  BY LayerCount, CountType DEF ManagerTypeOK, AcceptJobs
<1>3. accepted' \in Int
  BY <1>1, <1>2 DEF ManagerTypeOK, AcceptJobs
<1> QED BY <1>1, <1>2, <1>3 DEF ManagerTypeOK, AcceptJobs

\* So does a batch of nothing but reuse.
LEMMA AcceptReuseOnlyType ==
  ASSUME ManagerTypeOK, NEW reused \in SUBSET Layer, AcceptReuseOnly(reused)
  PROVE  ManagerTypeOK'
<1>1. Cardinality(reused) \in Nat /\ Total(summary) \in Nat
  BY LayerCount, TotalType DEF ManagerTypeOK
<1>2. summary' \in Summary
  BY <1>1, EmptyType, CountType DEF ManagerTypeOK, AcceptReuseOnly, ReuseSummary
<1>3. accepted' \in Int
  BY <1>1 DEF ManagerTypeOK, AcceptReuseOnly
<1> QED BY <1>2, <1>3 DEF ManagerTypeOK, AcceptReuseOnly

\* What is at the head of the queue is a job.
LEMMA HeadOfQueue ==
  ASSUME ManagerTypeOK, CanDispatch
  PROVE  /\ Head(queue) \in Job
         /\ Tail(queue) \in Seq(Job)
         /\ Head(queue).kind \in {"import", "rebuild"}
         /\ Head(queue).kind = "rebuild" => Head(queue).layer \in Layer
<1>1. Head(queue) \in Job /\ Tail(queue) \in Seq(Job)
  BY HeadTailProperties DEF ManagerTypeOK, CanDispatch
<1> QED BY <1>1 DEF Job, ImportJob, RebuildJob

\* The head of the queue is dropped and its layer reported.
LEMMA WarnMissingType ==
  ASSUME ManagerTypeOK, CanDispatch, WarnMissing
  PROVE  ManagerTypeOK'
BY HeadOfQueue DEF ManagerTypeOK, WarnMissing

\* The failure is counted.
LEMMA CountMissingType ==
  ASSUME ManagerTypeOK, CountMissing
  PROVE  ManagerTypeOK'
<1>1. summary' \in Summary
  BY CountType DEF ManagerTypeOK, CountMissing
<1> QED BY <1>1 DEF ManagerTypeOK, CountMissing

\* The head of the queue takes a slot, and a rebuild its entry in the map.
LEMMA ClaimSlotType ==
  ASSUME ManagerTypeOK, CanDispatch, ClaimSlot
  PROVE  ManagerTypeOK'
<1>1. activeJobs' \in [Layer -> ActiveJob]
  BY HeadOfQueue DEF ManagerTypeOK, ClaimSlot, ActiveJob
<1> QED BY <1>1, HeadOfQueue DEF ManagerTypeOK, ClaimSlot

\* The batch is reported, or nothing happens.
LEMMA ReportBatchType ==
  ASSUME ManagerTypeOK, ReportBatch
  PROVE  ManagerTypeOK'
<1>1. CASE Idle
  BY <1>1, EmptyType, TotalType DEF ManagerTypeOK, ReportBatch
<1>2. CASE ~Idle
  BY <1>2 DEF ManagerTypeOK, ReportBatch, managerVars
<1> QED BY <1>1, <1>2

\* A deferred report touches no more than the history.
LEMMA ReportDeferredType ==
  ASSUME ManagerTypeOK, NEW tok, ReportDeferred(tok)
  PROVE  ManagerTypeOK'
BY DEF ManagerTypeOK, ReportDeferred

\* A start enters the layer in the map.
LEMMA OnIndexingStartedType ==
  ASSUME ManagerTypeOK, NEW l \in Layer, OnIndexingStarted(l)
  PROVE  ManagerTypeOK'
<1> DEFINE job == IF Tracked(l)
                  THEN [activeJobs[l] EXCEPT !.started = TRUE]
                  ELSE [kind |-> "import", started |-> TRUE, epoch |-> activeJobEpoch]
<1>1. job \in ActiveJob
  BY DEF ManagerTypeOK, ActiveJob
<1>2. activeJobs' = [activeJobs EXCEPT ![l] = job]
  BY DEF OnIndexingStarted
<1>3. signal' \in [Layer -> Signals] /\ awaiting' \in Nat
  BY DEF ManagerTypeOK, OnIndexingStarted, Signals
<1> HIDE DEF job
<1> QED BY <1>1, <1>2, <1>3 DEF ManagerTypeOK, OnIndexingStarted, Signals

\* A completion takes layers off the map and counts them.
LEMMA OnIndexingCompleteType ==
  ASSUME ManagerTypeOK, NEW S \in SUBSET Layer, OnIndexingComplete(S)
  PROVE  ManagerTypeOK'
<1> DEFINE done == LiveIn(S)
<1> DEFINE again == {l \in done : activeJobs[l].kind = "rebuild"}
<1>1. TrackedIn(S) \in SUBSET Layer /\ done \in SUBSET Layer
  BY DEF TrackedIn, LiveIn
<1>2. again \in SUBSET Layer /\ done \ again \in SUBSET Layer
  BY <1>1
<1>3. /\ Cardinality(TrackedIn(S)) \in Nat
      /\ Cardinality(again) \in Nat
      /\ Cardinality(done \ again) \in Nat
  BY <1>1, <1>2, LayerCount
<1>4. summary' = [summary EXCEPT !.rebuilt = @ + Cardinality(again),
                                 !.imported = @ + Cardinality(done \ again)]
  BY DEF OnIndexingComplete
<1>5. activeJobs' \in [Layer -> ActiveJob]
  BY DEF ManagerTypeOK, OnIndexingComplete, NoJob, ActiveJob
<1>6. signal' \in [Layer -> Signals]
  BY DEF ManagerTypeOK, OnIndexingComplete, Signals
<1>7. activeCount' \in Int
  BY <1>3 DEF ManagerTypeOK, OnIndexingComplete
<1>8. summary' \in Summary
  BY <1>3, <1>4, CountType DEF ManagerTypeOK
<1> QED BY <1>5, <1>6, <1>7, <1>8 DEF ManagerTypeOK, OnIndexingComplete, Signals

\* A failure is announced whatever it is about.
LEMMA AnnounceFailureType ==
  ASSUME ManagerTypeOK, NEW key, AnnounceFailure(key)
  PROVE  ManagerTypeOK'
<1>1. signal' \in [Layer -> Signals]
  BY DEF ManagerTypeOK, AnnounceFailure, Signals
<1> QED BY <1>1 DEF ManagerTypeOK, AnnounceFailure, Signals

\* A failure is settled whatever it is about, and the count of starts to come
\* never falls below zero.
LEMMA SettleFailureType ==
  ASSUME ManagerTypeOK, NEW key, NEW live, SettleFailure(key, live)
  PROVE  ManagerTypeOK'
<1>1. awaiting' \in Nat
  BY DEF ManagerTypeOK, SettleFailure, OwesStart
<1>2. activeJobs' \in [Layer -> ActiveJob]
  BY DEF ManagerTypeOK, SettleFailure, Tracked, NoJob, ActiveJob
<1>3. summary' \in Summary
  BY CountType DEF ManagerTypeOK, SettleFailure
<1>4. activeCount' \in Int
  BY DEF ManagerTypeOK, SettleFailure
<1> QED BY <1>1, <1>2, <1>3, <1>4 DEF ManagerTypeOK, SettleFailure

\* A cancel empties the queue.
LEMMA CancelQueueType ==
  ASSUME ManagerTypeOK, CancelQueue
  PROVE  ManagerTypeOK'
<1>1. queue' \in Seq(Job)
  BY EmptySeq DEF CancelQueue
<1>2. summary' \in Summary /\ accepted' \in Int
  BY EmptyType, TotalType DEF ManagerTypeOK, CancelQueue
<1> QED BY <1>1, <1>2 DEF ManagerTypeOK, CancelQueue

\* A step of something else keeps the types.
LEMMA ManagerStutterType ==
  ASSUME ManagerTypeOK, UNCHANGED managerVars
  PROVE  ManagerTypeOK'
BY DEF ManagerTypeOK, managerVars

-----------------------------------------------------------------------------
(* The service.                                                            *)

Others == <<sourceJobs, pool, scanQueue, scanTokens, scansRunning>>

ServiceStep ==
  \/ \E l \in Layer : DropLayer(l) /\ UNCHANGED Others
  \/ \E l \in Layer, e \in Nat : StartImport(l, e)
  \/ \E l \in Layer, e \in Nat : StartReindex(l, e)
  \/ \E w \in Worker : TaskEnds(w)
  \/ \E w \in Worker : ImportFails(w)
  \/ \E w \in Worker, extra \in SUBSET Layer : ImportUnsaved(w, extra)
  \/ \E w \in Worker, extra \in SUBSET Layer : ImportCommits(w, extra)
  \/ \E w \in Worker : ReindexFails(w)
  \/ \E w \in Worker : ReindexUnsaved(w)
  \/ \E w \in Worker : ReindexCommits(w)
  \/ QueueScans(StaleLayers)
  \/ CanPump /\ DropScan
  \/ \E e \in Nat : CanPump /\ StartScan(e)
  \/ \E w \in Worker : EndScan(w)
  \/ \E l \in Layer : CommitScan(l)
  \/ CancelScans

ServiceInv ==
  /\ ServiceTypeOK
  /\ OneBuildPerSource
  /\ SourceJobsExact
  /\ ScansExact
  /\ TokensRunning

-----------------------------------------------------------------------------
(* Layer states and source ids.                                            *)

\* DropLayer changes the layer's state and its source's incarnation only.
LEMMA DropLayerType ==
  ASSUME ServiceTypeOK, NEW l \in Layer, DropLayer(l)
  PROVE  layerState' \in [Layer -> LayerState] /\ generation' \in [Source -> Nat]
<1>1. SourceOf[l] \in Source
  BY LayerAssumption
<1>2. CASE Present(l)
  <2>1. layerState' = [layerState EXCEPT ![l] = "removed"]
    BY <1>2 DEF DropLayer
  <2>2. generation' \in {generation, [generation EXCEPT ![SourceOf[l]] = @ + 1]}
    BY <1>2 DEF DropLayer
  <2> QED BY <1>1, <2>1, <2>2 DEF ServiceTypeOK, LayerState
<1>3. CASE ~Present(l)
  BY <1>3 DEF DropLayer, ServiceTypeOK
<1> QED BY <1>2, <1>3

\* A new task is a task.
LEMMA NewTaskType ==
  ASSUME ServiceTypeOK, NEW kind \in {"import", "reindex", "scan"},
         NEW l \in Layer, NEW e \in Nat
  PROVE  /\ NewTask(kind, l, e) \in Task
         /\ CurrentId(SourceOf[l]) \in SourceId
         /\ NewTask(kind, l, e).kind = kind
         /\ NewTask(kind, l, e).layer = l
         /\ NewTask(kind, l, e).source = CurrentId(SourceOf[l])
BY LayerAssumption DEF ServiceTypeOK, NewTask, Task, CurrentId, SourceId

\* A task runs or is done, an idle thread does neither.
LEMMA PhaseTells ==
  ASSUME ServiceTypeOK, NEW w \in Worker
  PROVE  /\ pool[w].phase = "idle" => pool[w] = IdleTask
         /\ pool[w].phase \in {"running", "done"} => pool[w] \in Task
         /\ pool[w].kind # "none" <=> pool[w] \in Task
BY DEF ServiceTypeOK, Task, IdleTask

\* QtConcurrent::run takes a thread that was idle.
LEMMA LaunchTakesIdle ==
  ASSUME ServiceTypeOK, NEW task \in Task, Launch(task)
  PROVE  \E w \in Worker :
           /\ pool[w] = IdleTask
           /\ pool' = [pool EXCEPT ![w] = task]
           /\ pool' \in [Worker -> Task \cup {IdleTask}]
<1> DEFINE w == CHOOSE v \in IdleWorkers : TRUE
<1>1. w \in IdleWorkers
  BY DEF Launch
<1>2. w \in Worker /\ pool[w].phase = "idle"
  BY <1>1 DEF IdleWorkers
<1>3. pool[w] = IdleTask
  BY <1>2, PhaseTells
<1>4. pool' = [pool EXCEPT ![w] = task]
  BY DEF Launch
<1>5. pool' \in [Worker -> Task \cup {IdleTask}]
  BY <1>2, <1>4 DEF ServiceTypeOK
<1> QED BY <1>2, <1>3, <1>4, <1>5

-----------------------------------------------------------------------------
(* What a step does to the bookkeeping depends on what it does to the pool *)
(* threads' tasks, and on nothing else.                                    *)

ScanLayers == {pool[w].layer : w \in Scans}
BuildSources == {pool[w].source : w \in Builds}

\* A step that leaves every thread its kind of task, its source and its layer
\* changes none of the sets the bookkeeping is compared with.
LEMMA SameTasks ==
  ASSUME \A w \in Worker : /\ pool'[w].kind = pool[w].kind
                           /\ pool'[w].source = pool[w].source
                           /\ pool'[w].layer = pool[w].layer
  PROVE  /\ Builds' = Builds
         /\ Scans' = Scans
         /\ BuildSources' = BuildSources
         /\ ScanLayers' = ScanLayers
         /\ OneBuildPerSource => OneBuildPerSource'
<1>1. Builds' = Builds /\ Scans' = Scans
  BY DEF Builds, Scans, Tasks
<1>2. Builds \subseteq Worker /\ Scans \subseteq Worker
  BY DEF Builds, Scans, Tasks
<1> QED BY <1>1, <1>2 DEF BuildSources, ScanLayers, OneBuildPerSource

\* Such a step keeps the invariant if it keeps the types and the counters and
\* adds no token.
LEMMA KeepsTasks ==
  ASSUME ServiceInv, ServiceTypeOK',
         \A w \in Worker : /\ pool'[w].kind = pool[w].kind
                           /\ pool'[w].source = pool[w].source
                           /\ pool'[w].layer = pool[w].layer,
         UNCHANGED <<sourceJobs, scansRunning>>,
         scanTokens' \subseteq scanTokens
  PROVE  ServiceInv'
<1>1. /\ Builds' = Builds
      /\ Scans' = Scans
      /\ BuildSources' = BuildSources
      /\ ScanLayers' = ScanLayers
      /\ OneBuildPerSource'
  BY SameTasks DEF ServiceInv
<1>2. SourceJobsExact'
  BY <1>1 DEF ServiceInv, SourceJobsExact, BuildSources
<1>3. ScansExact'
  BY <1>1 DEF ServiceInv, ScansExact
<1>4. TokensRunning'
  BY <1>1 DEF ServiceInv, TokensRunning, ScanLayers
<1> QED BY <1>1, <1>2, <1>3, <1>4 DEF ServiceInv

\* A build starts on an idle thread, under a source id no build holds.
LEMMA BuildStarts ==
  ASSUME ServiceInv, NEW kind \in {"import", "reindex"}, NEW l \in Layer, NEW e \in Nat,
         StartBuild(kind, l, e), layerState' \in [Layer -> LayerState]
  PROVE  ServiceInv'
<1> DEFINE task == NewTask(kind, l, e)
<1> DEFINE id == CurrentId(SourceOf[l])
<1>1. ServiceTypeOK
  BY DEF ServiceInv
<1>2. task \in Task /\ id \in SourceId /\ task.kind = kind /\ task.source = id
  BY <1>1, NewTaskType
<1>3. PICK w \in Worker : /\ pool[w] = IdleTask
                         /\ pool' = [pool EXCEPT ![w] = task]
                         /\ pool' \in [Worker -> Task \cup {IdleTask}]
  BY <1>1, <1>2, LaunchTakesIdle DEF StartBuild
<1>4. /\ id \notin sourceJobs
      /\ sourceJobs' = sourceJobs \cup {id}
      /\ UNCHANGED <<generation, scanQueue, scanTokens, scansRunning>>
  BY DEF StartBuild, SourceTaken
<1>5. /\ pool'[w] = task
      /\ \A v \in Worker : v # w => pool'[v] = pool[v]
  BY <1>1, <1>3 DEF ServiceTypeOK
<1>6. w \notin Builds /\ w \notin Scans
  BY <1>3 DEF Builds, Scans, Tasks, IdleTask
<1>7. Builds' = Builds \cup {w}
  BY <1>2, <1>5 DEF Builds, Tasks
<1>8. Scans' = Scans
  BY <1>2, <1>5, <1>6 DEF Scans, Tasks
<1>9. Builds \subseteq Worker /\ Scans \subseteq Worker
  BY DEF Builds, Scans, Tasks
<1>10. \A v \in Builds : pool[v].source # id
  BY <1>4 DEF ServiceInv, SourceJobsExact
<1>11. ServiceTypeOK'
  BY <1>1, <1>2, <1>3, <1>4 DEF ServiceTypeOK
<1>12. OneBuildPerSource'
  BY <1>2, <1>5, <1>6, <1>7, <1>9, <1>10 DEF ServiceInv, OneBuildPerSource
<1>13. SourceJobsExact'
  BY <1>2, <1>4, <1>5, <1>6, <1>7, <1>9 DEF ServiceInv, SourceJobsExact
<1>14. ScansExact'
  BY <1>4, <1>8 DEF ServiceInv, ScansExact
<1>15. TokensRunning'
  BY <1>4, <1>5, <1>6, <1>8, <1>9 DEF ServiceInv, TokensRunning
<1> QED BY <1>11, <1>12, <1>13, <1>14, <1>15 DEF ServiceInv

\* A build that ends takes its own hold with it, and no other build's.
LEMMA BuildEnds ==
  ASSUME ServiceInv, NEW w \in Worker, EndBuild(w),
         layerState' \in [Layer -> LayerState], generation' \in [Source -> Nat]
  PROVE  ServiceInv'
<1>1. ServiceTypeOK
  BY DEF ServiceInv
<1>2. /\ w \in Builds
      /\ sourceJobs' = sourceJobs \ {pool[w].source}
      /\ pool' = [pool EXCEPT ![w] = IdleTask]
      /\ UNCHANGED <<scanQueue, scanTokens, scansRunning>>
  BY DEF EndBuild, HeldBy
<1>3. /\ pool'[w] = IdleTask
      /\ \A v \in Worker : v # w => pool'[v] = pool[v]
  BY <1>1, <1>2 DEF ServiceTypeOK
<1>4. w \notin Scans
  BY <1>2 DEF Builds, Scans, Tasks
<1>5. Builds' = Builds \ {w}
  BY <1>3 DEF Builds, Tasks, IdleTask
<1>6. Scans' = Scans
  BY <1>3, <1>4 DEF Scans, Tasks, IdleTask
<1>7. Builds \subseteq Worker /\ Scans \subseteq Worker
  BY DEF Builds, Scans, Tasks
<1>8. \A v \in Builds : v # w => pool[v].source # pool[w].source
  BY <1>2 DEF ServiceInv, OneBuildPerSource
<1>9. ServiceTypeOK'
  BY <1>1, <1>2 DEF ServiceTypeOK
<1>10. OneBuildPerSource'
  BY <1>3, <1>5, <1>7 DEF ServiceInv, OneBuildPerSource
<1>11. SourceJobsExact'
  BY <1>2, <1>3, <1>5, <1>7, <1>8 DEF ServiceInv, SourceJobsExact
<1>12. ScansExact'
  BY <1>2, <1>6 DEF ServiceInv, ScansExact
<1>13. TokensRunning'
  BY <1>2, <1>3, <1>4, <1>6, <1>7 DEF ServiceInv, TokensRunning
<1> QED BY <1>9, <1>10, <1>11, <1>12, <1>13 DEF ServiceInv

\* There are finitely many scans, one thread each.
LEMMA ScansFinite ==
  IsFiniteSet(Scans) /\ Cardinality(Scans) \in Nat
<1>1. Scans \in SUBSET Worker
  BY DEF Scans, Tasks
<1> QED BY <1>1, ServiceAssumption, FS_Subset, FS_CardinalityType

\* A scan starts when the limit allows one more.
LEMMA ScanStarts ==
  ASSUME ServiceInv, CanPump, NEW e \in Nat, StartScan(e)
  PROVE  ServiceInv'
<1> DEFINE l == Head(scanQueue)
<1> DEFINE task == NewTask("scan", l, e)
<1>1. ServiceTypeOK
  BY DEF ServiceInv
<1>2. l \in Layer /\ Tail(scanQueue) \in Seq(Layer)
  BY <1>1, HeadTailProperties DEF ServiceTypeOK, CanPump
<1>3. task \in Task /\ task.kind = "scan" /\ task.layer = l
  BY <1>1, <1>2, NewTaskType
<1>4. PICK w \in Worker : /\ pool[w] = IdleTask
                         /\ pool' = [pool EXCEPT ![w] = task]
                         /\ pool' \in [Worker -> Task \cup {IdleTask}]
  BY <1>1, <1>3, LaunchTakesIdle DEF StartScan
<1>5. /\ scanQueue' = Tail(scanQueue)
      /\ scanTokens' = scanTokens \cup {l}
      /\ scansRunning' = scansRunning + 1
      /\ scansRunning < MaxScans
      /\ layerState' = [layerState EXCEPT ![l] = Indexing(@)]
      /\ UNCHANGED <<generation, sourceJobs>>
  BY DEF StartScan, CanPump
<1>6. /\ pool'[w] = task
      /\ \A v \in Worker : v # w => pool'[v] = pool[v]
  BY <1>1, <1>4 DEF ServiceTypeOK
<1>7. w \notin Builds /\ w \notin Scans
  BY <1>4 DEF Builds, Scans, Tasks, IdleTask
<1>8. Builds' = Builds
  BY <1>3, <1>6, <1>7 DEF Builds, Tasks
<1>9. Scans' = Scans \cup {w}
  BY <1>3, <1>6 DEF Scans, Tasks
<1>10. Builds \subseteq Worker /\ Scans \subseteq Worker
  BY DEF Builds, Scans, Tasks
<1>11. layerState' \in [Layer -> LayerState]
  BY <1>1, <1>2, <1>5 DEF ServiceTypeOK, Indexing, LayerState
<1>12. scansRunning' \in 0..MaxScans
  BY <1>1, <1>5, ServiceAssumption DEF ServiceTypeOK
<1>13. ServiceTypeOK'
  BY <1>1, <1>2, <1>4, <1>5, <1>11, <1>12 DEF ServiceTypeOK
<1>14. OneBuildPerSource'
  BY <1>6, <1>7, <1>8, <1>10 DEF ServiceInv, OneBuildPerSource
<1>15. SourceJobsExact'
  BY <1>5, <1>6, <1>7, <1>8, <1>10 DEF ServiceInv, SourceJobsExact
<1>16. ScansExact'
  <2>1. Cardinality(Scans \cup {w}) = Cardinality(Scans) + 1
    BY <1>7, ScansFinite, FS_AddElement
  <2> QED BY <1>5, <1>9, <1>12, <2>1 DEF ServiceInv, ScansExact
<1>17. TokensRunning'
  BY <1>3, <1>5, <1>6, <1>7, <1>9, <1>10 DEF ServiceInv, TokensRunning
<1> QED BY <1>13, <1>14, <1>15, <1>16, <1>17 DEF ServiceInv

\* A scan that ends gives back its place and its token.
LEMMA ScanEnds ==
  ASSUME ServiceInv, NEW w \in Worker, EndScan(w)
  PROVE  ServiceInv'
<1>1. ServiceTypeOK
  BY DEF ServiceInv
<1>2. /\ w \in Scans
      /\ scanTokens' = scanTokens \ {pool[w].layer}
      /\ pool' = [pool EXCEPT ![w] = IdleTask]
      /\ UNCHANGED <<layerState, generation, sourceJobs, scanQueue>>
  BY DEF EndScan, TokensLeft
<1>3. /\ pool'[w] = IdleTask
      /\ \A v \in Worker : v # w => pool'[v] = pool[v]
  BY <1>1, <1>2 DEF ServiceTypeOK
<1>4. w \notin Builds
  BY <1>2 DEF Builds, Scans, Tasks
<1>5. Builds' = Builds
  BY <1>3, <1>4 DEF Builds, Tasks, IdleTask
<1>6. Scans' = Scans \ {w}
  BY <1>3 DEF Scans, Tasks, IdleTask
<1>7. Builds \subseteq Worker /\ Scans \subseteq Worker
  BY DEF Builds, Scans, Tasks
<1>8. /\ scansRunning \in Nat \ {0}
      /\ scansRunning = Cardinality(Scans)
      /\ Cardinality(Scans \ {w}) = Cardinality(Scans) - 1
  BY <1>2, ScansFinite, FS_RemoveElement, FS_EmptySet DEF ServiceInv, ScansExact
<1>9. scansRunning' = scansRunning - 1
  BY <1>8 DEF EndScan
<1>10. ServiceTypeOK'
  BY <1>1, <1>2, <1>8, <1>9, ServiceAssumption DEF ServiceTypeOK
<1>11. OneBuildPerSource'
  BY <1>3, <1>4, <1>5, <1>7 DEF ServiceInv, OneBuildPerSource
<1>12. SourceJobsExact'
  BY <1>2, <1>3, <1>4, <1>5, <1>7 DEF ServiceInv, SourceJobsExact
<1>13. ScansExact'
  BY <1>6, <1>8, <1>9, ServiceAssumption DEF ServiceInv, ScansExact
<1>14. TokensRunning'
  BY <1>2, <1>3, <1>6, <1>7 DEF ServiceInv, TokensRunning
<1> QED BY <1>10, <1>11, <1>12, <1>13, <1>14 DEF ServiceInv

\* A step that leaves the pool and the counters alone keeps the invariant when
\* it keeps the types.
LEMMA LeavesPool ==
  ASSUME ServiceInv,
         UNCHANGED <<sourceJobs, pool, scanTokens, scansRunning>>,
         layerState' \in [Layer -> LayerState], generation' \in [Source -> Nat],
         scanQueue' \in Seq(Layer)
  PROVE  ServiceInv'
<1>1. ServiceTypeOK'
  BY DEF ServiceInv, ServiceTypeOK
<1> QED BY <1>1, KeepsTasks

-----------------------------------------------------------------------------
(* The invariant of the service.                                           *)

\* The service starts with no build, no scan and no hold.
LEMMA ServiceInvInit == ServiceInit => ServiceInv
<1> SUFFICES ASSUME ServiceInit PROVE ServiceInv
  OBVIOUS
<1>1. /\ \A w \in Worker : pool[w] = IdleTask
      /\ pool \in [Worker -> {IdleTask}]
  BY DEF ServiceInit
<1>2. Builds = {} /\ Scans = {}
  BY <1>1 DEF Builds, Scans, Tasks, IdleTask
<1>3. layerState \in [Layer -> LayerState]
  BY DEF ServiceInit, LayerState
<1>4. ServiceTypeOK
  BY <1>1, <1>3, ServiceAssumption DEF ServiceInit, ServiceTypeOK
<1>5. ScansExact
  BY <1>2, FS_EmptySet, ServiceAssumption DEF ServiceInit, ScansExact
<1> QED BY <1>2, <1>4, <1>5
        DEF ServiceInit, ServiceInv, OneBuildPerSource, SourceJobsExact, TokensRunning

\* Every step of the service keeps the invariant.
LEMMA ServiceInvStep ==
  ASSUME ServiceInv, ServiceStep
  PROVE  ServiceInv'
<1>0. ServiceTypeOK
  BY DEF ServiceInv
<1>1. ASSUME NEW l \in Layer, DropLayer(l), UNCHANGED Others PROVE ServiceInv'
  BY <1>0, <1>1, DropLayerType, LeavesPool DEF Others, ServiceTypeOK
<1>2. ASSUME NEW l \in Layer, NEW e \in Nat, StartImport(l, e) PROVE ServiceInv'
  <2>1. layerState' \in [Layer -> LayerState]
    BY <1>0, <1>2 DEF StartImport, Indexing, ServiceTypeOK, LayerState
  <2> QED BY <1>2, <2>1, BuildStarts DEF StartImport
<1>3. ASSUME NEW l \in Layer, NEW e \in Nat, StartReindex(l, e) PROVE ServiceInv'
  <2>1. layerState' \in [Layer -> LayerState]
    BY <1>0, <1>3 DEF StartReindex, Indexing, ServiceTypeOK, LayerState
  <2> QED BY <1>3, <2>1, BuildStarts DEF StartReindex
<1>4. ASSUME NEW w \in Worker, TaskEnds(w) PROVE ServiceInv'
  <2>1. pool[w] \in Task
    BY <1>0, <1>4, PhaseTells DEF TaskEnds
  <2>2. [pool[w] EXCEPT !.phase = "done"] \in Task
    BY <2>1 DEF Task
  <2>3. /\ pool' = [pool EXCEPT ![w] = [pool[w] EXCEPT !.phase = "done"]]
        /\ UNCHANGED <<layerState, generation, sourceJobs, scanQueue, scanTokens,
                       scansRunning>>
    BY <1>4 DEF TaskEnds
  <2>4. ServiceTypeOK'
    BY <1>0, <2>2, <2>3 DEF ServiceTypeOK
  <2>5. \A v \in Worker : /\ pool'[v].kind = pool[v].kind
                          /\ pool'[v].source = pool[v].source
                          /\ pool'[v].layer = pool[v].layer
    BY <1>0, <2>1, <2>3 DEF ServiceTypeOK, Task
  <2> QED BY <2>3, <2>4, <2>5, KeepsTasks
<1>5. ASSUME NEW w \in Worker, ImportFails(w) PROVE ServiceInv'
  <2>1. pool[w].layer \in Layer
    BY <1>0, <1>5, PhaseTells DEF ImportFails, EndBuild, Task
  <2> QED BY <1>0, <1>5, <2>1, DropLayerType, BuildEnds DEF ImportFails
<1>6. ASSUME NEW w \in Worker, NEW extra \in SUBSET Layer, ImportUnsaved(w, extra)
      PROVE ServiceInv'
  <2>1. layerState' \in [Layer -> LayerState]
    BY <1>0, <1>6 DEF ImportUnsaved, FailedFrom, ServiceTypeOK, LayerState
  <2>2. generation' \in [Source -> Nat] /\ EndBuild(w)
    BY <1>0, <1>6 DEF ImportUnsaved, ServiceTypeOK
  <2> QED BY <2>1, <2>2, BuildEnds
<1>7. ASSUME NEW w \in Worker, NEW extra \in SUBSET Layer, ImportCommits(w, extra)
      PROVE ServiceInv'
  <2>1. layerState' \in [Layer -> LayerState]
    BY <1>0, <1>7 DEF ImportCommits, Committed, ServiceTypeOK, LayerState
  <2>2. generation' \in [Source -> Nat] /\ EndBuild(w)
    BY <1>0, <1>7 DEF ImportCommits, ServiceTypeOK
  <2> QED BY <2>1, <2>2, BuildEnds
<1>8. ASSUME NEW w \in Worker, ReindexFails(w) PROVE ServiceInv'
  <2>1. layerState' \in [Layer -> LayerState]
    BY <1>0, <1>8 DEF ReindexFails, FailedFrom, ServiceTypeOK, LayerState
  <2>2. generation' \in [Source -> Nat] /\ EndBuild(w)
    BY <1>0, <1>8 DEF ReindexFails, ServiceTypeOK
  <2> QED BY <2>1, <2>2, BuildEnds
<1>9. ASSUME NEW w \in Worker, ReindexUnsaved(w) PROVE ServiceInv'
  BY <1>0, <1>9, BuildEnds DEF ReindexUnsaved, ServiceTypeOK
<1>10. ASSUME NEW w \in Worker, ReindexCommits(w) PROVE ServiceInv'
  <2>1. layerState' \in [Layer -> LayerState]
    BY <1>0, <1>10 DEF ReindexCommits, Committed, ServiceTypeOK, LayerState
  <2>2. generation' \in [Source -> Nat] /\ EndBuild(w)
    BY <1>0, <1>10 DEF ReindexCommits, ServiceTypeOK
  <2> QED BY <2>1, <2>2, BuildEnds
<1>11. CASE QueueScans(StaleLayers)
  <2>1. scanQueue' \in Seq(Layer)
    BY <1>0, <1>11, ServiceAssumption, ConcatProperties DEF QueueScans, ServiceTypeOK
  <2> QED BY <1>0, <1>11, <2>1, LeavesPool DEF QueueScans, ServiceTypeOK
<1>12. CASE CanPump /\ DropScan
  <2>1. scanQueue' \in Seq(Layer)
    BY <1>0, <1>12, HeadTailProperties DEF CanPump, DropScan, ServiceTypeOK
  <2> QED BY <1>0, <1>12, <2>1, LeavesPool DEF DropScan, ServiceTypeOK
<1>13. ASSUME NEW e \in Nat, CanPump, StartScan(e) PROVE ServiceInv'
  BY <1>13, ScanStarts
<1>14. ASSUME NEW w \in Worker, EndScan(w) PROVE ServiceInv'
  BY <1>14, ScanEnds
<1>15. ASSUME NEW l \in Layer, CommitScan(l) PROVE ServiceInv'
  <2>1. layerState' \in [Layer -> LayerState]
    BY <1>0, <1>15 DEF CommitScan, Committed, ServiceTypeOK, LayerState
  <2> QED BY <1>0, <1>15, <2>1, LeavesPool DEF CommitScan, ServiceTypeOK
<1>16. CASE CancelScans
  <2>1. /\ scanTokens' = {}
        /\ scanQueue' = <<>>
        /\ UNCHANGED <<layerState, generation, sourceJobs, scansRunning>>
    BY <1>16 DEF CancelScans
  <2>2. \A w \in Worker :
          \/ pool'[w] = pool[w]
          \/ pool[w] \in Task /\ pool'[w] = [pool[w] EXCEPT !.cancelled = TRUE]
    BY <1>0, <1>16, PhaseTells DEF CancelScans
  <2>3. ASSUME NEW w \in Worker PROVE pool'[w] \in Task \cup {IdleTask}
    <3>1. pool[w] \in Task \cup {IdleTask}
      BY <1>0 DEF ServiceTypeOK
    <3>2. \A t \in Task : [t EXCEPT !.cancelled = TRUE] \in Task
      BY DEF Task
    <3> QED BY <2>2, <3>1, <3>2
  <2>4. pool' \in [Worker -> Task \cup {IdleTask}]
    BY <1>16, <2>3 DEF CancelScans
  <2>5. ServiceTypeOK'
    BY <1>0, <2>1, <2>4 DEF ServiceTypeOK
  <2>6. \A w \in Worker : /\ pool'[w].kind = pool[w].kind
                          /\ pool'[w].source = pool[w].source
                          /\ pool'[w].layer = pool[w].layer
    BY <2>2 DEF Task
  <2> QED BY <2>1, <2>5, <2>6, KeepsTasks
<1> QED BY <1>1, <1>2, <1>3, <1>4, <1>5, <1>6, <1>7, <1>8, <1>9, <1>10, <1>11,
           <1>12, <1>13, <1>14, <1>15, <1>16 DEF ServiceStep

\* So does a step of something else.
LEMMA ServiceInvStutter ==
  ASSUME ServiceInv, UNCHANGED serviceVars
  PROVE  ServiceInv'
BY DEF serviceVars, ServiceInv, ServiceTypeOK, OneBuildPerSource, SourceJobsExact,
       ScansExact, TokensRunning, Builds, Scans, Tasks

-----------------------------------------------------------------------------
(* The pipeline.                                                           *)

LoopTypeOK ==
  /\ posted \in Seq(Event)
  /\ stack \in Seq(Call)
  /\ project \in {"none", "open", "closed"}
  /\ requests \in Nat
  /\ removals \in Nat

PipelineInv ==
  /\ ManagerTypeOK
  /\ LoopTypeOK
  /\ ServiceInv

-----------------------------------------------------------------------------
(* The stack of calls and the posted events.                               *)

\* The call on top is a call, and what it holds has the right type.
LEMMA TopCall ==
  ASSUME LoopTypeOK, stack # <<>>
  PROVE  /\ Top \in Call
         /\ Tail(stack) \in Seq(Call)
         /\ Top.call = "service" => Top.job \in Job
         /\ Top.call = "failed" => Top.key \in Layer \cup {NoLayer} /\ Top.live \in BOOLEAN
         /\ Top.call = "heal" => Top.todo \in SUBSET Layer
         /\ Top.call = "scanned" => Top.layer \in Layer
<1>1. Top \in Call /\ Tail(stack) \in Seq(Call)
  BY HeadTailProperties DEF LoopTypeOK, Top
<1>2. Top.call = "service" => Top.job \in Job
  BY <1>1 DEF Call, DispatchCall, ServiceCall, MissingBox, FailedCall, ConfirmBox,
              HealCall, PumpCall, ScannedCall
<1>3. Top.call = "failed" => Top.key \in Layer \cup {NoLayer} /\ Top.live \in BOOLEAN
  BY <1>1 DEF Call, DispatchCall, ServiceCall, MissingBox, FailedCall, ConfirmBox,
              HealCall, PumpCall, ScannedCall
<1>4. Top.call = "heal" => Top.todo \in SUBSET Layer
  BY <1>1 DEF Call, DispatchCall, ServiceCall, MissingBox, FailedCall, ConfirmBox,
              HealCall, PumpCall, ScannedCall
<1>5. Top.call = "scanned" => Top.layer \in Layer
  BY <1>1 DEF Call, DispatchCall, ServiceCall, MissingBox, FailedCall, ConfirmBox,
              HealCall, PumpCall, ScannedCall
<1> QED BY <1>1, <1>2, <1>3, <1>4, <1>5

\* Calls are made, replaced and returned from.
LEMMA StackType ==
  ASSUME NEW s \in Seq(Call), NEW c \in Call, NEW d \in Call
  PROVE  /\ <<c>> \o s \in Seq(Call)
         /\ <<c, d>> \o s \in Seq(Call)
         /\ <<c, d>> \in Seq(Call)
<1>1. <<c>> \in Seq(Call) /\ <<c, d>> \in Seq(Call)
  OBVIOUS
<1> QED BY <1>1, ConcatProperties

\* What the actions push is a call.
LEMMA CallType ==
  /\ DispatchCall \in Call
  /\ MissingBox \in Call
  /\ ConfirmBox \in Call
  /\ PumpCall \in Call
  /\ \A j \in Job : ServiceCall(j) \in Call
  /\ \A k \in Layer \cup {NoLayer}, lv \in BOOLEAN : FailedCall(k, lv) \in Call
  /\ \A ls \in SUBSET Layer : HealCall(ls) \in Call
  /\ \A l \in Layer, c \in BOOLEAN : ScannedCall(l, c) \in Call
BY DEF Call

\* What the actions post is an event.
LEMMA EventType ==
  /\ \A w \in Worker : Finished(w) \in Event
  /\ \A t \in Nat : Dispatch(t) \in Event /\ BatchReport(t) \in Event
BY DEF Event, Finished, Dispatch, BatchReport

\* The deferred dispatches of a completion are events.
LEMMA SlotsBackType ==
  ASSUME ManagerTypeOK, NEW S \in SUBSET Layer
  PROVE  SlotsBack(S) \in Seq(Event)
<1>1. Cardinality(TrackedIn(S)) \in Nat
  BY LayerCount DEF TrackedIn
<1>2. Dispatch(epoch) \in Event
  BY EventType DEF ManagerTypeOK
<1> QED BY <1>1, <1>2, IsASeq DEF SlotsBack

\* Whether a failure is live is a Boolean.
LEMMA FailureLiveType ==
  ASSUME ManagerTypeOK, NEW key
  PROVE  FailureLive(key) \in BOOLEAN
BY DEF FailureLive

\* The jobs of a batch form a sequence of jobs.
LEMMA BatchType ==
  ASSUME NEW jobs \in Batches
  PROVE  jobs \in Seq(Job) /\ Len(jobs) \in Nat
<1>1. Offers \subseteq Job
  BY DEF Offers, Job
<1>2. PICK n \in 1..MaxBatch : jobs \in [1..n -> Offers]
  BY DEF Batches
<1>3. n \in Nat
  BY <1>2, PipelineAssumption
<1>4. jobs \in Seq(Job)
  BY <1>1, <1>2, <1>3
<1> QED BY <1>4, LenProperties

\* Three facts make a step keep the invariant.
LEMMA StepKeeps ==
  ASSUME PipelineInv, ManagerTypeOK', LoopTypeOK', ServiceStep \/ UNCHANGED serviceVars
  PROVE  PipelineInv'
BY ServiceInvStep, ServiceInvStutter DEF PipelineInv

-----------------------------------------------------------------------------
(* The operator.                                                           *)

\* What the operator does keeps the invariant.
LEMMA OperatorKeeps ==
  ASSUME PipelineInv, Operator
  PROVE  PipelineInv'
<1>0. ManagerTypeOK /\ LoopTypeOK /\ epoch \in Nat
  BY DEF PipelineInv, ManagerTypeOK
<1>1. ASSUME NEW jobs \in Batches, NEW reused \in Reusable, ImportBatch(jobs, reused)
      PROVE  PipelineInv'
  <2>1. /\ jobs \in Seq(Job)
        /\ Len(jobs) \in Nat
        /\ reused \in SUBSET Layer
        /\ Cardinality(reused) \in Nat
    BY BatchType, LayerCount DEF Reusable
  <2>2. ManagerTypeOK'
    BY <1>0, <1>1, <2>1, AcceptJobsType DEF ImportBatch
  <2>3. LoopTypeOK'
    BY <1>0, <1>1, <2>1, StackType, CallType DEF ImportBatch, Push, LoopTypeOK
  <2>4. UNCHANGED serviceVars
    BY <1>1 DEF ImportBatch
  <2> QED BY <2>2, <2>3, <2>4, StepKeeps
<1>2. ASSUME NEW reused \in Reusable, ReuseBatch(reused) PROVE PipelineInv'
  <2>1. reused \in SUBSET Layer /\ Cardinality(reused) \in Nat
    BY LayerCount DEF Reusable
  <2>2. ManagerTypeOK'
    BY <1>0, <1>2, <2>1, AcceptReuseOnlyType DEF ReuseBatch
  <2>3. posted' \in Seq(Event)
    BY <1>0, <1>2, EventType, AppendProperties DEF ReuseBatch, LoopTypeOK
  <2>4. LoopTypeOK'
    BY <1>0, <1>2, <2>1, <2>3 DEF ReuseBatch, LoopTypeOK
  <2>5. UNCHANGED serviceVars
    BY <1>2 DEF ReuseBatch
  <2> QED BY <2>2, <2>4, <2>5, StepKeeps
<1>3. CASE AskToCancel
  <2>1. UNCHANGED serviceVars /\ ManagerTypeOK'
    BY <1>0, <1>3, ManagerStutterType DEF AskToCancel
  <2>2. LoopTypeOK'
    BY <1>0, <1>3, StackType, CallType DEF AskToCancel, Push, LoopTypeOK
  <2> QED BY <2>1, <2>2, StepKeeps
<1>4. CASE ConfirmCancel
  <2>1. UNCHANGED serviceVars /\ ManagerTypeOK'
    BY <1>0, <1>4, CancelQueueType DEF ConfirmCancel
  <2>2. posted' \in Seq(Event)
    BY <1>0, <1>4, EventType, AppendProperties DEF ConfirmCancel, LoopTypeOK
  <2>3. LoopTypeOK'
    BY <1>0, <1>4, <2>2, TopCall DEF ConfirmCancel, In, Return, LoopTypeOK
  <2> QED BY <2>1, <2>3, StepKeeps
<1>5. CASE DeclineCancel
  <2>1. UNCHANGED serviceVars /\ ManagerTypeOK'
    BY <1>0, <1>5, ManagerStutterType DEF DeclineCancel
  <2>2. LoopTypeOK'
    BY <1>0, <1>5, TopCall DEF DeclineCancel, In, Return, LoopTypeOK
  <2> QED BY <2>1, <2>2, StepKeeps
<1>6. ASSUME NEW l \in Layer, RemoveLayer(l) PROVE PipelineInv'
  <2>1. ServiceStep
    BY <1>6 DEF RemoveLayer, ServiceStep, Others
  <2>2. ManagerTypeOK'
    BY <1>0, <1>6, ManagerStutterType DEF RemoveLayer
  <2>3. LoopTypeOK'
    BY <1>0, <1>6 DEF RemoveLayer, LoopTypeOK
  <2> QED BY <2>1, <2>2, <2>3, StepKeeps
<1>7. ASSUME NEW plan \in RecoveryPlans, OpenProject(plan) PROVE PipelineInv'
  <2>1. plan \in SUBSET Layer
    BY DEF RecoveryPlans
  <2>2. ServiceStep
    BY <1>7 DEF OpenProject, ServiceStep
  <2>3. ManagerTypeOK'
    BY <1>0, <1>7, ManagerStutterType DEF OpenProject
  <2>4. LoopTypeOK'
    BY <1>0, <1>7, <2>1, StackType, CallType DEF OpenProject, LoopTypeOK
  <2> QED BY <2>2, <2>3, <2>4, StepKeeps
<1>8. CASE CloseProject
  <2>1. ServiceStep
    BY <1>8 DEF CloseProject, ServiceStep
  <2>2. ManagerTypeOK'
    BY <1>0, <1>8, ManagerStutterType DEF CloseProject
  <2>3. LoopTypeOK'
    BY <1>0, <1>8 DEF CloseProject, LoopTypeOK
  <2> QED BY <2>1, <2>2, <2>3, StepKeeps
<1> QED BY <1>1, <1>2, <1>3, <1>4, <1>5, <1>6, <1>7, <1>8 DEF Operator

-----------------------------------------------------------------------------
(* Calls on the main thread.                                               *)

\* A failure, reported from the event loop or by the call on top, keeps types.
LEMMA FailureKeeps ==
  ASSUME ManagerTypeOK, LoopTypeOK, NEW key \in Layer \cup {NoLayer},
         UNCHANGED <<project, requests, removals>>,
         \/ EmitFailure(key) /\ posted' \in Seq(Event)
         \/ stack # <<>> /\ FailWith(key) /\ UNCHANGED posted
  PROVE  ManagerTypeOK' /\ LoopTypeOK'
<1>1. FailedCall(key, FailureLive(key)) \in Call
  BY FailureLiveType, CallType
<1>2. AnnounceFailure(key)
  BY DEF EmitFailure, FailWith
<1>3. stack' \in Seq(Call)
  BY <1>1, StackType, TopCall DEF EmitFailure, FailWith, Push, Become, LoopTypeOK
<1>4. ManagerTypeOK'
  BY <1>2, AnnounceFailureType
<1> QED BY <1>3, <1>4 DEF LoopTypeOK

\* What the main thread does in a call keeps the invariant.
LEMMA CallKeeps ==
  ASSUME PipelineInv,
         \/ \E l \in Layer : HealNext(l)
         \/ HealDone
         \/ DispatchMissing \/ DismissMissing \/ DispatchJob \/ DispatchDone
         \/ ImportRefused \/ (\E l \in Layer : ImportStarts(l))
         \/ ReindexRefused \/ ReindexStarts
         \/ FailureSettles
         \/ PumpDrops \/ PumpStarts \/ PumpDone
         \/ ScanDiscarded \/ ScanFails \/ ScanCommits
  PROVE  PipelineInv'
<1>0. ManagerTypeOK /\ LoopTypeOK /\ ServiceTypeOK /\ epoch \in Nat
  BY DEF PipelineInv, ServiceInv, ManagerTypeOK
<1>1. ASSUME NEW l \in Layer, HealNext(l) PROVE PipelineInv'
  <2>1. <<RebuildJob(l)>> \in Seq(Job) /\ {} \in SUBSET Layer
    BY DEF Job
  <2>2. ManagerTypeOK'
    BY <1>0, <1>1, <2>1, AcceptJobsType DEF HealNext
  <2>3. HealCall(Top.todo \ {l}) \in Call
    BY <1>0, <1>1, TopCall, CallType DEF HealNext, In
  <2>4. LoopTypeOK'
    BY <1>0, <1>1, <2>3, TopCall, StackType, CallType DEF HealNext, In, LoopTypeOK
  <2>5. UNCHANGED serviceVars
    BY <1>1 DEF HealNext
  <2> QED BY <2>2, <2>4, <2>5, StepKeeps
<1>2. CASE HealDone
  <2>1. UNCHANGED serviceVars /\ ManagerTypeOK'
    BY <1>0, <1>2, ManagerStutterType DEF HealDone
  <2>2. LoopTypeOK'
    BY <1>0, <1>2, TopCall DEF HealDone, In, Return, LoopTypeOK
  <2> QED BY <2>1, <2>2, StepKeeps
<1>3. CASE DispatchMissing
  <2>1. UNCHANGED serviceVars /\ ManagerTypeOK'
    BY <1>0, <1>3, WarnMissingType DEF DispatchMissing
  <2>2. LoopTypeOK'
    BY <1>0, <1>3, StackType, CallType DEF DispatchMissing, Push, LoopTypeOK
  <2> QED BY <2>1, <2>2, StepKeeps
<1>4. CASE DismissMissing
  <2>1. UNCHANGED serviceVars /\ ManagerTypeOK'
    BY <1>0, <1>4, CountMissingType DEF DismissMissing
  <2>2. LoopTypeOK'
    BY <1>0, <1>4, TopCall DEF DismissMissing, In, Return, LoopTypeOK
  <2> QED BY <2>1, <2>2, StepKeeps
<1>5. CASE DispatchJob
  <2>1. UNCHANGED serviceVars /\ ManagerTypeOK'
    BY <1>0, <1>5, ClaimSlotType DEF DispatchJob
  <2>2. ServiceCall(Head(queue)) \in Call
    BY <1>0, <1>5, HeadOfQueue, CallType DEF DispatchJob
  <2>3. LoopTypeOK'
    BY <1>0, <1>5, <2>2, StackType DEF DispatchJob, Push, LoopTypeOK
  <2> QED BY <2>1, <2>3, StepKeeps
<1>6. CASE DispatchDone
  <2>1. UNCHANGED serviceVars /\ ManagerTypeOK'
    BY <1>0, <1>6, ReportBatchType DEF DispatchDone
  <2>2. LoopTypeOK'
    BY <1>0, <1>6, TopCall DEF DispatchDone, In, Return, LoopTypeOK
  <2> QED BY <2>1, <2>2, StepKeeps
<1>7. CASE ImportRefused
  <2>1. ManagerTypeOK' /\ LoopTypeOK'
    BY <1>0, <1>7, FailureKeeps DEF ImportRefused, In
  <2>2. UNCHANGED serviceVars
    BY <1>7 DEF ImportRefused
  <2> QED BY <2>1, <2>2, StepKeeps
<1>8. ASSUME NEW l \in Layer, ImportStarts(l) PROVE PipelineInv'
  <2>1. ServiceStep
    BY <1>0, <1>8 DEF ImportStarts, ServiceStep
  <2>2. ManagerTypeOK'
    BY <1>0, <1>8, OnIndexingStartedType DEF ImportStarts
  <2>3. LoopTypeOK'
    BY <1>0, <1>8, TopCall DEF ImportStarts, In, Return, LoopTypeOK
  <2> QED BY <2>1, <2>2, <2>3, StepKeeps
<1>9. ASSUME ReindexRefused \/ ReindexStarts PROVE Top.job.layer \in Layer
  <2>1. Top.job \in Job /\ Top.job.kind = "rebuild"
    BY <1>0, <1>9, TopCall DEF ReindexRefused, ReindexStarts, In
  <2> QED BY <2>1 DEF Job, ImportJob, RebuildJob
<1>10. CASE ReindexRefused
  <2>1. ManagerTypeOK' /\ LoopTypeOK'
    BY <1>0, <1>9, <1>10, FailureKeeps DEF ReindexRefused, In
  <2>2. UNCHANGED serviceVars
    BY <1>10 DEF ReindexRefused
  <2> QED BY <2>1, <2>2, StepKeeps
<1>11. CASE ReindexStarts
  <2>1. ServiceStep
    BY <1>0, <1>9, <1>11 DEF ReindexStarts, ServiceStep
  <2>2. ManagerTypeOK'
    BY <1>0, <1>9, <1>11, OnIndexingStartedType, ManagerStutterType DEF ReindexStarts
  <2>3. LoopTypeOK'
    BY <1>0, <1>11, TopCall DEF ReindexStarts, In, Return, LoopTypeOK
  <2> QED BY <2>1, <2>2, <2>3, StepKeeps
<1>12. CASE FailureSettles
  <2>1. UNCHANGED serviceVars /\ ManagerTypeOK'
    BY <1>0, <1>12, SettleFailureType DEF FailureSettles
  <2>2. posted' \in Seq(Event)
    BY <1>0, <1>12, EventType, AppendProperties DEF FailureSettles, LoopTypeOK
  <2>3. LoopTypeOK'
    BY <1>0, <1>12, <2>2, TopCall DEF FailureSettles, In, Return, LoopTypeOK
  <2> QED BY <2>1, <2>3, StepKeeps
<1>13. CASE PumpDrops
  <2>1. ServiceStep
    BY <1>13 DEF PumpDrops, ServiceStep
  <2>2. Head(scanQueue) \in Layer
    BY <1>0, <1>13, HeadTailProperties DEF PumpDrops, CanPump, ServiceTypeOK
  <2>3. ManagerTypeOK' /\ LoopTypeOK'
    BY <1>0, <1>13, <2>2, FailureKeeps DEF PumpDrops, LoopTypeOK
  <2> QED BY <2>1, <2>3, StepKeeps
<1>14. CASE PumpStarts
  <2>1. ServiceStep
    BY <1>0, <1>14 DEF PumpStarts, ServiceStep
  <2>2. ManagerTypeOK'
    BY <1>0, <1>14, ManagerStutterType DEF PumpStarts
  <2>3. LoopTypeOK'
    BY <1>0, <1>14 DEF PumpStarts, LoopTypeOK, loopVars
  <2> QED BY <2>1, <2>2, <2>3, StepKeeps
<1>15. CASE PumpDone
  <2>1. UNCHANGED serviceVars /\ ManagerTypeOK'
    BY <1>0, <1>15, ManagerStutterType DEF PumpDone
  <2>2. LoopTypeOK'
    BY <1>0, <1>15, TopCall DEF PumpDone, In, Return, LoopTypeOK
  <2> QED BY <2>1, <2>2, StepKeeps
<1>16. CASE ScanDiscarded
  <2>1. UNCHANGED serviceVars /\ ManagerTypeOK'
    BY <1>0, <1>16, ManagerStutterType DEF ScanDiscarded
  <2>2. LoopTypeOK'
    BY <1>0, <1>16, TopCall DEF ScanDiscarded, In, Return, LoopTypeOK
  <2> QED BY <2>1, <2>2, StepKeeps
<1>17. CASE ScanFails
  <2>1. ManagerTypeOK' /\ LoopTypeOK'
    BY <1>0, <1>17, TopCall, FailureKeeps DEF ScanFails, In
  <2>2. UNCHANGED serviceVars
    BY <1>17 DEF ScanFails
  <2> QED BY <2>1, <2>2, StepKeeps
<1>18. CASE ScanCommits
  <2>1. ServiceStep
    BY <1>0, <1>18, TopCall DEF ScanCommits, In, ServiceStep
  <2>2. ManagerTypeOK'
    BY <1>0, <1>18, ManagerStutterType DEF ScanCommits
  <2>3. LoopTypeOK'
    BY <1>0, <1>18, TopCall DEF ScanCommits, In, Return, LoopTypeOK
  <2> QED BY <2>1, <2>2, <2>3, StepKeeps
<1> QED BY <1>1, <1>2, <1>3, <1>4, <1>5, <1>6, <1>7, <1>8, <1>10, <1>11, <1>12,
           <1>13, <1>14, <1>15, <1>16, <1>17, <1>18

-----------------------------------------------------------------------------
(* Posted events and pool threads.                                         *)

\* A pool thread with a task has one for a layer.
LEMMA TaskOf ==
  ASSUME ServiceTypeOK, NEW w \in Worker, pool[w].phase = "done"
  PROVE  pool[w].layer \in Layer /\ pool[w].cancelled \in BOOLEAN
BY PhaseTells DEF Task

\* What the event loop hands to the main thread keeps the invariant.
LEMMA EventKeeps ==
  ASSUME PipelineInv,
         \/ RunDispatch \/ RunReport \/ BuildFails
         \/ \E extra \in Splits, refreshed \in SUBSET Layer :
              ImportCompletes(extra, refreshed)
         \/ ReindexCompletes \/ ScanFinishes
         \/ \E w \in Worker : WorkerDone(w)
  PROVE  PipelineInv'
<1> DEFINE w == Head(posted).worker
<1>0. ManagerTypeOK /\ LoopTypeOK /\ ServiceTypeOK /\ epoch \in Nat
  BY DEF PipelineInv, ServiceInv, ManagerTypeOK
<1>1. ASSUME posted # <<>> PROVE Tail(posted) \in Seq(Event)
  BY <1>0, <1>1, HeadTailProperties DEF LoopTypeOK
<1>2. CASE RunDispatch
  <2>1. UNCHANGED serviceVars /\ ManagerTypeOK'
    BY <1>0, <1>2, ManagerStutterType DEF RunDispatch
  <2>2. stack' \in Seq(Call)
    BY <1>0, <1>2, StackType, CallType DEF RunDispatch, Push, LoopTypeOK
  <2>3. LoopTypeOK'
    BY <1>0, <1>1, <1>2, <2>2 DEF RunDispatch, Takes, Consume, LoopTypeOK
  <2> QED BY <2>1, <2>3, StepKeeps
<1>3. CASE RunReport
  <2>1. UNCHANGED serviceVars /\ ManagerTypeOK'
    BY <1>0, <1>3, ReportDeferredType DEF RunReport
  <2>2. LoopTypeOK'
    BY <1>0, <1>1, <1>3 DEF RunReport, Takes, Consume, LoopTypeOK
  <2> QED BY <2>1, <2>2, StepKeeps
<1>4. CASE BuildFails
  <2>1. w \in Worker /\ pool[w].phase = "done"
    BY <1>4 DEF BuildFails, ImportFails, ImportUnsaved, ReindexFails, ReindexUnsaved,
                EndBuild, Builds, Tasks
  <2>2. ServiceStep
    <3>1. CASE ImportFails(w)
      BY <2>1, <3>1 DEF ServiceStep
    <3>2. ASSUME NEW extra \in SUBSET Fresh(SourceOf[pool[w].layer]),
                 ImportUnsaved(w, extra)
          PROVE  ServiceStep
      <4>1. extra \in SUBSET Layer
        BY DEF Fresh
      <4> QED BY <2>1, <3>2, <4>1 DEF ServiceStep
    <3>3. CASE ReindexFails(w)
      BY <2>1, <3>3 DEF ServiceStep
    <3>4. CASE ReindexUnsaved(w)
      BY <2>1, <3>4 DEF ServiceStep
    <3> QED BY <1>4, <3>1, <3>2, <3>3, <3>4 DEF BuildFails
  <2>3. posted' \in Seq(Event)
    BY <1>1, <1>4 DEF BuildFails, Takes, Consume
  <2>4. EmitFailure(pool[w].layer) /\ UNCHANGED <<project, requests, removals>>
    BY <1>4 DEF BuildFails
  <2>5. ManagerTypeOK' /\ LoopTypeOK'
    BY <1>0, <2>1, <2>3, <2>4, TaskOf, FailureKeeps
  <2> QED BY <2>2, <2>5, StepKeeps
<1>5. ASSUME NEW extra \in Splits, NEW refreshed \in SUBSET Layer,
             ImportCompletes(extra, refreshed)
      PROVE  PipelineInv'
  <2> DEFINE S == {pool[w].layer} \cup extra \cup refreshed
  <2>1. w \in Worker /\ pool[w].phase = "done" /\ extra \in SUBSET Layer
    BY <1>5 DEF ImportCompletes, ImportCommits, EndBuild, Builds, Tasks, Splits
  <2>2. S \in SUBSET Layer
    BY <1>0, <2>1, TaskOf
  <2>3. ServiceStep
    BY <1>5, <2>1 DEF ImportCompletes, ServiceStep
  <2>4. OnIndexingComplete(S) /\ posted' = Tail(posted) \o SlotsBack(S)
    BY <1>5 DEF ImportCompletes
  <2>5. ManagerTypeOK'
    BY <1>0, <2>2, <2>4, OnIndexingCompleteType
  <2>6. posted # <<>>
    BY <1>5 DEF ImportCompletes, Takes
  <2>7. posted' \in Seq(Event)
    BY <1>0, <1>1, <2>2, <2>4, <2>6, SlotsBackType, ConcatProperties
  <2>8. LoopTypeOK'
    BY <1>0, <1>5, <2>7 DEF ImportCompletes, LoopTypeOK
  <2> QED BY <2>3, <2>5, <2>8, StepKeeps
<1>6. CASE ReindexCompletes
  <2> DEFINE S == Linked(SourceOf[pool[w].layer])
  <2>1. w \in Worker /\ S \in SUBSET Layer
    BY <1>6 DEF ReindexCompletes, ReindexCommits, EndBuild, Builds, Tasks, Linked
  <2>2. ServiceStep
    BY <1>6, <2>1 DEF ReindexCompletes, ServiceStep
  <2>3. OnIndexingComplete(S) /\ posted' = Tail(posted) \o SlotsBack(S) /\ posted # <<>>
    BY <1>6 DEF ReindexCompletes, Takes
  <2>4. ManagerTypeOK'
    BY <1>0, <2>1, <2>3, OnIndexingCompleteType
  <2>5. posted' \in Seq(Event)
    BY <1>0, <1>1, <2>1, <2>3, SlotsBackType, ConcatProperties
  <2>6. LoopTypeOK'
    BY <1>0, <1>6, <2>5 DEF ReindexCompletes, LoopTypeOK
  <2> QED BY <2>2, <2>4, <2>6, StepKeeps
<1>7. CASE ScanFinishes
  <2>1. w \in Worker /\ pool[w].phase = "done"
    BY <1>7 DEF ScanFinishes, EndScan, Scans, Tasks
  <2>2. ServiceStep
    BY <1>7, <2>1 DEF ScanFinishes, ServiceStep
  <2>3. ManagerTypeOK'
    BY <1>0, <1>7, ManagerStutterType DEF ScanFinishes
  <2>4. ScannedCall(pool[w].layer, pool[w].cancelled) \in Call
    BY <1>0, <2>1, TaskOf, CallType
  <2>5. stack' \in Seq(Call)
    BY <1>0, <1>7, <2>4, StackType, CallType DEF ScanFinishes, AfterScan, LoopTypeOK
  <2>6. LoopTypeOK'
    BY <1>0, <1>1, <1>7, <2>5 DEF ScanFinishes, Takes, Consume, LoopTypeOK
  <2> QED BY <2>2, <2>3, <2>6, StepKeeps
<1>8. ASSUME NEW v \in Worker, WorkerDone(v) PROVE PipelineInv'
  <2>1. ServiceStep
    BY <1>8 DEF WorkerDone, ServiceStep
  <2>2. ManagerTypeOK'
    BY <1>0, <1>8, ManagerStutterType DEF WorkerDone
  <2>3. LoopTypeOK'
    BY <1>0, <1>8, EventType, AppendProperties DEF WorkerDone, LoopTypeOK
  <2> QED BY <2>1, <2>2, <2>3, StepKeeps
<1> QED BY <1>2, <1>3, <1>4, <1>5, <1>6, <1>7, <1>8

-----------------------------------------------------------------------------
(* The theorems.                                                           *)

\* The invariant holds when the application starts.
LEMMA InvInit == Init => PipelineInv
<1> SUFFICES ASSUME Init PROVE PipelineInv
  OBVIOUS
<1>1. ManagerTypeOK
  BY ManagerInitType DEF Init
<1>2. ServiceInv
  BY ServiceInvInit DEF Init
<1>3. LoopTypeOK
  BY EmptySeq DEF Init, LoopTypeOK
<1> QED BY <1>1, <1>2, <1>3 DEF PipelineInv

\* Every step of the pipeline keeps it.
LEMMA InvStep == PipelineInv /\ [Next]_vars => PipelineInv'
<1> SUFFICES ASSUME PipelineInv, [Next]_vars PROVE PipelineInv'
  OBVIOUS
<1>1. CASE Operator
  BY <1>1, OperatorKeeps
<1>2. CASE MainThread
  BY <1>2, CallKeeps, EventKeeps DEF MainThread
<1>3. CASE \E w \in Worker : WorkerDone(w)
  BY <1>3, EventKeeps
<1>4. CASE UNCHANGED vars
  <2>1. UNCHANGED serviceVars /\ UNCHANGED managerVars /\ UNCHANGED loopVars
    BY <1>4 DEF vars
  <2>2. ManagerTypeOK'
    BY <2>1, ManagerStutterType DEF PipelineInv
  <2>3. LoopTypeOK'
    BY <2>1 DEF PipelineInv, LoopTypeOK, loopVars
  <2> QED BY <2>1, <2>2, <2>3, StepKeeps
<1> QED BY <1>1, <1>2, <1>3, <1>4 DEF Next

\* So it always holds.
LEMMA Invariance == Spec => []PipelineInv
BY InvInit, InvStep, PTL DEF Spec

\* Every variable of the pipeline keeps its type: the deque, the map, the
\* counters, the stack of calls and the posted events, in every behaviour.
THEOREM TypesHold == Spec => []TypeOK
<1>1. PipelineInv => TypeOK
  BY DEF PipelineInv, LoopTypeOK, ServiceInv, TypeOK
<1> QED BY <1>1, Invariance, PTL

\* No source id is parsed by two builds at once, whatever is removed,
\* re-imported or re-indexed while a build of it is under way.
THEOREM OneBuildHolds == Spec => []OneBuildPerSource
<1>1. PipelineInv => OneBuildPerSource
  BY DEF PipelineInv, ServiceInv
<1> QED BY <1>1, Invariance, PTL

\* A source id is held by the service exactly while a build of it is under
\* way: every way a build can end lets go of it.
THEOREM HoldsAreExact == Spec => []SourceJobsExact
<1>1. PipelineInv => SourceJobsExact
  BY DEF PipelineInv, ServiceInv
<1> QED BY <1>1, Invariance, PTL

\* The counter of running scans agrees with the pool and stays within
\* kMaxConcurrentRebuilds.
THEOREM ScanCountHolds == Spec => []ScansExact
<1>1. PipelineInv => ScansExact
  BY DEF PipelineInv, ServiceInv
<1> QED BY <1>1, Invariance, PTL

\* A layer isRebuildingLayer answers yes for has a scan under way.
THEOREM TokensHold == Spec => []TokensRunning
<1>1. PipelineInv => TokensRunning
  BY DEF PipelineInv, ServiceInv
<1> QED BY <1>1, Invariance, PTL

-----------------------------------------------------------------------------
(* Counting: how many elements of a sequence are in a set, and what making *)
(* it longer or shorter does to the count.                                 *)

CountIn(s, S) == Cardinality({i \in DOMAIN s : s[i] \in S})

\* A count is a natural, and zero says that no element is in the set.
LEMMA CountInType ==
  ASSUME NEW T, NEW s \in Seq(T), NEW S
  PROVE  /\ IsFiniteSet({i \in DOMAIN s : s[i] \in S})
         /\ CountIn(s, S) \in Nat
         /\ CountIn(s, S) = 0 <=> \A i \in DOMAIN s : s[i] \notin S
<1> DEFINE D == {i \in DOMAIN s : s[i] \in S}
<1>1. DOMAIN s = 1..Len(s) /\ Len(s) \in Nat
  BY LenProperties
<1>2. IsFiniteSet(1..Len(s))
  BY <1>1, FS_Interval
<1>3. D \in SUBSET (1..Len(s))
  BY <1>1
<1>4. IsFiniteSet(D)
  BY <1>2, <1>3, FS_Subset
<1>5. Cardinality(D) \in Nat /\ (Cardinality(D) = 0 <=> D = {})
  BY <1>4, FS_CardinalityType, FS_EmptySet
<1> QED BY <1>4, <1>5 DEF CountIn

\* The counts of a sequence made of two are the sums of theirs.
LEMMA CountConcat ==
  ASSUME NEW T, NEW s \in Seq(T), NEW t \in Seq(T)
  PROVE  \A S : CountIn(s \o t, S) = CountIn(s, S) + CountIn(t, S)
<1> SUFFICES ASSUME NEW S PROVE CountIn(s \o t, S) = CountIn(s, S) + CountIn(t, S)
  OBVIOUS
<1> DEFINE m == Len(s)
           n == Len(t)
           D == {i \in DOMAIN s : s[i] \in S}
           E == {i \in DOMAIN t : t[i] \in S}
           F == {i \in DOMAIN (s \o t) : (s \o t)[i] \in S}
           G == {i \in F : i > m}
<1>1. /\ m \in Nat /\ n \in Nat
      /\ DOMAIN s = 1..m
      /\ DOMAIN t = 1..n
      /\ DOMAIN (s \o t) = 1..(m + n)
  BY LenProperties, ConcatProperties
<1>2. \A i \in 1..m : (s \o t)[i] = s[i]
  BY <1>1, ConcatProperties
<1>3. \A i \in 1..n : (s \o t)[m + i] = t[i]
  BY <1>1, ConcatProperties
<1>4. D = {i \in F : i <= m}
  BY <1>1, <1>2
<1>5. F = D \cup G /\ D \cap G = {}
  BY <1>1, <1>4
<1>6. IsFiniteSet(D) /\ IsFiniteSet(E)
  BY CountInType
<1>7. IsFiniteSet(G) /\ Cardinality(G) = Cardinality(E)
  <2> DEFINE f == [i \in E |-> i + m]
  <2>1. \A i \in E : i + m \in G
    BY <1>1, <1>3
  <2>2. \A j \in G : j - m \in E
    <3> SUFFICES ASSUME NEW j \in G PROVE j - m \in E
      OBVIOUS
    <3>1. j \in 1..(m + n) /\ j > m /\ (s \o t)[j] \in S
      BY <1>1
    <3>2. j - m \in 1..n
      BY <1>1, <3>1
    <3>3. (s \o t)[m + (j - m)] = t[j - m] /\ m + (j - m) = j
      BY <1>1, <1>3, <3>1, <3>2
    <3> QED BY <1>1, <3>1, <3>2, <3>3
  <2>3. E \subseteq Int /\ G \subseteq Int
    BY <1>1
  <2>4. f \in [E -> G]
    BY <2>1
  <2>5. \A i, j \in E : f[i] = f[j] => i = j
    BY <1>1, <2>3
  <2>6. \A j \in G : \E i \in E : f[i] = j
    <3> SUFFICES ASSUME NEW j \in G PROVE \E i \in E : f[i] = j
      OBVIOUS
    <3>1. j - m \in E /\ (j - m) + m = j
      BY <1>1, <2>2, <2>3
    <3> QED BY <3>1
  <2>7. f \in Bijection(E, G)
    <3> HIDE DEF f, E, G
    <3> QED BY <2>4, <2>5, <2>6 DEF Bijection, Injection, Surjection, IsInjective
  <2> QED BY <1>6, <2>7, FS_Bijection DEF ExistsBijection
<1>8. Cardinality(F) = Cardinality(D) + Cardinality(G) - Cardinality({})
  <2> HIDE DEF D, F, G
  <2> QED BY <1>5, <1>6, <1>7, FS_Union
<1>9. Cardinality({}) = 0 /\ Cardinality(D) \in Nat /\ Cardinality(E) \in Nat
  BY <1>6, FS_EmptySet, FS_CardinalityType
<1>10. Cardinality(F) = Cardinality(D) + Cardinality(E)
  <2> HIDE DEF D, E, F, G
  <2> QED BY <1>7, <1>8, <1>9
<1> QED BY <1>10 DEF CountIn

\* One element counts once or not at all.
LEMMA CountOne == \A c, S : CountIn(<<c>>, S) = IF c \in S THEN 1 ELSE 0
<1> SUFFICES ASSUME NEW c, NEW S PROVE CountIn(<<c>>, S) = IF c \in S THEN 1 ELSE 0
  OBVIOUS
<1>1. {i \in DOMAIN <<c>> : <<c>>[i] \in S} = IF c \in S THEN {1} ELSE {}
  OBVIOUS
<1> QED BY <1>1, FS_Singleton, FS_EmptySet DEF CountIn

\* Nothing is in an empty sequence.
LEMMA CountNone == \A S : CountIn(<<>>, S) = 0
<1> SUFFICES ASSUME NEW S PROVE CountIn(<<>>, S) = 0
  OBVIOUS
<1>1. {i \in DOMAIN <<>> : <<>>[i] \in S} = {}
  OBVIOUS
<1> QED BY <1>1, FS_EmptySet DEF CountIn

\* An element put in front adds itself to the counts.
LEMMA CountPush ==
  ASSUME NEW T, NEW s \in Seq(T), NEW c \in T
  PROVE  \A S : CountIn(<<c>> \o s, S) = CountIn(s, S) + (IF c \in S THEN 1 ELSE 0)
<1>1. <<c>> \in Seq(T)
  OBVIOUS
<1>2. \A S : CountIn(<<c>> \o s, S) = CountIn(<<c>>, S) + CountIn(s, S)
  BY <1>1, CountConcat
<1>3. \A S : CountIn(s, S) \in Nat
  BY CountInType
<1> QED BY <1>2, <1>3, CountOne

\* The element taken from the front takes itself from the counts.
LEMMA CountTail ==
  ASSUME NEW T, NEW s \in Seq(T), s # <<>>
  PROVE  \A S : CountIn(Tail(s), S) = CountIn(s, S) - (IF Head(s) \in S THEN 1 ELSE 0)
<1>1. Head(s) \in T /\ Tail(s) \in Seq(T) /\ s = <<Head(s)>> \o Tail(s)
  BY HeadTailProperties, ConcatProperties
<1>2. PICK h \in T, t \in Seq(T) : h = Head(s) /\ t = Tail(s) /\ s = <<h>> \o t
  BY <1>1
<1>3. \A S : CountIn(<<h>> \o t, S) = CountIn(t, S) + (IF h \in S THEN 1 ELSE 0)
  BY CountPush
<1>4. \A S : CountIn(t, S) \in Nat
  BY <1>2, CountInType
<1>5. \A S : CountIn(s, S) = CountIn(t, S) + (IF h \in S THEN 1 ELSE 0)
  BY <1>2, <1>3
<1>6. \A S : CountIn(t, S) = CountIn(s, S) - (IF h \in S THEN 1 ELSE 0)
  BY <1>4, <1>5
<1> QED BY <1>2, <1>6

\* Sets that agree on the elements of a sequence have the same count there.
LEMMA CountSame ==
  ASSUME NEW s, NEW S, NEW T, \A i \in DOMAIN s : s[i] \in S <=> s[i] \in T
  PROVE  CountIn(s, S) = CountIn(s, T)
<1>1. {i \in DOMAIN s : s[i] \in S} = {i \in DOMAIN s : s[i] \in T}
  OBVIOUS
<1> QED BY <1>1 DEF CountIn

\* A set of which a sequence has no two elements counts at most one.
LEMMA CountUnique ==
  ASSUME NEW T, NEW s \in Seq(T), NEW S,
         \A i, j \in DOMAIN s : s[i] \in S /\ s[j] \in S => i = j
  PROVE  CountIn(s, S) <= 1
<1> DEFINE D == {i \in DOMAIN s : s[i] \in S}
<1>1. CASE D = {}
  BY <1>1, FS_EmptySet DEF CountIn
<1>2. CASE D # {}
  <2>1. PICK i \in D : TRUE
    BY <1>2
  <2>2. D = {i}
    BY <2>1
  <2>3. Cardinality(D) = 1
    BY <2>2, FS_Singleton
  <2> QED BY <2>3 DEF CountIn
<1> QED BY <1>1, <1>2

-----------------------------------------------------------------------------
(* The books of the queue, when no file is re-imported while a job of it   *)
(* is under way and no store is scanned.  The invariant follows a job from *)
(* the queue to the service, to its build and to the box of its failure:   *)
(* at each place it can be, the job has what the next handler counts on.   *)

Apart == ~Overlap /\ StaleLayers = <<>>

\* Where a job of a file can be: queued, in a call, or being built.
JobsOf(s) == {j \in Job : j.source = s}
CallsOf(s) ==
  {c \in Call :
     \/ c.call = "service" /\ c.job.source = s
     \/ c.call = "failed" /\ c.key \in Layer /\ SourceOf[c.key] = s
     \/ c.call = "heal" /\ \E l \in c.todo : SourceOf[l] = s}
Built(p)       == {w \in Worker : p[w].kind \in {"import", "reindex"}}
BuiltFrom(p, s) == {w \in Built(p) : SourceOf[p[w].layer] = s}
BuiltIn(p, e)  == {w \in Built(p) : p[w].epoch = e}

\* A file has at most one job anywhere.
Holders(s) ==
  CountIn(queue, JobsOf(s)) + Cardinality(BuiltFrom(pool, s)) + CountIn(stack, CallsOf(s))
OneJobPerFile == \A s \in Source : Holders(s) <= 1

\* The calls that hold a slot, those that owe a start, those about a layer and
\* those whose job is still to be counted.
SlotHolders == {c \in Call : c.call \in {"service", "failed"}}
Owing(jobs) ==
  {c \in Call :
     \/ c.call = "service"
     \/ /\ c.call = "failed"
        /\ c.key \in Layer /\ jobs[c.key].kind # "none" => ~jobs[c.key].started}
About(l) ==
  {c \in Call : \/ c.call = "service" /\ c.job.layer = l
                \/ c.call = "failed" /\ c.key = l}
ToCount ==
  {c \in Call : \/ c.call \in {"service", "missing"}
                \/ c.call = "failed" /\ c.live}

\* Calls and jobs are about layers that were added, and the calls of the main
\* thread nest in one way: importFile and reindexLayer run on top, the cancel
\* box and the recovery are at the bottom.
FitIn(st) ==
  {c \in Call :
     /\ c.call # "scanned"
     /\ c.call = "service" /\ c.job.kind = "rebuild" => st[c.job.layer] # "none"
     /\ c.call = "failed" /\ c.key \in Layer => st[c.key] # "none"
     /\ c.call = "heal" => \A l \in c.todo :
          /\ st[l] # "none"
          /\ \A k \in c.todo : SourceOf[k] = SourceOf[l] => k = l}
ShapeOf(s, st) ==
  \A i \in DOMAIN s :
    /\ s[i] \in FitIn(st)
    /\ s[i].call = "service" => i = 1
    /\ s[i].call \in {"confirm", "heal"} => i = Len(s)
StackFit == ShapeOf(stack, layerState)
FitQueue(q, st) ==
  \A i \in DOMAIN q : q[i].kind = "rebuild" => st[q[i].layer] # "none"
QueueFit == FitQueue(queue, layerState)

\* A build is in the map as one that started, of the epoch it was dispatched in;
\* one a cancel overtook has no start to announce an end of.
BuildsFit ==
  \A w \in Built(pool) :
    /\ layerState[pool[w].layer] # "none"
    /\ pool[w].epoch <= epoch
    /\ activeJobs[pool[w].layer].started
    /\ activeJobs[pool[w].layer].epoch = pool[w].epoch
    /\ pool[w].epoch # epoch => signal[pool[w].layer] # "started"

\* A job on its way to the service is the one dispatched last.
ServiceFit ==
  In("service") =>
    /\ activeJobEpoch = epoch
    /\ Top.job.kind = "rebuild" => /\ activeJobs[Top.job.layer].epoch = epoch
                                   /\ ~activeJobs[Top.job.layer].started

NoScans   == scanQueue = <<>> /\ scanTokens = {} /\ Scans = {}
NotOpened ==
  project = "none" => /\ queue = <<>>
                      /\ Built(pool) = {}
                      /\ \A s \in Source : CountIn(stack, CallsOf(s)) = 0

Slots   == /\ activeCount = Cardinality(Built(pool)) + CountIn(stack, SlotHolders)
           /\ activeCount <= Cap
Awaited == awaiting = CountIn(stack, Owing(activeJobs))
Tracks  ==
  \A l \in Layer :
    activeJobs[l].kind # "none" <=>
      (\E w \in Built(pool) : pool[w].layer = l) \/ CountIn(stack, About(l)) > 0
Ledger  ==
  accepted = Total(summary) + Len(queue) + Cardinality(BuiltIn(pool, epoch))
               + CountIn(stack, ToCount)

BooksInv ==
  /\ OneJobPerFile
  /\ StackFit /\ QueueFit /\ BuildsFit /\ ServiceFit
  /\ NoScans /\ NotOpened
  /\ Slots /\ Awaited /\ Tracks /\ Ledger

-----------------------------------------------------------------------------
(* What the counts need to know of calls, builds and stacks.               *)

\* The kind of a call says which counts it is in.
LEMMA CallMembers ==
  ASSUME NEW c \in Call
  PROVE  /\ c.call \notin {"service", "failed", "heal"} => \A s : c \notin CallsOf(s)
         /\ c.call \notin {"service", "failed"} =>
              /\ c \notin SlotHolders
              /\ \A jobs : c \notin Owing(jobs)
              /\ \A l : c \notin About(l)
         /\ c.call \notin {"service", "failed", "missing"} => c \notin ToCount
         /\ c.call = "missing" => c \in ToCount
         /\ c.call = "heal" => \A s : c \in CallsOf(s) <=> \E l \in c.todo : SourceOf[l] = s
         /\ c.call = "service" =>
              /\ \A s : c \in CallsOf(s) <=> c.job.source = s
              /\ c \in SlotHolders /\ c \in ToCount
              /\ \A jobs : c \in Owing(jobs)
              /\ \A l : c \in About(l) <=> c.job.layer = l
         /\ c.call = "failed" =>
              /\ \A s : c \in CallsOf(s) <=> c.key \in Layer /\ SourceOf[c.key] = s
              /\ c \in SlotHolders
              /\ c \in ToCount <=> c.live
              /\ \A jobs : c \in Owing(jobs) <=>
                   (c.key \in Layer /\ jobs[c.key].kind # "none" => ~jobs[c.key].started)
              /\ \A l : c \in About(l) <=> c.key = l
BY DEF CallsOf, SlotHolders, Owing, About, ToCount

\* What the actions push has the fields it was made with.
LEMMA CallFields ==
  /\ DispatchCall.call = "dispatch"
  /\ MissingBox.call = "missing"
  /\ ConfirmBox.call = "confirm"
  /\ PumpCall.call = "pump"
  /\ \A j : ServiceCall(j).call = "service" /\ ServiceCall(j).job = j
  /\ \A k, lv : /\ FailedCall(k, lv).call = "failed"
                /\ FailedCall(k, lv).key = k
                /\ FailedCall(k, lv).live = lv
  /\ \A ls : HealCall(ls).call = "heal" /\ HealCall(ls).todo = ls
BY DEF DispatchCall, MissingBox, ConfirmBox, PumpCall, ServiceCall, FailedCall, HealCall

\* A job's fields.
LEMMA JobFields ==
  /\ \A j \in Job : /\ j.kind \in {"import", "rebuild"}
                    /\ j.source \in Source
                    /\ j.kind = "import" => j.layer = NoLayer
                    /\ j.kind = "rebuild" => /\ j.layer \in Layer
                                             /\ j.source = SourceOf[j.layer]
                                             /\ j = RebuildJob(j.layer)
  /\ \A l \in Layer : /\ RebuildJob(l) \in Job
                      /\ RebuildJob(l).kind = "rebuild"
                      /\ RebuildJob(l).layer = l
                      /\ RebuildJob(l).source = SourceOf[l]
                      /\ SourceOf[l] \in Source
BY LayerAssumption DEF Job, ImportJob, RebuildJob

\* A call on top of a stack of the right shape: nothing below it is a call of
\* the service, and below a box that asks or a recovery there is nothing.
LEMMA ShapeTail ==
  ASSUME NEW s \in Seq(Call), s # <<>>, NEW st, ShapeOf(s, st)
  PROVE  /\ Head(s) \in FitIn(st)
         /\ ShapeOf(Tail(s), st)
         /\ \A i \in DOMAIN Tail(s) : Tail(s)[i].call # "service"
         /\ Head(s).call \in {"confirm", "heal"} => Tail(s) = <<>>
<1> DEFINE t == Tail(s)
<1>1. /\ t \in Seq(Call)
      /\ Len(t) = Len(s) - 1
      /\ \A i \in 1..Len(t) : t[i] = s[i + 1]
      /\ Len(s) \in Nat /\ Len(s) > 0
      /\ Head(s) = s[1]
  BY HeadTailProperties, LenProperties, EmptySeq
<1>2. DOMAIN s = 1..Len(s) /\ DOMAIN t = 1..Len(t)
  BY <1>1, LenProperties
<1> HIDE DEF t
<1>3. \A i \in DOMAIN t : i + 1 \in DOMAIN s /\ i + 1 # 1 /\ t[i] = s[i + 1]
  BY <1>1, <1>2
<1>4. 1 \in DOMAIN s
  BY <1>1, <1>2
<1>5. \A i \in DOMAIN t : t[i] \in FitIn(st) /\ t[i].call # "service"
  BY <1>3 DEF ShapeOf
<1>6. \A i \in DOMAIN t : t[i].call \in {"confirm", "heal"} => i = Len(t)
  <2> SUFFICES ASSUME NEW i \in DOMAIN t, t[i].call \in {"confirm", "heal"} PROVE i = Len(t)
    OBVIOUS
  <2>1. i + 1 = Len(s)
    BY <1>3 DEF ShapeOf
  <2> QED BY <1>1, <1>2, <2>1
<1>7. Head(s).call \in {"confirm", "heal"} => Len(t) = 0
  BY <1>1, <1>4 DEF ShapeOf
<1>8. Len(t) = 0 => t = <<>>
  BY <1>1, EmptySeq
<1>9. ShapeOf(t, st)
  BY <1>5, <1>6 DEF ShapeOf
<1> QED BY <1>1, <1>4, <1>5, <1>7, <1>8, <1>9 DEF ShapeOf, t

\* A call made from the event loop, or by a call that is not the service's,
\* keeps the shape.
LEMMA ShapePush ==
  ASSUME NEW s \in Seq(Call), NEW st, ShapeOf(s, st), NEW c \in FitIn(st),
         \A i \in DOMAIN s : s[i].call # "service",
         c.call \in {"confirm", "heal"} => s = <<>>
  PROVE  ShapeOf(<<c>> \o s, st)
<1> DEFINE t == <<c>> \o s
<1>1. c \in Call
  BY DEF FitIn
<1>2. /\ Len(t) = 1 + Len(s)
      /\ \A i \in 1..(1 + Len(s)) : t[i] = IF i <= 1 THEN c ELSE s[i - 1]
      /\ Len(s) \in Nat
      /\ t \in Seq(Call)
  BY <1>1, ConcatProperties, LenProperties
<1>3. DOMAIN t = 1..(1 + Len(s)) /\ DOMAIN s = 1..Len(s)
  BY <1>2, LenProperties
<1> HIDE DEF t
<1>4. SUFFICES ASSUME NEW i \in DOMAIN t
               PROVE  /\ t[i] \in FitIn(st)
                      /\ t[i].call = "service" => i = 1
                      /\ t[i].call \in {"confirm", "heal"} => i = Len(t)
  BY DEF ShapeOf, t
<1>5. CASE i = 1
  <2>1. t[i] = c
    BY <1>2, <1>3, <1>5
  <2>2. s = <<>> => Len(s) = 0
    BY EmptySeq
  <2> QED BY <1>2, <1>5, <2>1, <2>2
<1>6. CASE i # 1
  <2>1. t[i] = s[i - 1] /\ i - 1 \in DOMAIN s
    BY <1>2, <1>3, <1>6
  <2>2. t[i].call \in {"confirm", "heal"} => i - 1 = Len(s)
    BY <2>1 DEF ShapeOf
  <2>3. i - 1 = Len(s) => i = Len(t)
    BY <1>2, <1>3
  <2> QED BY <2>1, <2>2, <2>3 DEF ShapeOf
<1> QED BY <1>5, <1>6

\* A stack keeps its shape when layers are added and none is forgotten.
LEMMA ShapeGrows ==
  ASSUME NEW s \in Seq(Call), NEW st, NEW tt, ShapeOf(s, st),
         \A l \in Layer : st[l] # "none" => tt[l] # "none"
  PROVE  ShapeOf(s, tt)
<1>1. \A c \in Call : /\ c.call = "service" => c.job \in Job
                      /\ c.call = "heal" => c.todo \in SUBSET Layer
  BY DEF Call, DispatchCall, ServiceCall, MissingBox, FailedCall, ConfirmBox,
         HealCall, PumpCall, ScannedCall
<1>2. FitIn(st) \subseteq FitIn(tt)
  BY <1>1, JobFields DEF FitIn
<1> QED BY <1>2 DEF ShapeOf

\* The builds are finitely many, however they are counted.
LEMMA BuildsCounted ==
  ASSUME NEW p
  PROVE  /\ IsFiniteSet(Built(p)) /\ Cardinality(Built(p)) \in Nat
         /\ \A s : IsFiniteSet(BuiltFrom(p, s)) /\ Cardinality(BuiltFrom(p, s)) \in Nat
         /\ \A s : Cardinality(BuiltFrom(p, s)) = 0 <=> BuiltFrom(p, s) = {}
         /\ \A e : IsFiniteSet(BuiltIn(p, e)) /\ Cardinality(BuiltIn(p, e)) \in Nat
<1>1. IsFiniteSet(Worker)
  BY ServiceAssumption
<1>2. /\ Built(p) \in SUBSET Worker
      /\ \A s : BuiltFrom(p, s) \in SUBSET Worker
      /\ \A e : BuiltIn(p, e) \in SUBSET Worker
  BY DEF Built, BuiltFrom, BuiltIn
<1>3. \A S \in SUBSET Worker : IsFiniteSet(S) /\ Cardinality(S) \in Nat
  BY <1>1, FS_Subset, FS_CardinalityType
<1> QED BY <1>2, <1>3, FS_EmptySet

\* A thread that takes a build adds it to its file's and its epoch's.
LEMMA BuildAdded ==
  ASSUME NEW p, NEW q, NEW w \in Worker, w \notin Built(p), w \in Built(q),
         \A v \in Worker : v # w => q[v] = p[v]
  PROVE  /\ Built(q) = Built(p) \cup {w}
         /\ Cardinality(Built(q)) = Cardinality(Built(p)) + 1
         /\ \A s : Cardinality(BuiltFrom(q, s)) =
                     Cardinality(BuiltFrom(p, s))
                       + (IF SourceOf[q[w].layer] = s THEN 1 ELSE 0)
         /\ \A e : Cardinality(BuiltIn(q, e)) =
                     Cardinality(BuiltIn(p, e)) + (IF q[w].epoch = e THEN 1 ELSE 0)
<1>1. Built(q) = Built(p) \cup {w}
  BY DEF Built
<1>2. \A S : IsFiniteSet(S) /\ w \notin S => Cardinality(S \cup {w}) = Cardinality(S) + 1
  BY FS_AddElement
<1>3. ASSUME NEW s
      PROVE  Cardinality(BuiltFrom(q, s)) = Cardinality(BuiltFrom(p, s))
                                              + (IF SourceOf[q[w].layer] = s THEN 1 ELSE 0)
  <2>1. BuiltFrom(q, s) = IF SourceOf[q[w].layer] = s THEN BuiltFrom(p, s) \cup {w}
                                                       ELSE BuiltFrom(p, s)
    BY <1>1 DEF Built, BuiltFrom
  <2>2. w \notin BuiltFrom(p, s)
    BY DEF BuiltFrom
  <2> QED BY <1>2, <2>1, <2>2, BuildsCounted
<1>4. ASSUME NEW e
      PROVE  Cardinality(BuiltIn(q, e)) = Cardinality(BuiltIn(p, e))
                                            + (IF q[w].epoch = e THEN 1 ELSE 0)
  <2>1. BuiltIn(q, e) = IF q[w].epoch = e THEN BuiltIn(p, e) \cup {w} ELSE BuiltIn(p, e)
    BY <1>1 DEF Built, BuiltIn
  <2>2. w \notin BuiltIn(p, e)
    BY DEF BuiltIn
  <2> QED BY <1>2, <2>1, <2>2, BuildsCounted
<1>5. Cardinality(Built(q)) = Cardinality(Built(p)) + 1
  BY <1>1, <1>2, BuildsCounted
<1> QED BY <1>1, <1>3, <1>4, <1>5

\* Threads that keep their kind of task, its layer and its epoch keep the
\* counts.
LEMMA BuildsSame ==
  ASSUME NEW p, NEW q, \A w \in Worker : /\ q[w].kind = p[w].kind
                                         /\ q[w].layer = p[w].layer
                                         /\ q[w].epoch = p[w].epoch
  PROVE  /\ Built(q) = Built(p)
         /\ \A s : BuiltFrom(q, s) = BuiltFrom(p, s)
         /\ \A e : BuiltIn(q, e) = BuiltIn(p, e)
<1>1. Built(q) = Built(p)
  BY DEF Built
<1>2. \A w \in Built(p) : w \in Worker
  BY DEF Built
<1> QED BY <1>1, <1>2 DEF BuiltFrom, BuiltIn

\* A layer that was added stays known, whatever the service does.
LEMMA LayersStay ==
  ASSUME ServiceTypeOK, ServiceStep \/ UNCHANGED serviceVars
  PROVE  \A l \in Layer : layerState[l] # "none" => layerState'[l] # "none"
<1> SUFFICES ASSUME NEW k \in Layer, layerState[k] # "none" PROVE layerState'[k] # "none"
  OBVIOUS
<1>0. layerState \in [Layer -> LayerState]
  BY DEF ServiceTypeOK
<1>1. ASSUME NEW l \in Layer, DropLayer(l) PROVE layerState'[k] # "none"
  BY <1>0, <1>1 DEF DropLayer
<1>2. ASSUME NEW l \in Layer, NEW e \in Nat, StartImport(l, e) PROVE layerState'[k] # "none"
  BY <1>0, <1>2 DEF StartImport, Indexing
<1>3. ASSUME NEW l \in Layer, NEW e \in Nat, StartReindex(l, e) PROVE layerState'[k] # "none"
  BY <1>0, <1>3 DEF StartReindex, Indexing
<1>4. ASSUME NEW w \in Worker, TaskEnds(w) PROVE layerState'[k] # "none"
  BY <1>4 DEF TaskEnds
<1>5. ASSUME NEW w \in Worker, ImportFails(w) PROVE layerState'[k] # "none"
  <2>1. pool[w].layer \in Layer
    BY <1>5, PhaseTells DEF ImportFails, EndBuild, Task
  <2> QED BY <1>1, <1>5, <2>1 DEF ImportFails
<1>6. ASSUME NEW w \in Worker, NEW extra \in SUBSET Layer,
             ImportUnsaved(w, extra) \/ ImportCommits(w, extra)
      PROVE  layerState'[k] # "none"
  BY <1>6 DEF ImportUnsaved, ImportCommits, FailedFrom, Committed
<1>7. ASSUME NEW w \in Worker, ReindexFails(w) \/ ReindexUnsaved(w) \/ ReindexCommits(w)
      PROVE  layerState'[k] # "none"
  BY <1>0, <1>7 DEF ReindexFails, ReindexUnsaved, ReindexCommits, FailedFrom, Committed
<1>8. CASE QueueScans(StaleLayers)
  BY <1>8 DEF QueueScans
<1>9. CASE DropScan
  BY <1>9 DEF DropScan
<1>10. ASSUME NEW e \in Nat, StartScan(e) PROVE layerState'[k] # "none"
  BY <1>0, <1>10 DEF StartScan, Indexing
<1>11. ASSUME NEW w \in Worker, EndScan(w) PROVE layerState'[k] # "none"
  BY <1>11 DEF EndScan
<1>12. ASSUME NEW l \in Layer, CommitScan(l) PROVE layerState'[k] # "none"
  BY <1>0, <1>12 DEF CommitScan, Committed
<1>13. CASE CancelScans
  BY <1>13 DEF CancelScans
<1>14. CASE UNCHANGED serviceVars
  BY <1>14 DEF serviceVars
<1> QED BY <1>1, <1>2, <1>3, <1>4, <1>5, <1>6, <1>7, <1>8, <1>9, <1>10, <1>11, <1>12,
           <1>13, <1>14 DEF ServiceStep

\* A queue loses its head, gains fitting jobs, or sees layers added, and still
\* holds fitting jobs.
LEMMA FitQueues ==
  ASSUME NEW q \in Seq(Job), NEW st, FitQueue(q, st)
  PROVE  /\ q # <<>> => FitQueue(Tail(q), st)
         /\ q # <<>> /\ Head(q).kind = "rebuild" => st[Head(q).layer] # "none"
         /\ \A r \in Seq(Job) : FitQueue(r, st) => FitQueue(q \o r, st)
         /\ \A tt : (\A l \in Layer : st[l] # "none" => tt[l] # "none") => FitQueue(q, tt)
<1>0. DOMAIN q = 1..Len(q) /\ Len(q) \in Nat
  BY LenProperties
<1>1. ASSUME q # <<>> PROVE FitQueue(Tail(q), st)
  <2>1. /\ DOMAIN Tail(q) = 1..(Len(q) - 1)
        /\ \A i \in 1..(Len(q) - 1) : Tail(q)[i] = q[i + 1]
    BY <1>1, HeadTailProperties, LenProperties
  <2>2. \A i \in DOMAIN Tail(q) : i + 1 \in DOMAIN q /\ Tail(q)[i] = q[i + 1]
    BY <1>0, <2>1
  <2> QED BY <2>2 DEF FitQueue
<1>2. ASSUME q # <<>>, Head(q).kind = "rebuild" PROVE st[Head(q).layer] # "none"
  <2>1. 1 \in DOMAIN q /\ Head(q) = q[1]
    BY <1>0, <1>2, EmptySeq
  <2> QED BY <1>2, <2>1 DEF FitQueue
<1>3. ASSUME NEW r \in Seq(Job), FitQueue(r, st) PROVE FitQueue(q \o r, st)
  <2>1. /\ DOMAIN r = 1..Len(r) /\ Len(r) \in Nat
        /\ DOMAIN (q \o r) = 1..(Len(q) + Len(r))
        /\ \A i \in 1..(Len(q) + Len(r)) :
             (q \o r)[i] = IF i <= Len(q) THEN q[i] ELSE r[i - Len(q)]
    BY <1>0, ConcatProperties, LenProperties
  <2>2. ASSUME NEW i \in DOMAIN (q \o r)
        PROVE  \/ i \in DOMAIN q /\ (q \o r)[i] = q[i]
               \/ i - Len(q) \in DOMAIN r /\ (q \o r)[i] = r[i - Len(q)]
    BY <1>0, <2>1
  <2> QED BY <1>3, <2>2 DEF FitQueue
<1>4. ASSUME NEW tt, \A l \in Layer : st[l] # "none" => tt[l] # "none"
      PROVE  FitQueue(q, tt)
  <2>1. \A i \in DOMAIN q : q[i] \in Job
    BY <1>0
  <2> QED BY <1>4, <2>1, JobFields DEF FitQueue
<1> QED BY <1>1, <1>2, <1>3, <1>4

\* The call pushed is on top; below the top of a well-shaped stack there is no
\* call of the service.
LEMMA PushTop ==
  ASSUME NEW T, NEW s \in Seq(T), NEW c \in T
  PROVE  <<c>> \o s # <<>> /\ Head(<<c>> \o s) = c /\ Tail(<<c>> \o s) = s
BY ConcatProperties

LEMMA TailTop ==
  ASSUME NEW s \in Seq(Call), s # <<>>, NEW st, ShapeOf(s, st), Tail(s) # <<>>
  PROVE  Head(Tail(s)).call # "service"
<1>1. Tail(s) \in Seq(Call)
  BY HeadTailProperties
<1>2. 1 \in DOMAIN Tail(s) /\ Head(Tail(s)) = Tail(s)[1]
  BY <1>1, EmptySeq, LenProperties
<1> QED BY <1>2, ShapeTail

\* The types the counts need.
LEMMA BooksTypes ==
  ASSUME PipelineInv
  PROVE  /\ queue \in Seq(Job) /\ stack \in Seq(Call)
         /\ \A S : CountIn(queue, S) \in Nat /\ CountIn(stack, S) \in Nat
         /\ activeCount \in Int /\ awaiting \in Nat /\ accepted \in Int
         /\ epoch \in Nat /\ activeJobEpoch \in Nat
         /\ summary \in Summary /\ Total(summary) \in Nat /\ Len(queue) \in Nat
         /\ activeJobs \in [Layer -> ActiveJob]
         /\ signal \in [Layer -> Signals]
         /\ ServiceTypeOK /\ Builds = Built(pool)
         /\ \A w \in Built(pool) : pool[w] \in Task /\ pool[w].layer \in Layer
<1>1. ManagerTypeOK /\ LoopTypeOK /\ ServiceTypeOK
  BY DEF PipelineInv, ServiceInv
<1>2. queue \in Seq(Job) /\ stack \in Seq(Call) /\ summary \in Summary
  BY <1>1 DEF ManagerTypeOK, LoopTypeOK
<1>3. \A S : CountIn(queue, S) \in Nat /\ CountIn(stack, S) \in Nat
  BY <1>2, CountInType
<1>4. Builds = Built(pool)
  BY DEF Builds, Tasks, Built
<1>5. \A w \in Built(pool) : pool[w] \in Task /\ pool[w].layer \in Layer
  BY <1>1, PhaseTells DEF Built, Task
<1> QED BY <1>1, <1>2, <1>3, <1>4, <1>5, TotalType, LenProperties DEF ManagerTypeOK, Signals

\* Calls that hold no job come and go without a change to the counts.
NeutralMove(s, t) ==
  \/ t = s
  \/ \E c \in Call : /\ t = <<c>> \o s
                     /\ c.call \in {"dispatch", "confirm"}
                     /\ c.call = "confirm" => s = <<>>
                     /\ s = <<>> \/ Head(s).call # "service"
  \/ /\ s # <<>>
     /\ t = Tail(s)
     /\ Head(s).call \in {"dispatch", "confirm", "heal", "pump"}

LEMMA NeutralCounts ==
  ASSUME NEW s \in Seq(Call), NEW t, NEW st, ShapeOf(s, st), NeutralMove(s, t)
  PROVE  /\ ShapeOf(t, st)
         /\ \A f : CountIn(t, CallsOf(f)) <= CountIn(s, CallsOf(f))
         /\ CountIn(t, SlotHolders) = CountIn(s, SlotHolders)
         /\ \A jobs : CountIn(t, Owing(jobs)) = CountIn(s, Owing(jobs))
         /\ \A l : CountIn(t, About(l)) = CountIn(s, About(l))
         /\ CountIn(t, ToCount) = CountIn(s, ToCount)
         /\ t # <<>> /\ Head(t).call = "service" => t = s
<1>0. \A S : CountIn(s, S) \in Nat
  BY CountInType
<1>1. CASE t = s
  BY <1>0, <1>1
<1>2. ASSUME NEW c \in Call, t = <<c>> \o s, c.call \in {"dispatch", "confirm"},
             c.call = "confirm" => s = <<>>,
             s = <<>> \/ Head(s).call # "service"
      PROVE  /\ ShapeOf(t, st)
             /\ \A S : c \notin S => CountIn(t, S) = CountIn(s, S)
             /\ Head(t) = c
  <2>1. c \in FitIn(st)
    BY <1>2 DEF FitIn
  <2>2. \A i \in DOMAIN s : s[i].call # "service"
    <3> SUFFICES ASSUME NEW i \in DOMAIN s, s[i].call = "service" PROVE FALSE
      OBVIOUS
    <3>1. i = 1
      BY DEF ShapeOf
    <3>2. Head(s) = s[1] /\ s # <<>>
      BY <3>1, EmptySeq
    <3> QED BY <1>2, <3>1, <3>2
  <2>3. ShapeOf(t, st)
    BY <1>2, <2>1, <2>2, ShapePush
  <2>4. \A S : CountIn(t, S) = CountIn(s, S) + (IF c \in S THEN 1 ELSE 0)
    BY <1>2, CountPush
  <2> QED BY <1>0, <1>2, <2>3, <2>4, PushTop
<1>3. ASSUME NEW c \in Call, t = <<c>> \o s, c.call \in {"dispatch", "confirm"},
             c.call = "confirm" => s = <<>>,
             s = <<>> \/ Head(s).call # "service"
      PROVE  /\ ShapeOf(t, st)
             /\ \A f : CountIn(t, CallsOf(f)) <= CountIn(s, CallsOf(f))
             /\ CountIn(t, SlotHolders) = CountIn(s, SlotHolders)
             /\ \A jobs : CountIn(t, Owing(jobs)) = CountIn(s, Owing(jobs))
             /\ \A l : CountIn(t, About(l)) = CountIn(s, About(l))
             /\ CountIn(t, ToCount) = CountIn(s, ToCount)
             /\ Head(t).call # "service"
  <2>1. /\ \A f : c \notin CallsOf(f)
        /\ c \notin SlotHolders /\ c \notin ToCount
        /\ \A jobs : c \notin Owing(jobs)
        /\ \A l : c \notin About(l)
    BY <1>3, CallMembers
  <2>2. /\ ShapeOf(t, st)
        /\ \A S : c \notin S => CountIn(t, S) = CountIn(s, S)
        /\ Head(t) = c
    BY <1>2, <1>3
  <2> QED BY <1>0, <1>3, <2>1, <2>2
<1>4. ASSUME s # <<>>, t = Tail(s), Head(s).call \in {"dispatch", "confirm", "heal", "pump"}
      PROVE  /\ ShapeOf(t, st)
             /\ \A f : CountIn(t, CallsOf(f)) <= CountIn(s, CallsOf(f))
             /\ CountIn(t, SlotHolders) = CountIn(s, SlotHolders)
             /\ \A jobs : CountIn(t, Owing(jobs)) = CountIn(s, Owing(jobs))
             /\ \A l : CountIn(t, About(l)) = CountIn(s, About(l))
             /\ CountIn(t, ToCount) = CountIn(s, ToCount)
             /\ t # <<>> => Head(t).call # "service"
  <2> DEFINE h == Head(s)
  <2>1. h \in Call
    BY <1>4, HeadTailProperties
  <2>2. /\ h \notin SlotHolders /\ h \notin ToCount
        /\ \A jobs : h \notin Owing(jobs)
        /\ \A l : h \notin About(l)
    BY <1>4, <2>1, CallMembers
  <2>3. \A S : CountIn(t, S) = CountIn(s, S) - (IF h \in S THEN 1 ELSE 0)
    BY <1>4, CountTail
  <2>4. \A S : CountIn(t, S) <= CountIn(s, S)
    BY <1>0, <2>3
  <2>5. \A S : h \notin S => CountIn(t, S) = CountIn(s, S)
    BY <1>0, <2>3
  <2>6. ShapeOf(t, st) /\ (t # <<>> => Head(t).call # "service")
    BY <1>4, ShapeTail, TailTop
  <2> HIDE DEF h
  <2> QED BY <2>2, <2>4, <2>5, <2>6
<1> QED BY <1>1, <1>3, <1>4 DEF NeutralMove

\* Most steps leave the jobs where they are: they make or end a call that holds
\* none, or only report, mark or count.
LEMMA NeutralStep ==
  ASSUME PipelineInv, PipelineInv', BooksInv,
         UNCHANGED <<queue, activeCount, awaiting, activeJobs, epoch, activeJobEpoch>>,
         accepted' - Total(summary') = accepted - Total(summary),
         \A l \in Layer : signal'[l] = signal[l] \/ signal'[l] # "started",
         \A w \in Worker : /\ pool'[w].kind = pool[w].kind
                           /\ pool'[w].layer = pool[w].layer
                           /\ pool'[w].epoch = pool[w].epoch,
         \A l \in Layer : layerState[l] # "none" => layerState'[l] # "none",
         scanQueue' = <<>> /\ scanTokens' = {},
         project' = "none" => project = "none",
         NeutralMove(stack, stack')
  PROVE  BooksInv'
<1>0. /\ queue \in Seq(Job) /\ stack \in Seq(Call)
      /\ \A S : CountIn(queue, S) \in Nat /\ CountIn(stack, S) \in Nat
      /\ accepted \in Int /\ Total(summary) \in Nat /\ Len(queue) \in Nat
      /\ \A w \in Built(pool) : pool[w].layer \in Layer
  BY BooksTypes
<1>1. /\ OneJobPerFile
      /\ StackFit /\ QueueFit /\ BuildsFit /\ ServiceFit
      /\ NoScans /\ NotOpened
      /\ Slots /\ Awaited /\ Tracks /\ Ledger
  BY DEF BooksInv
<1>2. /\ Built(pool') = Built(pool)
      /\ \A s : BuiltFrom(pool', s) = BuiltFrom(pool, s)
      /\ \A e : BuiltIn(pool', e) = BuiltIn(pool, e)
  BY BuildsSame
<1>3. ShapeOf(stack, layerState') /\ QueueFit'
  BY <1>0, <1>1, ShapeGrows, FitQueues DEF StackFit, QueueFit
<1>4. /\ ShapeOf(stack', layerState')
      /\ \A f : CountIn(stack', CallsOf(f)) <= CountIn(stack, CallsOf(f))
      /\ CountIn(stack', SlotHolders) = CountIn(stack, SlotHolders)
      /\ \A jobs : CountIn(stack', Owing(jobs)) = CountIn(stack, Owing(jobs))
      /\ \A l : CountIn(stack', About(l)) = CountIn(stack, About(l))
      /\ CountIn(stack', ToCount) = CountIn(stack, ToCount)
      /\ stack' # <<>> /\ Head(stack').call = "service" => stack' = stack
  BY <1>0, <1>3, NeutralCounts
<1>5. OneJobPerFile'
  <2> SUFFICES ASSUME NEW s \in Source PROVE Holders(s)' <= 1
    BY DEF OneJobPerFile
  <2>1. Holders(s) <= 1
    BY <1>1 DEF OneJobPerFile
  <2>2. CountIn(stack', CallsOf(s)) \in Nat
    BY CountInType DEF PipelineInv, LoopTypeOK
  <2>3. Cardinality(BuiltFrom(pool, s)) \in Nat
    BY BuildsCounted
  <2>4. Holders(s)' = CountIn(queue, JobsOf(s)) + Cardinality(BuiltFrom(pool, s))
                        + CountIn(stack', CallsOf(s))
    BY <1>2 DEF Holders
  <2> QED BY <1>0, <1>4, <2>1, <2>2, <2>3, <2>4 DEF Holders
<1>6. BuildsFit'
  BY <1>0, <1>1, <1>2 DEF BuildsFit, Built
<1>7. ServiceFit'
  BY <1>1, <1>4 DEF ServiceFit, In, Top
<1>8. NoScans' /\ NotOpened'
  <2>1. \A f : CountIn(stack', CallsOf(f)) \in Nat
    BY CountInType DEF PipelineInv, LoopTypeOK
  <2>2. \A f : CountIn(stack, CallsOf(f)) = 0 => CountIn(stack', CallsOf(f)) = 0
    BY <1>4, <2>1
  <2> QED BY <1>1, <1>2, <2>2 DEF NoScans, NotOpened, Scans, Tasks
<1>9. Slots' /\ Awaited'
  BY <1>1, <1>2, <1>4 DEF Slots, Awaited
<1>10. Tracks'
  BY <1>0, <1>1, <1>2, <1>4 DEF Tracks, Built
<1>11. Ledger'
  <2> DEFINE n == Len(queue) + Cardinality(BuiltIn(pool, epoch)) + CountIn(stack, ToCount)
  <2>0. Cardinality(BuiltIn(pool, epoch)) \in Nat /\ CountIn(stack, ToCount) \in Nat
    BY <1>0, BuildsCounted
  <2>1. n \in Nat /\ accepted = Total(summary) + n
    BY <1>0, <1>1, <2>0 DEF Ledger
  <2>2. accepted' \in Int /\ Total(summary') \in Nat
    BY TotalType DEF PipelineInv, ManagerTypeOK
  <2>3. accepted' = Total(summary') + n
    <3> HIDE DEF n
    <3> QED BY <1>0, <2>1, <2>2
  <2> QED BY <1>0, <1>2, <1>4, <2>2, <2>3, BuildsCounted DEF Ledger
<1> QED BY <1>3, <1>4, <1>5, <1>6, <1>7, <1>8, <1>9, <1>10, <1>11 DEF BooksInv, StackFit

\* The steps that leave the jobs where they are.
Quiet ==
  \/ \E reused \in Reusable : ReuseBatch(reused)
  \/ AskToCancel \/ DeclineCancel
  \/ \E l \in Layer : RemoveLayer(l)
  \/ CloseProject
  \/ HealDone \/ DispatchDone \/ PumpDone
  \/ RunDispatch \/ RunReport
  \/ \E w \in Worker : WorkerDone(w)
  \/ UNCHANGED vars

\* The event loop runs over the stack of a box, never over a call of the service.
LEMMA BoxOnTop ==
  ASSUME PipelineInv, TakesEvents
  PROVE  stack = <<>> \/ Top.call # "service"
BY DEF TakesEvents, InBox

\* They keep the books.
LEMMA QuietBooks ==
  ASSUME PipelineInv, PipelineInv', BooksInv, Quiet
  PROVE  BooksInv'
<1>0. /\ stack \in Seq(Call)
      /\ ServiceTypeOK
      /\ scanQueue = <<>> /\ scanTokens = {}
      /\ summary \in Summary /\ Total(summary) \in Nat
      /\ accepted \in Int
      /\ signal \in [Layer -> Signals]
  BY BooksTypes DEF BooksInv, NoScans
<1>1. /\ DispatchCall \in Call /\ DispatchCall.call = "dispatch"
      /\ ConfirmBox \in Call /\ ConfirmBox.call = "confirm"
  BY CallType, CallFields
<1>2. ASSUME UNCHANGED serviceVars
      PROVE  /\ UNCHANGED <<pool, scanQueue, scanTokens, layerState>>
             /\ \A w \in Worker : /\ pool'[w].kind = pool[w].kind
                                  /\ pool'[w].layer = pool[w].layer
                                  /\ pool'[w].epoch = pool[w].epoch
             /\ \A l \in Layer : layerState[l] # "none" => layerState'[l] # "none"
  BY <1>2 DEF serviceVars
<1>3. ASSUME UNCHANGED managerVars
      PROVE  /\ UNCHANGED <<queue, activeCount, awaiting, activeJobs, epoch, activeJobEpoch>>
             /\ accepted' - Total(summary') = accepted - Total(summary)
             /\ \A l \in Layer : signal'[l] = signal[l] \/ signal'[l] # "started"
  BY <1>3 DEF managerVars
<1>4. ASSUME NEW reused \in Reusable, ReuseBatch(reused) PROVE BooksInv'
  <2>1. /\ AcceptReuseOnly(reused)
        /\ UNCHANGED serviceVars
        /\ UNCHANGED <<stack, project>>
    BY <1>4 DEF ReuseBatch
  <2>2. Cardinality(reused) \in Nat
    BY LayerCount DEF Reusable
  <2>3. Total(EmptySummary) = 0
    BY DEF Total, EmptySummary
  <2>4. Total(ReuseSummary(reused)) = Total(summary) + Cardinality(reused)
    <3> DEFINE n == Cardinality(reused)
    <3>1. ReuseSummary(reused) = [summary EXCEPT !.reused = @ + n]
      BY DEF ReuseSummary
    <3>2. \A t \in Summary, m \in Nat : Total([t EXCEPT !.reused = @ + m]) = Total(t) + m
      BY DEF Summary, Total
    <3> HIDE DEF n
    <3> QED BY <1>0, <2>2, <3>1, <3>2 DEF n
  <2>5. accepted' - Total(summary') = accepted - Total(summary)
    <3>1. CASE activeCount = 0
      BY <1>0, <2>1, <2>3, <3>1 DEF AcceptReuseOnly
    <3>2. CASE activeCount # 0
      BY <1>0, <2>1, <2>2, <2>4, <3>2 DEF AcceptReuseOnly
    <3> QED BY <3>1, <3>2
  <2>6. \A l \in Layer : signal'[l] = signal[l] \/ signal'[l] # "started"
    BY <2>1 DEF AcceptReuseOnly
  <2>7. UNCHANGED <<queue, activeCount, awaiting, activeJobs, epoch, activeJobEpoch>>
    BY <2>1 DEF AcceptReuseOnly
  <2> QED BY <1>0, <1>2, <2>1, <2>5, <2>6, <2>7, NeutralStep DEF NeutralMove
<1>5. CASE AskToCancel
  <2>1. /\ UNCHANGED serviceVars /\ UNCHANGED managerVars /\ UNCHANGED project
        /\ stack = <<>> /\ stack' = <<ConfirmBox>> \o stack
    BY <1>5 DEF AskToCancel, Push, Acts
  <2>2. NeutralMove(stack, stack')
    BY <1>1, <2>1 DEF NeutralMove
  <2> QED BY <1>0, <1>2, <1>3, <2>1, <2>2, NeutralStep
<1>6. CASE DeclineCancel \/ HealDone \/ PumpDone
  <2>1. /\ UNCHANGED serviceVars /\ UNCHANGED managerVars /\ UNCHANGED project
        /\ stack # <<>> /\ stack' = Tail(stack)
        /\ Top.call \in {"confirm", "heal", "pump"}
    BY <1>6 DEF DeclineCancel, HealDone, PumpDone, In, Return
  <2>2. NeutralMove(stack, stack')
    BY <2>1 DEF NeutralMove, Top
  <2> QED BY <1>0, <1>2, <1>3, <2>1, <2>2, NeutralStep
<1>7. ASSUME NEW k \in Layer, RemoveLayer(k) PROVE BooksInv'
  <2>1. /\ DropLayer(k) /\ UNCHANGED Others /\ UNCHANGED managerVars
        /\ UNCHANGED <<stack, project>>
    BY <1>7 DEF RemoveLayer, Others
  <2>2. ServiceStep
    BY <2>1 DEF ServiceStep
  <2>3. UNCHANGED <<pool, scanQueue, scanTokens>>
    BY <2>1 DEF Others
  <2> QED BY <1>0, <1>3, <2>1, <2>2, <2>3, LayersStay, NeutralStep DEF NeutralMove
<1>8. CASE CloseProject
  <2>1. /\ CancelScans /\ project' = "closed" /\ UNCHANGED managerVars /\ UNCHANGED stack
    BY <1>8 DEF CloseProject
  <2>2. /\ scanQueue' = <<>> /\ scanTokens' = {} /\ UNCHANGED layerState
        /\ \A w \in Worker : /\ pool'[w].kind = pool[w].kind
                             /\ pool'[w].layer = pool[w].layer
                             /\ pool'[w].epoch = pool[w].epoch
    BY <2>1 DEF CancelScans, Scans, Tasks
  <2> QED BY <1>3, <2>1, <2>2, NeutralStep DEF NeutralMove
<1>9. CASE DispatchDone
  <2>1. /\ ReportBatch /\ UNCHANGED serviceVars /\ UNCHANGED project
        /\ stack # <<>> /\ stack' = Tail(stack) /\ Top.call = "dispatch"
    BY <1>9 DEF DispatchDone, In, Return
  <2>2. NeutralMove(stack, stack')
    BY <2>1 DEF NeutralMove, Top
  <2>3. CASE Idle
    <3>1. /\ UNCHANGED <<queue, activeCount, awaiting, activeJobs, epoch, activeJobEpoch>>
          /\ UNCHANGED signal
          /\ summary' = EmptySummary /\ accepted' = accepted - Total(summary)
      BY <2>1, <2>3 DEF ReportBatch
    <3>2. Total(EmptySummary) = 0
      BY DEF Total, EmptySummary
    <3>3. accepted' - Total(summary') = accepted - Total(summary)
      BY <1>0, <3>1, <3>2
    <3> QED BY <1>0, <1>2, <2>1, <2>2, <3>1, <3>3, NeutralStep
  <2>4. CASE ~Idle
    <3>1. UNCHANGED managerVars
      BY <2>1, <2>4 DEF ReportBatch
    <3> QED BY <1>0, <1>2, <1>3, <2>1, <2>2, <3>1, NeutralStep
  <2> QED BY <2>3, <2>4
<1>10. CASE RunDispatch
  <2>1. /\ UNCHANGED serviceVars /\ UNCHANGED managerVars /\ UNCHANGED project
        /\ TakesEvents
        /\ stack' = <<DispatchCall>> \o stack \/ UNCHANGED stack
    BY <1>10 DEF RunDispatch, Takes, Push
  <2>2. NeutralMove(stack, stack')
    BY <1>1, <2>1, BoxOnTop DEF NeutralMove, Top
  <2> QED BY <1>0, <1>2, <1>3, <2>1, <2>2, NeutralStep
<1>11. CASE RunReport
  <2>1. /\ UNCHANGED serviceVars /\ UNCHANGED <<stack, project>>
        /\ UNCHANGED <<queue, activeCount, awaiting, activeJobs, epoch, activeJobEpoch,
                       summary, signal, accepted>>
    BY <1>11 DEF RunReport, ReportDeferred
  <2> QED BY <1>0, <1>2, <2>1, NeutralStep DEF NeutralMove
<1>12. ASSUME NEW w \in Worker, WorkerDone(w) PROVE BooksInv'
  <2>1. TaskEnds(w) /\ UNCHANGED managerVars /\ UNCHANGED <<stack, project>>
    BY <1>12 DEF WorkerDone
  <2>2. /\ UNCHANGED <<layerState, scanQueue, scanTokens>>
        /\ \A v \in Worker : /\ pool'[v].kind = pool[v].kind
                             /\ pool'[v].layer = pool[v].layer
                             /\ pool'[v].epoch = pool[v].epoch
    BY <1>0, <2>1 DEF TaskEnds, ServiceTypeOK, Task, IdleTask
  <2> QED BY <1>0, <1>3, <2>1, <2>2, NeutralStep DEF NeutralMove
<1>13. CASE UNCHANGED vars
  <2>1. UNCHANGED serviceVars /\ UNCHANGED managerVars /\ UNCHANGED <<stack, project>>
    BY <1>13 DEF vars, loopVars
  <2> QED BY <1>0, <1>2, <1>3, <2>1, NeutralStep DEF NeutralMove
<1> QED BY <1>4, <1>5, <1>6, <1>7, <1>8, <1>9, <1>10, <1>11, <1>12, <1>13 DEF Quiet

\* With no store scanned, no call or event of a scan ever runs.
LEMMA NoScanRuns ==
  ASSUME PipelineInv, BooksInv
  PROVE  ~(\/ PumpDrops \/ PumpStarts
           \/ ScanDiscarded \/ ScanFails \/ ScanCommits
           \/ ScanFinishes)
<1>1. scanQueue = <<>> /\ Scans = {} /\ StackFit /\ stack \in Seq(Call)
  BY BooksTypes DEF BooksInv, NoScans
<1>2. ~PumpDrops /\ ~PumpStarts
  BY <1>1 DEF PumpDrops, PumpStarts, CanPump
<1>3. ~ScanFinishes
  BY <1>1 DEF ScanFinishes, EndScan
<1>4. ~In("scanned")
  BY <1>1, ShapeTail DEF In, Top, StackFit, FitIn
<1> QED BY <1>2, <1>3, <1>4 DEF ScanDiscarded, ScanFails, ScanCommits

-----------------------------------------------------------------------------
(* Jobs come in.                                                           *)

\* A count of what comes in adds to the total.
LEMMA TotalGrows ==
  ASSUME NEW s \in Summary, NEW m \in Nat, NEW n \in Nat
  PROVE  /\ Total([s EXCEPT !.reused = @ + n]) = Total(s) + n
         /\ Total([s EXCEPT !.failed = @ + n]) = Total(s) + n
         /\ Total([s EXCEPT !.rebuilt = @ + m, !.imported = @ + n]) = Total(s) + m + n
<1>1. /\ s.imported \in Nat /\ s.rebuilt \in Nat
      /\ s.reused \in Nat /\ s.failed \in Nat
  BY DEF Summary
<1>2. \A t : t = [s EXCEPT !.reused = @ + n] =>
        /\ t.reused = s.reused + n
        /\ t.imported = s.imported /\ t.rebuilt = s.rebuilt /\ t.failed = s.failed
  BY DEF Summary
<1>3. \A t : t = [s EXCEPT !.failed = @ + n] =>
        /\ t.failed = s.failed + n
        /\ t.imported = s.imported /\ t.rebuilt = s.rebuilt /\ t.reused = s.reused
  BY DEF Summary
<1>4. \A t : t = [s EXCEPT !.rebuilt = @ + m, !.imported = @ + n] =>
        /\ t.rebuilt = s.rebuilt + m /\ t.imported = s.imported + n
        /\ t.reused = s.reused /\ t.failed = s.failed
  BY DEF Summary
<1>5. Total([s EXCEPT !.reused = @ + n]) = Total(s) + n
  BY <1>1, <1>2 DEF Total
<1>6. Total([s EXCEPT !.failed = @ + n]) = Total(s) + n
  BY <1>1, <1>3 DEF Total
<1>7. Total([s EXCEPT !.rebuilt = @ + m, !.imported = @ + n]) = Total(s) + m + n
  BY <1>1, <1>4 DEF Total
<1> QED BY <1>5, <1>6, <1>7

\* What a batch asks for is parsed from files of their own, and nothing of
\* those files is queued or being built.
LEMMA BatchIsApart ==
  ASSUME Apart, PipelineInv, NEW jobs \in Batches, NEW reused \in Reusable,
         ImportBatch(jobs, reused)
  PROVE  /\ jobs \in Seq(Job)
         /\ FitQueue(jobs, layerState)
         /\ \A s \in Source :
              \/ CountIn(jobs, JobsOf(s)) = 0
              \/ /\ CountIn(jobs, JobsOf(s)) = 1
                 /\ CountIn(queue, JobsOf(s)) = 0
                 /\ Cardinality(BuiltFrom(pool, s)) = 0
<1>1. /\ jobs \in Seq(Job)
      /\ queue \in Seq(Job)
      /\ Builds = Built(pool)
  BY BatchType, BooksTypes
<1>2. /\ Distinct(jobs, reused)
      /\ \A i \in DOMAIN jobs : ~UnderWay(jobs[i].source)
  BY DEF ImportBatch, Apart
<1>3. \A i \in DOMAIN jobs : jobs[i] \in Offers /\ jobs[i] \in Job
  <2>1. PICK n \in 1..MaxBatch : jobs \in [1..n -> Offers]
    BY DEF Batches
  <2> QED BY <1>1, <2>1
<1>4. FitQueue(jobs, layerState)
  <2> SUFFICES ASSUME NEW i \in DOMAIN jobs, jobs[i].kind = "rebuild"
               PROVE  layerState[jobs[i].layer] # "none"
    BY DEF FitQueue
  <2>1. PICK l \in Layer : Present(l) /\ jobs[i] = RebuildJob(l)
    BY <1>3 DEF Offers, ImportJob, RebuildJob
  <2> QED BY <2>1, JobFields DEF Present
<1>5. ASSUME NEW s \in Source, CountIn(jobs, JobsOf(s)) # 0
      PROVE  /\ CountIn(jobs, JobsOf(s)) = 1
             /\ CountIn(queue, JobsOf(s)) = 0
             /\ Cardinality(BuiltFrom(pool, s)) = 0
  <2>1. PICK i \in DOMAIN jobs : jobs[i] \in JobsOf(s)
    BY <1>1, <1>5, CountInType
  <2>2. ~UnderWay(s)
    BY <1>2, <2>1 DEF JobsOf
  <2>3. CountIn(queue, JobsOf(s)) = 0
    BY <1>1, <2>2, CountInType DEF UnderWay, JobsOf
  <2>4. BuiltFrom(pool, s) = {}
    BY <1>1, <2>2 DEF UnderWay, BuiltFrom
  <2>5. CountIn(jobs, JobsOf(s)) <= 1
    BY <1>1, <1>2, CountUnique DEF Distinct, JobsOf
  <2>6. CountIn(jobs, JobsOf(s)) \in Nat
    BY <1>1, CountInType
  <2> QED BY <1>5, <2>3, <2>4, <2>5, <2>6, BuildsCounted
<1> QED BY <1>1, <1>4, <1>5

\* The operator's batch goes to the end of the queue.
LEMMA ImportBatchBooks ==
  ASSUME Apart, PipelineInv, PipelineInv', BooksInv,
         NEW jobs \in Batches, NEW reused \in Reusable, ImportBatch(jobs, reused)
  PROVE  BooksInv'
<1>0. /\ queue \in Seq(Job) /\ stack \in Seq(Call)
      /\ \A S : CountIn(queue, S) \in Nat /\ CountIn(stack, S) \in Nat
      /\ accepted \in Int /\ Total(summary) \in Nat /\ Len(queue) \in Nat
      /\ summary \in Summary
      /\ \A w \in Built(pool) : pool[w].layer \in Layer
  BY BooksTypes
<1>1. /\ OneJobPerFile
      /\ StackFit /\ QueueFit /\ BuildsFit /\ ServiceFit
      /\ NoScans /\ NotOpened
      /\ Slots /\ Awaited /\ Tracks /\ Ledger
  BY DEF BooksInv
<1>2. /\ AcceptJobs(jobs, reused)
      /\ stack = <<>> /\ stack' = <<DispatchCall>> \o stack
      /\ project = "open" /\ UNCHANGED project
      /\ UNCHANGED <<layerState, pool, scanQueue, scanTokens>>
  BY DEF ImportBatch, Push, Acts, serviceVars
<1>3. /\ queue' = queue \o jobs
      /\ summary' = [summary EXCEPT !.reused = @ + Cardinality(reused)]
      /\ accepted' = accepted + Len(jobs) + Cardinality(reused)
      /\ \A l \in Layer : signal'[l] = signal[l] \/ signal'[l] # "started"
      /\ UNCHANGED <<activeCount, awaiting, activeJobs, epoch, activeJobEpoch>>
  BY <1>2 DEF AcceptJobs
<1>4. jobs \in Seq(Job) /\ FitQueue(jobs, layerState)
  BY BatchIsApart
<1>5. Cardinality(reused) \in Nat /\ Len(jobs) \in Nat
  BY <1>4, LayerCount, LenProperties DEF Reusable
<1>6. NeutralMove(stack, stack')
  BY <1>2, CallType, CallFields DEF NeutralMove
<1>7. /\ ShapeOf(stack', layerState)
      /\ \A f : CountIn(stack', CallsOf(f)) <= CountIn(stack, CallsOf(f))
      /\ CountIn(stack', SlotHolders) = CountIn(stack, SlotHolders)
      /\ \A js : CountIn(stack', Owing(js)) = CountIn(stack, Owing(js))
      /\ \A l : CountIn(stack', About(l)) = CountIn(stack, About(l))
      /\ CountIn(stack', ToCount) = CountIn(stack, ToCount)
      /\ stack' # <<>> /\ Head(stack').call = "service" => stack' = stack
  BY <1>0, <1>1, <1>6, NeutralCounts DEF StackFit
<1>8. OneJobPerFile'
  <2> SUFFICES ASSUME NEW s \in Source PROVE Holders(s)' <= 1
    BY DEF OneJobPerFile
  <2>1. Holders(s) <= 1
    BY <1>1 DEF OneJobPerFile
  <2>2. /\ CountIn(stack', CallsOf(s)) = 0
        /\ CountIn(stack, CallsOf(s)) = 0
    <3>1. CountIn(stack', CallsOf(s)) \in Nat
      BY CountInType DEF PipelineInv, LoopTypeOK
    <3>2. CountIn(stack, CallsOf(s)) = 0
      BY <1>2, CountNone
    <3> QED BY <1>7, <3>1, <3>2
  <2>3. CountIn(queue', JobsOf(s)) = CountIn(queue, JobsOf(s)) + CountIn(jobs, JobsOf(s))
    BY <1>0, <1>3, <1>4, CountConcat
  <2>4. /\ Cardinality(BuiltFrom(pool, s)) \in Nat
        /\ CountIn(queue, JobsOf(s)) \in Nat
        /\ CountIn(jobs, JobsOf(s)) \in Nat
    BY <1>0, <1>4, BuildsCounted, CountInType
  <2>5. Holders(s)' = CountIn(queue, JobsOf(s)) + CountIn(jobs, JobsOf(s))
                        + Cardinality(BuiltFrom(pool, s))
    BY <1>2, <2>2, <2>3, <2>4 DEF Holders
  <2>6. \/ CountIn(jobs, JobsOf(s)) = 0
        \/ /\ CountIn(jobs, JobsOf(s)) = 1
           /\ CountIn(queue, JobsOf(s)) = 0
           /\ Cardinality(BuiltFrom(pool, s)) = 0
    BY BatchIsApart
  <2> QED BY <2>1, <2>2, <2>4, <2>5, <2>6 DEF Holders
<1>9. QueueFit'
  BY <1>0, <1>1, <1>2, <1>3, <1>4, FitQueues DEF QueueFit
<1>10. BuildsFit'
  BY <1>0, <1>1, <1>2, <1>3 DEF BuildsFit, Built
<1>11. ServiceFit' /\ NoScans' /\ NotOpened'
  BY <1>1, <1>2, <1>7 DEF ServiceFit, In, Top, NoScans, NotOpened, Scans, Tasks
<1>12. Slots' /\ Awaited'
  BY <1>1, <1>2, <1>3, <1>7 DEF Slots, Awaited
<1>13. Tracks'
  BY <1>1, <1>2, <1>3, <1>7 DEF Tracks, Built
<1>14. Ledger'
  <2>1. Total(summary') = Total(summary) + Cardinality(reused)
    BY <1>0, <1>3, <1>5, TotalGrows
  <2>2. Len(queue') = Len(queue) + Len(jobs)
    BY <1>0, <1>3, <1>4, ConcatProperties
  <2>3. /\ Cardinality(BuiltIn(pool, epoch)) \in Nat
        /\ CountIn(stack, ToCount) \in Nat
    BY <1>0, BuildsCounted
  <2>4. accepted = Total(summary) + Len(queue) + Cardinality(BuiltIn(pool, epoch))
                     + CountIn(stack, ToCount)
    BY <1>1 DEF Ledger
  <2>5. accepted' = Total(summary') + Len(queue') + Cardinality(BuiltIn(pool, epoch))
                      + CountIn(stack, ToCount)
    <3>1. accepted' = accepted + Len(jobs) + Cardinality(reused)
      BY <1>3
    <3>2. Total(summary) \in Nat /\ Len(queue) \in Nat
      BY <1>0
    <3> QED BY <3>1, <3>2, <1>5, <2>1, <2>2, <2>3, <2>4
  <2> QED BY <1>2, <1>3, <1>7, <2>5 DEF Ledger
<1>15. StackFit'
  BY <1>2, <1>7 DEF StackFit
<1> QED BY <1>8, <1>9, <1>10, <1>11, <1>12, <1>13, <1>14, <1>15 DEF BooksInv

\* A stack of two calls: its counts, its shape and its top.
LEMMA TwoCalls ==
  ASSUME NEW c \in Call, NEW d \in Call
  PROVE  /\ <<c, d>> \in Seq(Call) /\ Head(<<c, d>>) = c
         /\ \A S : CountIn(<<c, d>>, S) = (IF c \in S THEN 1 ELSE 0) + (IF d \in S THEN 1 ELSE 0)
         /\ \A st : /\ c \in FitIn(st) /\ d \in FitIn(st)
                    /\ c.call \notin {"service", "confirm", "heal"}
                    /\ d.call # "service"
                    => ShapeOf(<<c, d>>, st)
<1>1. <<c, d>> \in Seq(Call) /\ <<c, d>> # <<>>
  OBVIOUS
<1>2. Head(<<c, d>>) = c /\ Tail(<<c, d>>) = <<d>>
  OBVIOUS
<1>3. \A S : CountIn(<<c, d>>, S) = (IF c \in S THEN 1 ELSE 0) + (IF d \in S THEN 1 ELSE 0)
  <2> SUFFICES ASSUME NEW S
               PROVE  CountIn(<<c, d>>, S) = (IF c \in S THEN 1 ELSE 0)
                                               + (IF d \in S THEN 1 ELSE 0)
    OBVIOUS
  <2>1. CountIn(Tail(<<c, d>>), S)
          = CountIn(<<c, d>>, S) - (IF Head(<<c, d>>) \in S THEN 1 ELSE 0)
    BY <1>1, CountTail
  <2>2. CountIn(<<d>>, S) = IF d \in S THEN 1 ELSE 0
    BY CountOne
  <2>3. CountIn(<<c, d>>, S) \in Nat
    BY <1>1, CountInType
  <2> QED BY <1>2, <2>1, <2>2, <2>3
<1>4. ASSUME NEW st, c \in FitIn(st), d \in FitIn(st),
             c.call \notin {"service", "confirm", "heal"}, d.call # "service"
      PROVE  ShapeOf(<<c, d>>, st)
  BY <1>4 DEF ShapeOf
<1> QED BY <1>1, <1>3, <1>4

\* A cancel empties the queue while no job is in a call, and what is being built
\* is of an older epoch from then on.
LEMMA CancelBooks ==
  ASSUME PipelineInv, PipelineInv', BooksInv, ConfirmCancel
  PROVE  BooksInv'
<1>0. /\ stack \in Seq(Call) /\ queue \in Seq(Job)
      /\ \A S : CountIn(queue, S) \in Nat /\ CountIn(stack, S) \in Nat
      /\ epoch \in Nat
      /\ signal \in [Layer -> Signals]
      /\ Total(summary) \in Nat
      /\ \A w \in Built(pool) : pool[w].layer \in Layer /\ pool[w] \in Task
  BY BooksTypes
<1>1. /\ OneJobPerFile
      /\ StackFit /\ QueueFit /\ BuildsFit /\ ServiceFit
      /\ NoScans /\ NotOpened
      /\ Slots /\ Awaited /\ Tracks /\ Ledger
  BY DEF BooksInv
<1>2. /\ CancelQueue
      /\ stack # <<>> /\ Top.call = "confirm" /\ stack' = Tail(stack)
      /\ UNCHANGED <<layerState, pool, scanQueue, scanTokens, project>>
  BY DEF ConfirmCancel, In, Return, serviceVars
<1>3. /\ epoch' = epoch + 1
      /\ queue' = <<>>
      /\ summary' = IF CancelReports THEN EmptySummary ELSE summary
      /\ accepted' = IF CancelReports THEN 0 ELSE Total(summary)
      /\ signal' = [l \in Layer |-> IF signal[l] = "started" THEN "none" ELSE signal[l]]
      /\ UNCHANGED <<activeCount, awaiting, activeJobs, activeJobEpoch>>
  BY <1>2 DEF CancelQueue
<1>4. stack' = <<>>
  BY <1>0, <1>1, <1>2, ShapeTail DEF StackFit, Top
<1>5. NeutralMove(stack, stack')
  BY <1>2 DEF NeutralMove, Top
<1>6. /\ ShapeOf(stack', layerState)
      /\ \A f : CountIn(stack', CallsOf(f)) <= CountIn(stack, CallsOf(f))
      /\ CountIn(stack', SlotHolders) = CountIn(stack, SlotHolders)
      /\ \A js : CountIn(stack', Owing(js)) = CountIn(stack, Owing(js))
      /\ \A l : CountIn(stack', About(l)) = CountIn(stack, About(l))
      /\ CountIn(stack', ToCount) = CountIn(stack, ToCount)
      /\ stack' # <<>> /\ Head(stack').call = "service" => stack' = stack
  BY <1>0, <1>1, <1>5, NeutralCounts DEF StackFit
<1>7. OneJobPerFile'
  <2> SUFFICES ASSUME NEW s \in Source PROVE Holders(s)' <= 1
    BY DEF OneJobPerFile
  <2>1. Holders(s) <= 1
    BY <1>1 DEF OneJobPerFile
  <2>2. CountIn(stack', CallsOf(s)) = 0 /\ CountIn(queue', JobsOf(s)) = 0
    BY <1>3, <1>4, CountNone
  <2>3. Cardinality(BuiltFrom(pool, s)) \in Nat
    BY BuildsCounted
  <2>4. Holders(s)' = Cardinality(BuiltFrom(pool, s))
    BY <1>2, <2>2, <2>3 DEF Holders
  <2> QED BY <1>0, <2>1, <2>3, <2>4 DEF Holders
<1>8. StackFit' /\ QueueFit'
  BY <1>3, <1>4 DEF StackFit, ShapeOf, QueueFit, FitQueue
<1>9. BuildsFit'
  <2> SUFFICES ASSUME NEW w \in Built(pool)
               PROVE  /\ layerState[pool[w].layer] # "none"
                      /\ pool[w].epoch <= epoch'
                      /\ activeJobs[pool[w].layer].started
                      /\ activeJobs[pool[w].layer].epoch = pool[w].epoch
                      /\ signal'[pool[w].layer] # "started"
    BY <1>2, <1>3 DEF BuildsFit
  <2>1. pool[w].layer \in Layer /\ pool[w].epoch \in Nat
    BY <1>0 DEF Task
  <2> QED BY <1>0, <1>1, <1>3, <2>1 DEF BuildsFit
<1>10. ServiceFit'
  BY <1>4 DEF ServiceFit, In
<1>11. NoScans' /\ NotOpened'
  <2>1. \A f : CountIn(stack', CallsOf(f)) = 0
    BY <1>4, CountNone
  <2> QED BY <1>1, <1>2, <1>3, <2>1 DEF NoScans, NotOpened, Scans, Tasks
<1>12. Slots' /\ Awaited'
  BY <1>1, <1>2, <1>3, <1>6 DEF Slots, Awaited
<1>13. Tracks'
  BY <1>1, <1>2, <1>3, <1>6 DEF Tracks, Built
<1>14. Ledger'
  <2>1. CountIn(stack', ToCount) = 0 /\ Len(queue') = 0
    BY <1>3, <1>4, CountNone
  <2>2. BuiltIn(pool, epoch') = {}
    <3> SUFFICES ASSUME NEW w \in Built(pool) PROVE pool[w].epoch # epoch + 1
      BY <1>3 DEF BuiltIn
    <3>1. pool[w].epoch \in Nat /\ pool[w].epoch <= epoch
      BY <1>0, <1>1 DEF BuildsFit, Task
    <3> QED BY <1>0, <3>1
  <2>3. Cardinality(BuiltIn(pool', epoch')) = 0
    BY <1>2, <2>2, FS_EmptySet
  <2>4. accepted' = Total(summary') /\ accepted' \in Nat
    <3>1. Total(EmptySummary) = 0
      BY DEF Total, EmptySummary
    <3> QED BY <1>0, <1>3, <3>1
  <2> QED BY <2>1, <2>3, <2>4 DEF Ledger
<1> QED BY <1>7, <1>8, <1>9, <1>10, <1>11, <1>12, <1>13, <1>14 DEF BooksInv

\* Opening the project puts the recovery of its layers on the stack, one layer of
\* each file.
LEMMA OpenBooks ==
  ASSUME Apart, PipelineInv, PipelineInv', BooksInv,
         NEW plan \in RecoveryPlans, OpenProject(plan)
  PROVE  BooksInv'
<1>0. /\ \A S : CountIn(queue, S) \in Nat /\ CountIn(stack, S) \in Nat
      /\ accepted \in Int /\ Total(summary) \in Nat /\ Len(queue) \in Nat
  BY BooksTypes
<1>1. /\ OneJobPerFile
      /\ StackFit /\ QueueFit /\ BuildsFit /\ ServiceFit
      /\ NoScans /\ NotOpened
      /\ Slots /\ Awaited /\ Tracks /\ Ledger
  BY DEF BooksInv
<1>2. /\ project = "none" /\ project' = "open" /\ stack = <<>>
      /\ stack' = <<PumpCall, HealCall(plan)>>
      /\ scanQueue' = scanQueue \o StaleLayers
      /\ UNCHANGED managerVars /\ UNCHANGED <<layerState, pool, scanTokens>>
  BY DEF OpenProject, QueueScans
<1>3. UNCHANGED <<queue, activeCount, awaiting, activeJobs, epoch, activeJobEpoch, summary,
                  signal, accepted>>
  BY <1>2 DEF managerVars
<1>4. queue = <<>> /\ Built(pool) = {} /\ scanQueue' = <<>>
  <2>1. scanQueue' = <<>> \o <<>>
    BY <1>1, <1>2 DEF NoScans, Apart
  <2>2. <<>> \o <<>> = <<>>
    OBVIOUS
  <2> QED BY <1>1, <1>2, <2>1, <2>2 DEF NotOpened
<1>5. /\ PumpCall \in Call /\ HealCall(plan) \in Call
      /\ PumpCall.call = "pump"
      /\ HealCall(plan).call = "heal" /\ HealCall(plan).todo = plan
      /\ plan \in SUBSET Layer
  <2>1. plan \in SUBSET Layer
    BY DEF RecoveryPlans
  <2> QED BY <2>1, CallType, CallFields
<1>6. /\ \A l \in plan : layerState[l] # "none"
      /\ \A k, l \in plan : SourceOf[k] = SourceOf[l] => k = l
  BY DEF RecoveryPlans
<1>7. PumpCall \in FitIn(layerState) /\ HealCall(plan) \in FitIn(layerState)
  BY <1>5, <1>6 DEF FitIn
<1>8. /\ ShapeOf(stack', layerState)
      /\ Head(stack') = PumpCall
      /\ \A S : CountIn(stack', S) = (IF PumpCall \in S THEN 1 ELSE 0)
                                      + (IF HealCall(plan) \in S THEN 1 ELSE 0)
  BY <1>2, <1>5, <1>7, TwoCalls
<1>9. /\ \A s : CountIn(stack', CallsOf(s)) <= 1
      /\ CountIn(stack', SlotHolders) = 0
      /\ \A js : CountIn(stack', Owing(js)) = 0
      /\ \A l : CountIn(stack', About(l)) = 0
      /\ CountIn(stack', ToCount) = 0
  <2>1. /\ \A s : PumpCall \notin CallsOf(s)
        /\ PumpCall \notin SlotHolders /\ PumpCall \notin ToCount
        /\ \A js : PumpCall \notin Owing(js)
        /\ \A l : PumpCall \notin About(l)
    BY <1>5, CallMembers
  <2>2. /\ HealCall(plan) \notin SlotHolders /\ HealCall(plan) \notin ToCount
        /\ \A js : HealCall(plan) \notin Owing(js)
        /\ \A l : HealCall(plan) \notin About(l)
    BY <1>5, CallMembers
  <2> QED BY <1>8, <2>1, <2>2
<1>10. \A S : CountIn(stack, S) = 0
  BY <1>2, CountNone
<1>11. OneJobPerFile'
  <2> SUFFICES ASSUME NEW s \in Source PROVE Holders(s)' <= 1
    BY DEF OneJobPerFile
  <2>1. BuiltFrom(pool, s) = {}
    BY <1>4 DEF BuiltFrom
  <2>2. Cardinality(BuiltFrom(pool', s)) = 0 /\ CountIn(queue', JobsOf(s)) = 0
    BY <1>2, <1>3, <1>4, <2>1, CountNone, FS_EmptySet
  <2>3. CountIn(stack', CallsOf(s)) \in Nat
    BY CountInType DEF PipelineInv, LoopTypeOK
  <2> QED BY <1>9, <2>2, <2>3 DEF Holders
<1>12. StackFit' /\ QueueFit'
  BY <1>1, <1>2, <1>3, <1>8 DEF StackFit, QueueFit
<1>13. BuildsFit'
  BY <1>2, <1>4 DEF BuildsFit
<1>14. ServiceFit'
  BY <1>5, <1>8 DEF ServiceFit, In, Top
<1>15. NoScans' /\ NotOpened'
  BY <1>1, <1>2, <1>4 DEF NoScans, NotOpened, Scans, Tasks
<1>16. Slots' /\ Awaited'
  BY <1>1, <1>2, <1>3, <1>9, <1>10 DEF Slots, Awaited
<1>17. Tracks'
  BY <1>1, <1>2, <1>3, <1>9, <1>10 DEF Tracks, Built
<1>18. Ledger'
  BY <1>1, <1>2, <1>3, <1>9, <1>10 DEF Ledger
<1> QED BY <1>11, <1>12, <1>13, <1>14, <1>15, <1>16, <1>17, <1>18 DEF BooksInv

\* Where the one job of a file is, nothing of the file is anywhere else.
LEMMA OnePlace ==
  ASSUME PipelineInv, OneJobPerFile, NEW s \in Source
  PROVE  /\ CountIn(queue, JobsOf(s)) \in Nat
         /\ Cardinality(BuiltFrom(pool, s)) \in Nat
         /\ CountIn(stack, CallsOf(s)) \in Nat
         /\ CountIn(queue, JobsOf(s)) + Cardinality(BuiltFrom(pool, s))
              + CountIn(stack, CallsOf(s)) <= 1
         /\ Cardinality(BuiltFrom(pool, s)) = 0
              => \A w \in Built(pool) : SourceOf[pool[w].layer] # s
         /\ CountIn(stack, CallsOf(s)) = 0
              => \A i \in DOMAIN stack : stack[i] \notin CallsOf(s)
         /\ queue # <<>> /\ Head(queue) \in JobsOf(s) => CountIn(queue, JobsOf(s)) = 1
         /\ stack # <<>> /\ Top \in CallsOf(s) => CountIn(stack, CallsOf(s)) = 1
         /\ \A w \in Built(pool) :
              SourceOf[pool[w].layer] = s => Cardinality(BuiltFrom(pool, s)) = 1
<1>1. /\ queue \in Seq(Job) /\ stack \in Seq(Call)
      /\ CountIn(queue, JobsOf(s)) \in Nat /\ CountIn(stack, CallsOf(s)) \in Nat
      /\ Cardinality(BuiltFrom(pool, s)) \in Nat
  BY BooksTypes, BuildsCounted
<1>2. CountIn(queue, JobsOf(s)) + Cardinality(BuiltFrom(pool, s))
        + CountIn(stack, CallsOf(s)) <= 1
  BY DEF OneJobPerFile, Holders
<1>3. /\ Cardinality(BuiltFrom(pool, s)) <= 1
      /\ CountIn(queue, JobsOf(s)) <= 1
      /\ CountIn(stack, CallsOf(s)) <= 1
  BY <1>1, <1>2
<1>4. Cardinality(BuiltFrom(pool, s)) = 0
        => \A w \in Built(pool) : SourceOf[pool[w].layer] # s
  BY BuildsCounted DEF BuiltFrom
<1>5. CountIn(stack, CallsOf(s)) = 0 => \A i \in DOMAIN stack : stack[i] \notin CallsOf(s)
  BY <1>1, CountInType
<1>6. ASSUME queue # <<>>, Head(queue) \in JobsOf(s) PROVE CountIn(queue, JobsOf(s)) = 1
  <2>1. 1 \in DOMAIN queue /\ Head(queue) = queue[1]
    BY <1>1, <1>6, LenProperties, EmptySeq
  <2>2. CountIn(queue, JobsOf(s)) = 0 => \A i \in DOMAIN queue : queue[i] \notin JobsOf(s)
    BY <1>1, CountInType
  <2>3. CountIn(queue, JobsOf(s)) # 0
    BY <1>6, <2>1, <2>2
  <2> QED BY <1>1, <1>3, <2>3
<1>7. ASSUME stack # <<>>, Top \in CallsOf(s) PROVE CountIn(stack, CallsOf(s)) = 1
  <2>1. 1 \in DOMAIN stack /\ Top = stack[1]
    BY <1>1, <1>7, LenProperties, EmptySeq DEF Top
  <2>2. CountIn(stack, CallsOf(s)) # 0
    BY <1>5, <1>7, <2>1
  <2> QED BY <1>1, <1>3, <2>2
<1>8. ASSUME NEW w \in Built(pool), SourceOf[pool[w].layer] = s
      PROVE  Cardinality(BuiltFrom(pool, s)) = 1
  BY <1>1, <1>3, <1>4, <1>8
<1> QED BY <1>1, <1>2, <1>4, <1>5, <1>6, <1>7, <1>8

\* A change of one layer's entry in the map changes what is owed by failures of
\* that layer only.
LEMMA OwingElsewhere ==
  ASSUME NEW s \in Seq(Call), NEW jobs, NEW newJobs, NEW k \in Layer,
         \A l \in Layer : l # k => newJobs[l] = jobs[l],
         \A i \in DOMAIN s : s[i] \notin CallsOf(SourceOf[k])
  PROVE  CountIn(s, Owing(newJobs)) = CountIn(s, Owing(jobs))
<1> SUFFICES ASSUME NEW i \in DOMAIN s
             PROVE  s[i] \in Owing(newJobs) <=> s[i] \in Owing(jobs)
  BY CountSame
<1>1. s[i] \in Call
  BY LenProperties
<1>2. s[i].call = "failed" => s[i].key # k
  BY <1>1 DEF CallsOf
<1> QED BY <1>2 DEF Owing

\* The recovery asks for one layer after the other.
LEMMA HealBooks ==
  ASSUME PipelineInv, PipelineInv', BooksInv, NEW k \in Layer, HealNext(k)
  PROVE  BooksInv'
<1>0. /\ queue \in Seq(Job) /\ stack \in Seq(Call)
      /\ \A S : CountIn(queue, S) \in Nat /\ CountIn(stack, S) \in Nat
      /\ accepted \in Int /\ summary \in Summary /\ Total(summary) \in Nat
      /\ Len(queue) \in Nat
      /\ \A w \in Built(pool) : pool[w].layer \in Layer
  BY BooksTypes
<1>1. /\ OneJobPerFile
      /\ StackFit /\ QueueFit /\ BuildsFit /\ ServiceFit
      /\ NoScans /\ NotOpened
      /\ Slots /\ Awaited /\ Tracks /\ Ledger
  BY DEF BooksInv
<1> DEFINE job == RebuildJob(k)
           rest == Top.todo \ {k}
           go   == DispatchCall
           heal == HealCall(rest)
<1>2. /\ AcceptJobs(<<job>>, {})
      /\ stack # <<>> /\ Top.call = "heal" /\ k \in Top.todo
      /\ stack' = <<DispatchCall, HealCall(rest)>> \o Tail(stack)
      /\ UNCHANGED <<layerState, pool, scanQueue, scanTokens, project>>
  BY DEF HealNext, In, serviceVars
<1>3. Top \in Call /\ Top \in FitIn(layerState) /\ Tail(stack) = <<>>
  BY <1>0, <1>1, <1>2, ShapeTail, TopCall DEF StackFit, Top, PipelineInv
<1>4. Top.todo \in SUBSET Layer /\ rest \in SUBSET Layer
  BY <1>2, TopCall DEF PipelineInv
<1>5. /\ go \in Call /\ heal \in Call
      /\ go.call = "dispatch"
      /\ heal.call = "heal" /\ heal.todo = rest
  BY <1>4, CallType, CallFields DEF go, heal
<1> HIDE DEF go, heal
<1>6. stack' = <<go, heal>>
  <2>1. <<go, heal>> \in Seq(Call)
    BY <1>5, TwoCalls
  <2>2. \A q \in Seq(Call) : q \o <<>> = q
    BY ConcatEmptySeq
  <2>3. stack' = <<go, heal>> \o <<>>
    BY <1>2, <1>3 DEF go, heal
  <2> QED BY <2>1, <2>2, <2>3
<1>7. /\ \A l \in Top.todo : layerState[l] # "none"
      /\ \A i, j \in Top.todo : SourceOf[i] = SourceOf[j] => i = j
  BY <1>2, <1>3 DEF FitIn
<1>8. go \in FitIn(layerState) /\ heal \in FitIn(layerState)
  BY <1>5, <1>7 DEF FitIn
<1>9. /\ ShapeOf(stack', layerState)
      /\ Head(stack') = go
      /\ \A S : CountIn(stack', S) = (IF go \in S THEN 1 ELSE 0)
                                      + (IF heal \in S THEN 1 ELSE 0)
  BY <1>5, <1>6, <1>8, TwoCalls
<1>10. \A S : CountIn(stack, S) = IF Top \in S THEN 1 ELSE 0
  <2> SUFFICES ASSUME NEW S PROVE CountIn(stack, S) = IF Top \in S THEN 1 ELSE 0
    OBVIOUS
  <2>1. CountIn(Tail(stack), S) = CountIn(stack, S) - (IF Head(stack) \in S THEN 1 ELSE 0)
    BY <1>0, <1>2, CountTail
  <2>2. CountIn(Tail(stack), S) = 0
    BY <1>3, CountNone
  <2> QED BY <1>0, <2>1, <2>2 DEF Top
<1>11. /\ \A s : go \notin CallsOf(s)
       /\ go \notin SlotHolders /\ go \notin ToCount
       /\ \A js : go \notin Owing(js)
       /\ \A l : go \notin About(l)
  BY <1>5, CallMembers
<1>12. /\ heal \notin SlotHolders /\ heal \notin ToCount
       /\ \A js : heal \notin Owing(js)
       /\ \A l : heal \notin About(l)
       /\ \A s : heal \in CallsOf(s) <=> \E l \in rest : SourceOf[l] = s
  BY <1>5, CallMembers
<1>13. /\ Top \notin SlotHolders /\ Top \notin ToCount
       /\ \A js : Top \notin Owing(js)
       /\ \A l : Top \notin About(l)
       /\ \A s : Top \in CallsOf(s) <=> \E l \in Top.todo : SourceOf[l] = s
  BY <1>2, <1>3, CallMembers
<1>14. /\ CountIn(stack', SlotHolders) = CountIn(stack, SlotHolders)
       /\ \A js : CountIn(stack', Owing(js)) = CountIn(stack, Owing(js))
       /\ \A l : CountIn(stack', About(l)) = CountIn(stack, About(l))
       /\ CountIn(stack', ToCount) = CountIn(stack, ToCount)
  BY <1>9, <1>10, <1>11, <1>12, <1>13
<1>15. /\ job \in Job /\ job.kind = "rebuild" /\ job.layer = k /\ job.source = SourceOf[k]
       /\ <<job>> \in Seq(Job) /\ Len(<<job>>) = 1
  BY JobFields
<1>16. /\ queue' = queue \o <<job>>
       /\ summary' = [summary EXCEPT !.reused = @ + Cardinality({})]
       /\ accepted' = accepted + Len(<<job>>) + Cardinality({})
       /\ \A l \in Layer : signal'[l] = signal[l]
       /\ UNCHANGED <<activeCount, awaiting, activeJobs, epoch, activeJobEpoch>>
  <2>1. \A l \in Layer : signal'[l] = signal[l]
    BY <1>2 DEF AcceptJobs
  <2> QED BY <1>2, <2>1 DEF AcceptJobs
<1>17. OneJobPerFile'
  <2> SUFFICES ASSUME NEW s \in Source PROVE Holders(s)' <= 1
    BY DEF OneJobPerFile
  <2>1. CountIn(queue', JobsOf(s)) = CountIn(queue, JobsOf(s))
                                       + (IF SourceOf[k] = s THEN 1 ELSE 0)
    <3>1. CountIn(queue \o <<job>>, JobsOf(s))
            = CountIn(queue, JobsOf(s)) + CountIn(<<job>>, JobsOf(s))
      BY <1>0, <1>15, CountConcat
    <3>2. CountIn(<<job>>, JobsOf(s)) = IF job \in JobsOf(s) THEN 1 ELSE 0
      BY CountOne
    <3>3. job \in JobsOf(s) <=> SourceOf[k] = s
      BY <1>15 DEF JobsOf
    <3> QED BY <1>16, <3>1, <3>2, <3>3
  <2>2. CountIn(stack', CallsOf(s)) + (IF SourceOf[k] = s THEN 1 ELSE 0)
          <= CountIn(stack, CallsOf(s))
    <3>1. CASE SourceOf[k] = s
      <4>1. Top \in CallsOf(s) /\ heal \notin CallsOf(s)
        BY <1>2, <1>7, <1>12, <1>13, <3>1
      <4>2. CountIn(stack, CallsOf(s)) = 1 /\ CountIn(stack', CallsOf(s)) = 0
        BY <1>9, <1>10, <1>11, <4>1
      <4> QED BY <3>1, <4>2
    <3>2. CASE SourceOf[k] # s
      <4>1. heal \in CallsOf(s) => Top \in CallsOf(s)
        BY <1>12, <1>13
      <4> QED BY <1>9, <1>10, <1>11, <3>2, <4>1
    <3> QED BY <3>1, <3>2
  <2>3. Holders(s) <= 1
    BY <1>1 DEF OneJobPerFile
  <2>4. /\ Cardinality(BuiltFrom(pool, s)) \in Nat
        /\ CountIn(queue, JobsOf(s)) \in Nat /\ CountIn(stack, CallsOf(s)) \in Nat
        /\ CountIn(stack', CallsOf(s)) \in Nat
    BY <1>0, BuildsCounted, CountInType DEF PipelineInv, LoopTypeOK
  <2>5. Holders(s)' = CountIn(queue', JobsOf(s)) + Cardinality(BuiltFrom(pool, s))
                        + CountIn(stack', CallsOf(s))
    BY <1>2 DEF Holders
  <2> QED BY <2>1, <2>2, <2>3, <2>4, <2>5 DEF Holders
<1>18. QueueFit'
  <2>1. FitQueue(<<job>>, layerState)
    BY <1>2, <1>7, <1>15 DEF FitQueue
  <2> QED BY <1>0, <1>1, <1>2, <1>15, <1>16, <2>1, FitQueues DEF QueueFit
<1>19. StackFit' /\ ServiceFit'
  BY <1>2, <1>5, <1>9 DEF StackFit, ServiceFit, In, Top
<1>20. BuildsFit'
  BY <1>0, <1>1, <1>2, <1>16 DEF BuildsFit, Built
<1>21. NoScans' /\ NotOpened'
  <2>1. project # "none"
    <3>1. CountIn(stack, CallsOf(SourceOf[k])) = 1
      BY <1>2, <1>10, <1>13
    <3>2. SourceOf[k] \in Source
      BY LayerAssumption
    <3> QED BY <1>1, <3>1, <3>2 DEF NotOpened
  <2> QED BY <1>1, <1>2, <2>1 DEF NoScans, NotOpened, Scans, Tasks
<1>22. Slots' /\ Awaited'
  BY <1>1, <1>2, <1>14, <1>16 DEF Slots, Awaited
<1>23. Tracks'
  BY <1>1, <1>2, <1>14, <1>16 DEF Tracks, Built
<1>24. Ledger'
  <2>1. Cardinality({}) = 0
    BY FS_EmptySet
  <2>2. Total(summary') = Total(summary) /\ accepted' = accepted + 1
    <3>1. Total([summary EXCEPT !.reused = @ + 0]) = Total(summary) + 0
      BY <1>0, TotalGrows
    <3> QED BY <1>0, <1>15, <1>16, <2>1, <3>1
  <2>3. Len(queue') = Len(queue) + 1
    BY <1>0, <1>15, <1>16, ConcatProperties
  <2>4. /\ Cardinality(BuiltIn(pool, epoch)) \in Nat
        /\ CountIn(stack, ToCount) \in Nat
    BY <1>0, BuildsCounted
  <2>5. accepted = Total(summary) + Len(queue) + Cardinality(BuiltIn(pool, epoch))
                     + CountIn(stack, ToCount)
    BY <1>1 DEF Ledger
  <2>6. accepted' = Total(summary') + Len(queue') + Cardinality(BuiltIn(pool, epoch))
                      + CountIn(stack, ToCount)
    BY <1>0, <2>2, <2>3, <2>4, <2>5
  <2> QED BY <1>2, <1>14, <1>16, <2>6 DEF Ledger
<1> QED BY <1>17, <1>18, <1>19, <1>20, <1>21, <1>22, <1>23, <1>24 DEF BooksInv

-----------------------------------------------------------------------------
(* Jobs leave the queue.                                                   *)

\* Below a call that is not the service's there is no call of the service.
LEMMA NoService ==
  ASSUME NEW s \in Seq(Call), NEW st, ShapeOf(s, st),
         s = <<>> \/ Head(s).call # "service"
  PROVE  \A i \in DOMAIN s : s[i].call # "service"
<1> SUFFICES ASSUME NEW i \in DOMAIN s, s[i].call = "service" PROVE FALSE
  OBVIOUS
<1>1. i = 1
  BY DEF ShapeOf
<1>2. Head(s) = s[1] /\ s # <<>>
  BY <1>1, EmptySeq
<1> QED BY <1>1, <1>2

\* A call made over such a stack: its counts, its shape and its top.
LEMMA CallMade ==
  ASSUME NEW s \in Seq(Call), NEW st, ShapeOf(s, st), NEW c \in FitIn(st),
         s = <<>> \/ Head(s).call # "service",
         c.call \notin {"confirm", "heal"}
  PROVE  /\ ShapeOf(<<c>> \o s, st)
         /\ <<c>> \o s # <<>> /\ Head(<<c>> \o s) = c
         /\ \A S : CountIn(<<c>> \o s, S) = CountIn(s, S) + (IF c \in S THEN 1 ELSE 0)
<1>1. c \in Call
  BY DEF FitIn
<1>2. ShapeOf(<<c>> \o s, st)
  BY NoService, ShapePush
<1>3. <<c>> \o s # <<>> /\ Head(<<c>> \o s) = c
  BY <1>1, PushTop
<1> QED BY <1>1, <1>2, <1>3, CountPush

\* A call that ends: the counts, the shape and the top of what is left.
LEMMA CallEnded ==
  ASSUME NEW s \in Seq(Call), s # <<>>, NEW st, ShapeOf(s, st)
  PROVE  /\ Head(s) \in Call /\ Head(s) \in FitIn(st)
         /\ Tail(s) \in Seq(Call) /\ ShapeOf(Tail(s), st)
         /\ Tail(s) = <<>> \/ Head(Tail(s)).call # "service"
         /\ \A S : CountIn(Tail(s), S) = CountIn(s, S) - (IF Head(s) \in S THEN 1 ELSE 0)
<1>1. Head(s) \in Call /\ Tail(s) \in Seq(Call)
  BY HeadTailProperties
<1>2. Head(s) \in FitIn(st) /\ ShapeOf(Tail(s), st)
  BY ShapeTail
<1>3. Tail(s) = <<>> \/ Head(Tail(s)).call # "service"
  BY TailTop
<1> QED BY <1>1, <1>2, <1>3, CountTail

\* A call that ends in another one.
LEMMA CallReplaced ==
  ASSUME NEW s \in Seq(Call), s # <<>>, NEW st, ShapeOf(s, st), NEW c \in FitIn(st),
         c.call \notin {"confirm", "heal"}
  PROVE  /\ ShapeOf(<<c>> \o Tail(s), st)
         /\ <<c>> \o Tail(s) # <<>> /\ Head(<<c>> \o Tail(s)) = c
         /\ \A S : CountIn(<<c>> \o Tail(s), S) =
                   CountIn(s, S) - (IF Head(s) \in S THEN 1 ELSE 0) + (IF c \in S THEN 1 ELSE 0)
<1> DEFINE t == Tail(s)
<1>1. /\ t \in Seq(Call) /\ ShapeOf(t, st)
      /\ t = <<>> \/ Head(t).call # "service"
      /\ \A S : CountIn(t, S) = CountIn(s, S) - (IF Head(s) \in S THEN 1 ELSE 0)
  BY CallEnded
<1> HIDE DEF t
<1>2. /\ ShapeOf(<<c>> \o t, st)
      /\ <<c>> \o t # <<>> /\ Head(<<c>> \o t) = c
      /\ \A S : CountIn(<<c>> \o t, S) = CountIn(t, S) + (IF c \in S THEN 1 ELSE 0)
  BY <1>1, CallMade
<1> QED BY <1>1, <1>2 DEF t

\* A queue loses its head: what it counts, and how long it is.
LEMMA QueuePops ==
  ASSUME NEW q \in Seq(Job), q # <<>>
  PROVE  /\ Head(q) \in Job /\ Tail(q) \in Seq(Job)
         /\ Len(q) \in Nat /\ Len(Tail(q)) = Len(q) - 1
         /\ \A s : CountIn(Tail(q), JobsOf(s)) =
                   CountIn(q, JobsOf(s)) - (IF Head(q).source = s THEN 1 ELSE 0)
<1>1. /\ Head(q) \in Job /\ Tail(q) \in Seq(Job)
      /\ Len(q) \in Nat /\ Len(Tail(q)) = Len(q) - 1
  BY HeadTailProperties, LenProperties
<1>2. \A s : Head(q) \in JobsOf(s) <=> Head(q).source = s
  BY <1>1 DEF JobsOf
<1>3. \A S : CountIn(Tail(q), S) = CountIn(q, S) - (IF Head(q) \in S THEN 1 ELSE 0)
  BY CountTail
<1> QED BY <1>1, <1>2, <1>3

\* The head of the queue has lost its file: the failure's box opens.
LEMMA MissingBooks ==
  ASSUME PipelineInv, PipelineInv', BooksInv, DispatchMissing
  PROVE  BooksInv'
<1>0. /\ queue \in Seq(Job) /\ stack \in Seq(Call)
      /\ \A S : CountIn(queue, S) \in Nat /\ CountIn(stack, S) \in Nat
      /\ accepted \in Int /\ Total(summary) \in Nat
      /\ signal \in [Layer -> Signals]
      /\ \A w \in Built(pool) : pool[w].layer \in Layer
  BY BooksTypes
<1>1. /\ OneJobPerFile
      /\ StackFit /\ QueueFit /\ BuildsFit /\ ServiceFit
      /\ NoScans /\ NotOpened
      /\ Slots /\ Awaited /\ Tracks /\ Ledger
  BY DEF BooksInv
<1> DEFINE box == MissingBox
<1>2. /\ queue # <<>> /\ queue' = Tail(queue)
      /\ signal' = [signal EXCEPT ![Head(queue).layer] = "failed"]
      /\ stack # <<>> /\ Top.call = "dispatch" /\ stack' = <<box>> \o stack
      /\ UNCHANGED <<activeCount, awaiting, activeJobs, epoch, activeJobEpoch, summary,
                     accepted>>
      /\ UNCHANGED <<layerState, pool, scanQueue, scanTokens, project>>
  BY DEF DispatchMissing, CanDispatch, WarnMissing, In, Push, serviceVars
<1>3. box \in Call /\ box.call = "missing"
  BY CallType, CallFields
<1> HIDE DEF box
<1>4. /\ ShapeOf(stack', layerState)
      /\ stack' # <<>> /\ Head(stack') = box
      /\ \A S : CountIn(stack', S) = CountIn(stack, S) + (IF box \in S THEN 1 ELSE 0)
  <2>1. box \in FitIn(layerState)
    BY <1>3 DEF FitIn
  <2> QED BY <1>0, <1>1, <1>2, <1>3, <2>1, CallMade DEF StackFit, Top
<1>5. /\ \A s : CountIn(stack', CallsOf(s)) = CountIn(stack, CallsOf(s))
      /\ CountIn(stack', SlotHolders) = CountIn(stack, SlotHolders)
      /\ \A js : CountIn(stack', Owing(js)) = CountIn(stack, Owing(js))
      /\ \A l : CountIn(stack', About(l)) = CountIn(stack, About(l))
      /\ CountIn(stack', ToCount) = CountIn(stack, ToCount) + 1
  <2>1. /\ \A s : box \notin CallsOf(s)
        /\ box \notin SlotHolders /\ box \in ToCount
        /\ \A js : box \notin Owing(js)
        /\ \A l : box \notin About(l)
    BY <1>3, CallMembers
  <2> QED BY <1>0, <1>4, <2>1
<1>6. /\ Len(queue) \in Nat /\ Len(queue') = Len(queue) - 1
      /\ \A s : CountIn(queue', JobsOf(s)) <= CountIn(queue, JobsOf(s))
      /\ queue' \in Seq(Job)
  <2>1. \A s : CountIn(queue', JobsOf(s)) =
               CountIn(queue, JobsOf(s)) - (IF Head(queue).source = s THEN 1 ELSE 0)
    BY <1>0, <1>2, QueuePops
  <2>2. /\ Len(queue) \in Nat /\ Len(queue') = Len(queue) - 1
        /\ queue' \in Seq(Job)
    BY <1>0, <1>2, QueuePops
  <2> QED BY <1>0, <2>1, <2>2
<1>7. OneJobPerFile'
  <2> SUFFICES ASSUME NEW s \in Source PROVE Holders(s)' <= 1
    BY DEF OneJobPerFile
  <2>1. /\ CountIn(queue, JobsOf(s)) \in Nat /\ CountIn(stack, CallsOf(s)) \in Nat
        /\ Cardinality(BuiltFrom(pool, s)) \in Nat
        /\ CountIn(queue', JobsOf(s)) \in Nat
    BY <1>0, <1>6, CountInType, BuildsCounted
  <2>2. Holders(s) <= 1
    BY <1>1 DEF OneJobPerFile
  <2>3. Holders(s)' = CountIn(queue', JobsOf(s)) + Cardinality(BuiltFrom(pool, s))
                        + CountIn(stack, CallsOf(s))
    BY <1>2, <1>5 DEF Holders
  <2>4. CountIn(queue', JobsOf(s)) <= CountIn(queue, JobsOf(s))
    BY <1>6
  <2> QED BY <2>1, <2>2, <2>3, <2>4 DEF Holders
<1>8. StackFit' /\ QueueFit'
  BY <1>0, <1>1, <1>2, <1>4, FitQueues DEF StackFit, QueueFit
<1>9. BuildsFit'
  BY <1>0, <1>1, <1>2 DEF BuildsFit, Built
<1>10. ServiceFit'
  BY <1>3, <1>4 DEF ServiceFit, In, Top
<1>11. NoScans' /\ NotOpened'
  BY <1>1, <1>2 DEF NoScans, NotOpened, Scans, Tasks
<1>12. Slots' /\ Awaited'
  BY <1>1, <1>2, <1>5 DEF Slots, Awaited
<1>13. Tracks'
  BY <1>1, <1>2, <1>5 DEF Tracks, Built
<1>14. Ledger'
  <2>1. Cardinality(BuiltIn(pool, epoch)) \in Nat /\ CountIn(stack, ToCount) \in Nat
    BY <1>0, BuildsCounted
  <2>2. accepted = Total(summary) + Len(queue) + Cardinality(BuiltIn(pool, epoch))
                     + CountIn(stack, ToCount)
    BY <1>1 DEF Ledger
  <2>3. accepted = Total(summary) + Len(queue') + Cardinality(BuiltIn(pool, epoch))
                     + CountIn(stack', ToCount)
    BY <1>0, <1>5, <1>6, <2>1, <2>2
  <2> QED BY <1>2, <2>3 DEF Ledger
<1> QED BY <1>7, <1>8, <1>9, <1>10, <1>11, <1>12, <1>13, <1>14 DEF BooksInv

\* The box closes and the failure is counted.
LEMMA DismissBooks ==
  ASSUME PipelineInv, PipelineInv', BooksInv, DismissMissing
  PROVE  BooksInv'
<1>0. /\ queue \in Seq(Job) /\ stack \in Seq(Call)
      /\ \A S : CountIn(queue, S) \in Nat /\ CountIn(stack, S) \in Nat
      /\ accepted \in Int /\ summary \in Summary /\ Total(summary) \in Nat
      /\ Len(queue) \in Nat
      /\ \A w \in Built(pool) : pool[w].layer \in Layer
  BY BooksTypes
<1>1. /\ OneJobPerFile
      /\ StackFit /\ QueueFit /\ BuildsFit /\ ServiceFit
      /\ NoScans /\ NotOpened
      /\ Slots /\ Awaited /\ Tracks /\ Ledger
  BY DEF BooksInv
<1>2. /\ stack # <<>> /\ Top.call = "missing" /\ stack' = Tail(stack)
      /\ summary' = [summary EXCEPT !.failed = @ + 1]
      /\ UNCHANGED <<queue, activeCount, awaiting, activeJobs, epoch, activeJobEpoch,
                     signal, accepted>>
      /\ UNCHANGED <<layerState, pool, scanQueue, scanTokens, project>>
  BY DEF DismissMissing, CountMissing, In, Return, serviceVars
<1>3. /\ Top \in Call
      /\ ShapeOf(stack', layerState)
      /\ stack' = <<>> \/ Head(stack').call # "service"
      /\ \A S : CountIn(stack', S) = CountIn(stack, S) - (IF Top \in S THEN 1 ELSE 0)
  BY <1>0, <1>1, <1>2, CallEnded DEF StackFit, Top
<1>4. /\ \A s : CountIn(stack', CallsOf(s)) = CountIn(stack, CallsOf(s))
      /\ CountIn(stack', SlotHolders) = CountIn(stack, SlotHolders)
      /\ \A js : CountIn(stack', Owing(js)) = CountIn(stack, Owing(js))
      /\ \A l : CountIn(stack', About(l)) = CountIn(stack, About(l))
      /\ CountIn(stack', ToCount) = CountIn(stack, ToCount) - 1
  <2>1. /\ \A s : Top \notin CallsOf(s)
        /\ Top \notin SlotHolders /\ Top \in ToCount
        /\ \A js : Top \notin Owing(js)
        /\ \A l : Top \notin About(l)
    BY <1>2, <1>3, CallMembers
  <2> QED BY <1>0, <1>3, <2>1
<1>5. OneJobPerFile'
  BY <1>1, <1>2, <1>4 DEF OneJobPerFile, Holders
<1>6. StackFit' /\ QueueFit' /\ BuildsFit'
  BY <1>0, <1>1, <1>2, <1>3 DEF StackFit, QueueFit, BuildsFit, Built
<1>7. ServiceFit'
  BY <1>3 DEF ServiceFit, In, Top
<1>8. NoScans' /\ NotOpened'
  BY <1>1, <1>2, <1>4 DEF NoScans, NotOpened, Scans, Tasks
<1>9. Slots' /\ Awaited'
  BY <1>1, <1>2, <1>4 DEF Slots, Awaited
<1>10. Tracks'
  BY <1>1, <1>2, <1>4 DEF Tracks, Built
<1>11. Ledger'
  <2>1. Cardinality(BuiltIn(pool, epoch)) \in Nat /\ CountIn(stack, ToCount) \in Nat
    BY <1>0, BuildsCounted
  <2>2. accepted = Total(summary) + Len(queue) + Cardinality(BuiltIn(pool, epoch))
                     + CountIn(stack, ToCount)
    BY <1>1 DEF Ledger
  <2>3. Total(summary') = Total(summary) + 1
    BY <1>0, <1>2, TotalGrows
  <2>4. accepted = Total(summary') + Len(queue) + Cardinality(BuiltIn(pool, epoch))
                     + CountIn(stack', ToCount)
    BY <1>0, <1>4, <2>1, <2>2, <2>3
  <2> QED BY <1>2, <2>4 DEF Ledger
<1> QED BY <1>5, <1>6, <1>7, <1>8, <1>9, <1>10, <1>11 DEF BooksInv

\* The head of the queue takes a slot and goes to the service.
LEMMA DispatchBooks ==
  ASSUME PipelineInv, PipelineInv', BooksInv, DispatchJob
  PROVE  BooksInv'
<1>0. /\ queue \in Seq(Job) /\ stack \in Seq(Call)
      /\ \A S : CountIn(queue, S) \in Nat /\ CountIn(stack, S) \in Nat
      /\ activeCount \in Int /\ awaiting \in Nat
      /\ accepted \in Int /\ Total(summary) \in Nat
      /\ activeJobs \in [Layer -> ActiveJob]
      /\ \A w \in Built(pool) : pool[w].layer \in Layer
  BY BooksTypes
<1>1. /\ OneJobPerFile
      /\ StackFit /\ QueueFit /\ BuildsFit /\ ServiceFit
      /\ NoScans /\ NotOpened
      /\ Slots /\ Awaited /\ Tracks /\ Ledger
  BY DEF BooksInv
<1> DEFINE job == Head(queue)
           call == ServiceCall(job)
<1>2. /\ queue # <<>> /\ activeCount < Cap
      /\ queue' = Tail(queue)
      /\ activeCount' = activeCount + 1 /\ awaiting' = awaiting + 1
      /\ activeJobEpoch' = epoch
      /\ activeJobs' = IF job.kind = "rebuild"
                       THEN [activeJobs EXCEPT ![job.layer] =
                               [kind |-> "rebuild", started |-> FALSE, epoch |-> epoch]]
                       ELSE activeJobs
      /\ UNCHANGED <<epoch, summary, signal, accepted>>
      /\ stack # <<>> /\ Top.call = "dispatch" /\ stack' = <<call>> \o stack
      /\ UNCHANGED <<layerState, pool, scanQueue, scanTokens, project>>
  BY DEF DispatchJob, CanDispatch, ClaimSlot, In, Push, serviceVars
<1>3. /\ job \in Job /\ call \in Call /\ call.call = "service" /\ call.job = job
      /\ job.kind = "rebuild" => layerState[job.layer] # "none"
  <2>1. job \in Job
    BY <1>0, <1>2, QueuePops
  <2>2. job.kind = "rebuild" => layerState[job.layer] # "none"
    BY <1>0, <1>1, <1>2, FitQueues DEF QueueFit
  <2> QED BY <2>1, <2>2, CallType, CallFields
<1>4. /\ job.kind \in {"import", "rebuild"} /\ job.source \in Source
      /\ job.kind = "import" => job.layer \notin Layer
      /\ job.kind = "rebuild" => job.layer \in Layer /\ SourceOf[job.layer] = job.source
  BY <1>3, JobFields, LayerAssumption
<1>5. /\ Len(queue) \in Nat /\ Len(queue') = Len(queue) - 1
      /\ \A s : CountIn(queue', JobsOf(s)) =
                CountIn(queue, JobsOf(s)) - (IF job.source = s THEN 1 ELSE 0)
  BY <1>0, <1>2, QueuePops
<1>6. /\ \A w \in Built(pool) : SourceOf[pool[w].layer] # job.source
      /\ \A i \in DOMAIN stack : stack[i] \notin CallsOf(job.source)
  <2>1. CountIn(queue, JobsOf(job.source)) = 1
    BY <1>1, <1>2, <1>3, <1>4, OnePlace DEF JobsOf
  <2>2. /\ Cardinality(BuiltFrom(pool, job.source)) \in Nat
        /\ CountIn(stack, CallsOf(job.source)) \in Nat
        /\ CountIn(queue, JobsOf(job.source)) + Cardinality(BuiltFrom(pool, job.source))
              + CountIn(stack, CallsOf(job.source)) <= 1
    BY <1>1, <1>4, OnePlace
  <2>3. /\ Cardinality(BuiltFrom(pool, job.source)) = 0
        /\ CountIn(stack, CallsOf(job.source)) = 0
    BY <2>1, <2>2
  <2> QED BY <1>1, <1>4, <2>3, OnePlace
<1> HIDE DEF call, job
<1>7. /\ ShapeOf(stack', layerState)
      /\ stack' # <<>> /\ Head(stack') = call
      /\ \A S : CountIn(stack', S) = CountIn(stack, S) + (IF call \in S THEN 1 ELSE 0)
  <2>1. call \in FitIn(layerState)
    BY <1>3 DEF FitIn
  <2> QED BY <1>0, <1>1, <1>2, <1>3, <2>1, CallMade DEF StackFit, Top
<1>8. /\ \A s : CountIn(stack', CallsOf(s)) = CountIn(stack, CallsOf(s))
                                              + (IF job.source = s THEN 1 ELSE 0)
      /\ CountIn(stack', SlotHolders) = CountIn(stack, SlotHolders) + 1
      /\ \A js : CountIn(stack', Owing(js)) = CountIn(stack, Owing(js)) + 1
      /\ \A l : CountIn(stack', About(l)) = CountIn(stack, About(l))
                                            + (IF job.layer = l THEN 1 ELSE 0)
      /\ CountIn(stack', ToCount) = CountIn(stack, ToCount) + 1
  <2>1. /\ \A s : call \in CallsOf(s) <=> job.source = s
        /\ call \in SlotHolders /\ call \in ToCount
        /\ \A js : call \in Owing(js)
        /\ \A l : call \in About(l) <=> job.layer = l
    BY <1>3, CallMembers
  <2> QED BY <1>7, <2>1
<1>9. CountIn(stack, Owing(activeJobs')) = CountIn(stack, Owing(activeJobs))
  <2>1. CASE job.kind = "rebuild"
    <3>1. \A l \in Layer : l # job.layer => activeJobs'[l] = activeJobs[l]
      BY <1>0, <1>2, <2>1
    <3> QED BY <1>0, <1>4, <1>6, <2>1, <3>1, OwingElsewhere
  <2>2. CASE job.kind # "rebuild"
    BY <1>2, <2>2
  <2> QED BY <2>1, <2>2
<1>10. /\ \A l \in Layer : activeJobs'[l].kind # "none"
                            <=> activeJobs[l].kind # "none" \/ job.layer = l
       /\ \A w \in Built(pool) : activeJobs'[pool[w].layer] = activeJobs[pool[w].layer]
       /\ job.kind = "rebuild" => /\ activeJobs'[job.layer].epoch = epoch
                                  /\ ~activeJobs'[job.layer].started
  <2>1. CASE job.kind = "rebuild"
    BY <1>0, <1>2, <1>4, <1>6, <2>1
  <2>2. CASE job.kind # "rebuild"
    BY <1>2, <1>4, <2>2
  <2> QED BY <2>1, <2>2
<1>11. OneJobPerFile'
  <2> SUFFICES ASSUME NEW s \in Source PROVE Holders(s)' <= 1
    BY DEF OneJobPerFile
  <2>1. /\ CountIn(queue, JobsOf(s)) \in Nat /\ CountIn(stack, CallsOf(s)) \in Nat
        /\ Cardinality(BuiltFrom(pool, s)) \in Nat
    BY <1>0, BuildsCounted
  <2>2. Holders(s) <= 1
    BY <1>1 DEF OneJobPerFile
  <2>3. Holders(s)' = CountIn(queue', JobsOf(s)) + Cardinality(BuiltFrom(pool, s))
                        + CountIn(stack', CallsOf(s))
    BY <1>2 DEF Holders
  <2>4. /\ CountIn(queue', JobsOf(s)) =
             CountIn(queue, JobsOf(s)) - (IF job.source = s THEN 1 ELSE 0)
        /\ CountIn(stack', CallsOf(s)) =
             CountIn(stack, CallsOf(s)) + (IF job.source = s THEN 1 ELSE 0)
    BY <1>5, <1>8 DEF job
  <2> QED BY <2>1, <2>2, <2>3, <2>4 DEF Holders
<1>12. StackFit' /\ QueueFit'
  BY <1>0, <1>1, <1>2, <1>7, FitQueues DEF StackFit, QueueFit
<1>13. BuildsFit'
  BY <1>0, <1>1, <1>2, <1>10 DEF BuildsFit
<1>14. ServiceFit'
  BY <1>2, <1>3, <1>7, <1>10 DEF ServiceFit, In, Top
<1>15. NoScans' /\ NotOpened'
  BY <1>1, <1>2 DEF NoScans, NotOpened, Scans, Tasks
<1>16. Slots'
  <2>1. Cardinality(Built(pool)) \in Nat /\ CountIn(stack, SlotHolders) \in Nat /\ Cap \in Nat
    BY <1>0, BuildsCounted, CapAssumption
  <2>2. activeCount = Cardinality(Built(pool)) + CountIn(stack, SlotHolders)
    BY <1>1 DEF Slots
  <2>3. activeCount' = Cardinality(Built(pool)) + CountIn(stack', SlotHolders)
    BY <1>2, <1>8, <2>1, <2>2
  <2>4. activeCount' <= Cap
    BY <1>0, <1>2, <2>1
  <2> QED BY <1>2, <2>3, <2>4 DEF Slots
<1>17. Awaited'
  <2>1. CountIn(stack', Owing(activeJobs')) = CountIn(stack, Owing(activeJobs)) + 1
    BY <1>8, <1>9
  <2> QED BY <1>1, <1>2, <2>1 DEF Awaited
<1>18. Tracks'
  <2> SUFFICES ASSUME NEW l \in Layer
               PROVE  activeJobs'[l].kind # "none" <=>
                        (\E w \in Built(pool) : pool[w].layer = l)
                          \/ CountIn(stack', About(l)) > 0
    BY <1>2 DEF Tracks
  <2>1. CountIn(stack, About(l)) \in Nat
    BY <1>0
  <2>2. CountIn(stack', About(l)) > 0 <=> CountIn(stack, About(l)) > 0 \/ job.layer = l
    BY <1>8, <2>1
  <2> QED BY <1>1, <1>10, <2>2 DEF Tracks
<1>19. Ledger'
  <2>1. Cardinality(BuiltIn(pool, epoch)) \in Nat /\ CountIn(stack, ToCount) \in Nat
    BY <1>0, BuildsCounted
  <2>2. accepted = Total(summary) + Len(queue) + Cardinality(BuiltIn(pool, epoch))
                     + CountIn(stack, ToCount)
    BY <1>1 DEF Ledger
  <2>3. accepted = Total(summary) + Len(queue') + Cardinality(BuiltIn(pool, epoch))
                     + CountIn(stack', ToCount)
    BY <1>0, <1>5, <1>8, <2>1, <2>2
  <2> QED BY <1>2, <2>3 DEF Ledger
<1> QED BY <1>11, <1>12, <1>13, <1>14, <1>15, <1>16, <1>17, <1>18, <1>19 DEF BooksInv

-----------------------------------------------------------------------------
(* The service answers.                                                    *)

\* A call about a layer is a call of the layer's file.
LEMMA AboutIsOf == \A l \in Layer : About(l) \subseteq CallsOf(SourceOf[l])
<1> SUFFICES ASSUME NEW l \in Layer, NEW c \in About(l) PROVE c \in CallsOf(SourceOf[l])
  OBVIOUS
<1>1. c \in Call
  BY DEF About
<1>2. c.call = "service" => c.job \in Job
  BY <1>1 DEF Call, DispatchCall, ServiceCall, MissingBox, FailedCall, ConfirmBox,
              HealCall, PumpCall, ScannedCall
<1>3. c.call = "service" /\ c.job.layer = l => c.job.source = SourceOf[l]
  BY <1>2, JobFields, LayerAssumption
<1> QED BY <1>1, <1>3 DEF About, CallsOf

\* The job the service is called with: it was dispatched last, nothing else of
\* its file is anywhere, and its entry in the map, if it has one, did not start.
LEMMA ServiceTop ==
  ASSUME PipelineInv, BooksInv, In("service")
  PROVE  /\ stack # <<>> /\ Top \in Call /\ Top.call = "service" /\ Top.job \in Job
         /\ activeJobEpoch = epoch
         /\ Top.job.kind = "rebuild" => /\ Top.job.layer \in Layer
                                        /\ SourceOf[Top.job.layer] = Top.job.source
                                        /\ layerState[Top.job.layer] # "none"
                                        /\ activeJobs[Top.job.layer].kind # "none"
                                        /\ activeJobs[Top.job.layer].epoch = epoch
                                        /\ ~activeJobs[Top.job.layer].started
         /\ Top.job.kind # "rebuild" => /\ Top.job.kind = "import"
                                        /\ Top.job.layer = NoLayer
                                        /\ Top.job.layer \notin Layer
         /\ \A s : Top \in CallsOf(s) <=> Top.job.source = s
         /\ Top \in SlotHolders /\ Top \in ToCount
         /\ \A js : Top \in Owing(js)
         /\ \A l : Top \in About(l) <=> Top.job.layer = l
         /\ \A w \in Built(pool) : SourceOf[pool[w].layer] # Top.job.source
         /\ \A i \in DOMAIN Tail(stack) : Tail(stack)[i] \notin CallsOf(Top.job.source)
         /\ project # "none"
<1>1. /\ stack # <<>> /\ Top.call = "service"
      /\ LoopTypeOK /\ stack \in Seq(Call) /\ Tail(stack) \in Seq(Call)
      /\ \A S : CountIn(stack, S) \in Nat
  BY BooksTypes, HeadTailProperties DEF In, PipelineInv
<1>2. /\ OneJobPerFile
      /\ StackFit /\ ServiceFit /\ NotOpened /\ Tracks
  BY DEF BooksInv
<1>3. Top \in Call /\ Top.job \in Job /\ Top \in FitIn(layerState)
  BY <1>1, <1>2, TopCall, ShapeTail DEF StackFit, Top
<1> DEFINE job == Top.job
<1>4. /\ \A s : Top \in CallsOf(s) <=> job.source = s
      /\ Top \in SlotHolders /\ Top \in ToCount
      /\ \A js : Top \in Owing(js)
      /\ \A l : Top \in About(l) <=> job.layer = l
  BY <1>1, <1>3, CallMembers
<1>5. /\ job.kind \in {"import", "rebuild"} /\ job.source \in Source
      /\ job.kind = "import" => job.layer = NoLayer
      /\ job.kind = "rebuild" => job.layer \in Layer /\ job.source = SourceOf[job.layer]
      /\ NoLayer \notin Layer
  BY <1>3, JobFields, LayerAssumption
<1>6. /\ activeJobEpoch = epoch
      /\ job.kind = "rebuild" => /\ activeJobs[job.layer].epoch = epoch
                                 /\ ~activeJobs[job.layer].started
                                 /\ layerState[job.layer] # "none"
  BY <1>1, <1>2, <1>3 DEF ServiceFit, FitIn
<1>7. \A S : CountIn(Tail(stack), S) = CountIn(stack, S) - (IF Top \in S THEN 1 ELSE 0)
  BY <1>1, CountTail DEF Top
<1>8. job.kind = "rebuild" => activeJobs[job.layer].kind # "none"
  <2> SUFFICES ASSUME job.kind = "rebuild" PROVE activeJobs[job.layer].kind # "none"
    OBVIOUS
  <2>1. CountIn(Tail(stack), About(job.layer)) = CountIn(stack, About(job.layer)) - 1
    BY <1>4, <1>7
  <2>2. CountIn(Tail(stack), About(job.layer)) \in Nat /\ CountIn(stack, About(job.layer)) \in Nat
    BY <1>1, CountInType
  <2>3. CountIn(stack, About(job.layer)) > 0
    BY <2>1, <2>2
  <2> QED BY <1>2, <1>5, <2>3 DEF Tracks
<1>9. CountIn(stack, CallsOf(job.source)) = 1
  BY <1>1, <1>2, <1>4, <1>5, OnePlace
<1>10. \A w \in Built(pool) : SourceOf[pool[w].layer] # job.source
  <2>1. /\ Cardinality(BuiltFrom(pool, job.source)) \in Nat
        /\ CountIn(queue, JobsOf(job.source)) \in Nat
        /\ CountIn(queue, JobsOf(job.source)) + Cardinality(BuiltFrom(pool, job.source))
              + CountIn(stack, CallsOf(job.source)) <= 1
    BY <1>2, <1>5, OnePlace
  <2>2. Cardinality(BuiltFrom(pool, job.source)) = 0
    BY <1>9, <2>1
  <2> QED BY <1>2, <1>5, <2>2, OnePlace
<1>11. \A i \in DOMAIN Tail(stack) : Tail(stack)[i] \notin CallsOf(job.source)
  <2>1. CountIn(Tail(stack), CallsOf(job.source)) = 0
    BY <1>4, <1>7, <1>9
  <2> QED BY <1>1, <2>1, CountInType
<1>12. project # "none"
  BY <1>2, <1>5, <1>9 DEF NotOpened
<1> QED BY <1>1, <1>3, <1>4, <1>5, <1>6, <1>8, <1>10, <1>11, <1>12

\* The service refuses the job: the call becomes the call of its failure.
LEMMA RefusedBooks ==
  ASSUME PipelineInv, PipelineInv', BooksInv, ImportRefused \/ ReindexRefused
  PROVE  BooksInv'
<1>0. /\ queue \in Seq(Job) /\ stack \in Seq(Call)
      /\ \A S : CountIn(queue, S) \in Nat /\ CountIn(stack, S) \in Nat
      /\ activeJobs \in [Layer -> ActiveJob]
      /\ signal \in [Layer -> Signals]
      /\ \A w \in Built(pool) : pool[w].layer \in Layer
  BY BooksTypes
<1>1. /\ OneJobPerFile
      /\ StackFit /\ QueueFit /\ BuildsFit /\ ServiceFit
      /\ NoScans /\ NotOpened
      /\ Slots /\ Awaited /\ Tracks /\ Ledger
  BY DEF BooksInv
<1>2. In("service")
  BY DEF ImportRefused, ReindexRefused
<1> DEFINE job == Top.job
           key == job.layer
           call == FailedCall(key, TRUE)
<1>3. /\ stack # <<>> /\ Top \in Call /\ job \in Job
      /\ activeJobEpoch = epoch
      /\ job.kind = "rebuild" => /\ key \in Layer
                                 /\ SourceOf[key] = job.source
                                 /\ layerState[key] # "none"
                                 /\ activeJobs[key].epoch = epoch
                                 /\ ~activeJobs[key].started
      /\ job.kind # "rebuild" => key = NoLayer /\ key \notin Layer
      /\ \A s : Top \in CallsOf(s) <=> job.source = s
      /\ Top \in SlotHolders /\ Top \in ToCount
      /\ \A js : Top \in Owing(js)
      /\ \A l : Top \in About(l) <=> key = l
  BY <1>2, ServiceTop
<1>4. FailureLive(key)
  BY <1>3 DEF FailureLive, Tracked
<1>5. FailWith(key)
  BY <1>3 DEF ImportRefused, ReindexRefused
<1>6. /\ stack' = <<call>> \o Tail(stack)
      /\ \A l \in Layer : signal'[l] = signal[l] \/ signal'[l] # "started"
      /\ UNCHANGED <<queue, activeCount, awaiting, activeJobs, epoch, activeJobEpoch,
                     summary, accepted>>
  <2>1. FailureLive(key) = TRUE
    BY <1>4 DEF FailureLive
  <2>2. stack' = <<call>> \o Tail(stack)
    BY <1>5, <2>1 DEF FailWith, Become
  <2>3. \A l \in Layer : signal'[l] = signal[l] \/ signal'[l] # "started"
    BY <1>0, <1>5 DEF FailWith, AnnounceFailure
  <2> QED BY <1>5, <2>2, <2>3 DEF FailWith, AnnounceFailure
<1>7. UNCHANGED <<layerState, pool, scanQueue, scanTokens, project>>
  BY DEF ImportRefused, ReindexRefused, serviceVars
<1>8. /\ call \in Call /\ call.call = "failed" /\ call.key = key /\ call.live = TRUE
  <2>1. key \in Layer \cup {NoLayer}
    BY <1>3
  <2> HIDE DEF key
  <2>2. \A k \in Layer \cup {NoLayer} : FailedCall(k, TRUE) \in Call
    BY CallType
  <2>3. \A k : LET c == FailedCall(k, TRUE) IN c.call = "failed" /\ c.key = k /\ c.live = TRUE
    BY DEF FailedCall
  <2> QED BY <2>1, <2>2, <2>3
<1>9. /\ \A s : call \in CallsOf(s) <=> key \in Layer /\ SourceOf[key] = s
      /\ call \in SlotHolders /\ call \in ToCount
      /\ call \in Owing(activeJobs)
      /\ \A l : call \in About(l) <=> key = l
  <2>1. /\ \A s : call \in CallsOf(s) <=> call.key \in Layer /\ SourceOf[call.key] = s
        /\ call \in SlotHolders
        /\ call \in ToCount <=> call.live
        /\ \A js : call \in Owing(js) <=>
             (call.key \in Layer /\ js[call.key].kind # "none" => ~js[call.key].started)
        /\ \A l : call \in About(l) <=> call.key = l
    BY <1>8, CallMembers
  <2> QED BY <1>3, <1>8, <2>1
<1>10. call \in FitIn(layerState)
  BY <1>3, <1>8 DEF FitIn
<1> HIDE DEF call
<1>11. /\ ShapeOf(stack', layerState)
       /\ stack' # <<>> /\ Head(stack') = call
       /\ \A S : CountIn(stack', S) = CountIn(stack, S) - (IF Top \in S THEN 1 ELSE 0)
                                       + (IF call \in S THEN 1 ELSE 0)
  BY <1>0, <1>1, <1>3, <1>6, <1>8, <1>10, CallReplaced DEF StackFit, Top
<1> HIDE DEF key, job
<1>12. /\ \A s : CountIn(stack', CallsOf(s)) <= CountIn(stack, CallsOf(s))
       /\ CountIn(stack', SlotHolders) = CountIn(stack, SlotHolders)
       /\ CountIn(stack', Owing(activeJobs)) = CountIn(stack, Owing(activeJobs))
       /\ \A l : CountIn(stack', About(l)) = CountIn(stack, About(l))
       /\ CountIn(stack', ToCount) = CountIn(stack, ToCount)
  <2>1. \A s : call \in CallsOf(s) => Top \in CallsOf(s)
    BY <1>3, <1>9
  <2>2. \A l : call \in About(l) <=> Top \in About(l)
    BY <1>3, <1>9
  <2>3. \A s : CountIn(stack', CallsOf(s)) <= CountIn(stack, CallsOf(s))
    BY <1>0, <1>11, <2>1
  <2>4. \A l : CountIn(stack', About(l)) = CountIn(stack, About(l))
    BY <1>0, <1>11, <2>2
  <2> QED BY <1>0, <1>3, <1>9, <1>11, <2>3, <2>4
<1>13. OneJobPerFile'
  <2> SUFFICES ASSUME NEW s \in Source PROVE Holders(s)' <= 1
    BY DEF OneJobPerFile
  <2>1. /\ CountIn(queue, JobsOf(s)) \in Nat /\ CountIn(stack, CallsOf(s)) \in Nat
        /\ Cardinality(BuiltFrom(pool, s)) \in Nat
        /\ CountIn(stack', CallsOf(s)) \in Nat
    BY <1>0, BuildsCounted, CountInType DEF PipelineInv, LoopTypeOK
  <2>2. Holders(s) <= 1
    BY <1>1 DEF OneJobPerFile
  <2>3. Holders(s)' = CountIn(queue, JobsOf(s)) + Cardinality(BuiltFrom(pool, s))
                        + CountIn(stack', CallsOf(s))
    BY <1>6, <1>7 DEF Holders
  <2>4. CountIn(stack', CallsOf(s)) <= CountIn(stack, CallsOf(s))
    BY <1>12
  <2> QED BY <2>1, <2>2, <2>3, <2>4 DEF Holders
<1>14. StackFit' /\ QueueFit'
  BY <1>1, <1>6, <1>7, <1>11 DEF StackFit, QueueFit
<1>15. BuildsFit'
  BY <1>0, <1>1, <1>6, <1>7 DEF BuildsFit
<1>16. ServiceFit'
  BY <1>8, <1>11 DEF ServiceFit, In, Top
<1>17. NoScans' /\ NotOpened'
  <2>1. project # "none"
    BY <1>2, ServiceTop
  <2> QED BY <1>1, <1>7, <2>1 DEF NoScans, NotOpened, Scans, Tasks
<1>18. Slots' /\ Awaited'
  BY <1>1, <1>6, <1>7, <1>12 DEF Slots, Awaited
<1>19. Tracks'
  BY <1>1, <1>6, <1>7, <1>12 DEF Tracks, Built
<1>20. Ledger'
  BY <1>1, <1>6, <1>7, <1>12 DEF Ledger
<1> QED BY <1>13, <1>14, <1>15, <1>16, <1>17, <1>18, <1>19, <1>20 DEF BooksInv

\* A build takes an idle thread, and is one of the layer and the epoch it was
\* started with.
LEMMA BuildTakes ==
  ASSUME ServiceTypeOK, NEW kind \in {"import", "reindex"}, NEW l \in Layer, NEW e \in Nat,
         StartBuild(kind, l, e), Scans = {}
  PROVE  /\ \E w \in Worker : /\ w \notin Built(pool) /\ w \in Built(pool')
                            /\ pool'[w].layer = l /\ pool'[w].epoch = e
                            /\ \A v \in Worker : v # w => pool'[v] = pool[v]
         /\ Scans' = {}
         /\ UNCHANGED <<scanQueue, scanTokens>>
<1> DEFINE task == NewTask(kind, l, e)
<1>1. /\ task \in Task /\ task.kind = kind /\ task.layer = l
      /\ task.epoch = e
  BY NewTaskType DEF NewTask
<1>2. Launch(task) /\ UNCHANGED <<scanQueue, scanTokens>>
  BY DEF StartBuild
<1> HIDE DEF task
<1>3. PICK w \in Worker : /\ pool[w] = IdleTask
                          /\ pool' = [pool EXCEPT ![w] = task]
                          /\ pool' \in [Worker -> Task \cup {IdleTask}]
  BY <1>1, <1>2, LaunchTakesIdle
<1>4. /\ pool'[w] = task
      /\ \A v \in Worker : v # w => pool'[v] = pool[v]
  BY <1>3 DEF ServiceTypeOK
<1>5. w \notin Built(pool) /\ w \in Built(pool')
  BY <1>1, <1>3, <1>4 DEF Built, IdleTask
<1>6. Scans' = {}
  BY <1>1, <1>4 DEF Scans, Tasks
<1> QED BY <1>1, <1>2, <1>4, <1>5, <1>6

\* The service starts the job: its build takes the slot over from the call, and
\* the map has it as one that started.
LEMMA StartBooks ==
  ASSUME PipelineInv, PipelineInv', BooksInv, In("service"),
         NEW kind \in {"import", "reindex"}, NEW l \in Layer, StartBuild(kind, l, epoch),
         SourceOf[l] = Top.job.source,
         Top.job.kind = "rebuild" => l = Top.job.layer,
         Top.job.kind = "import" => layerState[l] = "none",
         \A k \in Layer : layerState[k] # "none" => layerState'[k] # "none",
         layerState'[l] # "none",
         OnIndexingStarted(l), stack' = Tail(stack), UNCHANGED project
  PROVE  BooksInv'
<1>0. /\ queue \in Seq(Job) /\ stack \in Seq(Call)
      /\ \A S : CountIn(queue, S) \in Nat /\ CountIn(stack, S) \in Nat
      /\ activeCount \in Int /\ awaiting \in Nat /\ epoch \in Nat
      /\ accepted \in Int /\ Total(summary) \in Nat /\ Len(queue) \in Nat
      /\ activeJobs \in [Layer -> ActiveJob]
      /\ signal \in [Layer -> Signals]
      /\ \A w \in Built(pool) : pool[w].layer \in Layer
      /\ ServiceTypeOK
  BY BooksTypes
<1>1. /\ OneJobPerFile
      /\ StackFit /\ QueueFit /\ BuildsFit /\ ServiceFit
      /\ NoScans /\ NotOpened
      /\ Slots /\ Awaited /\ Tracks /\ Ledger
  BY DEF BooksInv
<1> DEFINE job == Top.job
<1>2. /\ stack # <<>> /\ Top \in Call /\ job \in Job
      /\ activeJobEpoch = epoch
      /\ job.kind = "rebuild" => /\ activeJobs[l].kind # "none"
                                 /\ activeJobs[l].epoch = epoch
      /\ job.kind # "rebuild" => /\ job.kind = "import" /\ job.layer \notin Layer
      /\ \A s : Top \in CallsOf(s) <=> job.source = s
      /\ Top \in SlotHolders /\ Top \in ToCount
      /\ \A js : Top \in Owing(js)
      /\ \A k : Top \in About(k) <=> job.layer = k
      /\ \A w \in Built(pool) : SourceOf[pool[w].layer] # job.source
      /\ \A i \in DOMAIN Tail(stack) : Tail(stack)[i] \notin CallsOf(job.source)
      /\ project # "none"
  BY ServiceTop
<1> HIDE DEF job
<1>3. /\ stack' \in Seq(Call)
      /\ ShapeOf(stack', layerState)
      /\ stack' = <<>> \/ Head(stack').call # "service"
      /\ \A S : CountIn(stack', S) = CountIn(stack, S) - (IF Top \in S THEN 1 ELSE 0)
  BY <1>0, <1>1, <1>2, CallEnded DEF StackFit, Top
<1>4. /\ \A s : CountIn(stack', CallsOf(s)) = CountIn(stack, CallsOf(s))
                                              - (IF job.source = s THEN 1 ELSE 0)
      /\ CountIn(stack', SlotHolders) = CountIn(stack, SlotHolders) - 1
      /\ \A js : CountIn(stack', Owing(js)) = CountIn(stack, Owing(js)) - 1
      /\ \A k : CountIn(stack', About(k)) = CountIn(stack, About(k))
                                            - (IF job.layer = k THEN 1 ELSE 0)
      /\ CountIn(stack', ToCount) = CountIn(stack, ToCount) - 1
  BY <1>2, <1>3
<1>5. /\ \A S : CountIn(stack', S) \in Nat
      /\ \A i \in DOMAIN stack' : stack'[i] \notin CallsOf(SourceOf[l])
  BY <1>2, <1>3, CountInType DEF job
<1>6. PICK w \in Worker : /\ w \notin Built(pool) /\ w \in Built(pool')
                          /\ pool'[w].layer = l /\ pool'[w].epoch = epoch
                          /\ \A v \in Worker : v # w => pool'[v] = pool[v]
  BY <1>0, <1>1, BuildTakes DEF NoScans
<1>7. Scans' = {} /\ UNCHANGED <<scanQueue, scanTokens>>
  BY <1>0, <1>1, BuildTakes DEF NoScans
<1>8. /\ Built(pool') = Built(pool) \cup {w}
      /\ Cardinality(Built(pool')) = Cardinality(Built(pool)) + 1
      /\ \A s : Cardinality(BuiltFrom(pool', s)) = Cardinality(BuiltFrom(pool, s))
                                                    + (IF SourceOf[l] = s THEN 1 ELSE 0)
      /\ \A e : Cardinality(BuiltIn(pool', e)) = Cardinality(BuiltIn(pool, e))
                                                  + (IF epoch = e THEN 1 ELSE 0)
  <2>1. /\ Built(pool') = Built(pool) \cup {w}
        /\ Cardinality(Built(pool')) = Cardinality(Built(pool)) + 1
        /\ \A s : Cardinality(BuiltFrom(pool', s)) =
                    Cardinality(BuiltFrom(pool, s))
                      + (IF SourceOf[pool'[w].layer] = s THEN 1 ELSE 0)
        /\ \A e : Cardinality(BuiltIn(pool', e)) =
                    Cardinality(BuiltIn(pool, e)) + (IF pool'[w].epoch = e THEN 1 ELSE 0)
    BY <1>6, BuildAdded
  <2> QED BY <1>6, <2>1
<1>9. \A v \in Built(pool) : v # w /\ pool'[v] = pool[v] /\ pool[v].layer # l
  BY <1>2, <1>6 DEF Built, job
<1>10. activeJobs[l].kind = "none" => job.kind = "import"
  BY <1>2
<1>11. activeJobs[l].kind # "none" => activeJobs[l].epoch = epoch
  <2>1. CASE job.kind = "rebuild"
    BY <1>2, <2>1
  <2>2. CASE job.kind # "rebuild"
    <3>1. layerState[l] = "none"
      BY <1>2, <2>2 DEF job
    <3>2. ~\E v \in Built(pool) : pool[v].layer = l
      BY <1>9
    <3>3. CountIn(stack, About(l)) = CountIn(stack', About(l))
      BY <1>0, <1>2, <1>4, <2>2
    <3>4. CountIn(stack', About(l)) = 0
      <4>1. \A i \in DOMAIN stack' : stack'[i] \notin About(l)
        BY <1>5, AboutIsOf
      <4> QED BY <1>3, <4>1, CountInType
    <3> QED BY <1>1, <3>2, <3>3, <3>4 DEF Tracks
  <2> QED BY <2>1, <2>2
<1>12. /\ awaiting' = awaiting - 1
       /\ signal' = [signal EXCEPT ![l] = "started"]
       /\ activeJobs' \in [Layer -> ActiveJob]
       /\ activeJobs'[l].kind # "none" /\ activeJobs'[l].started
       /\ activeJobs'[l].epoch = epoch
       /\ \A k \in Layer : k # l => activeJobs'[k] = activeJobs[k]
       /\ UNCHANGED <<queue, activeCount, epoch, activeJobEpoch, summary, accepted>>
  <2> DEFINE entry == IF Tracked(l)
                      THEN [activeJobs[l] EXCEPT !.started = TRUE]
                      ELSE [kind |-> "import", started |-> TRUE, epoch |-> activeJobEpoch]
  <2>1. entry.kind # "none" /\ entry.started /\ entry.epoch = epoch
    <3>1. CASE Tracked(l)
      <4>1. activeJobs[l] \in ActiveJob /\ activeJobs[l].kind # "none"
        BY <1>0, <3>1 DEF Tracked
      <4> QED BY <1>11, <3>1, <4>1 DEF ActiveJob
    <3>2. CASE ~Tracked(l)
      BY <1>2, <3>2
    <3> QED BY <3>1, <3>2
  <2>2. /\ awaiting' = IF awaiting > 0 THEN awaiting - 1 ELSE awaiting
        /\ activeJobs' = [activeJobs EXCEPT ![l] = entry]
        /\ signal' = IF entry.epoch = epoch THEN [signal EXCEPT ![l] = "started"] ELSE signal
        /\ UNCHANGED <<queue, activeCount, epoch, activeJobEpoch, summary, accepted>>
    BY DEF OnIndexingStarted
  <2> HIDE DEF entry
  <2>3. awaiting > 0
    <3>1. CountIn(stack', Owing(activeJobs)) = CountIn(stack, Owing(activeJobs)) - 1
      BY <1>4
    <3>2. CountIn(stack', Owing(activeJobs)) \in Nat
      BY <1>5
    <3>3. awaiting = CountIn(stack, Owing(activeJobs))
      BY <1>1 DEF Awaited
    <3> QED BY <1>0, <3>1, <3>2, <3>3
  <2>4. activeJobs' \in [Layer -> ActiveJob]
    BY DEF PipelineInv, ManagerTypeOK
  <2>5. activeJobs'[l] = entry /\ \A k \in Layer : k # l => activeJobs'[k] = activeJobs[k]
    BY <1>0, <2>2
  <2> QED BY <2>1, <2>2, <2>3, <2>4, <2>5
<1>13. OneJobPerFile'
  <2> SUFFICES ASSUME NEW s \in Source PROVE Holders(s)' <= 1
    BY DEF OneJobPerFile
  <2>1. /\ CountIn(queue, JobsOf(s)) \in Nat /\ CountIn(stack, CallsOf(s)) \in Nat
        /\ Cardinality(BuiltFrom(pool, s)) \in Nat
    BY <1>0, BuildsCounted
  <2>2. Holders(s) <= 1
    BY <1>1 DEF OneJobPerFile
  <2>3. Holders(s)' = CountIn(queue, JobsOf(s)) + Cardinality(BuiltFrom(pool', s))
                        + CountIn(stack', CallsOf(s))
    BY <1>12 DEF Holders
  <2>4. /\ Cardinality(BuiltFrom(pool', s)) = Cardinality(BuiltFrom(pool, s))
                                                + (IF SourceOf[l] = s THEN 1 ELSE 0)
        /\ CountIn(stack', CallsOf(s)) = CountIn(stack, CallsOf(s))
                                           - (IF SourceOf[l] = s THEN 1 ELSE 0)
    BY <1>4, <1>8 DEF job
  <2> QED BY <2>1, <2>2, <2>3, <2>4 DEF Holders
<1>14. StackFit' /\ QueueFit'
  <2>1. ShapeOf(stack', layerState')
    BY <1>3, ShapeGrows
  <2>2. FitQueue(queue, layerState')
    BY <1>0, <1>1, FitQueues DEF QueueFit
  <2> QED BY <1>12, <2>1, <2>2 DEF StackFit, QueueFit
<1>15. BuildsFit'
  <2> SUFFICES ASSUME NEW v \in Built(pool')
               PROVE  /\ layerState'[pool'[v].layer] # "none"
                      /\ pool'[v].epoch <= epoch
                      /\ activeJobs'[pool'[v].layer].started
                      /\ activeJobs'[pool'[v].layer].epoch = pool'[v].epoch
                      /\ pool'[v].epoch # epoch => signal'[pool'[v].layer] # "started"
    BY <1>12 DEF BuildsFit
  <2>1. CASE v = w
    BY <1>0, <1>6, <1>12, <2>1
  <2>2. CASE v # w
    <3>1. v \in Built(pool)
      BY <1>8, <2>2
    <3>2. /\ pool'[v] = pool[v] /\ pool[v].layer # l /\ pool[v].layer \in Layer
      BY <1>0, <1>9, <3>1
    <3>3. /\ activeJobs'[pool[v].layer] = activeJobs[pool[v].layer]
          /\ signal'[pool[v].layer] = signal[pool[v].layer]
          /\ layerState[pool[v].layer] # "none" => layerState'[pool[v].layer] # "none"
      BY <1>0, <1>12, <3>2
    <3> QED BY <1>1, <3>1, <3>2, <3>3 DEF BuildsFit
  <2> QED BY <2>1, <2>2
<1>16. ServiceFit'
  BY <1>3 DEF ServiceFit, In, Top
<1>17. NoScans' /\ NotOpened'
  BY <1>1, <1>2, <1>7 DEF NoScans, NotOpened
<1>18. Slots'
  <2>1. Cardinality(Built(pool)) \in Nat /\ CountIn(stack, SlotHolders) \in Nat
    BY <1>0, BuildsCounted
  <2>2. activeCount = Cardinality(Built(pool)) + CountIn(stack, SlotHolders)
    BY <1>1 DEF Slots
  <2>3. activeCount = Cardinality(Built(pool')) + CountIn(stack', SlotHolders)
    BY <1>4, <1>8, <2>1, <2>2
  <2> QED BY <1>1, <1>12, <2>3 DEF Slots
<1>19. Awaited'
  <2>1. CountIn(stack', Owing(activeJobs')) = CountIn(stack', Owing(activeJobs))
    <3>1. PICK t \in Seq(Call) : t = stack'
      BY <1>3
    <3>2. PICK js, new : js = activeJobs /\ new = activeJobs'
      OBVIOUS
    <3>3. \A i \in DOMAIN t : t[i] \notin CallsOf(SourceOf[l])
      BY <1>5, <3>1
    <3>4. \A k \in Layer : k # l => new[k] = js[k]
      BY <1>12, <3>2
    <3>5. CountIn(t, Owing(new)) = CountIn(t, Owing(js))
      BY <3>3, <3>4, OwingElsewhere
    <3> QED BY <3>1, <3>2, <3>5
  <2>2. CountIn(stack', Owing(activeJobs)) = CountIn(stack, Owing(activeJobs)) - 1
    BY <1>4
  <2> QED BY <1>1, <1>12, <2>1, <2>2 DEF Awaited
<1>20. Tracks'
  <2> SUFFICES ASSUME NEW k \in Layer
               PROVE  activeJobs'[k].kind # "none" <=>
                        (\E v \in Built(pool') : pool'[v].layer = k)
                          \/ CountIn(stack', About(k)) > 0
    BY DEF Tracks
  <2>1. CASE k = l
    BY <1>6, <1>12, <2>1
  <2>2. CASE k # l
    <3>1. activeJobs'[k] = activeJobs[k]
      BY <1>12, <2>2
    <3>2. (\E v \in Built(pool') : pool'[v].layer = k)
            <=> (\E v \in Built(pool) : pool[v].layer = k)
      BY <1>6, <1>8, <1>9, <2>2
    <3>3. job.layer # k
      BY <1>2, <2>2 DEF job
    <3>4. CountIn(stack', About(k)) = CountIn(stack, About(k))
      BY <1>0, <1>4, <3>3
    <3> QED BY <1>1, <3>1, <3>2, <3>4 DEF Tracks
  <2> QED BY <2>1, <2>2
<1>21. Ledger'
  <2>1. Cardinality(BuiltIn(pool, epoch)) \in Nat /\ CountIn(stack, ToCount) \in Nat
    BY <1>0, BuildsCounted
  <2>2. accepted = Total(summary) + Len(queue) + Cardinality(BuiltIn(pool, epoch))
                     + CountIn(stack, ToCount)
    BY <1>1 DEF Ledger
  <2>3. /\ Cardinality(BuiltIn(pool', epoch)) = Cardinality(BuiltIn(pool, epoch)) + 1
        /\ CountIn(stack', ToCount) = CountIn(stack, ToCount) - 1
    BY <1>4, <1>8
  <2>4. accepted = Total(summary) + Len(queue) + Cardinality(BuiltIn(pool', epoch))
                     + CountIn(stack', ToCount)
    BY <1>0, <2>1, <2>2, <2>3
  <2> QED BY <1>12, <2>4 DEF Ledger
<1> QED BY <1>13, <1>14, <1>15, <1>16, <1>17, <1>18, <1>19, <1>20, <1>21 DEF BooksInv

\* importFile and reindexLayer start their jobs so.
LEMMA StartedBooks ==
  ASSUME PipelineInv, PipelineInv', BooksInv,
         (\E l \in Layer : ImportStarts(l)) \/ ReindexStarts
  PROVE  BooksInv'
<1>0. ServiceTypeOK /\ epoch \in Nat /\ scanTokens = {}
  BY BooksTypes DEF BooksInv, NoScans
<1>1. ASSUME NEW l \in Layer, ImportStarts(l) PROVE BooksInv'
  <2>1. /\ In("service") /\ Top.job.kind = "import" /\ SourceOf[l] = Top.job.source
        /\ StartImport(l, epoch) /\ OnIndexingStarted(l)
        /\ stack' = Tail(stack) /\ UNCHANGED project
    BY <1>1 DEF ImportStarts, Return
  <2>2. /\ StartBuild("import", l, epoch) /\ layerState[l] = "none"
        /\ layerState' = [layerState EXCEPT ![l] = "Indexing"]
    BY <2>1 DEF StartImport, Indexing
  <2>3. layerState'[l] # "none" /\ \A k \in Layer : layerState[k] # "none" => layerState'[k] # "none"
    BY <1>0, <2>2 DEF ServiceTypeOK
  <2> QED BY <2>1, <2>2, <2>3, StartBooks
<1>2. CASE ReindexStarts
  <2> DEFINE l == Top.job.layer
  <2>1. /\ In("service") /\ Top.job.kind = "rebuild"
        /\ StartReindex(l, epoch) /\ OnIndexingStarted(l)
        /\ stack' = Tail(stack) /\ UNCHANGED project
    BY <1>0, <1>2 DEF ReindexStarts, Return
  <2>2. l \in Layer /\ SourceOf[l] = Top.job.source
    BY <2>1, ServiceTop
  <2>3. StartBuild("reindex", l, epoch) /\ Present(l)
    BY <2>1 DEF StartReindex
  <2>4. \A k \in Layer : layerState[k] # "none" => layerState'[k] # "none"
    <3>1. ServiceStep
      BY <1>0, <2>1, <2>2 DEF ServiceStep
    <3> QED BY <1>0, <3>1, LayersStay
  <2>5. layerState'[l] # "none"
    BY <2>2, <2>3, <2>4 DEF Present
  <2> QED BY <2>1, <2>2, <2>3, <2>4, <2>5, StartBooks
<1> QED BY <1>1, <1>2

-----------------------------------------------------------------------------
(* Failures and completions.                                               *)

\* A failure is settled: its slot comes back, with the start it still owes and
\* its entry in the map.
LEMMA SettledBooks ==
  ASSUME PipelineInv, PipelineInv', BooksInv, FailureSettles
  PROVE  BooksInv'
<1>0. /\ queue \in Seq(Job) /\ stack \in Seq(Call)
      /\ \A S : CountIn(queue, S) \in Nat /\ CountIn(stack, S) \in Nat
      /\ activeCount \in Int /\ awaiting \in Nat /\ epoch \in Nat
      /\ accepted \in Int /\ summary \in Summary /\ Total(summary) \in Nat
      /\ Len(queue) \in Nat
      /\ activeJobs \in [Layer -> ActiveJob]
      /\ \A w \in Built(pool) : pool[w].layer \in Layer
  BY BooksTypes
<1>1. /\ OneJobPerFile
      /\ StackFit /\ QueueFit /\ BuildsFit /\ ServiceFit
      /\ NoScans /\ NotOpened
      /\ Slots /\ Awaited /\ Tracks /\ Ledger
  BY DEF BooksInv
<1> DEFINE key == Top.key
<1>2. /\ stack # <<>> /\ Top.call = "failed" /\ stack' = Tail(stack)
      /\ SettleFailure(key, Top.live)
      /\ UNCHANGED <<layerState, pool, scanQueue, scanTokens, project>>
  BY DEF FailureSettles, In, Return, serviceVars
<1>3. /\ Top \in Call /\ key \in Layer \cup {NoLayer} /\ Top.live \in BOOLEAN
      /\ NoLayer \notin Layer
  BY <1>2, TopCall, LayerAssumption DEF PipelineInv
<1>4. /\ stack' \in Seq(Call)
      /\ ShapeOf(stack', layerState)
      /\ stack' = <<>> \/ Head(stack').call # "service"
      /\ \A S : CountIn(stack', S) = CountIn(stack, S) - (IF Top \in S THEN 1 ELSE 0)
      /\ \A S : CountIn(stack', S) \in Nat
  <2>1. /\ stack' \in Seq(Call)
        /\ ShapeOf(stack', layerState)
        /\ stack' = <<>> \/ Head(stack').call # "service"
        /\ \A S : CountIn(stack', S) = CountIn(stack, S) - (IF Top \in S THEN 1 ELSE 0)
    BY <1>0, <1>1, <1>2, CallEnded DEF StackFit, Top
  <2> QED BY <2>1, CountInType
<1>5. /\ \A s : Top \in CallsOf(s) <=> key \in Layer /\ SourceOf[key] = s
      /\ Top \in SlotHolders
      /\ Top \in ToCount <=> Top.live
      /\ \A js : Top \in Owing(js) <=>
                  (key \in Layer /\ js[key].kind # "none" => ~js[key].started)
      /\ \A l : Top \in About(l) <=> key = l
  BY <1>2, <1>3, CallMembers
<1> HIDE DEF key
<1>6. /\ \A s : CountIn(stack', CallsOf(s)) <= CountIn(stack, CallsOf(s))
      /\ CountIn(stack', SlotHolders) = CountIn(stack, SlotHolders) - 1
      /\ CountIn(stack', Owing(activeJobs)) =
           CountIn(stack, Owing(activeJobs)) - (IF Top \in Owing(activeJobs) THEN 1 ELSE 0)
      /\ \A l : CountIn(stack', About(l)) = CountIn(stack, About(l))
                                            - (IF key = l THEN 1 ELSE 0)
      /\ CountIn(stack', ToCount) = CountIn(stack, ToCount) - (IF Top.live THEN 1 ELSE 0)
  <2>1. \A s : CountIn(stack', CallsOf(s)) <= CountIn(stack, CallsOf(s))
    BY <1>0, <1>4
  <2> QED BY <1>4, <1>5, <2>1
<1>7. key \in Layer => activeJobs[key].kind # "none"
  <2> SUFFICES ASSUME key \in Layer PROVE activeJobs[key].kind # "none"
    OBVIOUS
  <2>1. CountIn(stack', About(key)) = CountIn(stack, About(key)) - 1
    BY <1>6
  <2>2. CountIn(stack', About(key)) \in Nat /\ CountIn(stack, About(key)) \in Nat
    BY <1>0, <1>4
  <2>3. CountIn(stack, About(key)) > 0
    BY <2>1, <2>2
  <2> QED BY <1>1, <2>3 DEF Tracks
<1>8. ASSUME key \in Layer
      PROVE  /\ \A w \in Built(pool) : pool[w].layer # key
             /\ \A i \in DOMAIN stack' : stack'[i] \notin CallsOf(SourceOf[key])
  <2> DEFINE s == SourceOf[key]
  <2>1. s \in Source /\ Top \in CallsOf(s)
    BY <1>5, <1>8, LayerAssumption
  <2> HIDE DEF s
  <2>2. CountIn(stack, CallsOf(s)) = 1
    BY <1>1, <1>2, <2>1, OnePlace
  <2>3. /\ Cardinality(BuiltFrom(pool, s)) \in Nat
        /\ CountIn(queue, JobsOf(s)) \in Nat
        /\ CountIn(queue, JobsOf(s)) + Cardinality(BuiltFrom(pool, s))
              + CountIn(stack, CallsOf(s)) <= 1
    BY <1>1, <2>1, OnePlace
  <2>4. Cardinality(BuiltFrom(pool, s)) = 0
    BY <2>2, <2>3
  <2>5. \A w \in Built(pool) : SourceOf[pool[w].layer] # s
    BY <1>1, <2>1, <2>4, OnePlace
  <2>6. CountIn(stack', CallsOf(s)) = 0
    BY <1>4, <2>1, <2>2
  <2>7. \A i \in DOMAIN stack' : stack'[i] \notin CallsOf(s)
    BY <1>4, <2>6, CountInType
  <2> QED BY <2>5, <2>7 DEF s
<1>9. Top \in Owing(activeJobs) => awaiting > 0
  <2>1. awaiting = CountIn(stack, Owing(activeJobs))
    BY <1>1 DEF Awaited
  <2>2. CountIn(stack', Owing(activeJobs)) \in Nat
    BY <1>4
  <2> QED BY <1>0, <1>6, <2>1, <2>2
<1>10. /\ FailureHoldsSlot(key)
       /\ OwesStart(key) <=> Top \in Owing(activeJobs)
       /\ Tracked(key) <=> key \in Layer
  <2>1. Tracked(key) <=> key \in Layer
    BY <1>7 DEF Tracked
  <2>2. Top \in Owing(activeJobs) <=> (key \in Layer => ~activeJobs[key].started)
    BY <1>5, <1>7
  <2> QED BY <1>9, <2>1, <2>2 DEF FailureHoldsSlot, OwesStart
<1>11. /\ awaiting' = awaiting - (IF Top \in Owing(activeJobs) THEN 1 ELSE 0)
       /\ activeJobs' = IF key \in Layer THEN [activeJobs EXCEPT ![key] = NoJob] ELSE activeJobs
       /\ summary' = IF Top.live THEN [summary EXCEPT !.failed = @ + 1] ELSE summary
       /\ activeCount' = activeCount - 1
       /\ UNCHANGED <<queue, epoch, activeJobEpoch, signal, accepted>>
  BY <1>0, <1>2, <1>10 DEF SettleFailure
<1>12. /\ \A l \in Layer : l # key => activeJobs'[l] = activeJobs[l]
       /\ key \in Layer => activeJobs'[key].kind = "none"
  BY <1>0, <1>11 DEF NoJob
<1>13. OneJobPerFile'
  <2> SUFFICES ASSUME NEW s \in Source PROVE Holders(s)' <= 1
    BY DEF OneJobPerFile
  <2>1. /\ CountIn(queue, JobsOf(s)) \in Nat /\ CountIn(stack, CallsOf(s)) \in Nat
        /\ Cardinality(BuiltFrom(pool, s)) \in Nat
        /\ CountIn(stack', CallsOf(s)) \in Nat
    BY <1>0, <1>4, BuildsCounted
  <2>2. Holders(s) <= 1
    BY <1>1 DEF OneJobPerFile
  <2>3. Holders(s)' = CountIn(queue, JobsOf(s)) + Cardinality(BuiltFrom(pool, s))
                        + CountIn(stack', CallsOf(s))
    BY <1>2, <1>11 DEF Holders
  <2>4. CountIn(stack', CallsOf(s)) <= CountIn(stack, CallsOf(s))
    BY <1>6
  <2> QED BY <2>1, <2>2, <2>3, <2>4 DEF Holders
<1>14. StackFit' /\ QueueFit'
  BY <1>1, <1>2, <1>4, <1>11 DEF StackFit, QueueFit
<1>15. BuildsFit'
  <2>1. \A w \in Built(pool) : activeJobs'[pool[w].layer] = activeJobs[pool[w].layer]
    BY <1>0, <1>3, <1>8, <1>12
  <2> QED BY <1>1, <1>2, <1>11, <2>1 DEF BuildsFit
<1>16. ServiceFit'
  BY <1>4 DEF ServiceFit, In, Top
<1>17. NoScans' /\ NotOpened'
  <2>1. \A s : CountIn(stack, CallsOf(s)) = 0 => CountIn(stack', CallsOf(s)) = 0
    BY <1>4, <1>6
  <2> QED BY <1>1, <1>2, <1>11, <2>1 DEF NoScans, NotOpened, Scans, Tasks
<1>18. Slots'
  <2>1. Cardinality(Built(pool)) \in Nat /\ CountIn(stack, SlotHolders) \in Nat /\ Cap \in Nat
    BY <1>0, BuildsCounted, CapAssumption
  <2>2. activeCount = Cardinality(Built(pool)) + CountIn(stack, SlotHolders) /\ activeCount <= Cap
    BY <1>1 DEF Slots
  <2>3. activeCount' = Cardinality(Built(pool)) + CountIn(stack', SlotHolders)
    BY <1>6, <1>11, <2>1, <2>2
  <2>4. activeCount' <= Cap
    BY <1>0, <1>11, <2>1, <2>2
  <2> QED BY <1>2, <2>3, <2>4 DEF Slots
<1>19. Awaited'
  <2>1. CountIn(stack', Owing(activeJobs')) = CountIn(stack', Owing(activeJobs))
    <3>1. CASE key \in Layer
      <4>1. PICK t \in Seq(Call) : t = stack'
        BY <1>4
      <4>2. PICK js, new : js = activeJobs /\ new = activeJobs'
        OBVIOUS
      <4>3. \A i \in DOMAIN t : t[i] \notin CallsOf(SourceOf[key])
        BY <1>8, <3>1, <4>1
      <4>4. \A l \in Layer : l # key => new[l] = js[l]
        BY <1>12, <4>2
      <4>5. CountIn(t, Owing(new)) = CountIn(t, Owing(js))
        BY <3>1, <4>3, <4>4, OwingElsewhere
      <4> QED BY <4>1, <4>2, <4>5
    <3>2. CASE key \notin Layer
      BY <1>11, <3>2
    <3> QED BY <3>1, <3>2
  <2>2. awaiting = CountIn(stack, Owing(activeJobs))
    BY <1>1 DEF Awaited
  <2>3. awaiting' = CountIn(stack', Owing(activeJobs))
    BY <1>6, <1>11, <2>2
  <2> QED BY <2>1, <2>3 DEF Awaited
<1>20. Tracks'
  <2> SUFFICES ASSUME NEW l \in Layer
               PROVE  activeJobs'[l].kind # "none" <=>
                        (\E w \in Built(pool) : pool[w].layer = l)
                          \/ CountIn(stack', About(l)) > 0
    BY <1>2 DEF Tracks
  <2>1. CASE l = key
    <3>1. CountIn(stack', About(l)) = 0
      <4>1. \A i \in DOMAIN stack' : stack'[i] \notin About(l)
        BY <1>8, <2>1, AboutIsOf
      <4> QED BY <1>4, <4>1, CountInType
    <3> QED BY <1>8, <1>12, <2>1, <3>1
  <2>2. CASE l # key
    <3>1. CountIn(stack', About(l)) = CountIn(stack, About(l))
      BY <1>0, <1>6, <2>2
    <3> QED BY <1>1, <1>12, <2>2, <3>1 DEF Tracks
  <2> QED BY <2>1, <2>2
<1>21. Ledger'
  <2>1. Cardinality(BuiltIn(pool, epoch)) \in Nat /\ CountIn(stack, ToCount) \in Nat
    BY <1>0, BuildsCounted
  <2>2. accepted = Total(summary) + Len(queue) + Cardinality(BuiltIn(pool, epoch))
                     + CountIn(stack, ToCount)
    BY <1>1 DEF Ledger
  <2>3. Total(summary') = Total(summary) + (IF Top.live THEN 1 ELSE 0)
    <3>1. Total([summary EXCEPT !.failed = @ + 1]) = Total(summary) + 1
      BY <1>0, TotalGrows
    <3>2. CASE Top.live
      BY <1>11, <3>1, <3>2
    <3>3. CASE ~Top.live
      BY <1>0, <1>11, <3>3
    <3> QED BY <3>2, <3>3
  <2>4. CountIn(stack', ToCount) = CountIn(stack, ToCount) - (IF Top.live THEN 1 ELSE 0)
    BY <1>6
  <2>5. accepted = Total(summary') + Len(queue) + Cardinality(BuiltIn(pool, epoch))
                     + CountIn(stack', ToCount)
    BY <1>0, <2>1, <2>2, <2>3, <2>4
  <2> QED BY <1>2, <1>11, <2>5 DEF Ledger
<1> QED BY <1>13, <1>14, <1>15, <1>16, <1>17, <1>18, <1>19, <1>20, <1>21 DEF BooksInv

\* A build ends: its thread is idle again, and no other thread changes.
LEMMA BuildLeaves ==
  ASSUME NEW w, EndBuild(w), Scans = {}, ServiceTypeOK
  PROVE  /\ w \in Built(pool) /\ w \notin Built(pool')
         /\ Built(pool) = Built(pool') \cup {w}
         /\ \A v \in Built(pool') : v \in Built(pool) /\ pool'[v] = pool[v]
         /\ Cardinality(Built(pool)) = Cardinality(Built(pool')) + 1
         /\ \A s : Cardinality(BuiltFrom(pool, s)) =
                     Cardinality(BuiltFrom(pool', s))
                       + (IF SourceOf[pool[w].layer] = s THEN 1 ELSE 0)
         /\ \A e : Cardinality(BuiltIn(pool, e)) =
                     Cardinality(BuiltIn(pool', e)) + (IF pool[w].epoch = e THEN 1 ELSE 0)
         /\ Scans' = {}
         /\ UNCHANGED <<scanQueue, scanTokens>>
<1>1. /\ w \in Worker /\ w \in Built(pool)
      /\ pool' = [pool EXCEPT ![w] = IdleTask]
      /\ UNCHANGED <<scanQueue, scanTokens>>
  BY DEF EndBuild, Builds, Tasks, Built
<1>2. /\ pool'[w] = IdleTask
      /\ \A v \in Worker : v # w => pool'[v] = pool[v]
  BY <1>1 DEF ServiceTypeOK
<1>3. w \notin Built(pool')
  BY <1>2 DEF Built, IdleTask
<1>4. Scans' = {}
  BY <1>2 DEF Scans, Tasks, IdleTask
<1>5. \A v \in Built(pool') : v \in Built(pool) /\ pool'[v] = pool[v]
  BY <1>2, <1>3 DEF Built
<1>6. /\ Built(pool) = Built(pool') \cup {w}
      /\ Cardinality(Built(pool)) = Cardinality(Built(pool')) + 1
      /\ \A s : Cardinality(BuiltFrom(pool, s)) =
                  Cardinality(BuiltFrom(pool', s))
                    + (IF SourceOf[pool[w].layer] = s THEN 1 ELSE 0)
      /\ \A e : Cardinality(BuiltIn(pool, e)) =
                  Cardinality(BuiltIn(pool', e)) + (IF pool[w].epoch = e THEN 1 ELSE 0)
  <2>1. PICK p, q : p = pool' /\ q = pool
    OBVIOUS
  <2>2. \A v \in Worker : v # w => q[v] = p[v]
    BY <1>2, <2>1
  <2>3. w \notin Built(p) /\ w \in Built(q)
    BY <1>1, <1>3, <2>1
  <2>4. /\ Built(q) = Built(p) \cup {w}
        /\ Cardinality(Built(q)) = Cardinality(Built(p)) + 1
        /\ \A s : Cardinality(BuiltFrom(q, s)) =
                    Cardinality(BuiltFrom(p, s)) + (IF SourceOf[q[w].layer] = s THEN 1 ELSE 0)
        /\ \A e : Cardinality(BuiltIn(q, e)) =
                    Cardinality(BuiltIn(p, e)) + (IF q[w].epoch = e THEN 1 ELSE 0)
    BY <1>1, <2>2, <2>3, BuildAdded
  <2> QED BY <2>1, <2>4
<1> QED BY <1>1, <1>3, <1>4, <1>5, <1>6

\* While a file is being built nothing else of it is anywhere, and its layer is
\* in the map as one that started, alone of the file's layers.
LEMMA BuildAlone ==
  ASSUME PipelineInv, BooksInv, NEW w \in Built(pool)
  PROVE  /\ pool[w].layer \in Layer /\ pool[w].epoch \in Nat
         /\ \A v \in Built(pool) : SourceOf[pool[v].layer] = SourceOf[pool[w].layer] => v = w
         /\ \A i \in DOMAIN stack : stack[i] \notin CallsOf(SourceOf[pool[w].layer])
         /\ activeJobs[pool[w].layer].kind # "none"
         /\ activeJobs[pool[w].layer].started
         /\ activeJobs[pool[w].layer].epoch = pool[w].epoch
         /\ \A k \in Layer : /\ SourceOf[k] = SourceOf[pool[w].layer]
                            /\ activeJobs[k].kind # "none"
                            => k = pool[w].layer
         /\ project # "none"
<1>1. /\ OneJobPerFile /\ BuildsFit /\ NotOpened /\ Tracks
      /\ stack \in Seq(Call) /\ pool[w] \in Task /\ pool[w].layer \in Layer
  BY BooksTypes DEF BooksInv
<1>2. pool[w].epoch \in Nat /\ project # "none"
  BY <1>1 DEF Task, NotOpened
<1>3. /\ activeJobs[pool[w].layer].kind # "none"
      /\ activeJobs[pool[w].layer].started
      /\ activeJobs[pool[w].layer].epoch = pool[w].epoch
  BY <1>1 DEF Tracks, BuildsFit
<1> DEFINE l == pool[w].layer
           s == SourceOf[l]
<1>4. s \in Source
  BY <1>1, LayerAssumption
<1> HIDE DEF s
<1>5. Cardinality(BuiltFrom(pool, s)) = 1
  BY <1>1, <1>4, OnePlace DEF s
<1>6. CountIn(stack, CallsOf(s)) = 0
  <2>1. /\ CountIn(queue, JobsOf(s)) \in Nat /\ CountIn(stack, CallsOf(s)) \in Nat
        /\ CountIn(queue, JobsOf(s)) + Cardinality(BuiltFrom(pool, s))
              + CountIn(stack, CallsOf(s)) <= 1
    BY <1>1, <1>4, OnePlace
  <2> QED BY <1>5, <2>1
<1>7. \A i \in DOMAIN stack : stack[i] \notin CallsOf(s)
  BY <1>1, <1>6, CountInType
<1>8. \A v \in Built(pool) : SourceOf[pool[v].layer] = s => v = w
  <2>1. \E x : BuiltFrom(pool, s) = {x}
    BY <1>5, BuildsCounted, FS_Singleton
  <2>2. w \in BuiltFrom(pool, s)
    BY DEF BuiltFrom, s
  <2> QED BY <2>1, <2>2 DEF BuiltFrom
<1>9. ASSUME NEW k \in Layer, SourceOf[k] = s, activeJobs[k].kind # "none"
      PROVE  k = l
  <2>1. \A i \in DOMAIN stack : stack[i] \notin About(k)
    BY <1>7, <1>9, AboutIsOf
  <2>2. CountIn(stack, About(k)) = 0
    BY <1>1, <2>1, CountInType
  <2>3. PICK v \in Built(pool) : pool[v].layer = k
    BY <1>1, <1>9, <2>2 DEF Tracks
  <2> QED BY <1>8, <1>9, <2>3
<1> QED BY <1>1, <1>2, <1>3, <1>7, <1>8, <1>9 DEF s

\* A build fails: its slot passes to the call of the failure.
LEMMA FailedBooks ==
  ASSUME PipelineInv, PipelineInv', BooksInv, NEW w, EndBuild(w), TakesEvents,
         \A k \in Layer : layerState[k] # "none" => layerState'[k] # "none",
         EmitFailure(pool[w].layer), UNCHANGED project
  PROVE  BooksInv'
<1>0. /\ queue \in Seq(Job) /\ stack \in Seq(Call)
      /\ \A S : CountIn(queue, S) \in Nat /\ CountIn(stack, S) \in Nat
      /\ epoch \in Nat /\ Len(queue) \in Nat
      /\ accepted \in Int /\ Total(summary) \in Nat
      /\ signal \in [Layer -> Signals]
      /\ \A v \in Built(pool) : pool[v].layer \in Layer
      /\ ServiceTypeOK
  BY BooksTypes
<1>1. /\ OneJobPerFile
      /\ StackFit /\ QueueFit /\ BuildsFit /\ ServiceFit
      /\ NoScans /\ NotOpened
      /\ Slots /\ Awaited /\ Tracks /\ Ledger
  BY DEF BooksInv
<1>2. /\ w \in Built(pool) /\ w \notin Built(pool')
      /\ Built(pool) = Built(pool') \cup {w}
      /\ \A v \in Built(pool') : v \in Built(pool) /\ pool'[v] = pool[v]
      /\ Cardinality(Built(pool)) = Cardinality(Built(pool')) + 1
      /\ \A s : Cardinality(BuiltFrom(pool, s)) =
                  Cardinality(BuiltFrom(pool', s))
                    + (IF SourceOf[pool[w].layer] = s THEN 1 ELSE 0)
      /\ \A e : Cardinality(BuiltIn(pool, e)) =
                  Cardinality(BuiltIn(pool', e)) + (IF pool[w].epoch = e THEN 1 ELSE 0)
      /\ Scans' = {}
      /\ UNCHANGED <<scanQueue, scanTokens>>
  BY <1>0, <1>1, BuildLeaves DEF NoScans
<1> DEFINE l == pool[w].layer
           live == FailureLive(l)
           call == FailedCall(l, live)
<1>3. /\ l \in Layer
      /\ activeJobs[l].kind # "none" /\ activeJobs[l].started
      /\ activeJobs[l].epoch = pool[w].epoch
      /\ project # "none"
  BY <1>2, BuildAlone
<1>4. live \in BOOLEAN /\ (live <=> pool[w].epoch = epoch)
  BY <1>3 DEF FailureLive, Tracked
<1>5. call \in Call /\ call.call = "failed" /\ call.key = l /\ call.live = live
  <2> HIDE DEF l, live
  <2>1. \A k \in Layer \cup {NoLayer}, lv \in BOOLEAN : FailedCall(k, lv) \in Call
    BY CallType
  <2>2. \A k, lv : LET c == FailedCall(k, lv) IN c.call = "failed" /\ c.key = k /\ c.live = lv
    BY DEF FailedCall
  <2> QED BY <1>3, <1>4, <2>1, <2>2
<1>6. /\ AnnounceFailure(l) /\ stack' = <<call>> \o stack
      /\ \A k \in Layer : signal'[k] = signal[k] \/ signal'[k] # "started"
      /\ UNCHANGED <<queue, activeCount, awaiting, activeJobs, epoch, activeJobEpoch,
                     summary, accepted>>
  <2>1. AnnounceFailure(l) /\ stack' = <<call>> \o stack
    BY DEF EmitFailure, Push
  <2>2. \A k \in Layer : signal'[k] = signal[k] \/ signal'[k] # "started"
    BY <1>0, <2>1 DEF AnnounceFailure
  <2> QED BY <2>1, <2>2 DEF AnnounceFailure
<1> HIDE DEF call, live
<1>7. /\ \A s : call \in CallsOf(s) <=> SourceOf[l] = s
      /\ call \in SlotHolders
      /\ call \in ToCount <=> pool[w].epoch = epoch
      /\ call \notin Owing(activeJobs)
      /\ \A k : call \in About(k) <=> l = k
  <2>1. /\ \A s : call \in CallsOf(s) <=> call.key \in Layer /\ SourceOf[call.key] = s
        /\ call \in SlotHolders
        /\ call \in ToCount <=> call.live
        /\ \A js : call \in Owing(js) <=>
             (call.key \in Layer /\ js[call.key].kind # "none" => ~js[call.key].started)
        /\ \A k : call \in About(k) <=> call.key = k
    BY <1>5, CallMembers
  <2> HIDE DEF l
  <2> QED BY <1>3, <1>4, <1>5, <2>1
<1> HIDE DEF l
<1>8. /\ ShapeOf(stack', layerState')
      /\ stack' # <<>> /\ Head(stack') = call
      /\ \A S : CountIn(stack', S) = CountIn(stack, S) + (IF call \in S THEN 1 ELSE 0)
  <2>1. PICK st : st = layerState'
    OBVIOUS
  <2>2. ShapeOf(stack, st)
    BY <1>0, <1>1, <2>1, ShapeGrows DEF StackFit
  <2>3. st[l] # "none"
    BY <1>1, <1>2, <1>3, <2>1 DEF BuildsFit, l
  <2>4. call \in FitIn(st)
    BY <1>5, <2>3 DEF FitIn
  <2>5. stack = <<>> \/ Head(stack).call # "service"
    BY BoxOnTop DEF Top
  <2>6. /\ ShapeOf(<<call>> \o stack, st)
        /\ <<call>> \o stack # <<>> /\ Head(<<call>> \o stack) = call
        /\ \A S : CountIn(<<call>> \o stack, S) =
                  CountIn(stack, S) + (IF call \in S THEN 1 ELSE 0)
    BY <1>0, <1>5, <2>2, <2>4, <2>5, CallMade
  <2> QED BY <1>6, <2>1, <2>6
<1>9. OneJobPerFile'
  <2> SUFFICES ASSUME NEW s \in Source PROVE Holders(s)' <= 1
    BY DEF OneJobPerFile
  <2>1. /\ CountIn(queue, JobsOf(s)) \in Nat /\ CountIn(stack, CallsOf(s)) \in Nat
        /\ Cardinality(BuiltFrom(pool, s)) \in Nat /\ Cardinality(BuiltFrom(pool', s)) \in Nat
    BY <1>0, BuildsCounted
  <2>2. Holders(s) <= 1
    BY <1>1 DEF OneJobPerFile
  <2>3. Holders(s)' = CountIn(queue, JobsOf(s)) + Cardinality(BuiltFrom(pool', s))
                        + CountIn(stack', CallsOf(s))
    BY <1>6 DEF Holders
  <2>4. /\ Cardinality(BuiltFrom(pool, s)) = Cardinality(BuiltFrom(pool', s))
                                               + (IF SourceOf[l] = s THEN 1 ELSE 0)
        /\ CountIn(stack', CallsOf(s)) = CountIn(stack, CallsOf(s))
                                           + (IF SourceOf[l] = s THEN 1 ELSE 0)
    BY <1>2, <1>7, <1>8 DEF l
  <2> QED BY <2>1, <2>2, <2>3, <2>4 DEF Holders
<1>10. StackFit' /\ QueueFit'
  <2>1. FitQueue(queue, layerState')
    BY <1>0, <1>1, FitQueues DEF QueueFit
  <2> QED BY <1>6, <1>8, <2>1 DEF StackFit, QueueFit
<1>11. BuildsFit'
  <2> SUFFICES ASSUME NEW v \in Built(pool')
               PROVE  /\ layerState'[pool'[v].layer] # "none"
                      /\ pool'[v].epoch <= epoch
                      /\ activeJobs[pool'[v].layer].started
                      /\ activeJobs[pool'[v].layer].epoch = pool'[v].epoch
                      /\ pool'[v].epoch # epoch => signal'[pool'[v].layer] # "started"
    BY <1>6 DEF BuildsFit
  <2>1. v \in Built(pool) /\ pool'[v] = pool[v] /\ pool[v].layer \in Layer
    BY <1>0, <1>2
  <2> QED BY <1>1, <1>6, <2>1 DEF BuildsFit
<1>12. ServiceFit'
  BY <1>5, <1>8 DEF ServiceFit, In, Top
<1>13. NoScans' /\ NotOpened'
  BY <1>1, <1>2, <1>3 DEF NoScans, NotOpened
<1>14. Slots'
  <2>1. /\ Cardinality(Built(pool')) \in Nat /\ CountIn(stack, SlotHolders) \in Nat
        /\ Cardinality(Built(pool)) \in Nat
    BY <1>0, BuildsCounted
  <2>2. activeCount = Cardinality(Built(pool)) + CountIn(stack, SlotHolders) /\ activeCount <= Cap
    BY <1>1 DEF Slots
  <2>3. CountIn(stack', SlotHolders) = CountIn(stack, SlotHolders) + 1
    BY <1>7, <1>8
  <2>4. activeCount = Cardinality(Built(pool')) + CountIn(stack', SlotHolders)
    BY <1>2, <2>1, <2>2, <2>3
  <2> QED BY <1>6, <2>2, <2>4 DEF Slots
<1>15. Awaited'
  BY <1>0, <1>1, <1>6, <1>7, <1>8 DEF Awaited
<1>16. Tracks'
  <2> SUFFICES ASSUME NEW k \in Layer
               PROVE  activeJobs[k].kind # "none" <=>
                        (\E v \in Built(pool') : pool'[v].layer = k)
                          \/ CountIn(stack', About(k)) > 0
    BY <1>6 DEF Tracks
  <2>1. CASE k = l
    <3>1. CountIn(stack', About(k)) = CountIn(stack, About(k)) + 1
      BY <1>7, <1>8, <2>1
    <3>2. CountIn(stack', About(k)) > 0
      BY <1>0, <3>1
    <3> QED BY <1>3, <2>1, <3>2 DEF l
  <2>2. CASE k # l
    <3>1. CountIn(stack', About(k)) = CountIn(stack, About(k))
      BY <1>0, <1>7, <1>8, <2>2
    <3>2. (\E v \in Built(pool') : pool'[v].layer = k)
            <=> (\E v \in Built(pool) : pool[v].layer = k)
      BY <1>2, <2>2 DEF l
    <3> QED BY <1>1, <3>1, <3>2 DEF Tracks
  <2> QED BY <2>1, <2>2
<1>17. Ledger'
  <2> DEFINE n == Cardinality(BuiltIn(pool', epoch))
             m == CountIn(stack, ToCount)
             d == IF pool[w].epoch = epoch THEN 1 ELSE 0
  <2>1. n \in Nat /\ m \in Nat /\ d \in Nat
    BY <1>0, BuildsCounted
  <2>2. Cardinality(BuiltIn(pool, epoch)) = n + d /\ CountIn(stack', ToCount) = m + d
    BY <1>2, <1>7, <1>8
  <2>3. accepted = Total(summary) + Len(queue) + Cardinality(BuiltIn(pool, epoch)) + m
    BY <1>1 DEF Ledger
  <2>4. accepted = Total(summary) + Len(queue) + n + CountIn(stack', ToCount)
    <3> HIDE DEF n, m, d
    <3> QED BY <1>0, <2>1, <2>2, <2>3
  <2> QED BY <1>6, <2>4 DEF Ledger
<1> QED BY <1>9, <1>10, <1>11, <1>12, <1>13, <1>14, <1>15, <1>16, <1>17 DEF BooksInv

\* A build completes, for its layer and others of the file: the one slot its job
\* has comes back, and the job is counted if no cancel overtook it.
LEMMA CompleteBooks ==
  ASSUME PipelineInv, PipelineInv', BooksInv, NEW w, EndBuild(w),
         NEW S \in SUBSET Layer, pool[w].layer \in S,
         \A k \in S : SourceOf[k] = SourceOf[pool[w].layer],
         OnIndexingComplete(S),
         \A k \in Layer : layerState[k] # "none" => layerState'[k] # "none",
         UNCHANGED <<stack, project>>
  PROVE  BooksInv'
<1>0. /\ queue \in Seq(Job) /\ stack \in Seq(Call)
      /\ \A C : CountIn(queue, C) \in Nat /\ CountIn(stack, C) \in Nat
      /\ epoch \in Nat /\ Len(queue) \in Nat
      /\ activeCount \in Int /\ awaiting \in Nat
      /\ accepted \in Int /\ summary \in Summary /\ Total(summary) \in Nat
      /\ activeJobs \in [Layer -> ActiveJob]
      /\ signal \in [Layer -> Signals]
      /\ \A v \in Built(pool) : pool[v].layer \in Layer
      /\ ServiceTypeOK
  BY BooksTypes
<1>1. /\ OneJobPerFile
      /\ StackFit /\ QueueFit /\ BuildsFit /\ ServiceFit
      /\ NoScans /\ NotOpened
      /\ Slots /\ Awaited /\ Tracks /\ Ledger
  BY DEF BooksInv
<1>2. /\ w \in Built(pool) /\ w \notin Built(pool')
      /\ Built(pool) = Built(pool') \cup {w}
      /\ \A v \in Built(pool') : v \in Built(pool) /\ pool'[v] = pool[v]
      /\ Cardinality(Built(pool)) = Cardinality(Built(pool')) + 1
      /\ \A s : Cardinality(BuiltFrom(pool, s)) =
                  Cardinality(BuiltFrom(pool', s))
                    + (IF SourceOf[pool[w].layer] = s THEN 1 ELSE 0)
      /\ \A e : Cardinality(BuiltIn(pool, e)) =
                  Cardinality(BuiltIn(pool', e)) + (IF pool[w].epoch = e THEN 1 ELSE 0)
      /\ Scans' = {}
      /\ UNCHANGED <<scanQueue, scanTokens>>
  BY <1>0, <1>1, BuildLeaves DEF NoScans
<1> DEFINE l == pool[w].layer
<1>3. /\ l \in Layer
      /\ \A v \in Built(pool) : SourceOf[pool[v].layer] = SourceOf[l] => v = w
      /\ \A i \in DOMAIN stack : stack[i] \notin CallsOf(SourceOf[l])
      /\ activeJobs[l].kind # "none"
      /\ activeJobs[l].epoch = pool[w].epoch
      /\ \A k \in Layer : SourceOf[k] = SourceOf[l] /\ activeJobs[k].kind # "none" => k = l
  BY <1>2, BuildAlone
<1>4. \A v \in Built(pool') : pool[v].layer # l /\ pool[v].layer \in Layer
  BY <1>0, <1>2, <1>3
<1>5. TrackedIn(S) = {l} /\ LiveIn(S) = IF pool[w].epoch = epoch THEN {l} ELSE {}
  <2>1. TrackedIn(S) = {l}
    BY <1>3 DEF TrackedIn, Tracked
  <2> QED BY <1>3, <2>1 DEF LiveIn
<1> DEFINE d == IF pool[w].epoch = epoch THEN 1 ELSE 0
<1> HIDE DEF l
<1>6. /\ activeCount' = activeCount - 1
      /\ \A k \in Layer : k # l => activeJobs'[k] = activeJobs[k] /\ signal'[k] = signal[k]
      /\ activeJobs'[l].kind = "none"
      /\ UNCHANGED <<queue, awaiting, epoch, activeJobEpoch, accepted>>
  <2>1. Cardinality({l}) = 1
    BY FS_Singleton
  <2>2. LiveIn(S) \subseteq {l}
    BY <1>5
  <2>3. /\ activeJobs' = [k \in Layer |-> IF k \in TrackedIn(S) THEN NoJob ELSE activeJobs[k]]
        /\ signal' = [k \in Layer |-> IF k \in LiveIn(S) THEN "completed" ELSE signal[k]]
        /\ activeCount' = activeCount - Cardinality(TrackedIn(S))
        /\ UNCHANGED <<queue, awaiting, epoch, activeJobEpoch, accepted>>
    BY DEF OnIndexingComplete
  <2> QED BY <1>3, <1>5, <2>1, <2>2, <2>3 DEF NoJob
<1>7. Total(summary') = Total(summary) + d
  <2> DEFINE done  == LiveIn(S)
             again == {k \in done : activeJobs[k].kind = "rebuild"}
             m == Cardinality(again)
             n == Cardinality(done \ again)
  <2>1. summary' = [summary EXCEPT !.rebuilt = @ + m, !.imported = @ + n]
    BY DEF OnIndexingComplete
  <2>2. \A x : Cardinality({x}) = 1
    BY FS_Singleton
  <2>3. Cardinality({}) = 0
    BY FS_EmptySet
  <2>4. m \in Nat /\ n \in Nat /\ m + n = d
    <3>1. CASE pool[w].epoch = epoch
      <4>1. done = {l} /\ d = 1
        BY <1>5, <3>1
      <4>2. \/ again = {l} /\ done \ again = {}
            \/ again = {} /\ done \ again = {l}
        BY <4>1
      <4>3. \/ m = 1 /\ n = 0
            \/ m = 0 /\ n = 1
        <5> HIDE DEF done, again, d
        <5> QED BY <2>2, <2>3, <4>2 DEF m, n
      <4> HIDE DEF m, n, d
      <4> QED BY <4>1, <4>3
    <3>2. CASE pool[w].epoch # epoch
      <4>1. done = {} /\ d = 0
        BY <1>5, <3>2
      <4>2. again = {} /\ done \ again = {}
        BY <4>1
      <4>3. m = 0 /\ n = 0
        <5> HIDE DEF done, again, d
        <5> QED BY <2>3, <4>2 DEF m, n
      <4> HIDE DEF m, n, d
      <4> QED BY <4>1, <4>3
    <3> QED BY <3>1, <3>2
  <2> HIDE DEF m, n, d
  <2>5. PICK i \in Nat, j \in Nat : i = m /\ j = n
    BY <2>4
  <2>6. Total([summary EXCEPT !.rebuilt = @ + i, !.imported = @ + j]) = Total(summary) + i + j
    BY <1>0, TotalGrows
  <2>7. Total(summary') = Total(summary) + i + j
    BY <2>1, <2>5, <2>6
  <2>8. Total(summary) \in Nat
    BY <1>0, TotalType
  <2>9. d = i + j
    BY <2>4, <2>5
  <2> QED BY <2>7, <2>8, <2>9
<1>8. OneJobPerFile'
  <2> SUFFICES ASSUME NEW s \in Source PROVE Holders(s)' <= 1
    BY DEF OneJobPerFile
  <2>1. /\ CountIn(queue, JobsOf(s)) \in Nat /\ CountIn(stack, CallsOf(s)) \in Nat
        /\ Cardinality(BuiltFrom(pool, s)) \in Nat /\ Cardinality(BuiltFrom(pool', s)) \in Nat
    BY <1>0, BuildsCounted
  <2>2. Holders(s) <= 1
    BY <1>1 DEF OneJobPerFile
  <2>3. Holders(s)' = CountIn(queue, JobsOf(s)) + Cardinality(BuiltFrom(pool', s))
                        + CountIn(stack, CallsOf(s))
    BY <1>6 DEF Holders
  <2>4. Cardinality(BuiltFrom(pool, s)) = Cardinality(BuiltFrom(pool', s))
                                            + (IF SourceOf[l] = s THEN 1 ELSE 0)
    BY <1>2 DEF l
  <2> QED BY <2>1, <2>2, <2>3, <2>4 DEF Holders
<1>9. StackFit' /\ QueueFit'
  <2>1. FitQueue(queue, layerState') /\ ShapeOf(stack, layerState')
    BY <1>0, <1>1, FitQueues, ShapeGrows DEF QueueFit, StackFit
  <2> QED BY <1>6, <2>1 DEF StackFit, QueueFit
<1>10. BuildsFit'
  <2> SUFFICES ASSUME NEW v \in Built(pool')
               PROVE  /\ layerState'[pool'[v].layer] # "none"
                      /\ pool'[v].epoch <= epoch
                      /\ activeJobs'[pool'[v].layer].started
                      /\ activeJobs'[pool'[v].layer].epoch = pool'[v].epoch
                      /\ pool'[v].epoch # epoch => signal'[pool'[v].layer] # "started"
    BY <1>6 DEF BuildsFit
  <2>1. /\ v \in Built(pool) /\ pool'[v] = pool[v]
        /\ pool[v].layer # l /\ pool[v].layer \in Layer
    BY <1>2, <1>4
  <2>2. /\ activeJobs'[pool[v].layer] = activeJobs[pool[v].layer]
        /\ signal'[pool[v].layer] = signal[pool[v].layer]
    BY <1>6, <2>1
  <2> QED BY <1>1, <2>1, <2>2 DEF BuildsFit
<1>11. ServiceFit'
  <2>1. ASSUME In("service"), Top.job.kind = "rebuild"
        PROVE  activeJobs'[Top.job.layer] = activeJobs[Top.job.layer]
    <3>1. /\ Top.job.layer \in Layer
          /\ SourceOf[Top.job.layer] = Top.job.source
          /\ \A v \in Built(pool) : SourceOf[pool[v].layer] # Top.job.source
      BY <2>1, ServiceTop
    <3>2. Top.job.layer # l
      BY <1>2, <3>1 DEF l
    <3> QED BY <1>6, <3>1, <3>2
  <2> QED BY <1>1, <1>6, <2>1 DEF ServiceFit, In, Top
<1>12. NoScans' /\ NotOpened'
  <2>1. project # "none"
    BY <1>2, BuildAlone
  <2> QED BY <1>1, <1>2, <2>1 DEF NoScans, NotOpened
<1>13. Slots'
  <2>1. /\ Cardinality(Built(pool')) \in Nat /\ CountIn(stack, SlotHolders) \in Nat
        /\ Cap \in Nat
    BY <1>0, BuildsCounted, CapAssumption
  <2>2. activeCount = Cardinality(Built(pool)) + CountIn(stack, SlotHolders) /\ activeCount <= Cap
    BY <1>1 DEF Slots
  <2>3. activeCount' = Cardinality(Built(pool')) + CountIn(stack, SlotHolders)
    BY <1>2, <1>6, <2>1, <2>2
  <2>4. activeCount' <= Cap
    BY <1>0, <1>6, <2>1, <2>2
  <2> QED BY <2>3, <2>4 DEF Slots
<1>14. Awaited'
  <2>1. CountIn(stack, Owing(activeJobs')) = CountIn(stack, Owing(activeJobs))
    <3>1. PICK js, new : js = activeJobs /\ new = activeJobs'
      OBVIOUS
    <3>2. \A k \in Layer : k # l => new[k] = js[k]
      BY <1>6, <3>1
    <3>3. CountIn(stack, Owing(new)) = CountIn(stack, Owing(js))
      BY <1>0, <1>3, <3>2, OwingElsewhere
    <3> QED BY <3>1, <3>3
  <2> QED BY <1>1, <1>6, <2>1 DEF Awaited
<1>15. Tracks'
  <2> SUFFICES ASSUME NEW k \in Layer
               PROVE  activeJobs'[k].kind # "none" <=>
                        (\E v \in Built(pool') : pool'[v].layer = k)
                          \/ CountIn(stack, About(k)) > 0
    BY DEF Tracks
  <2>1. CASE k = l
    <3>1. \A i \in DOMAIN stack : stack[i] \notin About(k)
      BY <1>3, <2>1, AboutIsOf
    <3>2. CountIn(stack, About(k)) = 0
      BY <1>0, <3>1, CountInType
    <3>3. ~\E v \in Built(pool') : pool'[v].layer = k
      BY <1>2, <1>4, <2>1
    <3> QED BY <1>6, <2>1, <3>2, <3>3
  <2>2. CASE k # l
    <3>1. (\E v \in Built(pool') : pool'[v].layer = k)
            <=> (\E v \in Built(pool) : pool[v].layer = k)
      BY <1>2, <2>2 DEF l
    <3>2. activeJobs'[k] = activeJobs[k]
      BY <1>6, <2>2
    <3> QED BY <1>1, <3>1, <3>2 DEF Tracks
  <2> QED BY <2>1, <2>2
<1>16. Ledger'
  <2> DEFINE n == Cardinality(BuiltIn(pool', epoch))
             m == CountIn(stack, ToCount)
  <2>1. n \in Nat /\ m \in Nat /\ d \in Nat
    BY <1>0, BuildsCounted
  <2>2. Cardinality(BuiltIn(pool, epoch)) = n + d
    BY <1>2
  <2>3. accepted = Total(summary) + Len(queue) + Cardinality(BuiltIn(pool, epoch)) + m
    BY <1>1 DEF Ledger
  <2>4. accepted = Total(summary') + Len(queue) + n + m
    <3> HIDE DEF n, m, d
    <3> QED BY <1>0, <1>7, <2>1, <2>2, <2>3
  <2> QED BY <1>6, <2>4 DEF Ledger
<1> QED BY <1>8, <1>9, <1>10, <1>11, <1>12, <1>13, <1>14, <1>15, <1>16 DEF BooksInv

\* The handlers of a build that ended keep the books.
LEMMA EndedBooks ==
  ASSUME PipelineInv, PipelineInv', BooksInv,
         \/ BuildFails
         \/ \E extra \in Splits, refreshed \in SUBSET Layer :
              ImportCompletes(extra, refreshed)
         \/ ReindexCompletes
  PROVE  BooksInv'
<1> DEFINE w == Head(posted).worker
<1>0. ServiceTypeOK
  BY BooksTypes
<1>1. CASE BuildFails
  <2>1. /\ EmitFailure(pool[w].layer) /\ UNCHANGED project /\ TakesEvents
        /\ \/ ImportFails(w)
           \/ \E extra \in SUBSET Layer : ImportUnsaved(w, extra)
           \/ ReindexFails(w)
           \/ ReindexUnsaved(w)
    <3>1. \A s : Fresh(s) \subseteq Layer
      BY DEF Fresh
    <3>2. \/ ImportFails(w)
          \/ \E extra \in SUBSET Fresh(SourceOf[pool[w].layer]) : ImportUnsaved(w, extra)
          \/ ReindexFails(w)
          \/ ReindexUnsaved(w)
      BY <1>1 DEF BuildFails
    <3> QED BY <1>1, <3>1, <3>2 DEF BuildFails, Takes
  <2>2. EndBuild(w)
    BY <2>1 DEF ImportFails, ImportUnsaved, ReindexFails, ReindexUnsaved
  <2>3. w \in Worker
    BY <2>2 DEF EndBuild, Builds, Tasks
  <2>4. ServiceStep
    BY <2>1, <2>3 DEF ServiceStep
  <2>5. \A k \in Layer : layerState[k] # "none" => layerState'[k] # "none"
    BY <1>0, <2>4, LayersStay
  <2> QED BY <2>1, <2>2, <2>5, FailedBooks
<1>2. ASSUME NEW extra \in Splits, NEW refreshed \in SUBSET Layer,
             ImportCompletes(extra, refreshed)
      PROVE  BooksInv'
  <2> DEFINE S == {pool[w].layer} \cup extra \cup refreshed
  <2>1. /\ ImportCommits(w, extra) /\ OnIndexingComplete(S) /\ UNCHANGED <<stack, project>>
        /\ refreshed \subseteq Linked(SourceOf[pool[w].layer])
    BY <1>2 DEF ImportCompletes
  <2>2. EndBuild(w) /\ extra \subseteq Fresh(SourceOf[pool[w].layer])
    BY <2>1 DEF ImportCommits
  <2>3. w \in Worker /\ pool[w].layer \in Layer
    BY <1>0, <2>2, TaskOf DEF EndBuild, Builds, Tasks
  <2>4. /\ S \in SUBSET Layer /\ pool[w].layer \in S
        /\ \A k \in S : SourceOf[k] = SourceOf[pool[w].layer]
    BY <2>1, <2>2, <2>3 DEF Fresh, Linked
  <2>5. ServiceStep
    BY <2>1, <2>3 DEF ServiceStep, Splits
  <2>6. \A k \in Layer : layerState[k] # "none" => layerState'[k] # "none"
    BY <1>0, <2>5, LayersStay
  <2> QED BY <2>1, <2>2, <2>4, <2>6, CompleteBooks
<1>3. CASE ReindexCompletes
  <2> DEFINE S == Linked(SourceOf[pool[w].layer])
  <2>1. ReindexCommits(w) /\ OnIndexingComplete(S) /\ UNCHANGED <<stack, project>>
    BY <1>3 DEF ReindexCompletes
  <2>2. EndBuild(w) /\ Present(pool[w].layer)
    BY <2>1 DEF ReindexCommits
  <2>3. w \in Worker /\ pool[w].layer \in Layer
    BY <1>0, <2>2, TaskOf DEF EndBuild, Builds, Tasks
  <2>4. /\ S \in SUBSET Layer /\ pool[w].layer \in S
        /\ \A k \in S : SourceOf[k] = SourceOf[pool[w].layer]
    BY <2>2, <2>3 DEF Linked
  <2>5. ServiceStep
    BY <2>1, <2>3 DEF ServiceStep
  <2>6. \A k \in Layer : layerState[k] # "none" => layerState'[k] # "none"
    BY <1>0, <2>5, LayersStay
  <2> QED BY <2>1, <2>2, <2>4, <2>6, CompleteBooks
<1> QED BY <1>1, <1>2, <1>3

-----------------------------------------------------------------------------
(* The books hold in every state.                                          *)

\* They hold when the application starts.
LEMMA BooksInit == Init => BooksInv
<1> SUFFICES ASSUME Init PROVE BooksInv
  OBVIOUS
<1>1. /\ queue = <<>> /\ stack = <<>> /\ scanQueue = <<>> /\ scanTokens = {}
      /\ activeCount = 0 /\ awaiting = 0 /\ accepted = 0 /\ epoch = 0
      /\ summary = EmptySummary
      /\ activeJobs = [l \in Layer |-> NoJob]
      /\ pool = [w \in Worker |-> IdleTask]
  BY DEF Init, ManagerInit, ServiceInit
<1>2. Built(pool) = {} /\ Scans = {}
  BY <1>1 DEF Built, Scans, Tasks, IdleTask
<1>3. /\ \A s : BuiltFrom(pool, s) = {}
      /\ BuiltIn(pool, epoch) = {}
  BY <1>2 DEF BuiltFrom, BuiltIn
<1>4. /\ \A s : Cardinality(BuiltFrom(pool, s)) = 0
      /\ Cardinality(BuiltIn(pool, epoch)) = 0 /\ Cardinality(Built(pool)) = 0
  BY <1>2, <1>3, FS_EmptySet
<1>5. \A S : CountIn(queue, S) = 0 /\ CountIn(stack, S) = 0
  BY <1>1, CountNone
<1>6. OneJobPerFile
  BY <1>4, <1>5 DEF OneJobPerFile, Holders
<1>7. StackFit /\ QueueFit /\ BuildsFit /\ ServiceFit
  BY <1>1, <1>2 DEF StackFit, ShapeOf, QueueFit, FitQueue, BuildsFit, ServiceFit, In
<1>8. NoScans /\ NotOpened
  BY <1>1, <1>2, <1>5 DEF NoScans, NotOpened
<1>9. Slots /\ Awaited
  BY <1>1, <1>4, <1>5, CapAssumption DEF Slots, Awaited
<1>10. Tracks
  BY <1>1, <1>2, <1>5 DEF Tracks, NoJob
<1>11. Ledger
  <2>1. Total(summary) = 0
    BY <1>1 DEF Total, EmptySummary
  <2>2. Len(queue) = 0
    BY <1>1
  <2> QED BY <1>1, <1>4, <1>5, <2>1, <2>2 DEF Ledger
<1> QED BY <1>6, <1>7, <1>8, <1>9, <1>10, <1>11 DEF BooksInv

\* Every step keeps them.
LEMMA BooksStep ==
  ASSUME Apart, PipelineInv, BooksInv, [Next]_vars
  PROVE  BooksInv'
<1>0. PipelineInv'
  BY InvStep
<1>1. CASE Quiet
  BY <1>0, <1>1, QuietBooks
<1>2. ASSUME NEW jobs \in Batches, NEW reused \in Reusable, ImportBatch(jobs, reused)
      PROVE  BooksInv'
  BY <1>0, <1>2, ImportBatchBooks
<1>3. CASE ConfirmCancel
  BY <1>0, <1>3, CancelBooks
<1>4. ASSUME NEW plan \in RecoveryPlans, OpenProject(plan) PROVE BooksInv'
  BY <1>0, <1>4, OpenBooks
<1>5. ASSUME NEW l \in Layer, HealNext(l) PROVE BooksInv'
  BY <1>0, <1>5, HealBooks
<1>6. CASE DispatchMissing
  BY <1>0, <1>6, MissingBooks
<1>7. CASE DismissMissing
  BY <1>0, <1>7, DismissBooks
<1>8. CASE DispatchJob
  BY <1>0, <1>8, DispatchBooks
<1>9. CASE ImportRefused \/ ReindexRefused
  BY <1>0, <1>9, RefusedBooks
<1>10. CASE (\E l \in Layer : ImportStarts(l)) \/ ReindexStarts
  BY <1>0, <1>10, StartedBooks
<1>11. CASE FailureSettles
  BY <1>0, <1>11, SettledBooks
<1>12. CASE \/ BuildFails
            \/ \E extra \in Splits, refreshed \in SUBSET Layer :
                 ImportCompletes(extra, refreshed)
            \/ ReindexCompletes
  BY <1>0, <1>12, EndedBooks
<1>13. ~(\/ PumpDrops \/ PumpStarts
         \/ ScanDiscarded \/ ScanFails \/ ScanCommits
         \/ ScanFinishes)
  BY NoScanRuns
<1>14. CASE Operator
  BY <1>1, <1>2, <1>3, <1>4, <1>14 DEF Operator, Quiet
<1>15. CASE MainThread
  BY <1>1, <1>5, <1>6, <1>7, <1>8, <1>9, <1>10, <1>11, <1>12, <1>13, <1>15
  DEF MainThread, Quiet
<1> QED BY <1>1, <1>14, <1>15 DEF Next, Quiet

\* So they hold in every state.
LEMMA BooksInvariance ==
  ASSUME Apart
  PROVE  Spec => []BooksInv
<1>1. PipelineInv /\ BooksInv /\ [Next]_vars => BooksInv'
  BY BooksStep
<1> QED BY <1>1, BooksInit, Invariance, PTL DEF Spec

-----------------------------------------------------------------------------
(* The promises of the queue follow from its books.                        *)

\* What calls of jobs and failures hold.
LEMMA CallHolds ==
  ASSUME NEW c \in Call
  PROVE  /\ c.call = "service" => c.job \in Job /\ c.job.layer \in Layer \cup {NoLayer}
         /\ c.call = "failed" => c.key \in Layer \cup {NoLayer}
<1>1. c.call = "service" => c.job \in Job
  BY DEF Call, DispatchCall, ServiceCall, MissingBox, FailedCall, ConfirmBox,
         HealCall, PumpCall, ScannedCall
<1>2. c.call = "failed" => c.key \in Layer \cup {NoLayer}
  BY DEF Call, DispatchCall, ServiceCall, MissingBox, FailedCall, ConfirmBox,
         HealCall, PumpCall, ScannedCall
<1> QED BY <1>1, <1>2, JobFields

\* The sets the promises count are those of the books.
LEMMA CallsCounted ==
  ASSUME PipelineInv
  PROVE  /\ Cardinality(SlotCalls) = CountIn(stack, SlotHolders)
         /\ Cardinality({i \in SlotCalls :
              stack[i].call = "failed" /\ Tracked(stack[i].key)
                => ~activeJobs[stack[i].key].started}) = CountIn(stack, Owing(activeJobs))
         /\ Cardinality({i \in DOMAIN stack :
              \/ stack[i].call \in {"service", "missing"}
              \/ stack[i].call = "failed" /\ stack[i].live}) = CountIn(stack, ToCount)
<1>1. \A i \in DOMAIN stack : stack[i] \in Call
  BY BooksTypes
<1>2. SlotCalls = {i \in DOMAIN stack : stack[i] \in SlotHolders}
  BY <1>1 DEF SlotCalls, SlotHolders
<1>3. {i \in SlotCalls :
         stack[i].call = "failed" /\ Tracked(stack[i].key)
           => ~activeJobs[stack[i].key].started}
        = {i \in DOMAIN stack : stack[i] \in Owing(activeJobs)}
  BY <1>1 DEF SlotCalls, Owing, Tracked
<1>4. {i \in DOMAIN stack :
         \/ stack[i].call \in {"service", "missing"}
         \/ stack[i].call = "failed" /\ stack[i].live}
        = {i \in DOMAIN stack : stack[i] \in ToCount}
  BY <1>1 DEF ToCount
<1> QED BY <1>2, <1>3, <1>4 DEF CountIn

\* The map tracks the layers of builds and of calls that hold a slot.
LEMMA TrackedExactly == PipelineInv /\ BooksInv => TrackingExact
<1> SUFFICES ASSUME PipelineInv, BooksInv PROVE TrackingExact
  OBVIOUS
<1>1. /\ Builds = Built(pool)
      /\ \A w \in Built(pool) : pool[w].layer \in Layer
      /\ stack \in Seq(Call)
      /\ \A i \in DOMAIN stack : stack[i] \in Call
  BY BooksTypes
<1>2. Tracks
  BY DEF BooksInv
<1>3. NoLayer \notin Layer
  BY LayerAssumption
<1> DEFINE built  == {pool[w].layer : w \in Builds}
           failed == {stack[i].key : i \in {j \in SlotCalls : stack[j].call = "failed"}}
           served == {stack[i].job.layer : i \in {j \in SlotCalls : stack[j].call = "service"}}
<1>4. built \cup failed \cup served \subseteq Layer \cup {NoLayer}
  <2>1. built \subseteq Layer
    BY <1>1
  <2>2. failed \subseteq Layer \cup {NoLayer}
    BY <1>1, CallHolds DEF SlotCalls
  <2>3. served \subseteq Layer \cup {NoLayer}
    BY <1>1, CallHolds DEF SlotCalls
  <2> QED BY <2>1, <2>2, <2>3
<1>5. ASSUME NEW l \in Layer
      PROVE  activeJobs[l].kind # "none" <=> l \in built \cup failed \cup served
  <2>1. l \in built <=> \E w \in Built(pool) : pool[w].layer = l
    BY <1>1
  <2>2. l \in failed \cup served <=> \E i \in DOMAIN stack : stack[i] \in About(l)
    BY <1>1 DEF SlotCalls, About
  <2>3. /\ CountIn(stack, About(l)) \in Nat
        /\ CountIn(stack, About(l)) = 0 <=> \A i \in DOMAIN stack : stack[i] \notin About(l)
    BY <1>1, CountInType
  <2>4. CountIn(stack, About(l)) > 0 <=> \E i \in DOMAIN stack : stack[i] \in About(l)
    BY <2>3
  <2>5. activeJobs[l].kind # "none" <=>
          (\E w \in Built(pool) : pool[w].layer = l) \/ CountIn(stack, About(l)) > 0
    BY <1>2 DEF Tracks
  <2> HIDE DEF built, failed, served
  <2> QED BY <2>1, <2>2, <2>4, <2>5
<1>6. {l \in Layer : Tracked(l)} = {l \in Layer : activeJobs[l].kind # "none"}
  BY DEF Tracked
<1>7. {l \in Layer : activeJobs[l].kind # "none"} = (built \cup failed \cup served) \ {NoLayer}
  <2> HIDE DEF built, failed, served
  <2> QED BY <1>3, <1>4, <1>5
<1> QED BY <1>6, <1>7 DEF TrackingExact

\* The queue's books agree with what is under way at every point of its handlers,
\* with a message box open too: each slot is a build or a call that holds one,
\* each awaited start a call that owes one, each entry of the map a layer under
\* way, and no more than Cap files are decoded at once.
THEOREM BooksHold ==
  ASSUME Apart
  PROVE  Spec => []QueueBooks
<1>1. PipelineInv /\ BooksInv => QueueBooks
  <2> SUFFICES ASSUME PipelineInv, BooksInv PROVE QueueBooks
    OBVIOUS
  <2>1. /\ Builds = Built(pool)
        /\ Cardinality(Built(pool)) \in Nat
        /\ CountIn(stack, SlotHolders) \in Nat
    BY BooksTypes, BuildsCounted
  <2>2. Slots /\ Awaited
    BY DEF BooksInv
  <2>3. SlotsExact
    BY <2>1, <2>2, CallsCounted DEF Slots, SlotsExact
  <2>4. AwaitingExact
    BY <2>2, CallsCounted DEF Awaited, AwaitingExact
  <2>5. CapRespected
    <3>1. Cap \in Nat
      BY CapAssumption
    <3> QED BY <2>1, <2>2, <3>1 DEF Slots, CapRespected
  <2> QED BY <2>3, <2>4, <2>5, TrackedExactly DEF QueueBooks
<1> QED BY <1>1, Invariance, BooksInvariance, PTL

\* Every job taken in and not cancelled is queued, under way or counted once in
\* the summary: importBatch, dispatchNext, the service's signals and cancelQueue
\* lose none and report none twice.
THEOREM JobsCounted ==
  ASSUME Apart
  PROVE  Spec => []EveryJobCounted
<1>1. PipelineInv /\ BooksInv => EveryJobCounted
  <2> SUFFICES ASSUME PipelineInv, BooksInv PROVE EveryJobCounted
    OBVIOUS
  <2>1. Builds = Built(pool)
    BY BooksTypes
  <2>2. {w \in Builds : pool[w].epoch = epoch} = BuiltIn(pool, epoch)
    BY <2>1 DEF BuiltIn
  <2>3. Ledger
    BY DEF BooksInv
  <2> QED BY <2>2, <2>3, CallsCounted DEF Ledger, EveryJobCounted
<1> QED BY <1>1, Invariance, BooksInvariance, PTL

-----------------------------------------------------------------------------
(* A build that a cancel overtook.                                         *)

\* Its layer is in the map, of an earlier epoch and with no start to announce
\* the end of, and nothing else of its file is anywhere.
LEMMA OvertakenAlone ==
  ASSUME PipelineInv, BooksInv, NEW w \in Built(pool), pool[w].epoch # epoch
  PROVE  /\ pool[w].layer \in Layer
         /\ activeJobs[pool[w].layer].kind # "none"
         /\ activeJobs[pool[w].layer].epoch # epoch
         /\ signal[pool[w].layer] # "started"
         /\ \A i \in DOMAIN queue : queue[i].source # SourceOf[pool[w].layer]
         /\ \A i \in DOMAIN stack : stack[i] \notin CallsOf(SourceOf[pool[w].layer])
<1> DEFINE l == pool[w].layer
           s == SourceOf[l]
<1>1. /\ l \in Layer
      /\ activeJobs[l].kind # "none"
      /\ activeJobs[l].epoch = pool[w].epoch
      /\ \A i \in DOMAIN stack : stack[i] \notin CallsOf(s)
  BY BuildAlone
<1>2. signal[l] # "started"
  BY DEF BooksInv, BuildsFit
<1>3. \A i \in DOMAIN queue : queue[i].source # s
  <2>1. s \in Source /\ OneJobPerFile /\ queue \in Seq(Job)
    BY <1>1, LayerAssumption, BooksTypes DEF BooksInv
  <2> HIDE DEF s
  <2>2. /\ CountIn(queue, JobsOf(s)) \in Nat /\ CountIn(stack, CallsOf(s)) \in Nat
        /\ CountIn(queue, JobsOf(s)) + Cardinality(BuiltFrom(pool, s))
             + CountIn(stack, CallsOf(s)) <= 1
        /\ SourceOf[pool[w].layer] = s => Cardinality(BuiltFrom(pool, s)) = 1
    BY <2>1, OnePlace
  <2>3. Cardinality(BuiltFrom(pool, s)) = 1
    BY <2>2 DEF s
  <2>4. CountIn(queue, JobsOf(s)) = 0
    BY <2>2, <2>3
  <2>5. \A i \in DOMAIN queue : queue[i] \notin JobsOf(s)
    BY <2>1, <2>4, CountInType
  <2>6. \A i \in DOMAIN queue : queue[i] \in Job
    BY <2>1
  <2> QED BY <2>5, <2>6 DEF JobsOf
<1> QED BY <1>1, <1>2, <1>3

\* No step announces anything more about its layer.
LEMMA OvertakenSilent ==
  ASSUME Apart, PipelineInv, BooksInv, [Next]_vars,
         NEW w \in Built(pool), pool[w].epoch # epoch
  PROVE  signal'[pool[w].layer] = signal[pool[w].layer]
<1> DEFINE l == pool[w].layer
           s == SourceOf[l]
<1>1. /\ l \in Layer
      /\ activeJobs[l].kind # "none"
      /\ activeJobs[l].epoch # epoch
      /\ signal[l] # "started"
      /\ \A i \in DOMAIN queue : queue[i].source # s
      /\ \A i \in DOMAIN stack : stack[i] \notin CallsOf(s)
  BY OvertakenAlone
<1>2. /\ signal \in [Layer -> Signals] /\ queue \in Seq(Job) /\ stack \in Seq(Call)
      /\ w \in Builds
  BY BooksTypes
<1> SUFFICES signal'[l] = signal[l]
  OBVIOUS
<1> HIDE DEF l
<1>3. CASE UNCHANGED signal
  BY <1>3 DEF l
<1>4. ASSUME NEW S, S \subseteq Layer, \A k \in S : ~UnderWay(SourceOf[k]),
             signal' = [k \in Layer |-> IF k \in S THEN "completed" ELSE signal[k]]
      PROVE  signal'[l] = signal[l]
  <2>1. l \notin S
    BY <1>2, <1>4 DEF UnderWay, l
  <2> QED BY <1>1, <1>4, <2>1
<1>5. ASSUME NEW jobs \in Batches, NEW reused \in Reusable, ImportBatch(jobs, reused)
      PROVE  signal'[l] = signal[l]
  BY <1>4, <1>5 DEF ImportBatch, AcceptJobs, Reusable, Apart
<1>6. ASSUME NEW reused \in Reusable, ReuseBatch(reused)
      PROVE  signal'[l] = signal[l]
  BY <1>4, <1>6 DEF ReuseBatch, AcceptReuseOnly, Reusable, Apart
<1>7. CASE ConfirmCancel
  BY <1>1, <1>7 DEF ConfirmCancel, CancelQueue
<1>8. CASE DispatchMissing
  <2>1. /\ queue # <<>>
        /\ Head(queue).kind = "rebuild"
        /\ signal' = [signal EXCEPT ![Head(queue).layer] = "failed"]
    BY <1>8 DEF DispatchMissing, CanDispatch, WarnMissing
  <2>2. 1 \in DOMAIN queue /\ Head(queue) = queue[1] /\ Head(queue) \in Job
    BY <1>2, <2>1, LenProperties, EmptySeq, HeadTailProperties
  <2>3. Head(queue).layer # l
    BY <1>1, <2>1, <2>2, JobFields
  <2> QED BY <1>1, <1>2, <2>1, <2>3
<1>9. ASSUME NEW k, k # l \/ ~FailureLive(k), AnnounceFailure(k)
      PROVE  signal'[l] = signal[l]
  BY <1>1, <1>2, <1>9 DEF AnnounceFailure
<1>10. CASE ImportRefused \/ ReindexRefused
  <2>1. CASE ImportRefused
    <3>1. NoLayer # l
      BY <1>1, LayerAssumption
    <3> QED BY <1>9, <2>1, <3>1 DEF ImportRefused, FailWith
  <2>2. CASE ReindexRefused
    <3>1. /\ In("service") /\ Top.job.kind = "rebuild"
          /\ AnnounceFailure(Top.job.layer)
      BY <2>2 DEF ReindexRefused, FailWith
    <3>2. SourceOf[Top.job.layer] # s
      BY <3>1, ServiceTop DEF l
    <3> QED BY <1>9, <3>1, <3>2
  <2> QED BY <1>10, <2>1, <2>2
<1>11. ASSUME NEW k \in Layer, SourceOf[k] # s, OnIndexingStarted(k)
       PROVE  signal'[l] = signal[l]
  BY <1>1, <1>2, <1>11 DEF OnIndexingStarted
<1>12. ASSUME NEW k \in Layer, ImportStarts(k) PROVE signal'[l] = signal[l]
  <2>1. SourceOf[k] # s
    BY <1>12, ServiceTop DEF ImportStarts, l
  <2> QED BY <1>11, <1>12, <2>1 DEF ImportStarts
<1>13. CASE ReindexStarts
  <2>1. /\ In("service") /\ Top.job.kind = "rebuild"
        /\ \/ UNCHANGED managerVars
           \/ OnIndexingStarted(Top.job.layer)
    BY <1>13 DEF ReindexStarts
  <2>2. Top.job.layer \in Layer /\ SourceOf[Top.job.layer] # s
    BY <2>1, ServiceTop DEF l
  <2> QED BY <1>3, <1>11, <2>1, <2>2 DEF managerVars
<1>14. CASE BuildFails
  <2>1. AnnounceFailure(pool[Head(posted).worker].layer)
    BY <1>14 DEF BuildFails, EmitFailure
  <2>2. ~FailureLive(l)
    BY <1>1 DEF FailureLive, Tracked
  <2> QED BY <1>9, <2>1, <2>2
<1>15. ASSUME NEW S, OnIndexingComplete(S) PROVE signal'[l] = signal[l]
  <2>1. l \notin LiveIn(S)
    BY <1>1 DEF LiveIn
  <2> QED BY <1>1, <1>15, <2>1 DEF OnIndexingComplete
<1>16. CASE \/ \E extra \in Splits, refreshed \in SUBSET Layer :
                 ImportCompletes(extra, refreshed)
            \/ ReindexCompletes
  BY <1>15, <1>16 DEF ImportCompletes, ReindexCompletes
<1>17. ~(\/ PumpDrops \/ PumpStarts
         \/ ScanDiscarded \/ ScanFails \/ ScanCommits
         \/ ScanFinishes)
  BY NoScanRuns
<1>18. CASE \/ AskToCancel \/ DeclineCancel
            \/ \E k \in Layer : RemoveLayer(k)
            \/ \E plan \in RecoveryPlans : OpenProject(plan)
            \/ CloseProject
            \/ HealDone \/ DispatchJob \/ DispatchDone \/ DismissMissing
            \/ FailureSettles \/ PumpDone
            \/ RunDispatch \/ RunReport
            \/ \E v \in Worker : WorkerDone(v)
            \/ UNCHANGED vars
  <2>1. UNCHANGED signal
    BY <1>18 DEF AskToCancel, DeclineCancel, RemoveLayer, OpenProject, CloseProject,
      HealDone, DispatchJob, ClaimSlot, DispatchDone, ReportBatch, DismissMissing,
      CountMissing, FailureSettles, SettleFailure, PumpDone, RunDispatch, RunReport,
      ReportDeferred, WorkerDone, vars, managerVars
  <2> QED BY <1>3, <2>1
<1>19. ASSUME NEW k \in Layer, HealNext(k) PROVE signal'[l] = signal[l]
  <2>1. signal' = [j \in Layer |-> IF j \in {} THEN "completed" ELSE signal[j]]
    BY <1>19 DEF HealNext, AcceptJobs
  <2> QED BY <1>1, <2>1
<1>20. CASE Operator
  BY <1>5, <1>6, <1>7, <1>18, <1>20 DEF Operator
<1>21. CASE MainThread
  BY <1>8, <1>10, <1>12, <1>13, <1>14, <1>16, <1>17, <1>18, <1>19, <1>21 DEF MainThread
<1> QED BY <1>18, <1>20, <1>21 DEF Next

\* After a cancel, the jobs it overtook settle without another signal: no step of
\* the queue, the service or the operator, a later job of the same file included,
\* announces a start or an end about the layer of a build of an earlier epoch.
THEOREM CancelSilences ==
  ASSUME Apart
  PROVE  Spec => SilentAfterCancel
<1>1. PipelineInv /\ BooksInv /\ [Next]_vars
        => [\A w \in Builds : pool[w].epoch # epoch
              => signal'[pool[w].layer] = signal[pool[w].layer]]_vars
  <2> SUFFICES ASSUME PipelineInv, BooksInv, [Next]_vars,
                      NEW w \in Builds, pool[w].epoch # epoch
               PROVE  signal'[pool[w].layer] = signal[pool[w].layer]
    OBVIOUS
  <2>1. w \in Built(pool)
    BY BooksTypes
  <2> QED BY <2>1, OvertakenSilent
<1> QED BY <1>1, Invariance, BooksInvariance, PTL DEF Spec, SilentAfterCancel
=============================================================================
