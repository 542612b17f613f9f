--------------------------- MODULE ImportPipeline ---------------------------
(***************************************************************************)
(* ImportJobManager and ImportService on one main thread, with the event   *)
(* loop that joins them, the pool threads behind the service, and the      *)
(* operator in front of both.                                              *)
(*                                                                         *)
(* The main thread is a stack of calls.  Posted events (a pool thread's    *)
(* finished(), a deferred lambda) are taken in order, and only when the    *)
(* stack is empty or its top call sits in a message box, which runs an     *)
(* event loop of its own.  The operator acts only on an empty stack: the   *)
(* boxes are application modal.                                            *)
(***************************************************************************)
EXTENDS ImportJobManager, ImportService

CONSTANTS
  Overlap,      \* may a file be re-imported while a job of it is under way?
  MaxRequests,  \* bound: jobs asked for by the operator
  MaxBatch,     \* bound: files in one importBatch
  MaxCancels,   \* bound: uses of "Cancel Imports"
  MaxSplit,     \* bound: extra layers one import is split into
  MaxRemovals,  \* bound: layers the operator removes
  MaxDeeds      \* bound: jobs asked for, cancels and removals together

ASSUME PipelineAssumption ==
  /\ Overlap \in BOOLEAN
  /\ {MaxRequests, MaxBatch, MaxCancels, MaxSplit, MaxRemovals, MaxDeeds}
       \subseteq Nat

VARIABLES
  posted,    \* the main thread's posted events, oldest first
  stack,     \* the main thread's calls, innermost first
  project,   \* "none" before the project is opened, "open", "closed"
  requests,  \* how much of MaxRequests is used
  removals   \* how much of MaxRemovals is used

loopVars == <<posted, stack, project, requests, removals>>
vars == <<managerVars, serviceVars, loopVars>>

\* Posted events.
Finished(w)      == [event |-> "finished", worker |-> w]
Dispatch(tok)    == [event |-> "dispatch", tok |-> tok]
BatchReport(tok) == [event |-> "report",   tok |-> tok]
Event == [event : {"finished"}, worker : Worker]
           \cup [event : {"dispatch", "report"}, tok : Nat]

\* Calls on the main thread's stack.
DispatchCall      == [call |-> "dispatch"]                  \* the loop of dispatchNext
ServiceCall(job)  == [call |-> "service", job |-> job]      \* importFile or reindexLayer
MissingBox        == [call |-> "missing"]                   \* box: source file not found
FailedCall(k, lv) == [call |-> "failed", key |-> k, live |-> lv]  \* a box when live
ConfirmBox        == [call |-> "confirm"]                   \* box: imports still running
HealCall(ls)      == [call |-> "heal", todo |-> ls]         \* MainWindow's recovery loop
PumpCall          == [call |-> "pump"]                      \* the loop of pumpRebuilds
ScannedCall(l, c) == [call |-> "scanned", layer |-> l, cancelled |-> c]
Call == {DispatchCall, MissingBox, ConfirmBox, PumpCall}
          \cup {ServiceCall(j) : j \in Job}
          \cup {FailedCall(k, lv) : k \in Layer \cup {NoLayer}, lv \in BOOLEAN}
          \cup {HealCall(ls) : ls \in SUBSET Layer}
          \cup {ScannedCall(l, c) : l \in Layer, c \in BOOLEAN}

Init ==
  /\ ManagerInit
  /\ ServiceInit
  /\ posted = <<>>
  /\ stack = <<>>
  /\ project = "none"
  /\ requests = 0
  /\ removals = 0

-----------------------------------------------------------------------------
(* The stack.                                                              *)

Top      == Head(stack)
In(name) == stack # <<>> /\ Top.call = name
Push(c)  == stack' = <<c>> \o stack
Return   == stack' = Tail(stack)
Become(c) == stack' = <<c>> \o Tail(stack)

\* The top call waits in the event loop of a message box.
InBox == stack # <<>> /\ \/ Top.call \in {"missing", "confirm"}
                         \/ Top.call = "failed" /\ Top.live
TakesEvents == stack = <<>> \/ InBox

\* indexingFailed(key) is emitted: announce it, then settle it as a call.
\* "Emit" starts a call from the event loop, "Fail" ends the call on top.
EmitFailure(key) == AnnounceFailure(key) /\ Push(FailedCall(key, FailureLive(key)))
FailWith(key)    == AnnounceFailure(key) /\ Become(FailedCall(key, FailureLive(key)))

-----------------------------------------------------------------------------
(* The operator.                                                           *)

Acts == stack = <<>> /\ project = "open"

\* A job of this file is queued or under way.
UnderWay(s) ==
  \/ \E i \in DOMAIN queue : queue[i].source = s
  \/ \E w \in Builds : SourceOf[pool[w].layer] = s

\* What classifyImportAction can answer for a file: whether its stores are
\* still valid and which modalities are asked for is data of the file.
Offers ==
  {ImportJob(s) : s \in Source} \cup {RebuildJob(l) : l \in {k \in Layer : Present(k)}}

\* A layer the classifier may answer with "use what is there": one that may have
\* a parsed store, which a layer saved without data, or still at its first parse,
\* has not.
Unparsed(l) ==
  \/ layerState[l] = "Placeholder" /\ l \in DeadLayers
  \/ /\ layerState[l] = "Indexing"
     /\ l \notin StaleSet
     /\ \E w \in Builds : pool[w].layer = l
MayReuse(l) == Present(l) /\ ~Unparsed(l)

Distinct(jobs, reused) ==
  /\ \A i, j \in DOMAIN jobs : jobs[i].source = jobs[j].source => i = j
  /\ \A i \in DOMAIN jobs : \A l \in reused : jobs[i].source # SourceOf[l]

\* importBatch, called by the import wizard.
ImportBatch(jobs, reused) ==
  /\ Acts
  /\ jobs # <<>>
  /\ Distinct(jobs, reused)
  /\ Overlap \/ \A i \in DOMAIN jobs : ~UnderWay(jobs[i].source)
  /\ Overlap \/ \A l \in reused : ~UnderWay(SourceOf[l])
  /\ AcceptJobs(jobs, reused)
  /\ Push(DispatchCall)
  /\ requests' = requests + Len(jobs) + Cardinality(reused)
  /\ requests' <= MaxRequests /\ requests' + epoch + removals <= MaxDeeds
  /\ UNCHANGED <<serviceVars, posted, project, removals>>

\* A batch of files all of which are still parsed: nothing is dispatched.
ReuseBatch(reused) ==
  /\ Acts
  /\ reused # {}
  /\ Overlap \/ \A l \in reused : ~UnderWay(SourceOf[l])
  /\ AcceptReuseOnly(reused)
  /\ posted' = IF activeCount = 0 THEN Append(posted, BatchReport(epoch)) ELSE posted
  /\ requests' = requests + Cardinality(reused)
  /\ requests' <= MaxRequests /\ requests' + epoch + removals <= MaxDeeds
  /\ UNCHANGED <<serviceVars, stack, project, removals>>

\* A project switch or exit while imports run asks first ...
AskToCancel ==
  /\ Acts
  /\ Busy
  /\ epoch < MaxCancels /\ requests + epoch + removals < MaxDeeds
  /\ Push(ConfirmBox)
  /\ UNCHANGED <<managerVars, serviceVars, posted, project, requests, removals>>

\* ... and the answer is acted on whatever happened while the box was open.
ConfirmCancel ==
  /\ In("confirm")
  /\ CancelQueue
  /\ posted' = IF CancelReports THEN Append(posted, BatchReport(epoch + 1)) ELSE posted
  /\ Return
  /\ UNCHANGED <<serviceVars, project, requests, removals>>

DeclineCancel ==
  /\ In("confirm")
  /\ Return
  /\ UNCHANGED <<managerVars, serviceVars, posted, project, requests, removals>>

RemoveLayer(l) ==
  /\ Acts
  /\ removals < MaxRemovals /\ requests + epoch + removals < MaxDeeds
  /\ Present(l)
  /\ DropLayer(l)
  /\ removals' = removals + 1
  /\ UNCHANGED <<managerVars, sourceJobs, pool, scanQueue, scanTokens, scansRunning, posted, stack, project, requests>>

\* One layer per source among those without an index.
RecoveryPlans ==
  LET dead == {l \in Layer : layerState[l] = "Placeholder"} IN
  {ls \in SUBSET dead : \A l \in dead : \E k \in ls :
     SourceOf[k] = SourceOf[l] /\ \A j \in ls : SourceOf[j] = SourceOf[k] => j = k}

\* Opening a project scans the stores of the layers that have one but no
\* index, then re-imports every layer that still has no index.
OpenProject(plan) ==
  /\ project = "none"
  /\ stack = <<>>
  /\ project' = "open"
  /\ QueueScans(StaleLayers)
  /\ stack' = <<PumpCall, HealCall(plan)>>
  /\ UNCHANGED <<managerVars, posted, requests, removals>>

CloseProject ==
  /\ Acts
  /\ ~Busy
  /\ CancelScans
  /\ project' = "closed"
  /\ UNCHANGED <<managerVars, posted, stack, requests, removals>>

-----------------------------------------------------------------------------
(* Calls on the main thread.                                               *)

HealNext(l) ==
  /\ In("heal")
  /\ l \in Top.todo
  /\ AcceptJobs(<<RebuildJob(l)>>, {})
  /\ stack' = <<DispatchCall, HealCall(Top.todo \ {l})>> \o Tail(stack)
  /\ UNCHANGED <<serviceVars, posted, project, requests, removals>>

HealDone ==
  /\ In("heal")
  /\ Top.todo = {}
  /\ Return
  /\ UNCHANGED <<managerVars, serviceVars, posted, project, requests, removals>>

\* dispatchNext: one turn of the loop.
DispatchMissing ==
  /\ In("dispatch")
  /\ CanDispatch
  /\ Head(queue).kind = "rebuild"
  /\ WarnMissing
  /\ Push(MissingBox)
  /\ UNCHANGED <<serviceVars, posted, project, requests, removals>>

DismissMissing ==
  /\ In("missing")
  /\ CountMissing
  /\ Return
  /\ UNCHANGED <<serviceVars, posted, project, requests, removals>>

DispatchJob ==
  /\ In("dispatch")
  /\ CanDispatch
  /\ ClaimSlot
  /\ Push(ServiceCall(Head(queue)))
  /\ UNCHANGED <<serviceVars, posted, project, requests, removals>>

\* dispatchNext: after the loop.
DispatchDone ==
  /\ In("dispatch")
  /\ ~CanDispatch
  /\ ReportBatch
  /\ Return
  /\ UNCHANGED <<serviceVars, posted, project, requests, removals>>

\* importFile: preflight, the source already being built, or no layer to add.
ImportRefused ==
  /\ In("service")
  /\ Top.job.kind = "import"
  /\ FailWith(NoLayer)
  /\ UNCHANGED <<serviceVars, posted, project, requests, removals>>

ImportStarts(l) ==
  /\ In("service")
  /\ Top.job.kind = "import"
  /\ SourceOf[l] = Top.job.source
  /\ StartImport(l, epoch)
  /\ OnIndexingStarted(l)
  /\ Return
  /\ UNCHANGED <<posted, project, requests, removals>>

\* reindexLayer: the layer gone, the source already being built, or preflight.
ReindexRefused ==
  /\ In("service")
  /\ Top.job.kind = "rebuild"
  /\ FailWith(Top.job.layer)
  /\ UNCHANGED <<serviceVars, posted, project, requests, removals>>

\* indexingStarted is ignored for a layer whose store is being scanned.
ReindexStarts ==
  /\ In("service")
  /\ Top.job.kind = "rebuild"
  /\ StartReindex(Top.job.layer, epoch)
  /\ IF Top.job.layer \in scanTokens THEN UNCHANGED managerVars
                                     ELSE OnIndexingStarted(Top.job.layer)
  /\ Return
  /\ UNCHANGED <<posted, project, requests, removals>>

\* onIndexingFailed goes on: at once when suppressed, else when its box closes.
FailureSettles ==
  /\ In("failed")
  /\ SettleFailure(Top.key, Top.live)
  /\ posted' = IF FailureHoldsSlot(Top.key) THEN Append(posted, Dispatch(epoch)) ELSE posted
  /\ Return
  /\ UNCHANGED <<serviceVars, project, requests, removals>>

\* pumpRebuilds: one turn of the loop, and its end.
PumpDrops ==
  /\ In("pump")
  /\ CanPump
  /\ DropScan
  /\ EmitFailure(Head(scanQueue))
  /\ UNCHANGED <<posted, project, requests, removals>>

PumpStarts ==
  /\ In("pump")
  /\ CanPump
  /\ StartScan(epoch)
  /\ UNCHANGED <<managerVars, loopVars>>

PumpDone ==
  /\ In("pump")
  /\ ~CanPump
  /\ Return
  /\ UNCHANGED <<managerVars, serviceVars, posted, project, requests, removals>>

\* The rest of a scan's finished handler.
ScanDiscarded ==
  /\ In("scanned")
  /\ Top.cancelled
  /\ Return
  /\ UNCHANGED <<managerVars, serviceVars, posted, project, requests, removals>>

ScanFails ==
  /\ In("scanned")
  /\ ~Top.cancelled
  /\ FailWith(Top.layer)
  /\ UNCHANGED <<serviceVars, posted, project, requests, removals>>

ScanCommits ==
  /\ In("scanned")
  /\ ~Top.cancelled
  /\ CommitScan(Top.layer)
  /\ Return
  /\ UNCHANGED <<managerVars, posted, project, requests, removals>>

-----------------------------------------------------------------------------
(* Posted events.                                                          *)

Takes(name) == TakesEvents /\ posted # <<>> /\ Head(posted).event = name
Consume     == posted' = Tail(posted)

RunDispatch ==
  /\ Takes("dispatch")
  /\ Consume
  /\ IF Head(posted).tok = epoch THEN Push(DispatchCall) ELSE UNCHANGED stack
  /\ UNCHANGED <<managerVars, serviceVars, project, requests, removals>>

RunReport ==
  /\ Takes("report")
  /\ Consume
  /\ ReportDeferred(Head(posted).tok)
  /\ UNCHANGED <<serviceVars, stack, project, requests, removals>>

\* A build that failed, or could not be saved.
BuildFails ==
  LET w == Head(posted).worker IN
  /\ Takes("finished")
  /\ \/ ImportFails(w)
     \/ \E extra \in {e \in SUBSET Fresh(SourceOf[pool[w].layer]) :
                        Cardinality(e) <= MaxSplit} : ImportUnsaved(w, extra)
     \/ ReindexFails(w)
     \/ ReindexUnsaved(w)
  /\ EmitFailure(pool[w].layer)
  /\ Consume
  /\ UNCHANGED <<project, requests, removals>>

\* Deferred dispatches for the layers a completion gives slots back for.
SlotsBack_None(S) == <<>>
SlotsBack(S) == [i \in 1..Cardinality(TrackedIn(S)) |-> Dispatch(epoch)]

\* An import completes; existing layers of the file may be refreshed with it.
ImportCompletes(extra, refreshed) ==
  LET w == Head(posted).worker
      S == {pool[w].layer} \cup extra \cup refreshed IN
  /\ Takes("finished")
  /\ ImportCommits(w, extra)
  /\ refreshed \subseteq Linked(SourceOf[pool[w].layer])
  /\ OnIndexingComplete(S)
  /\ posted' = Tail(posted) \o SlotsBack(S)
  /\ UNCHANGED <<stack, project, requests, removals>>

\* A reindex completes for every layer of the file.
ReindexCompletes ==
  LET w == Head(posted).worker
      S == Linked(SourceOf[pool[w].layer]) IN
  /\ Takes("finished")
  /\ ReindexCommits(w)
  /\ OnIndexingComplete(S)
  /\ posted' = Tail(posted) \o SlotsBack(S)
  /\ UNCHANGED <<stack, project, requests, removals>>

\* A scan that ends first starts the next one, then deals with its result.
AfterScan_NoPump(c) == <<c>>
AfterScan(c) == <<PumpCall, c>>

ScanFinishes ==
  LET w == Head(posted).worker IN
  /\ Takes("finished")
  /\ EndScan(w)
  /\ Consume
  /\ stack' = AfterScan(ScannedCall(pool[w].layer, pool[w].cancelled)) \o stack
  /\ UNCHANGED <<managerVars, project, requests, removals>>

-----------------------------------------------------------------------------
(* Pool threads.                                                           *)

WorkerDone(w) ==
  /\ TaskEnds(w)
  /\ posted' = Append(posted, Finished(w))
  /\ UNCHANGED <<managerVars, stack, project, requests, removals>>

-----------------------------------------------------------------------------
Batches == UNION {[1..n -> Offers] : n \in 1..MaxBatch}
Reusable == {S \in SUBSET {l \in Layer : MayReuse(l)} : Cardinality(S) <= MaxBatch}

Operator ==
  \/ \E jobs \in Batches, reused \in Reusable : ImportBatch(jobs, reused)
  \/ \E reused \in Reusable : ReuseBatch(reused)
  \/ AskToCancel \/ ConfirmCancel \/ DeclineCancel
  \/ \E l \in Layer : RemoveLayer(l)
  \/ \E plan \in RecoveryPlans : OpenProject(plan)
  \/ CloseProject

Splits == {e \in SUBSET Layer : Cardinality(e) <= MaxSplit}

MainThread ==
  \/ \E l \in Layer : HealNext(l)
  \/ HealDone
  \/ DispatchMissing \/ DismissMissing \/ DispatchJob \/ DispatchDone
  \/ ImportRefused \/ (\E l \in Layer : ImportStarts(l))
  \/ ReindexRefused \/ ReindexStarts
  \/ FailureSettles
  \/ PumpDrops \/ PumpStarts \/ PumpDone
  \/ ScanDiscarded \/ ScanFails \/ ScanCommits
  \/ RunDispatch \/ RunReport
  \/ BuildFails
  \/ \E extra \in Splits, refreshed \in SUBSET Layer : ImportCompletes(extra, refreshed)
  \/ ReindexCompletes
  \/ ScanFinishes

Next == Operator \/ MainThread \/ \E w \in Worker : WorkerDone(w)

Spec == Init /\ [][Next]_vars

\* The event loop keeps running, pool threads finish, and the operator closes
\* every message box in the end.
Fairness ==
  /\ WF_vars(MainThread)
  /\ WF_vars(ConfirmCancel \/ DeclineCancel)
  /\ \A w \in Worker : WF_vars(WorkerDone(w))

FairSpec == Spec /\ Fairness

-----------------------------------------------------------------------------
(* Types.  What the service promises, whatever the operator does, is       *)
(* stated in ImportService.                                                *)

TypeOK ==
  /\ ManagerTypeOK
  /\ ServiceTypeOK
  /\ posted \in Seq(Event)
  /\ stack \in Seq(Call)
  /\ project \in {"none", "open", "closed"}
  /\ requests \in Nat
  /\ removals \in Nat

-----------------------------------------------------------------------------
(* What the queue promises, as long as no file is re-imported while a job  *)
(* of it is under way and no layer is scanned and re-imported at once.     *)

\* The calls that hold a slot without a build: a job on its way to the
\* service, and a failure whose message box is still open.
SlotCalls == {i \in DOMAIN stack : stack[i].call \in {"service", "failed"}}

\* m_active_count is the number of jobs dispatched and not yet done, at every
\* point of every handler.
SlotsExact == activeCount = Cardinality(Builds) + Cardinality(SlotCalls)

\* m_awaiting_start_count is the number of jobs dispatched whose start or
\* refusal is still to be processed.
AwaitingExact ==
  awaiting = Cardinality({i \in SlotCalls :
    stack[i].call = "failed" /\ Tracked(stack[i].key)
      => ~activeJobs[stack[i].key].started})

\* m_active_jobs holds exactly the layers whose job is under way.
TrackingExact ==
  {l \in Layer : Tracked(l)} =
    ({pool[w].layer : w \in Builds}
       \cup {stack[i].key : i \in {j \in SlotCalls : stack[j].call = "failed"}}
       \cup {stack[i].job.layer : i \in {j \in SlotCalls : stack[j].call = "service"}})
    \ {NoLayer}

\* Decision D-14: no more than Cap files are decoded at once, cancelled ones
\* that are still settling included.
CapRespected == Cardinality(Builds) <= Cap

\* The queue's books agree with what is under way, in the middle of its handlers
\* too, where a message box may be open: a slot, an awaited start or an entry that
\* drifts is never corrected later, and decodes run beyond the cap.
QueueBooks == SlotsExact /\ AwaitingExact /\ TrackingExact /\ CapRespected

\* Every job taken in and not cancelled is queued, under way, or counted once
\* in the summary: none is lost, none reported twice.
EveryJobCounted ==
  accepted = Total(summary) + Len(queue)
    + Cardinality({w \in Builds : pool[w].epoch = epoch})
    + Cardinality({i \in DOMAIN stack :
        \/ stack[i].call \in {"service", "missing"}
        \/ stack[i].call = "failed" /\ stack[i].live})

\* After a cancel, the jobs it overtook settle without another signal.
SilentAfterCancel ==
  [][\A w \in Builds : pool[w].epoch # epoch
       => signal'[pool[w].layer] = signal[pool[w].layer]]_vars

\* Once the operator stops asking, the queue runs dry and every slot comes
\* back: busy() cannot block a project switch for good.
BusySettles == []<>Idle

\* Work that was taken in is reported by a batchCompleted, whatever fails or
\* is cancelled in between.
BatchReported == []<>announced

\* Every jobStarted is followed by jobCompleted or jobFailed, or by a cancel
\* that makes its job's outcome moot.
StartedSettles == []<>(\A l \in Layer : signal[l] # "started")

\* Every scan asked for is started or dropped, and ends: pumpRebuilds hands the
\* place of a scan that ends in any way to the next one in line.
ScansDrain ==
  (scanQueue # <<>> \/ scansRunning > 0) ~> (scanQueue = <<>> /\ scansRunning = 0)
=============================================================================
