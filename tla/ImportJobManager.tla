-------------------------- MODULE ImportJobManager --------------------------
(***************************************************************************)
(* app/import/ImportJobManager: the queue of import jobs, the slots it     *)
(* gives them, and its four slots on the signals of ImportService.  All of *)
(* it runs on the main thread.  One operator per handler; a handler that   *)
(* emits jobFailed is cut in two there, because the receiver of that       *)
(* signal opens a message box whose event loop runs other handlers before  *)
(* the emit returns.  ImportPipeline puts the operators together.          *)
(*                                                                         *)
(* An operator whose name has an underscore (OwesStart_Any) is a          *)
(* plausible bug in the operator after it.  No specification uses it; put  *)
(* in that operator's place, it shows which property would notice.         *)
(***************************************************************************)
EXTENDS ImportTypes

CONSTANT Cap  \* maxConcurrentJobs()

ASSUME CapAssumption == Cap \in Nat \ {0}

VARIABLES
  queue,           \* m_queue
  activeCount,     \* m_active_count
  awaiting,        \* m_awaiting_start_count
  activeJobs,      \* m_active_jobs, NoJob where the map has no entry
  epoch,           \* m_epoch
  activeJobEpoch,  \* m_active_job_epoch
  summary,         \* m_summary
  signal,          \* history: the last job signal emitted about each layer; a start
                   \* whose outcome a cancel made moot is forgotten
  accepted,        \* history: jobs taken in whose outcome is still to report
  announced        \* history: batchCompleted was emitted since work was taken in

managerVars == <<queue, activeCount, awaiting, activeJobs, epoch,
                 activeJobEpoch, summary, signal, accepted, announced>>

NoJob        == [kind |-> "none", started |-> FALSE, epoch |-> 0]
ActiveJob    == [kind : {"none", "import", "rebuild"}, started : BOOLEAN, epoch : Nat]
EmptySummary == [imported |-> 0, rebuilt |-> 0, reused |-> 0, failed |-> 0]
Summary      == [imported : Nat, rebuilt : Nat, reused : Nat, failed : Nat]
Total(s)     == s.imported + s.rebuilt + s.reused + s.failed

ManagerInit ==
  /\ queue = <<>>
  /\ activeCount = 0
  /\ awaiting = 0
  /\ activeJobs = [l \in Layer |-> NoJob]
  /\ epoch = 0
  /\ activeJobEpoch = 0
  /\ summary = EmptySummary
  /\ signal = [l \in Layer |-> "none"]
  /\ accepted = 0
  /\ announced = TRUE

Tracked(l) == l \in Layer /\ activeJobs[l].kind # "none"
Busy       == activeCount > 0 \/ queue # <<>>
Idle       == activeCount = 0 /\ queue = <<>>

-----------------------------------------------------------------------------
(* Work comes in.                                                          *)

\* importBatch with at least one job to run: the caller goes on to dispatchNext.
AcceptJobs(jobs, reused) ==
  /\ queue' = queue \o jobs
  /\ summary' = [summary EXCEPT !.reused = @ + Cardinality(reused)]
  /\ signal' = [l \in Layer |-> IF l \in reused THEN "completed" ELSE signal[l]]
  /\ accepted' = accepted + Len(jobs) + Cardinality(reused)
  /\ announced' = FALSE
  /\ UNCHANGED <<activeCount, awaiting, activeJobs, epoch, activeJobEpoch>>

\* The summary a reuse-only batch leaves behind.
ReuseSummary(reused) == [summary EXCEPT !.reused = @ + Cardinality(reused)]

\* importBatch with nothing but reuse: when no job runs, the summary is handed
\* to a deferred batchCompleted and cleared.
AcceptReuseOnly(reused) ==
  /\ summary' = IF activeCount = 0 THEN EmptySummary ELSE ReuseSummary(reused)
  /\ accepted' = IF activeCount = 0 THEN accepted - Total(summary)
                                    ELSE accepted + Cardinality(reused)
  /\ signal' = [l \in Layer |-> IF l \in reused THEN "completed" ELSE signal[l]]
  /\ announced' = FALSE
  /\ UNCHANGED <<queue, activeCount, awaiting, activeJobs, epoch, activeJobEpoch>>

-----------------------------------------------------------------------------
(* dispatchNext: the loop body and what follows the loop.                  *)

CanDispatch == activeCount < Cap /\ queue # <<>>

\* A rebuild whose source file is gone takes no slot: jobFailed is emitted ...
WarnMissing ==
  /\ queue' = Tail(queue)
  /\ signal' = [signal EXCEPT ![Head(queue).layer] = "failed"]
  /\ UNCHANGED <<activeCount, awaiting, activeJobs, epoch, activeJobEpoch,
                 summary, accepted, announced>>

\* ... and counted once the emit returns.
CountMissing_Skipped == UNCHANGED managerVars
CountMissing ==
  /\ summary' = [summary EXCEPT !.failed = @ + 1]
  /\ UNCHANGED <<queue, activeCount, awaiting, activeJobs, epoch,
                 activeJobEpoch, signal, accepted, announced>>

\* The head of the queue takes a slot; a rebuild is entered in the map at once,
\* a new import only when its layer id is known.
ClaimSlot ==
  LET job == Head(queue) IN
  /\ queue' = Tail(queue)
  /\ activeCount' = activeCount + 1
  /\ awaiting' = awaiting + 1
  /\ activeJobEpoch' = epoch
  /\ activeJobs' =
       IF job.kind = "rebuild"
       THEN [activeJobs EXCEPT ![job.layer] =
               [kind |-> "rebuild", started |-> FALSE, epoch |-> epoch]]
       ELSE activeJobs
  /\ UNCHANGED <<epoch, summary, signal, accepted, announced>>

\* After the loop: nothing runs and nothing waits, so the batch is reported.
ReportBatch ==
  IF Idle
  THEN /\ summary' = EmptySummary
       /\ accepted' = accepted - Total(summary)
       /\ announced' = TRUE
       /\ UNCHANGED <<queue, activeCount, awaiting, activeJobs, epoch,
                      activeJobEpoch, signal>>
  ELSE UNCHANGED managerVars

\* A deferred batchCompleted fires unless the queue was cancelled since.
ReportDeferred(tok) ==
  /\ announced' = (announced \/ tok = epoch)
  /\ UNCHANGED <<queue, activeCount, awaiting, activeJobs, epoch,
                 activeJobEpoch, summary, signal, accepted>>

-----------------------------------------------------------------------------
(* The slots on ImportService's signals.                                   *)

\* onIndexingStarted, past the early return for cache rebuilds.
OnIndexingStarted(l) ==
  LET job == IF Tracked(l)
             THEN [activeJobs[l] EXCEPT !.started = TRUE]
             ELSE [kind |-> "import", started |-> TRUE, epoch |-> activeJobEpoch]
  IN
  /\ awaiting' = IF awaiting > 0 THEN awaiting - 1 ELSE awaiting
  /\ activeJobs' = [activeJobs EXCEPT ![l] = job]
  /\ signal' = IF job.epoch = epoch THEN [signal EXCEPT ![l] = "started"] ELSE signal
  /\ UNCHANGED <<queue, activeCount, epoch, activeJobEpoch, summary,
                 accepted, announced>>

\* The layers of S the map tracks, and those of them that were dispatched in
\* the current epoch.
TrackedIn(S) == {l \in S : Tracked(l)}
LiveIn_Rebuilds(S) ==
  {l \in TrackedIn(S) : activeJobs[l].kind = "rebuild" /\ activeJobs[l].epoch = epoch}
LiveIn(S)    == {l \in TrackedIn(S) : activeJobs[l].epoch = epoch}

\* onIndexingComplete, once for every layer of S: the service reports every
\* layer it refreshed, and only those in the map give a slot back.  The caller
\* posts one deferred dispatchNext per tracked layer.
OnIndexingComplete(S) ==
  LET done == LiveIn(S)
      again == {l \in done : activeJobs[l].kind = "rebuild"}
  IN
  /\ signal' = [l \in Layer |-> IF l \in done THEN "completed" ELSE signal[l]]
  /\ activeJobs' = [l \in Layer |-> IF l \in TrackedIn(S) THEN NoJob ELSE activeJobs[l]]
  /\ activeCount' = activeCount - Cardinality(TrackedIn(S))
  /\ summary' = [summary EXCEPT !.rebuilt = @ + Cardinality(again),
                                !.imported = @ + Cardinality(done \ again)]
  /\ UNCHANGED <<queue, awaiting, epoch, activeJobEpoch, accepted, announced>>

\* onIndexingFailed, up to its emit of jobFailed.  An unknown id is taken to
\* be as live as the latest dispatch.
FailureLive_Latest(key) == activeJobEpoch = epoch
FailureLive(key) ==
  IF Tracked(key) THEN activeJobs[key].epoch = epoch ELSE activeJobEpoch = epoch

AnnounceFailure(key) ==
  /\ signal' = IF key \in Layer /\ FailureLive(key)
               THEN [signal EXCEPT ![key] = "failed"] ELSE signal
  /\ UNCHANGED <<queue, activeCount, awaiting, activeJobs, epoch,
                 activeJobEpoch, summary, accepted, announced>>

\* onIndexingFailed after the emit.  A failure is charged to a slot when its
\* layer is in the map or when any job still awaits its start.
FailureHoldsSlot(key) == Tracked(key) \/ awaiting > 0

\* The failure stands for the start that some dispatched job still owes.
OwesStart_Any(key) == awaiting > 0
OwesStart_NoFloor(key) == Tracked(key) => ~activeJobs[key].started
OwesStart(key) == awaiting > 0 /\ (Tracked(key) => ~activeJobs[key].started)

SettleFailure(key, live) ==
  /\ awaiting' = IF OwesStart(key) THEN awaiting - 1 ELSE awaiting
  /\ activeJobs' = IF Tracked(key) THEN [activeJobs EXCEPT ![key] = NoJob] ELSE activeJobs
  /\ summary' = IF live THEN [summary EXCEPT !.failed = @ + 1] ELSE summary
  /\ activeCount' = IF FailureHoldsSlot(key) THEN activeCount - 1 ELSE activeCount
  /\ UNCHANGED <<queue, epoch, activeJobEpoch, signal, accepted, announced>>

-----------------------------------------------------------------------------
(* cancelQueue.                                                            *)

\* With no job running, the cancel itself owes a deferred batchCompleted.
CancelReports_Never == FALSE
CancelReports == ~(activeCount > 0 \/ awaiting > 0)

CancelQueue ==
  /\ epoch' = epoch + 1
  /\ queue' = <<>>
  /\ summary' = IF CancelReports THEN EmptySummary ELSE summary
  /\ accepted' = IF CancelReports THEN 0 ELSE Total(summary)
  /\ signal' = [l \in Layer |-> IF signal[l] = "started" THEN "none" ELSE signal[l]]
  /\ UNCHANGED <<activeCount, awaiting, activeJobs, activeJobEpoch, announced>>

ManagerTypeOK ==
  /\ queue \in Seq(Job)
  /\ activeCount \in Int
  /\ awaiting \in Nat
  /\ activeJobs \in [Layer -> ActiveJob]
  /\ epoch \in Nat
  /\ activeJobEpoch \in Nat
  /\ summary \in Summary
  /\ signal \in [Layer -> {"none", "started", "completed", "failed"}]
  /\ accepted \in Int
  /\ announced \in BOOLEAN
=============================================================================
