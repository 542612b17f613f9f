--------------------------- MODULE CorrectionBatch ---------------------------
(***************************************************************************)
(* CorrectionBatchOperator: bakes corrections into stores, one layer at a  *)
(* time on request or every customised layer through one capped queue per  *)
(* modality.  Each bake is a job of the DiagnosticsHub and a call of a     *)
(* correction service, whose background function cannot be interrupted.    *)
(*                                                                         *)
(* A job and the service call behind it are one record: status is what the *)
(* hub shows, task how far the call is.  The call's signal names its layer *)
(* only, so what a signal belongs to is decided by the operator's maps.    *)
(***************************************************************************)
EXTENDS Naturals, FiniteSets, Sequences

CONSTANTS
  Layer,         \* layer ids
  Modality,      \* sidescan and sub-bottom
  ModalityOf,    \* the modality of each layer
  MaxConcurrent  \* kMaxConcurrent

ASSUME BatchAssumption ==
  /\ ModalityOf \in [Layer -> Modality]
  /\ MaxConcurrent \in Nat \ {0}

NoJob   == 0
NoBatch == 0

VARIABLES
  jobs,            \* every job begun, by hub id
  nextJob,         \* the hub's next id
  jobIds,          \* m_job_ids, NoJob when absent
  jobGenerations,  \* m_job_generations, 0 when absent
  generation,      \* m_generation
  batch,           \* the batch of each modality: m_*_batch_id and its counters
  hubBatches,      \* the hub's batches, by id
  nextBatch        \* the hub's next batch id

batchVars == <<jobs, nextJob, jobIds, jobGenerations, generation, batch, hubBatches, nextBatch>>

Status == {"running", "completed", "failed", "cancelled"}
NoneOpen == [id |-> NoBatch, total |-> 0, pending |-> 0, succeeded |-> 0, dispatched |-> 0,
             layers |-> {}, queue |-> <<>>]

BatchInit ==
  /\ jobs = <<>> /\ nextJob = 1
  /\ jobIds = [l \in Layer |-> NoJob]
  /\ jobGenerations = [l \in Layer |-> 0]
  /\ generation = 1
  /\ batch = [m \in Modality |-> NoneOpen]
  /\ hubBatches = <<>> /\ nextBatch = 1

-----------------------------------------------------------------------------
(* Jobs.  An item is what a bake captures when it is asked for: its layer  *)
(* and the store it reads; tag is what the rest of the model attaches.     *)

Free(l) == jobIds[l] = NoJob
InBatch(l) == l \in batch[ModalityOf[l]].layers

NewJob(item, b, tag) ==
  [layer |-> item.layer, input |-> item.input, batch |-> b, session |-> tag,
   status |-> "running", task |-> "running", outcome |-> "none"]

\* beginJob and applyToLine for each of these <<item, batch id>>, in this order;
\* js, ids and gens are the jobs and the operator's maps before the first.
Begin(js, ids, gens, started, tag) ==
  LET n == Len(started)
      StartOf(l) == {i \in 1..n : started[i][1].layer = l} IN
  /\ nextJob' = nextJob + n
  /\ jobs' = [i \in 1..(nextJob - 1 + n) |->
                IF i < nextJob THEN js[i]
                ELSE NewJob(started[i - nextJob + 1][1], started[i - nextJob + 1][2], tag)]
  /\ jobIds' = [l \in Layer |-> IF StartOf(l) = {} THEN ids[l]
                                ELSE nextJob - 1 + CHOOSE i \in StartOf(l) : TRUE]
  /\ jobGenerations' = [l \in Layer |-> IF StartOf(l) = {} THEN gens[l] ELSE generation]

BeginJobs(started, tag) == Begin(jobs, jobIds, jobGenerations, started, tag)

\* applySSS, applySBP.
Apply(item, tag) ==
  /\ Free(item.layer) /\ ~InBatch(item.layer)
  /\ BeginJobs(<< <<item, NoBatch>> >>, tag)
  /\ UNCHANGED <<generation, batch, hubBatches, nextBatch>>

-----------------------------------------------------------------------------
(* Batches.                                                                *)

Lower(a, b) == IF a < b THEN a ELSE b

\* dispatchNextSss, dispatchNextSbp: the items begun, and the batch after it.
Slots(b) == Lower(MaxConcurrent - b.dispatched, Len(b.queue))
Pump(b)  == [i \in 1..Slots(b) |-> <<b.queue[i], b.id>>]
Pumped(b) == [b EXCEPT !.dispatched = @ + Slots(b),
                       !.queue = SubSeq(@, Slots(b) + 1, Len(@))]

\* bakeCustomized sets up a batch of these items.
NewBatch(id, items) ==
  [id |-> id, total |-> Len(items), pending |-> Len(items), succeeded |-> 0,
   dispatched |-> 0, layers |-> {items[i].layer : i \in DOMAIN items}, queue |-> items]

\* bakeCustomized: the sidescan batch, then the sub-bottom batch; wanted gives the
\* items of the customised layers of a modality that no job works on.
BakeCustomized(wanted, first, second, tag) ==
  LET Opens(m) == batch[m].id = NoBatch /\ wanted[m] # <<>>
      IdOf(m)  == IF m = second /\ Opens(first) THEN nextBatch + 1 ELSE nextBatch
      Fresh(m) == NewBatch(IdOf(m), wanted[m])
      Started(m) == IF Opens(m) THEN Pump(Fresh(m)) ELSE <<>>
      opened   == {m \in Modality : Opens(m)} IN
  /\ batch' = [m \in Modality |-> IF Opens(m) THEN Pumped(Fresh(m)) ELSE batch[m]]
  /\ nextBatch' = nextBatch + Cardinality(opened)
  /\ hubBatches' = hubBatches \o [i \in 1..Cardinality(opened) |-> "running"]
  /\ BeginJobs(Started(first) \o Started(second), tag)
  /\ UNCHANGED generation

\* settleSss, settleSbp, as functions of the batch: its counters without layer l,
\* and, after dispatchNext, its end.
Counted_KeepsSlot(b, l, ok) ==
  [b EXCEPT !.layers = @ \ {l}, !.pending = @ - 1, !.succeeded = IF ok THEN @ + 1 ELSE @]
Counted(b, l, ok) ==
  [b EXCEPT !.layers = @ \ {l}, !.dispatched = @ - 1, !.pending = @ - 1,
            !.succeeded = IF ok THEN @ + 1 ELSE @]
Closed(b) == IF b.pending = 0 THEN [b EXCEPT !.id = NoBatch, !.layers = {}] ELSE b
Verdict(b) == CASE b.succeeded = b.total -> "completed"
                [] b.succeeded > 0 /\ b.succeeded < b.total -> "errors"
                [] OTHER -> "failed"

-----------------------------------------------------------------------------
(* What a service signals for a layer: persisted, skipped or failed.       *)

\* acceptCurrentGeneration.
Current(l) == jobGenerations[l] = generation

\* The background function of call i returns.
Returns(i, outcome) ==
  /\ jobs[i].task = "running"
  /\ jobs' = [jobs EXCEPT ![i].task = "returned", ![i].outcome = outcome]
  /\ UNCHANGED <<nextJob, jobIds, jobGenerations, generation, batch, hubBatches, nextBatch>>

\* The signal's own call has settled; i is its hub id.
Settled(i) == [jobs EXCEPT ![i].task = "settled", ![i].outcome = "none"]

\* No: the layer is released, and nothing else comes of the signal.
Released_Never(l) == jobIds
Released(l) == IF jobGenerations[l] = 0 THEN jobIds ELSE [jobIds EXCEPT ![l] = NoJob]
DiscardSignal(i) ==
  LET l == jobs[i].layer IN
  /\ ~Current(l)
  /\ jobs' = Settled(i)
  /\ jobIds' = Released(l)
  /\ jobGenerations' = [jobGenerations EXCEPT ![l] = 0]
  /\ UNCHANGED <<nextJob, generation, batch, hubBatches, nextBatch>>

\* Yes: jobPersisted, jobSkipped or jobFailed, then the layer's batch if it is in
\* one.
AcceptSignal(i, tag) ==
  LET l  == jobs[i].layer
      m  == ModalityOf[l]
      ok == jobs[i].outcome # "failed"
      b  == Counted(batch[m], l, ok)
      after == Pumped(b)
      ended == [Settled(i) EXCEPT ![jobIds[l]].status = IF ok THEN "completed" ELSE "failed"]
      ids   == [jobIds EXCEPT ![l] = NoJob]
      gens  == [jobGenerations EXCEPT ![l] = 0] IN
  /\ Current(l)
  /\ IF InBatch(l)
     THEN /\ Begin(ended, ids, gens, Pump(b), tag)
          /\ batch' = [batch EXCEPT ![m] = Closed(after)]
          /\ hubBatches' = IF after.pending = 0 /\ after.id # NoBatch
                           THEN [hubBatches EXCEPT ![after.id] = Verdict(after)]
                           ELSE hubBatches
     ELSE /\ Begin(ended, ids, gens, <<>>, tag)
          /\ UNCHANGED <<batch, hubBatches>>
  /\ UNCHANGED <<generation, nextBatch>>

-----------------------------------------------------------------------------
\* cancelBatch: the calls under way stay, their jobs are shown as cancelled.
KeptIds_None == [l \in Layer |-> NoJob]
KeptIds == jobIds
NextGeneration_Same == generation
NextGeneration == generation + 1
CancelBatch ==
  /\ generation' = NextGeneration
  /\ jobs' = [i \in DOMAIN jobs |-> IF \E l \in Layer : jobIds[l] = i
                                    THEN [jobs[i] EXCEPT !.status = "cancelled"] ELSE jobs[i]]
  /\ hubBatches' = [b \in DOMAIN hubBatches |->
                      IF \E m \in Modality : batch[m].id = b THEN "cancelled"
                                                          ELSE hubBatches[b]]
  /\ batch' = [m \in Modality |-> NoneOpen]
  /\ jobIds' = KeptIds
  /\ UNCHANGED <<nextJob, jobGenerations, nextBatch>>
=============================================================================
