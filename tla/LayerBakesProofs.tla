--------------------------- MODULE LayerBakesProofs ---------------------------
(***************************************************************************)
(* Proofs about LayerBakes, for any layers, files and budgets: no imported *)
(* store is replaced, a layer never has two bakes or two graph runs under  *)
(* way, a bake of an earlier opening of the project is not committed, the  *)
(* counters of a batch are exact, and a layer at rest remembers what is in *)
(* the store it names.                                                     *)
(***************************************************************************)
EXTENDS LayerBakes, FiniteSetTheorems, SequenceTheorems, TLAPS

-----------------------------------------------------------------------------
(* D-04.                                                                   *)

StoreInv == DOMAIN stores = Path /\ BaselineKept

\* What a background function writes to is not a store of imported data.
LEMMA WrittenKeeps ==
  ASSUME NEW path, NEW l, NEW made, StoreInv, Written(SidecarPath(path, l), made)
  PROVE  StoreInv'
<1>1. DOMAIN stores' = Path'
  BY DEF StoreInv, Written, Path, RawOf, SideOf
<1>2. ASSUME NEW k \in Layer PROVE stores'[RawOf(k)] = Baseline
  <2>1. stores[RawOf(k)] = Baseline /\ RawOf(k) \in DOMAIN stores
    BY <1>2 DEF StoreInv, BaselineKept, Path
  <2>2. SidecarPath(path, l) # RawOf(k)
    BY <2>1 DEF SidecarPath, Baseline, RawOf, SideOf
  <2> QED BY <2>1, <2>2 DEF Written
<1> QED BY <1>1, <1>2 DEF StoreInv, BaselineKept, RawOf

LEMMA StoreInvInit == Init => StoreInv
BY DEF Init, StoreInv, BaselineKept, Path, RawOf, Baseline

LEMMA StoreInvStutter == StoreInv /\ UNCHANGED stores => StoreInv'
BY DEF StoreInv, BaselineKept, Path, RawOf, SideOf

LEMMA StoreInvStep == StoreInv /\ [Next]_vars => StoreInv'
<1> SUFFICES ASSUME StoreInv, [Next]_vars PROVE StoreInv'
  OBVIOUS
<1>1. CASE Operator
  BY <1>1, StoreInvStutter
     DEF Operator, ApplyOne, RunOne, Revert, BakeAll, RunProject, EditGraph, CloseProject,
         OpenProject, fileVars
<1>2. ASSUME NEW i \in DOMAIN jobs, NEW outcome, BakeReturns(i, outcome) PROVE StoreInv'
  <2>1. CASE outcome = "persisted"
    BY <1>2, <2>1, WrittenKeeps DEF BakeReturns
  <2>2. CASE outcome # "persisted"
    BY <1>2, <2>2, StoreInvStutter DEF BakeReturns, fileVars
  <2> QED BY <2>1, <2>2
<1>3. ASSUME NEW k \in DOMAIN runs, NEW outcome, RunExecutes(k, outcome) PROVE StoreInv'
  <2>1. CASE outcome = "persisted"
    BY <1>3, <2>1, WrittenKeeps DEF RunExecutes
  <2>2. CASE outcome # "persisted"
    BY <1>3, <2>2, StoreInvStutter DEF RunExecutes, fileVars
  <2> QED BY <2>1, <2>2
<1>4. ASSUME NEW i \in DOMAIN jobs, BakeSignal(i) PROVE StoreInv'
  BY <1>4, StoreInvStutter DEF BakeSignal, fileVars
<1>5. ASSUME NEW k \in DOMAIN runs, RunDelivers(k) PROVE StoreInv'
  BY <1>5, StoreInvStutter DEF RunDelivers, fileVars
<1>6. CASE UNCHANGED vars
  BY <1>6, StoreInvStutter DEF vars, fileVars
<1> QED BY <1>1, <1>2, <1>3, <1>4, <1>5, <1>6 DEF Next, Bake, Run, Resting

\* D-04: no bake or graph run ever replaces the imported data of any file.
THEOREM BaselinesAreKept == Spec => []BaselineKept
<1>1. StoreInv => BaselineKept
  BY DEF StoreInv
<1> QED BY StoreInvInit, StoreInvStep, <1>1, PTL DEF Spec

-----------------------------------------------------------------------------
(* One graph run of a layer.                                               *)

RequestShape(r) ==
  /\ DOMAIN r = {"layer", "input", "graph", "outcome"}
  /\ r.layer \in Layer
  /\ r.input = RawOf(r.layer)

RunShape ==
  /\ nextRun \in Nat \ {0}
  /\ DOMAIN runs = 1..(nextRun - 1)
  /\ \A k \in DOMAIN runs :
       /\ DOMAIN runs[k] = {"requests", "executed", "phase"}
       /\ \A i \in DOMAIN runs[k].requests : RequestShape(runs[k].requests[i])

\* Runs under way use different baselines, and those are the active ones.
RunsApart ==
  \A k, j \in DOMAIN runs : k # j /\ Under(k) /\ Under(j)
    => Paths(runs[k].requests) \cap Paths(runs[j].requests) = {}

PathsExact ==
  \A p : p \in activePaths <=>
    \E k \in DOMAIN runs : Under(k) /\ p \in Paths(runs[k].requests)

RunInv == RunShape /\ RunsApart /\ PathsExact

LEMMA RunInvInit == Init => RunInv
BY DEF Init, ServiceInit, RunInv, RunShape, RunsApart, PathsExact, Paths, Under

LEMMA RunInvStutter == RunInv /\ UNCHANGED serviceVars => RunInv'
<1> SUFFICES ASSUME RunInv, UNCHANGED serviceVars PROVE RunInv'
  OBVIOUS
<1>1. RunShape'
  BY DEF RunInv, RunShape, serviceVars, RequestShape, RawOf
<1>2. RunsApart' /\ PathsExact'
  BY DEF RunInv, RunsApart, PathsExact, serviceVars, Under
<1> QED BY <1>1, <1>2 DEF RunInv

LEMMA StartKeeps ==
  ASSUME RunInv, NEW requests, Start(requests),
         \A i \in DOMAIN requests : RequestShape(requests[i]),
         Paths(requests) \cap activePaths = {}
  PROVE  RunInv'
<1> USE DEF RunInv
<1>1. /\ nextRun' = nextRun + 1 /\ DOMAIN runs' = 1..nextRun
      /\ \A k \in DOMAIN runs : runs'[k] = runs[k]
      /\ nextRun \notin DOMAIN runs /\ DOMAIN runs' = DOMAIN runs \cup {nextRun}
      /\ runs'[nextRun] = [requests |-> requests, executed |-> 0, phase |-> "running"]
      /\ activePaths' = activePaths \cup Paths(requests)
  BY DEF Start, Reserved, RunShape
<1>2. RunShape'
  BY <1>1 DEF RunShape, RequestShape, RawOf
<1>3. \A j \in DOMAIN runs : Under(j) => Paths(runs[j].requests) \cap Paths(requests) = {}
  BY DEF PathsExact
<1>4. \A k \in DOMAIN runs' :
        IF k = nextRun
        THEN (Under(k))' /\ runs'[k].requests = requests
        ELSE k \in DOMAIN runs /\ ((Under(k))' <=> Under(k)) /\ runs'[k].requests = runs[k].requests
  <2>1. runs'[nextRun].phase = "running" /\ runs'[nextRun].requests = requests
    BY <1>1
  <2>2. \A k \in DOMAIN runs' : k # nextRun => k \in DOMAIN runs /\ runs'[k] = runs[k]
    BY <1>1
  <2> QED BY <2>1, <2>2 DEF Under
<1>5. RunsApart'
  <2> SUFFICES ASSUME NEW k \in DOMAIN runs', NEW j \in DOMAIN runs', k # j, (Under(k))', (Under(j))'
               PROVE  Paths(runs'[k].requests) \cap Paths(runs'[j].requests) = {}
    BY DEF RunsApart
  <2>1. CASE k = nextRun
    BY <2>1, <1>3, <1>4
  <2>2. CASE j = nextRun
    BY <2>2, <1>3, <1>4
  <2>3. CASE k # nextRun /\ j # nextRun
    BY <2>3, <1>4 DEF RunsApart
  <2> QED BY <2>1, <2>2, <2>3
<1>6. PathsExact'
  BY <1>1, <1>4 DEF PathsExact
<1> QED BY <1>2, <1>5, <1>6

LEMMA ExecuteKeeps ==
  ASSUME RunInv, NEW k \in DOMAIN runs, NEW outcome, Execute(k, outcome)
  PROVE  RunInv'
<1> USE DEF RunInv
<1>1. /\ UNCHANGED <<nextRun, activePaths>> /\ DOMAIN runs' = DOMAIN runs
      /\ \A j \in DOMAIN runs :
           /\ DOMAIN runs'[j] = {"requests", "executed", "phase"}
           /\ runs'[j].phase = runs[j].phase
           /\ DOMAIN runs'[j].requests = DOMAIN runs[j].requests
           /\ \A i \in DOMAIN runs[j].requests :
                /\ RequestShape(runs'[j].requests[i])
                /\ runs'[j].requests[i].input = runs[j].requests[i].input
  BY DEF Execute, RunShape, RequestShape
<1>2. RunShape'
  BY <1>1 DEF RunShape, RequestShape, RawOf
<1>3. \A j \in DOMAIN runs : Paths(runs'[j].requests) = Paths(runs[j].requests)
  BY <1>1 DEF Paths
<1> QED BY <1>1, <1>2, <1>3 DEF RunsApart, PathsExact, Under

LEMMA DeliverKeeps ==
  ASSUME RunInv, NEW k \in DOMAIN runs, Deliver(k)
  PROVE  RunInv'
<1> USE DEF RunInv
<1>1. /\ UNCHANGED nextRun /\ DOMAIN runs' = DOMAIN runs
      /\ \A j \in DOMAIN runs :
           /\ DOMAIN runs'[j] = {"requests", "executed", "phase"}
           /\ runs'[j].requests = runs[j].requests
           /\ runs'[j].phase = IF j = k THEN "delivered" ELSE runs[j].phase
      /\ Under(k)
      /\ activePaths' = activePaths \ Paths(runs[k].requests)
  BY DEF Deliver, RunShape
<1>2. RunShape'
  BY <1>1 DEF RunShape, RequestShape, RawOf
<1>3. \A j \in DOMAIN runs : (Under(j))' <=> Under(j) /\ j # k
  BY <1>1 DEF Under
<1>4. RunsApart'
  BY <1>1, <1>3 DEF RunsApart
<1>5. PathsExact'
  BY <1>1, <1>3 DEF PathsExact, RunsApart
<1> QED BY <1>2, <1>4, <1>5

\* One layer, then all layers whose baseline is not in use.
LEMMA RunOneKeeps == ASSUME RunInv, NEW l \in Layer, RunOne(l) PROVE RunInv'
<1>1. CASE Refused(RequestOf(l).input)
  BY <1>1, RunInvStutter DEF RunOne, RunLayer
<1>2. CASE ~Refused(RequestOf(l).input)
  <2>1. Start(<<RequestOf(l)>>)
    BY <1>2 DEF RunOne, RunLayer
  <2>2. \A i \in DOMAIN <<RequestOf(l)>> : RequestShape(<<RequestOf(l)>>[i])
    BY DEF RequestOf, Request, RequestShape
  <2>3. Paths(<<RequestOf(l)>>) \cap activePaths = {}
    BY <1>2 DEF Paths, Refused
  <2> QED BY <2>1, <2>2, <2>3, StartKeeps
<1> QED BY <1>1, <1>2

LEMMA RunProjectKeeps == RunInv /\ RunProject => RunInv'
<1> SUFFICES ASSUME RunInv, RunProject PROVE RunInv'
  OBVIOUS
<1> DEFINE free == {l \in Layer : ~Refused(RawOf(l))}
           ls   == InOrder[free]
           requests == [i \in DOMAIN ls |-> RequestOf(ls[i])]
<1>1. RunAll(requests)
  BY DEF RunProject
<1>2. ls \in Seq(free)
  BY BakesAssumption DEF BakesAssumption
<1>3. \A i \in DOMAIN requests : ls[i] \in free /\ requests[i] = RequestOf(ls[i])
  BY <1>2
<1> HIDE DEF requests, ls
<1>4. \A i \in DOMAIN requests : RequestShape(requests[i])
  BY <1>3 DEF RequestOf, Request, RequestShape
<1>5. Paths(requests) \cap activePaths = {}
  BY <1>3 DEF Paths, Refused, RequestOf, Request
<1>6. CASE requests = <<>>
  BY <1>1, <1>6, RunInvStutter DEF RunAll
<1>7. CASE requests # <<>>
  BY <1>1, <1>7, <1>4, <1>5, StartKeeps DEF RunAll
<1> QED BY <1>6, <1>7

LEMMA RunInvStep == RunInv /\ [Next]_vars => RunInv'
<1> SUFFICES ASSUME RunInv, [Next]_vars PROVE RunInv'
  OBVIOUS
<1>1. CASE Operator
  <2>1. ASSUME NEW l \in Layer, RunOne(l) PROVE RunInv'
    BY <2>1, RunOneKeeps
  <2>2. CASE RunProject
    BY <2>2, RunProjectKeeps
  <2> QED BY <1>1, <2>1, <2>2, RunInvStutter
       DEF Operator, ApplyOne, Revert, BakeAll, EditGraph, CloseProject, OpenProject
<1>2. ASSUME NEW i \in DOMAIN jobs, Bake(i) PROVE RunInv'
  BY <1>2, RunInvStutter DEF Bake, BakeReturns, BakeSignal
<1>3. ASSUME NEW k \in DOMAIN runs, Run(k) PROVE RunInv'
  BY <1>3, ExecuteKeeps, DeliverKeeps DEF Run, RunExecutes, RunDelivers
<1>4. CASE UNCHANGED vars
  BY <1>4, RunInvStutter DEF vars
<1> QED BY <1>1, <1>2, <1>3, <1>4 DEF Next, Resting

\* A set in which any two members are equal has at most one.
LEMMA AtMostOne ==
  ASSUME NEW S, \A x, y \in S : x = y
  PROVE  Cardinality(S) <= 1
<1>1. CASE S = {}
  BY <1>1, FS_EmptySet
<1>2. CASE S # {}
  <2> PICK x : x \in S
    BY <1>2
  <2>1. S = {x}
    OBVIOUS
  <2> QED BY <2>1, FS_Singleton
<1> QED BY <1>1, <1>2

LEMMA OneRun ==
  ASSUME RunInv, NEW l \in Layer
  PROVE  Cardinality(Runs(l)) <= 1
<1>1. ASSUME NEW k \in Runs(l), NEW j \in Runs(l) PROVE k = j
  <2>1. RawOf(l) \in Paths(runs[k].requests) /\ RawOf(l) \in Paths(runs[j].requests)
    BY DEF Runs, RunInv, RunShape, RequestShape, Paths
  <2> QED BY <2>1 DEF Runs, RunInv, RunsApart, Under
<1> QED BY <1>1, AtMostOne

-----------------------------------------------------------------------------
(* One bake of a layer: an unsettled call is the one its layer's entry in  *)
(* the operator's maps names, and no queued layer has an entry.            *)

\* A bake of a layer reads its baseline or its sidecar, never a store of another.
Own(l) == {RawOf(l), SideOf(l)}
Item == {it \in [layer : Layer, input : Path] : it.input \in Own(it.layer)}
Job  == {j \in [layer : Layer, input : Path, batch : Nat, session : Nat, status : Status,
                task : {"running", "returned", "settled"},
                outcome : {"none", "persisted", "skipped", "failed"}] : j.input \in Own(j.layer)}
BatchRec == [id : Nat, total : Nat, pending : Int, succeeded : Nat, dispatched : Int,
             layers : SUBSET Layer, queue : Seq(Item)]

BakeTypes ==
  /\ nextJob \in Nat \ {0} /\ nextBatch \in Nat \ {0} /\ generation \in Nat \ {0}
  /\ session \in Nat
  /\ jobs \in [1..(nextJob - 1) -> Job]
  /\ jobIds \in [Layer -> Nat] /\ jobGenerations \in [Layer -> Nat]
  /\ batch \in [Modality -> BatchRec]

LayerTypes ==
  /\ customized \subseteq Layer
  /\ DOMAIN layers = Layer
  /\ \A l \in Layer : /\ DOMAIN layers[l] = {"artifact", "index", "origin", "applied"}
                      /\ layers[l].artifact \in Own(l)

\* Over the jobs and maps of any moment, for they change together: every unsettled
\* call is its layer's, and one of an earlier session is known to be.
Linked(js, ids, gens, ses, gen) ==
  /\ \A l \in Layer : (ids[l] = 0 <=> gens[l] = 0) /\ gens[l] <= gen
  /\ \A l \in Layer : ids[l] # 0 => /\ ids[l] \in DOMAIN js
                                    /\ js[ids[l]].layer = l
                                    /\ js[ids[l]].task # "settled"
  /\ \A i \in DOMAIN js : js[i].task # "settled" =>
       /\ ids[js[i].layer] = i
       /\ js[i].session # ses => gens[js[i].layer] # gen /\ js[i].status = "cancelled"

QueueFits(b) ==
  /\ b.dispatched <= MaxConcurrent
  /\ b.pending = Len(b.queue) + b.dispatched
  /\ \A i, j \in DOMAIN b.queue : b.queue[i].layer = b.queue[j].layer => i = j

QueueFree(m, b, ids) ==
  \A i \in DOMAIN b.queue : /\ ModalityOf[b.queue[i].layer] = m
                            /\ b.queue[i].layer \in b.layers
                            /\ ids[b.queue[i].layer] = 0

BakeInv ==
  /\ BakeTypes
  /\ LayerTypes
  /\ Linked(jobs, jobIds, jobGenerations, session, generation)
  /\ \A m \in Modality : QueueFits(batch[m]) /\ QueueFree(m, batch[m], jobIds)

LEMMA NoneOpenFits ==
  ASSUME NEW m, NEW ids
  PROVE  NoneOpen \in BatchRec /\ QueueFits(NoneOpen) /\ QueueFree(m, NoneOpen, ids)
<1>1. <<>> \in Seq(Item) /\ Len(<<>>) = 0
  OBVIOUS
<1> QED BY <1>1, BatchAssumption
     DEF NoneOpen, BatchRec, NoBatch, QueueFits, QueueFree, BatchAssumption

LEMMA BakeInvInit == Init => BakeInv
<1> SUFFICES ASSUME Init PROVE BakeInv
  OBVIOUS
<1>1. BakeTypes
  BY NoneOpenFits DEF Init, BatchInit, BakeTypes, NoJob
<1>2. LayerTypes
  BY BakesAssumption DEF Init, LayerTypes, Own, BakesAssumption
<1>3. Linked(jobs, jobIds, jobGenerations, session, generation)
  BY DEF Init, BatchInit, Linked, NoJob
<1>4. \A m \in Modality : QueueFits(batch[m]) /\ QueueFree(m, batch[m], jobIds)
  BY NoneOpenFits DEF Init, BatchInit
<1> QED BY <1>1, <1>2, <1>3, <1>4 DEF BakeInv

LEMMA BakeInvStutter ==
  BakeInv /\ UNCHANGED <<batchVars, layers, customized, session>> => BakeInv'
<1> SUFFICES ASSUME BakeInv, UNCHANGED <<batchVars, layers, customized, session>> PROVE BakeInv'
  OBVIOUS
<1>1. BakeTypes'
  BY DEF BakeInv, BakeTypes, batchVars
<1>2. LayerTypes'
  BY DEF BakeInv, LayerTypes
<1>3. Linked(jobs, jobIds, jobGenerations, session, generation)'
  BY DEF BakeInv, batchVars
<1>4. (\A m \in Modality : QueueFits(batch[m]) /\ QueueFree(m, batch[m], jobIds))'
  BY DEF BakeInv, batchVars
<1> QED BY <1>1, <1>2, <1>3, <1>4 DEF BakeInv

-----------------------------------------------------------------------------
(* Calls begun.                                                            *)

\* Calls can be begun for free and different layers.
MayBegin(js, ids, gens, started) ==
  /\ nextJob \in Nat \ {0} /\ generation \in Nat \ {0} /\ session \in Nat
  /\ js \in [1..(nextJob - 1) -> Job]
  /\ ids \in [Layer -> Nat] /\ gens \in [Layer -> Nat]
  /\ Linked(js, ids, gens, session, generation)
  /\ started \in Seq(Item \X Nat)
  /\ \A i \in DOMAIN started : ids[started[i][1].layer] = 0
  /\ \A i, j \in DOMAIN started : started[i][1].layer = started[j][1].layer => i = j

Begun(js, ids, started) ==
  /\ nextJob' \in Nat \ {0}
  /\ jobs' \in [1..(nextJob' - 1) -> Job]
  /\ jobIds' \in [Layer -> Nat] /\ jobGenerations' \in [Layer -> Nat]
  /\ Linked(jobs', jobIds', jobGenerations', session, generation)
  /\ \A l \in Layer : (\A i \in DOMAIN started : started[i][1].layer # l) => jobIds'[l] = ids[l]
  /\ \A i \in DOMAIN js : i \in DOMAIN jobs' /\ jobs'[i] = js[i]

\* No call under way is touched.
CallsKept == \A i \in DOMAIN jobs : i \in DOMAIN jobs' /\ jobs'[i] = jobs[i]
OthersKept(i) == \A k \in DOMAIN jobs : k # i => k \in DOMAIN jobs' /\ jobs'[k] = jobs[k]

LEMMA BeginKeeps ==
  ASSUME NEW js, NEW ids, NEW gens, NEW started,
         MayBegin(js, ids, gens, started), Begin(js, ids, gens, started, session)
  PROVE  Begun(js, ids, started)
<1> USE DEF MayBegin
<1> DEFINE n == Len(started)
           LayerOf(i) == started[i][1].layer
           StartOf(l) == {i \in 1..n : LayerOf(i) = l}
<1>1. /\ n \in Nat /\ DOMAIN started = 1..n
      /\ \A i \in 1..n : started[i] \in Item \X Nat
  OBVIOUS
<1>2. \A i \in 1..n : LayerOf(i) \in Layer /\ started[i][1] \in Item /\ started[i][2] \in Nat
  BY <1>1 DEF Item
<1>3. \A i \in 1..n : NewJob(started[i][1], started[i][2], session) \in Job
  BY <1>2 DEF NewJob, Job, Item, Status
<1>4. /\ nextJob' = nextJob + n
      /\ jobs' = [i \in 1..(nextJob - 1 + n) |->
                    IF i < nextJob THEN js[i]
                    ELSE NewJob(started[i - nextJob + 1][1], started[i - nextJob + 1][2], session)]
      /\ jobIds' = [l \in Layer |-> IF StartOf(l) = {} THEN ids[l]
                                    ELSE nextJob - 1 + CHOOSE i \in StartOf(l) : TRUE]
      /\ jobGenerations' = [l \in Layer |-> IF StartOf(l) = {} THEN gens[l] ELSE generation]
  BY DEF Begin
<1>5. \A i \in 1..n : StartOf(LayerOf(i)) = {i} /\ (CHOOSE j \in StartOf(LayerOf(i)) : TRUE) = i
  <2> SUFFICES ASSUME NEW i \in 1..n PROVE StartOf(LayerOf(i)) = {i}
    OBVIOUS
  <2> QED BY <1>1
<1>6. \A l \in Layer : IF StartOf(l) = {} THEN jobIds'[l] = ids[l] /\ jobGenerations'[l] = gens[l]
                       ELSE \E i \in 1..n : /\ LayerOf(i) = l
                                            /\ jobIds'[l] = nextJob - 1 + i
                                            /\ jobGenerations'[l] = generation
  BY <1>4, <1>5
<1>7. \A i \in 1..n : /\ jobIds'[LayerOf(i)] = nextJob - 1 + i
                      /\ jobGenerations'[LayerOf(i)] = generation
                      /\ ids[LayerOf(i)] = 0
  BY <1>1, <1>2, <1>4, <1>5
<1>8. \A i \in 1..(nextJob - 1 + n) :
        IF i < nextJob THEN i \in DOMAIN js /\ jobs'[i] = js[i]
        ELSE \E k \in 1..n : /\ i = nextJob - 1 + k
                             /\ jobs'[i] = NewJob(started[k][1], started[k][2], session)
                             /\ jobs'[i].layer = LayerOf(k) /\ jobs'[i].session = session
                             /\ jobs'[i].task = "running"
  BY <1>1, <1>4 DEF NewJob
<1>9. jobs' \in [1..(nextJob' - 1) -> Job]
  BY <1>1, <1>3, <1>4, <1>8
<1>10. jobIds' \in [Layer -> Nat] /\ jobGenerations' \in [Layer -> Nat]
  <2>1. ASSUME NEW l \in Layer PROVE jobIds'[l] \in Nat /\ jobGenerations'[l] \in Nat
    <3>1. CASE StartOf(l) = {}
      BY <1>6, <3>1
    <3>2. CASE StartOf(l) # {}
      <4> PICK i \in 1..n : jobIds'[l] = nextJob - 1 + i /\ jobGenerations'[l] = generation
        BY <1>6, <3>2
      <4> QED BY <1>1
    <3> QED BY <3>1, <3>2
  <2>2. DOMAIN jobIds' = Layer /\ jobIds' = [l \in Layer |-> jobIds'[l]]
    BY <1>4
  <2>3. DOMAIN jobGenerations' = Layer /\ jobGenerations' = [l \in Layer |-> jobGenerations'[l]]
    BY <1>4
  <2> QED BY <2>1, <2>2, <2>3
<1>11. Linked(jobs', jobIds', jobGenerations', session, generation)
  <2>1. \A l \in Layer : (jobIds'[l] = 0 <=> jobGenerations'[l] = 0) /\ jobGenerations'[l] <= generation
    <3> SUFFICES ASSUME NEW l \in Layer
                 PROVE  (jobIds'[l] = 0 <=> jobGenerations'[l] = 0) /\ jobGenerations'[l] <= generation
      OBVIOUS
    <3>1. CASE StartOf(l) = {}
      BY <1>6, <3>1 DEF Linked
    <3>2. CASE StartOf(l) # {}
      <4> PICK i \in 1..n : jobIds'[l] = nextJob - 1 + i /\ jobGenerations'[l] = generation
        BY <1>6, <3>2
      <4> QED BY <1>1
    <3> QED BY <3>1, <3>2
  <2>2. \A l \in Layer : jobIds'[l] # 0 => /\ jobIds'[l] \in DOMAIN jobs'
                                           /\ jobs'[jobIds'[l]].layer = l
                                           /\ jobs'[jobIds'[l]].task # "settled"
    <3> SUFFICES ASSUME NEW l \in Layer, jobIds'[l] # 0
                 PROVE  /\ jobIds'[l] \in DOMAIN jobs'
                        /\ jobs'[jobIds'[l]].layer = l
                        /\ jobs'[jobIds'[l]].task # "settled"
      OBVIOUS
    <3>1. CASE StartOf(l) = {}
      <4>1. ids[l] \in DOMAIN js /\ jobIds'[l] = ids[l] /\ js[ids[l]].layer = l
            /\ js[ids[l]].task # "settled"
        BY <1>6, <3>1 DEF Linked
      <4> QED BY <4>1, <1>1, <1>8, <1>9, <1>4
    <3>2. CASE StartOf(l) # {}
      <4> PICK i \in 1..n : LayerOf(i) = l /\ jobIds'[l] = nextJob - 1 + i
        BY <1>6, <3>2
      <4>1. nextJob - 1 + i \in 1..(nextJob - 1 + n) /\ ~(nextJob - 1 + i < nextJob)
        BY <1>1
      <4>2. PICK k \in 1..n : /\ nextJob - 1 + i = nextJob - 1 + k
                              /\ jobs'[nextJob - 1 + i].layer = LayerOf(k)
                              /\ jobs'[nextJob - 1 + i].task = "running"
        BY <4>1, <1>8
      <4>3. k = i
        BY <4>2, <1>1
      <4> QED BY <4>1, <4>2, <4>3, <1>4
    <3> QED BY <3>1, <3>2
  <2>3. \A i \in DOMAIN jobs' : jobs'[i].task # "settled" =>
          /\ jobIds'[jobs'[i].layer] = i
          /\ jobs'[i].session # session
               => jobGenerations'[jobs'[i].layer] # generation /\ jobs'[i].status = "cancelled"
    <3> SUFFICES ASSUME NEW i \in 1..(nextJob - 1 + n), jobs'[i].task # "settled"
                 PROVE  /\ jobIds'[jobs'[i].layer] = i
                        /\ jobs'[i].session # session
                             => /\ jobGenerations'[jobs'[i].layer] # generation
                                /\ jobs'[i].status = "cancelled"
      BY <1>4
    <3>1. CASE i < nextJob
      <4>1. i \in DOMAIN js /\ jobs'[i] = js[i]
        BY <3>1, <1>8
      <4>2. /\ ids[js[i].layer] = i
            /\ js[i].session # session => gens[js[i].layer] # generation /\ js[i].status = "cancelled"
        BY <4>1 DEF Linked
      <4>4. js[i].layer \in Layer /\ i # 0
        <5>1. js[i] \in Job
          BY <4>1
        <5> QED BY <5>1, <1>1 DEF Job
      <4>3. StartOf(js[i].layer) = {}
        BY <4>2, <4>4, <1>7
      <4> QED BY <4>1, <4>2, <4>3, <4>4, <1>6
    <3>2. CASE ~(i < nextJob)
      BY <3>2, <1>8, <1>7
    <3> QED BY <3>1, <3>2
  <2> QED BY <2>1, <2>2, <2>3 DEF Linked
<1>12. \A l \in Layer : (\A i \in DOMAIN started : LayerOf(i) # l) => jobIds'[l] = ids[l]
  BY <1>1, <1>6
<1>13. nextJob' \in Nat \ {0} /\ \A i \in DOMAIN js : i \in DOMAIN jobs' /\ jobs'[i] = js[i]
  BY <1>1, <1>4, <1>8
<1> QED BY <1>9, <1>10, <1>11, <1>12, <1>13 DEF Begun

LEMMA PathsOfLayers ==
  ASSUME NEW l \in Layer
  PROVE  /\ RawOf(l) \in Path /\ SideOf(l) \in Path
         /\ RawOf(l) \in Own(l) /\ SideOf(l) \in Own(l) /\ Own(l) \subseteq Path
BY DEF Path, Own

LEMMA ItemTypes ==
  ASSUME LayerTypes, NEW l \in Layer
  PROVE  ItemOf(l) \in Item /\ ItemOf(l).layer = l
BY PathsOfLayers DEF ItemOf, Item, LayerTypes

\* applySSS and applySBP.
LEMMA ApplyKeeps == ASSUME BakeInv, NEW l \in Layer, ApplyOne(l) PROVE BakeInv' /\ CallsKept
<1> DEFINE started == << <<ItemOf(l), NoBatch>> >>
<1>1. /\ Begin(jobs, jobIds, jobGenerations, started, session)
      /\ jobIds[l] = 0 /\ l \notin batch[ModalityOf[l]].layers
      /\ UNCHANGED <<generation, batch, nextBatch, layers, customized, session>>
  BY ItemTypes DEF ApplyOne, Apply, BeginJobs, Free, InBatch, NoJob, BakeInv, layerVars
<1>2. started \in Seq(Item \X Nat) /\ DOMAIN started = {1} /\ started[1][1].layer = l
  BY ItemTypes DEF NoBatch, BakeInv
<1>3. MayBegin(jobs, jobIds, jobGenerations, started)
  BY <1>1, <1>2 DEF BakeInv, BakeTypes, MayBegin
<1> HIDE DEF started
<1>5. Begun(jobs, jobIds, started)
  BY <1>1, <1>3, BeginKeeps
<1>4. \A m \in Modality : QueueFits(batch[m])' /\ QueueFree(m, batch'[m], jobIds')
  <2> SUFFICES ASSUME NEW m \in Modality, NEW i \in DOMAIN batch[m].queue
               PROVE  jobIds'[batch[m].queue[i].layer] = 0
    BY <1>1 DEF BakeInv, QueueFits, QueueFree
  <2> DEFINE k == batch[m].queue[i].layer
  <2>1. k \in batch[m].layers /\ ModalityOf[k] = m /\ jobIds[k] = 0
    BY DEF BakeInv, QueueFree
  <2>2. k \in Layer /\ k # l
    BY <2>1, <1>1 DEF BakeInv, BakeTypes, BatchRec
  <2> QED BY <2>1, <2>2, <1>2, <1>5 DEF Begun
<1>6. BakeInv'
  BY <1>1, <1>4, <1>5 DEF BakeInv, BakeTypes, LayerTypes, Begun
<1>7. CallsKept
  BY <1>5 DEF Begun, CallsKept
<1> QED BY <1>6, <1>7

-----------------------------------------------------------------------------
(* The queues.                                                             *)

\* A function on 1..n is a sequence.
LEMMA FunctionIsSeq ==
  ASSUME NEW S, NEW n \in Nat, NEW f \in [1..n -> S]
  PROVE  f \in Seq(S) /\ Len(f) = n /\ DOMAIN f = 1..n
OBVIOUS

\* dispatchNext begins the head of the queue and keeps the rest, in order.
LEMMA PumpFacts ==
  ASSUME NEW b \in BatchRec, QueueFits(b)
  PROVE  /\ Slots(b) \in 0..Len(b.queue)
         /\ Pump(b) \in Seq(Item \X Nat) /\ DOMAIN Pump(b) = 1..Slots(b)
         /\ \A i \in 1..Slots(b) : i \in DOMAIN b.queue /\ Pump(b)[i] = <<b.queue[i], b.id>>
         /\ Pumped(b) \in BatchRec /\ QueueFits(Pumped(b))
         /\ Pumped(b).layers = b.layers /\ Pumped(b).id = b.id
         /\ DOMAIN Pumped(b).queue = 1..(Len(b.queue) - Slots(b))
         /\ \A i \in DOMAIN Pumped(b).queue :
              /\ i + Slots(b) \in DOMAIN b.queue /\ i + Slots(b) \notin 1..Slots(b)
              /\ Pumped(b).queue[i] = b.queue[i + Slots(b)]
         /\ Pumped(b).pending = 0 => Pumped(b).queue = <<>>
<1>1. /\ b.queue \in Seq(Item) /\ Len(b.queue) \in Nat /\ DOMAIN b.queue = 1..Len(b.queue)
      /\ b.dispatched \in Int /\ b.dispatched <= MaxConcurrent /\ b.pending \in Int
      /\ b.id \in Nat /\ MaxConcurrent \in Nat \ {0}
      /\ \A i \in 1..Len(b.queue) : b.queue[i] \in Item
  BY BatchAssumption DEF BatchRec, QueueFits, BatchAssumption
<1>2. Slots(b) \in 0..Len(b.queue)
  BY <1>1 DEF Slots, Lower
<1>3. /\ Pump(b) \in Seq(Item \X Nat) /\ DOMAIN Pump(b) = 1..Slots(b)
      /\ \A i \in 1..Slots(b) : i \in DOMAIN b.queue /\ Pump(b)[i] = <<b.queue[i], b.id>>
  <2>1. \A i \in 1..Slots(b) : i \in DOMAIN b.queue /\ <<b.queue[i], b.id>> \in Item \X Nat
    BY <1>1, <1>2
  <2>2. Pump(b) \in [1..Slots(b) -> Item \X Nat] /\ Slots(b) \in Nat
    BY <2>1, <1>1, <1>2 DEF Pump
  <2>3. \A i \in 1..Slots(b) : Pump(b)[i] = <<b.queue[i], b.id>>
    BY DEF Pump
  <2> QED BY <2>1, <2>2, <2>3, FunctionIsSeq
<1> DEFINE rest == SubSeq(b.queue, Slots(b) + 1, Len(b.queue))
<1>4. /\ rest \in Seq(Item) /\ Len(rest) = Len(b.queue) - Slots(b)
      /\ DOMAIN rest = 1..(Len(b.queue) - Slots(b))
      /\ \A i \in DOMAIN rest :
           /\ i + Slots(b) \in DOMAIN b.queue /\ i + Slots(b) \notin 1..Slots(b)
           /\ rest[i] = b.queue[i + Slots(b)]
  <2>1. /\ rest \in Seq(Item)
        /\ Len(rest) = IF Slots(b) + 1 <= Len(b.queue) THEN Len(b.queue) - (Slots(b) + 1) + 1 ELSE 0
        /\ \A i \in 1..Len(b.queue) - (Slots(b) + 1) + 1 : rest[i] = b.queue[Slots(b) + 1 + i - 1]
    <3>1. /\ Slots(b) + 1 \in Int /\ Len(b.queue) \in Int
          /\ \A i \in (Slots(b) + 1)..Len(b.queue) : b.queue[i] \in Item
      BY <1>1, <1>2
    <3> QED BY <3>1, SubSeqProperties
  <2> HIDE DEF rest
  <2>2. Len(rest) = Len(b.queue) - Slots(b) /\ DOMAIN rest = 1..(Len(b.queue) - Slots(b))
    BY <2>1, <1>1, <1>2
  <2>3. ASSUME NEW i \in DOMAIN rest
        PROVE  /\ i + Slots(b) \in 1..Len(b.queue) /\ i + Slots(b) \notin 1..Slots(b)
               /\ rest[i] = b.queue[i + Slots(b)]
    <3>1. Slots(b) + 1 + i - 1 = i + Slots(b) /\ i \in 1..Len(b.queue) - (Slots(b) + 1) + 1
      BY <2>2, <1>1, <1>2
    <3>2. i + Slots(b) \in 1..Len(b.queue) /\ i + Slots(b) \notin 1..Slots(b)
      BY <2>2, <1>1, <1>2
    <3> QED BY <3>1, <3>2, <2>1
  <2> QED BY <2>1, <2>2, <2>3, <1>1
<1>5. /\ Pumped(b).queue = rest /\ Pumped(b).dispatched = b.dispatched + Slots(b)
      /\ Pumped(b).layers = b.layers /\ Pumped(b).id = b.id /\ Pumped(b).pending = b.pending
      /\ Pumped(b) = [b EXCEPT !.dispatched = b.dispatched + Slots(b), !.queue = rest]
  BY DEF Pumped, BatchRec
<1> HIDE DEF rest
<1>6. Pumped(b) \in BatchRec
  <2>1. rest \in Seq(Item) /\ b.dispatched + Slots(b) \in Int
    BY <1>1, <1>2, <1>4
  <2> QED BY <2>1, <1>5 DEF BatchRec
<1>7. b.dispatched + Slots(b) <= MaxConcurrent
      /\ (Slots(b) = Len(b.queue) \/ b.dispatched + Slots(b) = MaxConcurrent)
  BY <1>1, <1>2 DEF Slots, Lower
<1>8. QueueFits(Pumped(b))
  <2>1. \A i, j \in DOMAIN rest : rest[i].layer = rest[j].layer => i = j
    <3> SUFFICES ASSUME NEW i \in DOMAIN rest, NEW j \in DOMAIN rest, rest[i].layer = rest[j].layer
                 PROVE  i = j
      OBVIOUS
    <3>1. i + Slots(b) = j + Slots(b)
      BY <1>4 DEF QueueFits
    <3> QED BY <3>1, <1>2, <1>4
  <2>2. b.pending = Len(rest) + (b.dispatched + Slots(b))
    BY <1>1, <1>2, <1>4 DEF QueueFits
  <2> QED BY <2>1, <2>2, <1>5, <1>7 DEF QueueFits
<1>9. Pumped(b).pending = 0 => rest = <<>>
  <2> SUFFICES ASSUME b.pending = 0 PROVE rest = <<>>
    BY <1>5
  <2>1. Len(b.queue) + b.dispatched = 0
    BY DEF QueueFits
  <2>2. Len(rest) = 0
    BY <2>1, <1>1, <1>2, <1>4, <1>7
  <2> QED BY <2>2, <1>4, EmptySeq
<1> QED BY <1>2, <1>3, <1>4, <1>5, <1>6, <1>8, <1>9

-----------------------------------------------------------------------------
(* Results.                                                                *)

\* A bake commits to its layer, or not at all.
LEMMA CommitKeeps ==
  ASSUME LayerTypes, NEW i \in DOMAIN jobs, jobs[i] \in Job, CommitBake(i) \/ UNCHANGED layers,
         UNCHANGED customized
  PROVE  LayerTypes'
<1>1. jobs[i].layer \in Layer
  BY DEF Job
<1>2. CASE UNCHANGED layers
  BY <1>2 DEF LayerTypes
<1>3. CASE CommitBake(i)
  BY <1>1, <1>3, PathsOfLayers DEF CommitBake, LayerTypes
<1> QED BY <1>2, <1>3

LEMMA ReturnsKeeps ==
  ASSUME BakeInv, NEW i \in DOMAIN jobs, NEW outcome \in {"persisted", "skipped", "failed"},
         BakeReturns(i, outcome)
  PROVE  BakeInv'
<1>1. /\ jobs' = [jobs EXCEPT ![i].task = "returned", ![i].outcome = outcome]
      /\ jobs[i].task = "running"
      /\ UNCHANGED <<nextJob, jobIds, jobGenerations, generation, batch, nextBatch,
                     layers, customized, session>>
  BY DEF BakeReturns, Returns, layerVars
<1>2. /\ jobs' \in [1..(nextJob - 1) -> Job]
      /\ \A k \in DOMAIN jobs : /\ jobs'[k].layer = jobs[k].layer
                                /\ jobs'[k].session = jobs[k].session
                                /\ jobs'[k].status = jobs[k].status
                                /\ jobs'[k].task = IF k = i THEN "returned" ELSE jobs[k].task
  <2>1. jobs \in [1..(nextJob - 1) -> Job] /\ DOMAIN jobs = 1..(nextJob - 1)
    BY DEF BakeInv, BakeTypes
  <2>2. jobs[i] \in Job
    BY <2>1
  <2> DEFINE r == [jobs[i] EXCEPT !.task = "returned", !.outcome = outcome]
  <2>3. jobs' = [jobs EXCEPT ![i] = r]
    BY <1>1, <2>2 DEF Job
  <2>4. /\ r \in Job /\ r.layer = jobs[i].layer /\ r.session = jobs[i].session
        /\ r.status = jobs[i].status /\ r.task = "returned"
    BY <2>2 DEF Job
  <2> HIDE DEF r
  <2>5. \A k \in DOMAIN jobs : jobs'[k] = IF k = i THEN r ELSE jobs[k]
    BY <2>3
  <2>6. jobs' \in [1..(nextJob - 1) -> Job]
    BY <2>1, <2>3, <2>4
  <2> QED BY <2>4, <2>5, <2>6
<1>3. Linked(jobs, jobIds, jobGenerations, session, generation)'
  <2>1. DOMAIN jobs' = DOMAIN jobs
    BY <1>1
  <2> QED BY <1>1, <1>2, <2>1 DEF BakeInv, Linked
<1> QED BY <1>1, <1>2, <1>3 DEF BakeInv, BakeTypes, LayerTypes

\* What an unsettled call of the operator is known by.
LEMMA CallKnown ==
  ASSUME BakeInv, NEW i \in DOMAIN jobs, jobs[i].task # "settled"
  PROVE  /\ jobs[i] \in Job /\ jobs[i].layer \in Layer
         /\ jobIds[jobs[i].layer] = i /\ i # 0
         /\ jobGenerations[jobs[i].layer] # 0
<1>1. jobs[i] \in Job /\ i # 0
  BY DEF BakeInv, BakeTypes
<1>2. jobs[i].layer \in Layer
  BY <1>1 DEF Job
<1>3. jobIds[jobs[i].layer] = i
  BY DEF BakeInv, Linked
<1> QED BY <1>1, <1>2, <1>3 DEF BakeInv, Linked

\* Settling call i of layer l and forgetting it.
LEMMA SettleLinked ==
  ASSUME BakeInv, NEW i \in DOMAIN jobs, jobs[i].task # "settled",
         NEW js, DOMAIN js = DOMAIN jobs, js[i].task = "settled",
         \A k \in DOMAIN jobs : k # i => js[k] = jobs[k]
  PROVE  Linked(js, [jobIds EXCEPT ![jobs[i].layer] = 0],
                [jobGenerations EXCEPT ![jobs[i].layer] = 0], session, generation)
<1> DEFINE l == jobs[i].layer
           ids  == [jobIds EXCEPT ![l] = 0]
           gens == [jobGenerations EXCEPT ![l] = 0]
<1>1. l \in Layer /\ jobIds[l] = i
  BY CallKnown
<1>2. \A k \in Layer : ids[k] = (IF k = l THEN 0 ELSE jobIds[k])
                       /\ gens[k] = (IF k = l THEN 0 ELSE jobGenerations[k])
  BY <1>1 DEF BakeInv, BakeTypes
<1> HIDE DEF ids, gens, l
<1>3. \A k \in Layer : (ids[k] = 0 <=> gens[k] = 0) /\ gens[k] <= generation
  BY <1>2 DEF BakeInv, BakeTypes, Linked
<1>4. \A k \in Layer : ids[k] # 0 => /\ ids[k] \in DOMAIN js
                                     /\ js[ids[k]].layer = k
                                     /\ js[ids[k]].task # "settled"
  <2> SUFFICES ASSUME NEW k \in Layer, k # l, jobIds[k] # 0
               PROVE  /\ jobIds[k] \in DOMAIN js
                      /\ js[jobIds[k]].layer = k
                      /\ js[jobIds[k]].task # "settled"
    BY <1>2
  <2>1. /\ jobIds[k] \in DOMAIN jobs /\ jobs[jobIds[k]].layer = k
        /\ jobs[jobIds[k]].task # "settled"
    BY DEF BakeInv, Linked
  <2>2. jobIds[k] # i
    BY <2>1 DEF l
  <2> QED BY <2>1, <2>2
<1>5. ASSUME NEW k \in DOMAIN js, js[k].task # "settled"
      PROVE  /\ ids[js[k].layer] = k
             /\ js[k].session # session
                  => gens[js[k].layer] # generation /\ js[k].status = "cancelled"
  <2>1. k # i /\ js[k] = jobs[k] /\ k \in DOMAIN jobs
    BY <1>5
  <2>2. /\ jobIds[jobs[k].layer] = k /\ jobs[k].layer \in Layer
        /\ jobs[k].session # session
             => jobGenerations[jobs[k].layer] # generation /\ jobs[k].status = "cancelled"
    BY <2>1, <1>5, CallKnown DEF BakeInv, Linked
  <2>3. jobs[k].layer # l
    BY <2>1, <2>2, <1>1
  <2> QED BY <2>1, <2>2, <2>3, <1>2
<1> QED BY <1>3, <1>4, <1>5 DEF Linked, ids, gens, l

LEMMA DiscardKeeps ==
  ASSUME BakeInv, NEW i \in DOMAIN jobs, jobs[i].task = "returned", DiscardSignal(i),
         UNCHANGED <<layers, customized, session>>
  PROVE  BakeInv'
<1> DEFINE l == jobs[i].layer
<1>1. l \in Layer /\ jobIds[l] = i /\ jobGenerations[l] # 0 /\ jobs[i] \in Job
  BY CallKnown
<1>2. /\ jobs' = [jobs EXCEPT ![i].task = "settled", ![i].outcome = "none"]
      /\ jobIds' = [jobIds EXCEPT ![l] = 0]
      /\ jobGenerations' = [jobGenerations EXCEPT ![l] = 0]
      /\ UNCHANGED <<nextJob, generation, batch, nextBatch>>
  BY <1>1 DEF DiscardSignal, Settled, Released, NoJob
<1>3. /\ jobs' \in [1..(nextJob - 1) -> Job] /\ DOMAIN jobs' = DOMAIN jobs
      /\ jobs'[i].task = "settled"
      /\ \A k \in DOMAIN jobs : k # i => jobs'[k] = jobs[k]
  BY <1>1, <1>2 DEF BakeInv, BakeTypes, Job
<1>4. Linked(jobs', jobIds', jobGenerations', session, generation)
  BY <1>2, <1>3, SettleLinked
<1>5. jobIds' \in [Layer -> Nat] /\ jobGenerations' \in [Layer -> Nat]
  BY <1>2 DEF BakeInv, BakeTypes
<1>6. \A m \in Modality : QueueFree(m, batch[m], jobIds')
  <2> SUFFICES ASSUME NEW m \in Modality, NEW k \in DOMAIN batch[m].queue
               PROVE  jobIds'[batch[m].queue[k].layer] = 0
    BY DEF BakeInv, QueueFree
  <2> QED BY <1>1, <1>2 DEF BakeInv, BakeTypes, QueueFree
<1> QED BY <1>2, <1>3, <1>4, <1>5, <1>6 DEF BakeInv, BakeTypes, LayerTypes, QueueFits

\* A batch without the layer that settled: its numbers still fit.
LEMMA CountedFits ==
  ASSUME NEW b \in BatchRec, QueueFits(b), NEW l \in Layer, NEW ok \in BOOLEAN
  PROVE  /\ Counted(b, l, ok) \in BatchRec /\ QueueFits(Counted(b, l, ok))
         /\ Counted(b, l, ok).queue = b.queue /\ Counted(b, l, ok).id = b.id
         /\ Counted(b, l, ok).layers = b.layers \ {l}
<1> DEFINE n == IF ok THEN b.succeeded + 1 ELSE b.succeeded
<1>1. /\ b.dispatched \in Int /\ b.pending \in Int /\ b.succeeded \in Nat
      /\ b.layers \in SUBSET Layer /\ Len(b.queue) \in Nat /\ MaxConcurrent \in Nat
  BY BatchAssumption DEF BatchRec, BatchAssumption
<1>2. /\ b.dispatched - 1 \in Int /\ b.pending - 1 \in Int /\ n \in Nat
      /\ b.layers \ {l} \in SUBSET Layer
  BY <1>1
<1>3. Counted(b, l, ok) = [b EXCEPT !.layers = b.layers \ {l}, !.dispatched = b.dispatched - 1,
                                    !.pending = b.pending - 1, !.succeeded = n]
  BY DEF Counted, BatchRec
<1> HIDE DEF n
<1>4. Counted(b, l, ok) \in BatchRec
  BY <1>2, <1>3 DEF BatchRec
<1>5. /\ Counted(b, l, ok).queue = b.queue /\ Counted(b, l, ok).id = b.id
      /\ Counted(b, l, ok).layers = b.layers \ {l}
      /\ Counted(b, l, ok).dispatched = b.dispatched - 1
      /\ Counted(b, l, ok).pending = b.pending - 1
  BY <1>3 DEF BatchRec
<1>6. QueueFits(Counted(b, l, ok))
  BY <1>1, <1>5 DEF QueueFits
<1> QED BY <1>4, <1>5, <1>6

\* A batch that has ended has an empty queue, so closing it leaves nothing behind.
LEMMA ClosedFits ==
  ASSUME NEW b \in BatchRec, QueueFits(b), b.pending = 0 => b.queue = <<>>,
         NEW m, NEW ids, QueueFree(m, b, ids)
  PROVE  Closed(b) \in BatchRec /\ QueueFits(Closed(b)) /\ QueueFree(m, Closed(b), ids)
<1>1. CASE b.pending # 0
  BY <1>1 DEF Closed
<1>2. CASE b.pending = 0
  <2>1. Closed(b) = [b EXCEPT !.id = 0, !.layers = {}]
    BY <1>2 DEF Closed, NoBatch
  <2>2. /\ Closed(b).queue = b.queue /\ Closed(b).dispatched = b.dispatched
        /\ Closed(b).pending = b.pending
    BY <2>1 DEF BatchRec
  <2>3. Closed(b) \in BatchRec
    <3>1. 0 \in Nat /\ {} \in SUBSET Layer
      OBVIOUS
    <3> QED BY <2>1, <3>1 DEF BatchRec
  <2>4. b.queue = <<>>
    BY <1>2
  <2>5. QueueFits(Closed(b))
    BY <2>2 DEF QueueFits
  <2>6. QueueFree(m, Closed(b), ids)
    BY <2>2, <2>4 DEF QueueFree
  <2> QED BY <2>3, <2>5, <2>6
<1> QED BY <1>1, <1>2

\* Once l is forgotten, the head of its batch's queue can be begun, and the rest of
\* every queue stays free.
Settling(i, js, started) ==
  /\ i \in DOMAIN jobs /\ jobs[i].task # "settled"
  /\ js \in [1..(nextJob - 1) -> Job] /\ js[i].task = "settled"
  /\ \A k \in DOMAIN jobs : k # i => js[k] = jobs[k]
  /\ \/ started = <<>>
     \/ \E ok \in BOOLEAN :
          started = Pump(Counted(batch[ModalityOf[jobs[i].layer]], jobs[i].layer, ok))

OfQueue(started, q) == \A k \in DOMAIN started : k \in DOMAIN q /\ started[k][1] = q[k]

Without(ids, l) == [ids EXCEPT ![l] = 0]

LEMMA NextOfBatch ==
  ASSUME BakeInv, NEW i, NEW js, NEW started, Settling(i, js, started),
         Begin(js, Without(jobIds, jobs[i].layer), Without(jobGenerations, jobs[i].layer),
               started, session)
  PROVE  /\ MayBegin(js, Without(jobIds, jobs[i].layer), Without(jobGenerations, jobs[i].layer),
                     started)
         /\ Begun(js, Without(jobIds, jobs[i].layer), started)
         /\ OfQueue(started, batch[ModalityOf[jobs[i].layer]].queue)
<1> USE DEF Settling
<1> DEFINE l == jobs[i].layer
           b == batch[ModalityOf[l]]
           ids  == Without(jobIds, l)
           gens == Without(jobGenerations, l)
<1>1. l \in Layer /\ jobIds[l] = i
  BY CallKnown
<1>2. b \in BatchRec /\ QueueFits(b) /\ QueueFree(ModalityOf[l], b, jobIds)
  BY <1>1, BatchAssumption DEF BakeInv, BakeTypes, BatchAssumption
<1>3. /\ started \in Seq(Item \X Nat)
      /\ \A k \in DOMAIN started : k \in DOMAIN b.queue /\ started[k][1] = b.queue[k]
  <2>1. CASE started = <<>>
    BY <2>1
  <2>2. ASSUME NEW ok \in BOOLEAN, started = Pump(Counted(b, l, ok))
        PROVE  /\ started \in Seq(Item \X Nat)
               /\ \A k \in DOMAIN started : k \in DOMAIN b.queue /\ started[k][1] = b.queue[k]
    <3>1. /\ Counted(b, l, ok) \in BatchRec /\ QueueFits(Counted(b, l, ok))
          /\ Counted(b, l, ok).queue = b.queue
      BY <1>1, <1>2, CountedFits
    <3> QED BY <3>1, <2>2, PumpFacts
  <2> QED BY <2>1, <2>2
<1>4. ids \in [Layer -> Nat] /\ gens \in [Layer -> Nat]
      /\ \A k \in Layer : ids[k] = (IF k = l THEN 0 ELSE jobIds[k])
  BY <1>1 DEF BakeInv, BakeTypes, Without
<1>5. Linked(js, ids, gens, session, generation)
  <2>1. DOMAIN js = DOMAIN jobs
    BY DEF BakeInv, BakeTypes
  <2> QED BY <2>1, SettleLinked DEF Without
<1> HIDE DEF ids, gens
<1>6. \A k \in DOMAIN started : ids[started[k][1].layer] = 0
  <2> SUFFICES ASSUME NEW k \in DOMAIN started PROVE ids[b.queue[k].layer] = 0
    BY <1>3
  <2>1. k \in DOMAIN b.queue
    BY <1>3
  <2>2. b.queue[k].layer \in Layer /\ jobIds[b.queue[k].layer] = 0
    BY <2>1, <1>2 DEF BatchRec, QueueFree
  <2> QED BY <2>2, <1>4
<1>7. \A k, j \in DOMAIN started : started[k][1].layer = started[j][1].layer => k = j
  <2> SUFFICES ASSUME NEW k \in DOMAIN started, NEW j \in DOMAIN started,
                      started[k][1].layer = started[j][1].layer
               PROVE  k = j
    OBVIOUS
  <2>1. /\ k \in DOMAIN b.queue /\ j \in DOMAIN b.queue
        /\ b.queue[k].layer = b.queue[j].layer
    BY <1>3
  <2> QED BY <2>1, <1>2 DEF QueueFits
<1>8. MayBegin(js, ids, gens, started)
  BY <1>3, <1>4, <1>5, <1>6, <1>7 DEF MayBegin, BakeInv, BakeTypes
<1>9. Begun(js, ids, started)
  BY <1>8, BeginKeeps DEF ids, gens
<1> QED BY <1>3, <1>8, <1>9 DEF ids, gens, OfQueue

LEMMA AcceptKeeps ==
  ASSUME BakeInv, NEW i \in DOMAIN jobs, jobs[i].task = "returned",
         AcceptSignal(i, session), LayerTypes', UNCHANGED session
  PROVE  BakeInv' /\ OthersKept(i)
<1> DEFINE l == jobs[i].layer
           m == ModalityOf[l]
           ok == jobs[i].outcome # "failed"
           b == Counted(batch[m], l, ok)
           after == Pumped(b)
           ended == [Settled(i) EXCEPT ![jobIds[l]].status = IF ok THEN "completed" ELSE "failed"]
           ids == Without(jobIds, l)
           gens == Without(jobGenerations, l)
           started == IF InBatch(l) THEN Pump(b) ELSE <<>>
<1>1. l \in Layer /\ jobIds[l] = i /\ jobs[i] \in Job /\ m \in Modality
  BY CallKnown, BatchAssumption DEF BatchAssumption
<1>2. /\ ended \in [1..(nextJob - 1) -> Job] /\ ended[i].task = "settled"
      /\ \A k \in DOMAIN jobs : k # i => ended[k] = jobs[k]
  BY <1>1 DEF BakeInv, BakeTypes, Settled, Job, Status
<1>3. /\ Begin(ended, ids, gens, started, session)
      /\ UNCHANGED <<generation, nextBatch>>
      /\ batch' = IF InBatch(l) THEN [batch EXCEPT ![m] = Closed(after)] ELSE batch
  BY DEF AcceptSignal, NoJob, Without
<1>4. /\ Begun(ended, ids, started)
      /\ \A k \in DOMAIN started : k \in DOMAIN batch[m].queue
                                   /\ started[k][1] = batch[m].queue[k]
  <2>1. \/ started = <<>>
        \/ \E o \in BOOLEAN : started = Pump(Counted(batch[m], l, o))
    <3>1. ok \in BOOLEAN
      OBVIOUS
    <3> QED BY <3>1
  <2> HIDE DEF ended, started
  <2>2. Settling(i, ended, started)
    BY <2>1, <1>2 DEF Settling
  <2>3. Begun(ended, ids, started) /\ OfQueue(started, batch[m].queue)
    BY <2>2, <1>3, NextOfBatch
  <2> QED BY <2>3 DEF OfQueue
<1>5. /\ b \in BatchRec /\ QueueFits(b) /\ b.queue = batch[m].queue
      /\ b.layers = batch[m].layers \ {l}
  <2>1. batch[m] \in BatchRec /\ QueueFits(batch[m]) /\ ok \in BOOLEAN
    BY <1>1 DEF BakeInv, BakeTypes
  <2> QED BY <2>1, <1>1, CountedFits
<1>6. \A k \in Layer : ids[k] = IF k = l THEN 0 ELSE jobIds[k]
  BY <1>1 DEF BakeInv, BakeTypes, Without
<1> HIDE DEF b, ended, ids, gens
\* A queued layer that is not begun stays free.
<1>7. ASSUME NEW n \in Modality, NEW k \in DOMAIN batch[n].queue,
             n # m \/ k \notin DOMAIN started
      PROVE  jobIds'[batch[n].queue[k].layer] = 0
  <2> DEFINE x == batch[n].queue[k].layer
  <2>1. x \in Layer /\ ModalityOf[x] = n /\ jobIds[x] = 0
    BY DEF BakeInv, BakeTypes, BatchRec, QueueFree
  <2>2. \A j \in DOMAIN started : started[j][1].layer # x
    <3> SUFFICES ASSUME NEW j \in DOMAIN started, started[j][1].layer = x PROVE FALSE
      OBVIOUS
    <3>1. j \in DOMAIN batch[m].queue /\ batch[m].queue[j].layer = x
      BY <1>4
    <3>2. ModalityOf[x] = m
      BY <3>1, <1>1 DEF BakeInv, QueueFree
    <3>3. k = j
      BY <2>1, <3>1, <3>2 DEF BakeInv, QueueFits
    <3> QED BY <2>1, <3>2, <3>3, <1>7
  <2> HIDE DEF x
  <2>3. jobIds'[x] = ids[x]
    BY <1>4, <2>1, <2>2 DEF Begun
  <2>4. ids[x] = 0
    BY <1>6, <2>1
  <2> QED BY <2>3, <2>4 DEF x
<1>8. /\ batch' \in [Modality -> BatchRec]
      /\ \A n \in Modality : QueueFits(batch'[n]) /\ QueueFree(n, batch'[n], jobIds')
  <2>1. CASE ~InBatch(l)
    <3>1. started = <<>> /\ batch' = batch
      BY <2>1, <1>3
    <3>2. ASSUME NEW n \in Modality PROVE QueueFree(n, batch[n], jobIds')
      BY <3>1, <1>7 DEF BakeInv, QueueFree
    <3> QED BY <3>1, <3>2 DEF BakeInv, BakeTypes
  <2>2. CASE InBatch(l)
    <3>1. /\ after \in BatchRec /\ QueueFits(after) /\ after.layers = b.layers
          /\ after.pending = 0 => after.queue = <<>>
          /\ started = Pump(b) /\ DOMAIN started = 1..Slots(b)
          /\ \A k \in DOMAIN after.queue :
              /\ k + Slots(b) \in DOMAIN b.queue /\ k + Slots(b) \notin 1..Slots(b)
              /\ after.queue[k] = b.queue[k + Slots(b)]
      BY <2>2, <1>5, PumpFacts
    <3>2. QueueFree(m, after, jobIds')
      <4> SUFFICES ASSUME NEW k \in DOMAIN after.queue
                   PROVE  /\ ModalityOf[after.queue[k].layer] = m
                          /\ after.queue[k].layer \in after.layers
                          /\ jobIds'[after.queue[k].layer] = 0
        BY DEF QueueFree
      <4> DEFINE j == k + Slots(b)
      <4>1. j \in DOMAIN batch[m].queue /\ j \notin DOMAIN started
            /\ after.queue[k] = batch[m].queue[j]
        BY <3>1, <1>5
      <4>2. jobIds'[batch[m].queue[j].layer] = 0
        BY <4>1, <1>1, <1>7
      <4>3. /\ ModalityOf[batch[m].queue[j].layer] = m
            /\ batch[m].queue[j].layer \in batch[m].layers
            /\ jobIds[batch[m].queue[j].layer] = 0
        BY <4>1, <1>1 DEF BakeInv, QueueFree
      <4>4. batch[m].queue[j].layer # l
        BY <4>3, <1>1, CallKnown
      <4> QED BY <4>1, <4>2, <4>3, <4>4, <3>1, <1>5
    <3> HIDE DEF after
    <3>3. /\ Closed(after) \in BatchRec /\ QueueFits(Closed(after))
          /\ QueueFree(m, Closed(after), jobIds')
      BY <3>1, <3>2, ClosedFits
    <3>4. batch' = [batch EXCEPT ![m] = Closed(after)]
      BY <1>3, <2>2 DEF after
    <3>5. ASSUME NEW n \in Modality, n # m
          PROVE  QueueFits(batch[n]) /\ QueueFree(n, batch[n], jobIds')
      BY <3>5, <1>7 DEF BakeInv, QueueFree
    <3>6. batch \in [Modality -> BatchRec]
      BY DEF BakeInv, BakeTypes
    <3> QED BY <3>3, <3>4, <3>5, <3>6, <1>1
  <2> QED BY <2>1, <2>2
<1>9. BakeTypes'
  BY <1>3, <1>4, <1>8 DEF BakeInv, BakeTypes, Begun
<1>10. Linked(jobs, jobIds, jobGenerations, session, generation)'
  BY <1>3, <1>4 DEF Begun
<1>11. OthersKept(i)
  BY <1>2, <1>4 DEF Begun, OthersKept, BakeInv, BakeTypes
<1> QED BY <1>8, <1>9, <1>10, <1>11 DEF BakeInv

-----------------------------------------------------------------------------
(* Closing, opening, and a bake of all customised layers.                  *)

\* The calls under way stay, and are all of an earlier generation.
LEMMA CancelKeeps ==
  ASSUME BakeInv, CancelBatch, LayerTypes', session' \in Nat
  PROVE  BakeInv'
<1>1. /\ generation' = generation + 1 /\ jobIds' = jobIds
      /\ UNCHANGED <<nextJob, jobGenerations, nextBatch>>
      /\ batch' = [m \in Modality |-> NoneOpen]
      /\ jobs' = [i \in DOMAIN jobs |-> IF \E l \in Layer : jobIds[l] = i
                                        THEN [jobs[i] EXCEPT !.status = "cancelled"] ELSE jobs[i]]
  BY DEF CancelBatch, NextGeneration, KeptIds
<1>2. \A i \in DOMAIN jobs :
        /\ jobs'[i] \in Job
        /\ jobs'[i].layer = jobs[i].layer /\ jobs'[i].task = jobs[i].task
        /\ (\E l \in Layer : jobIds[l] = i) => jobs'[i].status = "cancelled"
  <2> SUFFICES ASSUME NEW i \in DOMAIN jobs
               PROVE  /\ jobs'[i] \in Job
                      /\ jobs'[i].layer = jobs[i].layer /\ jobs'[i].task = jobs[i].task
                      /\ (\E l \in Layer : jobIds[l] = i) => jobs'[i].status = "cancelled"
    OBVIOUS
  <2>1. jobs[i] \in Job
    BY DEF BakeInv, BakeTypes
  <2> QED BY <1>1, <2>1 DEF Job, Status
<1>3. jobs' \in [1..(nextJob - 1) -> Job] /\ DOMAIN jobs' = DOMAIN jobs
  BY <1>1, <1>2 DEF BakeInv, BakeTypes
<1>4. Linked(jobs', jobIds, jobGenerations, session', generation + 1)
  <2>1. \A l \in Layer : /\ jobIds[l] = 0 <=> jobGenerations[l] = 0
                         /\ jobGenerations[l] <= generation + 1
                         /\ jobGenerations[l] # generation + 1
    BY DEF BakeInv, BakeTypes, Linked
  <2>2. \A l \in Layer : jobIds[l] # 0 => /\ jobIds[l] \in DOMAIN jobs'
                                          /\ jobs'[jobIds[l]].layer = l
                                          /\ jobs'[jobIds[l]].task # "settled"
    BY <1>2, <1>3 DEF BakeInv, Linked
  <2>3. ASSUME NEW i \in DOMAIN jobs', jobs'[i].task # "settled"
        PROVE  /\ jobIds[jobs'[i].layer] = i
               /\ jobGenerations[jobs'[i].layer] # generation + 1
               /\ jobs'[i].status = "cancelled"
    <3>1. i \in DOMAIN jobs /\ jobs[i].task # "settled" /\ jobs'[i].layer = jobs[i].layer
      BY <2>3, <1>2, <1>3
    <3>2. jobs[i].layer \in Layer /\ jobIds[jobs[i].layer] = i
      BY <3>1, CallKnown
    <3> QED BY <3>1, <3>2, <1>2, <2>1
  <2> QED BY <2>1, <2>2, <2>3 DEF Linked
<1>5. \A m \in Modality : /\ batch'[m] \in BatchRec
                          /\ QueueFits(batch'[m]) /\ QueueFree(m, batch'[m], jobIds')
  BY <1>1, NoneOpenFits
<1>6. BakeTypes'
  BY <1>1, <1>3, <1>5 DEF BakeInv, BakeTypes
<1> QED BY <1>1, <1>4, <1>5, <1>6 DEF BakeInv

\* The items of a batch: customised layers of the modality that are free.
WantedFits(m, w) ==
  /\ w \in Seq(Item)
  /\ \A i \in DOMAIN w : jobIds[w[i].layer] = 0 /\ ModalityOf[w[i].layer] = m
  /\ \A i, j \in DOMAIN w : w[i].layer = w[j].layer => i = j

LEMMA WantedItems ==
  ASSUME LayerTypes, NEW m \in Modality
  PROVE  WantedFits(m, Wanted(m))
<1> DEFINE S  == {l \in customized : ModalityOf[l] = m /\ Free(l)}
           ls == InOrder[S]
<1>1. S \in SUBSET Layer
  BY DEF LayerTypes
<1>2. /\ ls \in Seq(S)
      /\ \A i, j \in DOMAIN ls : ls[i] = ls[j] => i = j
  BY <1>1, BakesAssumption DEF BakesAssumption
<1>4. Wanted(m) = [i \in DOMAIN ls |-> ItemOf(ls[i])]
  BY DEF Wanted
<1> HIDE DEF ls
<1>3. Len(ls) \in Nat /\ DOMAIN ls = 1..Len(ls) /\ \A i \in DOMAIN ls : ls[i] \in S
  <2> HIDE DEF S
  <2> QED BY <1>2, LenProperties, ElementOfSeq
<1>5. \A i \in DOMAIN ls : /\ ls[i] \in Layer /\ ItemOf(ls[i]) \in Item
                           /\ ItemOf(ls[i]).layer = ls[i]
                           /\ jobIds[ls[i]] = 0 /\ ModalityOf[ls[i]] = m
  BY <1>1, <1>3, ItemTypes DEF Free, NoJob
<1>6. Wanted(m) \in [1..Len(ls) -> Item]
  BY <1>3, <1>4, <1>5
<1>7. Wanted(m) \in Seq(Item) /\ DOMAIN Wanted(m) = DOMAIN ls
  BY <1>3, <1>6, FunctionIsSeq
<1>8. \A i \in DOMAIN ls : Wanted(m)[i] = ItemOf(ls[i])
  BY <1>4
<1> HIDE DEF S
<1> QED BY <1>2, <1>5, <1>7, <1>8 DEF WantedFits

\* A new batch of them.
LEMMA NewBatchFits ==
  ASSUME NEW m, NEW w, WantedFits(m, w), NEW id \in Nat
  PROVE  /\ NewBatch(id, w) \in BatchRec /\ QueueFits(NewBatch(id, w))
         /\ NewBatch(id, w).queue = w
         /\ QueueFree(m, NewBatch(id, w), jobIds)
<1>1. w \in Seq(Item) /\ Len(w) \in Nat /\ DOMAIN w = 1..Len(w)
  BY DEF WantedFits
<1>2. \A i \in DOMAIN w : w[i] \in Item /\ w[i].layer \in Layer
  <2>1. \A i \in DOMAIN w : w[i] \in Item
    BY <1>1
  <2> QED BY <2>1 DEF Item
<1>3. NewBatch(id, w) \in BatchRec
  BY <1>1, <1>2 DEF NewBatch, BatchRec
<1>4. QueueFits(NewBatch(id, w))
  BY <1>1, BatchAssumption DEF NewBatch, QueueFits, WantedFits, BatchAssumption
<1>5. QueueFree(m, NewBatch(id, w), jobIds)
  BY DEF NewBatch, QueueFree, WantedFits
<1> QED BY <1>3, <1>4, <1>5 DEF NewBatch

\* What a bake of all customised layers opens and begins: the sidescan batch first.
Opens(m)  == batch[m].id = NoBatch /\ Wanted(m) # <<>>
Opened    == {m \in Modality : Opens(m)}
IdOf(m)   == IF m = "sbp" /\ Opens("sss") THEN nextBatch + 1 ELSE nextBatch
Fresh(m)  == NewBatch(IdOf(m), Wanted(m))
Begins(m) == IF Opens(m) THEN Pump(Fresh(m)) ELSE <<>>
AllBegun  == Begins("sss") \o Begins("sbp")
Place(m)  == IF m = "sss" THEN 0 ELSE Len(Begins("sss"))

LEMMA BakeAllDoes ==
  ASSUME BakeAll
  PROVE  /\ batch' = [m \in Modality |-> IF Opens(m) THEN Pumped(Fresh(m)) ELSE batch[m]]
         /\ nextBatch' = nextBatch + Cardinality(Opened)
         /\ hubBatches' = hubBatches \o [i \in 1..Cardinality(Opened) |-> "running"]
         /\ Begin(jobs, jobIds, jobGenerations, AllBegun, session)
         /\ UNCHANGED <<generation, layers, customized, session>>
<1> DEFINE w == [m \in Modality |-> Wanted(m)]
<1>1. "sss" \in Modality /\ "sbp" \in Modality
  BY BakesAssumption DEF BakesAssumption
<1>2. \A m \in Modality : w[m] = Wanted(m)
  OBVIOUS
<1>3. BakeCustomized(w, "sss", "sbp", session) /\ UNCHANGED layerVars
  BY DEF BakeAll
<1> HIDE DEF w
<1> QED BY <1>1, <1>2, <1>3
     DEF BakeCustomized, BeginJobs, layerVars, Opens, Opened, IdOf, Fresh, Begins, AllBegun

\* Each modality's items are begun in the order of its queue, at places of their own.
LEMMA BakeAllPlaces ==
  ASSUME BakeInv
  PROVE  /\ AllBegun \in Seq(Item \X Nat) /\ Len(AllBegun) \in Nat
         /\ DOMAIN AllBegun = 1..Len(AllBegun)
         /\ \A m \in Modality :
              /\ IdOf(m) \in Nat /\ WantedFits(m, Wanted(m))
              /\ Fresh(m) \in BatchRec /\ QueueFits(Fresh(m))
              /\ Fresh(m).queue = Wanted(m) /\ QueueFree(m, Fresh(m), jobIds)
              /\ Begins(m) \in Seq(Item \X Nat) /\ Len(Begins(m)) \in Nat
              /\ DOMAIN Begins(m) = 1..Len(Begins(m))
              /\ \A k \in DOMAIN Begins(m) :
                   /\ Opens(m) /\ k \in 1..Slots(Fresh(m)) /\ k \in DOMAIN Wanted(m)
                   /\ Begins(m)[k] = <<Wanted(m)[k], IdOf(m)>>
              /\ Opens(m) => Len(Begins(m)) = Slots(Fresh(m))
              /\ Place(m) \in Nat /\ Place(m) + Len(Begins(m)) <= Len(AllBegun)
              /\ \A k \in 1..Len(Begins(m)) : AllBegun[Place(m) + k] = Begins(m)[k]
         /\ \A k \in DOMAIN AllBegun : \E m \in Modality : \E j \in 1..Len(Begins(m)) :
              k = Place(m) + j
<1>1. Modality = {"sss", "sbp"}
  BY BakesAssumption DEF BakesAssumption
<1>2. ASSUME NEW m \in Modality
      PROVE  /\ WantedFits(m, Wanted(m)) /\ IdOf(m) \in Nat
             /\ Fresh(m) \in BatchRec /\ QueueFits(Fresh(m))
             /\ Fresh(m).queue = Wanted(m) /\ QueueFree(m, Fresh(m), jobIds)
  <2>1. WantedFits(m, Wanted(m)) /\ IdOf(m) \in Nat
    BY WantedItems DEF BakeInv, BakeTypes, IdOf
  <2> QED BY <2>1, NewBatchFits DEF Fresh
<1>3. ASSUME NEW m \in Modality
      PROVE  /\ Begins(m) \in Seq(Item \X Nat)
             /\ \A k \in DOMAIN Begins(m) :
                  /\ Opens(m) /\ k \in 1..Slots(Fresh(m)) /\ k \in DOMAIN Wanted(m)
                  /\ Begins(m)[k] = <<Wanted(m)[k], IdOf(m)>>
             /\ Opens(m) => Len(Begins(m)) = Slots(Fresh(m))
  <2>1. CASE Opens(m)
    <3>1. /\ Pump(Fresh(m)) \in Seq(Item \X Nat) /\ DOMAIN Pump(Fresh(m)) = 1..Slots(Fresh(m))
          /\ \A i \in 1..Slots(Fresh(m)) :
               i \in DOMAIN Wanted(m) /\ Pump(Fresh(m))[i] = <<Wanted(m)[i], Fresh(m).id>>
          /\ Slots(Fresh(m)) \in Nat
      BY <1>2, PumpFacts
    <3>2. Fresh(m).id = IdOf(m)
      BY DEF Fresh, NewBatch
    <3>3. Begins(m) = Pump(Fresh(m))
      BY <2>1 DEF Begins
    <3>4. Len(Pump(Fresh(m))) = Slots(Fresh(m))
      BY <3>1 DEF Pump
    <3> QED BY <2>1, <3>1, <3>2, <3>3, <3>4
  <2>2. CASE ~Opens(m)
    BY <2>2 DEF Begins
  <2> QED BY <2>1, <2>2
<1>4. ASSUME NEW m \in Modality
      PROVE  Len(Begins(m)) \in Nat /\ DOMAIN Begins(m) = 1..Len(Begins(m))
  BY <1>3, LenProperties
<1>5. /\ AllBegun \in Seq(Item \X Nat)
      /\ Len(AllBegun) = Len(Begins("sss")) + Len(Begins("sbp"))
      /\ \A k \in 1..Len(Begins("sss")) + Len(Begins("sbp")) :
           AllBegun[k] = IF k <= Len(Begins("sss")) THEN Begins("sss")[k]
                                                   ELSE Begins("sbp")[k - Len(Begins("sss"))]
  <2>1. Begins("sss") \in Seq(Item \X Nat) /\ Begins("sbp") \in Seq(Item \X Nat)
    BY <1>1, <1>3
  <2> QED BY <2>1, ConcatProperties DEF AllBegun
<1> DEFINE a == Len(Begins("sss"))
           c == Len(Begins("sbp"))
<1>6. /\ a \in Nat /\ c \in Nat /\ Len(AllBegun) = a + c
      /\ DOMAIN AllBegun = 1..Len(AllBegun)
  BY <1>1, <1>4, <1>5, LenProperties
<1>7. Place("sss") = 0 /\ Place("sbp") = a
  BY DEF Place
<1> HIDE DEF a, c
<1>8. \A k \in 1..a : AllBegun[0 + k] = Begins("sss")[k]
  <2> SUFFICES ASSUME NEW k \in 1..a PROVE AllBegun[0 + k] = Begins("sss")[k]
    OBVIOUS
  <2>1. k \in 1..a + c /\ k <= a /\ 0 + k = k
    BY <1>6
  <2> QED BY <2>1, <1>5 DEF a, c
<1>9. \A k \in 1..c : AllBegun[a + k] = Begins("sbp")[k]
  <2> SUFFICES ASSUME NEW k \in 1..c PROVE AllBegun[a + k] = Begins("sbp")[k]
    OBVIOUS
  <2>1. a + k \in 1..a + c /\ ~(a + k <= a) /\ (a + k) - a = k
    BY <1>6
  <2>2. AllBegun[a + k] = Begins("sbp")[(a + k) - a]
    BY <2>1, <1>5 DEF a, c
  <2> QED BY <2>1, <2>2
<1>10. ASSUME NEW m \in Modality
       PROVE  /\ Place(m) \in Nat /\ Place(m) + Len(Begins(m)) <= Len(AllBegun)
              /\ \A k \in 1..Len(Begins(m)) : AllBegun[Place(m) + k] = Begins(m)[k]
  <2>1. CASE m = "sss"
    <3>1. 0 \in Nat /\ 0 + a <= a + c
      BY <1>6
    <3> QED BY <2>1, <3>1, <1>6, <1>7, <1>8 DEF a
  <2>2. CASE m = "sbp"
    <3>1. a + c <= a + c
      BY <1>6
    <3> QED BY <2>2, <3>1, <1>6, <1>7, <1>9 DEF c
  <2> QED BY <2>1, <2>2, <1>1
<1>11. ASSUME NEW k \in DOMAIN AllBegun
       PROVE  \E m \in Modality : \E j \in 1..Len(Begins(m)) : k = Place(m) + j
  <2>1. k \in 1..a + c
    BY <1>6
  <2>2. CASE k <= a
    <3>1. k \in 1..a /\ k = 0 + k
      BY <2>1, <2>2, <1>6
    <3> QED BY <3>1, <1>1, <1>7 DEF a
  <2>3. CASE ~(k <= a)
    <3> DEFINE j == k - a
    <3>1. j \in 1..c /\ k = a + j
      BY <2>1, <2>3, <1>6
    <3> HIDE DEF j
    <3> QED BY <3>1, <1>1, <1>7 DEF c
  <2> QED BY <2>2, <2>3
<1>12. ASSUME NEW m \in Modality
       PROVE  /\ IdOf(m) \in Nat /\ WantedFits(m, Wanted(m))
              /\ Fresh(m) \in BatchRec /\ QueueFits(Fresh(m))
              /\ Fresh(m).queue = Wanted(m) /\ QueueFree(m, Fresh(m), jobIds)
              /\ Begins(m) \in Seq(Item \X Nat) /\ Len(Begins(m)) \in Nat
              /\ DOMAIN Begins(m) = 1..Len(Begins(m))
              /\ \A k \in DOMAIN Begins(m) :
                   /\ Opens(m) /\ k \in 1..Slots(Fresh(m)) /\ k \in DOMAIN Wanted(m)
                   /\ Begins(m)[k] = <<Wanted(m)[k], IdOf(m)>>
              /\ Opens(m) => Len(Begins(m)) = Slots(Fresh(m))
              /\ Place(m) \in Nat /\ Place(m) + Len(Begins(m)) <= Len(AllBegun)
              /\ \A k \in 1..Len(Begins(m)) : AllBegun[Place(m) + k] = Begins(m)[k]
  BY <1>2, <1>3, <1>4, <1>10
<1>13. Len(AllBegun) \in Nat
  BY <1>6
<1>14. AllBegun \in Seq(Item \X Nat) /\ DOMAIN AllBegun = 1..Len(AllBegun)
  BY <1>5, <1>6
<1> QED BY <1>11, <1>12, <1>13, <1>14

\* What is begun at a place is the item of one modality, whose batch opens.
LEMMA BegunItem ==
  ASSUME BakeInv, NEW k \in DOMAIN AllBegun
  PROVE  \E m \in Modality : \E j \in 1..Len(Begins(m)) :
           /\ Opens(m) /\ j \in 1..Slots(Fresh(m)) /\ j \in DOMAIN Wanted(m) /\ k = Place(m) + j
           /\ AllBegun[k] = <<Wanted(m)[j], IdOf(m)>>
           /\ Wanted(m)[j].layer \in Layer /\ ModalityOf[Wanted(m)[j].layer] = m
           /\ jobIds[Wanted(m)[j].layer] = 0
<1>1. PICK m \in Modality : \E j \in 1..Len(Begins(m)) : k = Place(m) + j
  BY BakeAllPlaces
<1>2. PICK j \in 1..Len(Begins(m)) : k = Place(m) + j
  BY <1>1
<1>3. /\ Opens(m) /\ j \in 1..Slots(Fresh(m)) /\ j \in DOMAIN Wanted(m)
      /\ AllBegun[k] = <<Wanted(m)[j], IdOf(m)>> /\ WantedFits(m, Wanted(m))
  <2>1. /\ j \in DOMAIN Begins(m) /\ AllBegun[k] = Begins(m)[j] /\ WantedFits(m, Wanted(m))
    BY <1>2, BakeAllPlaces
  <2> QED BY <2>1, BakeAllPlaces
<1>4. Wanted(m)[j] \in Item /\ ModalityOf[Wanted(m)[j].layer] = m
      /\ jobIds[Wanted(m)[j].layer] = 0
  BY <1>3 DEF WantedFits
<1> QED BY <1>2, <1>3, <1>4 DEF Item

LEMMA BakeAllMayBegin ==
  ASSUME BakeInv
  PROVE  MayBegin(jobs, jobIds, jobGenerations, AllBegun)
<1>1. \A k \in DOMAIN AllBegun : jobIds[AllBegun[k][1].layer] = 0
  BY BegunItem
<1>2. ASSUME NEW k \in DOMAIN AllBegun, NEW i \in DOMAIN AllBegun,
             AllBegun[k][1].layer = AllBegun[i][1].layer
      PROVE  k = i
  <2>1. PICK m \in Modality : \E j \in 1..Len(Begins(m)) :
          /\ j \in DOMAIN Wanted(m) /\ k = Place(m) + j /\ AllBegun[k][1] = Wanted(m)[j]
          /\ ModalityOf[Wanted(m)[j].layer] = m
    BY BegunItem
  <2>2. PICK n \in Modality : \E j \in 1..Len(Begins(n)) :
          /\ j \in DOMAIN Wanted(n) /\ i = Place(n) + j /\ AllBegun[i][1] = Wanted(n)[j]
          /\ ModalityOf[Wanted(n)[j].layer] = n
    BY BegunItem
  <2>3. PICK j \in 1..Len(Begins(m)) :
          /\ j \in DOMAIN Wanted(m) /\ k = Place(m) + j /\ AllBegun[k][1] = Wanted(m)[j]
          /\ ModalityOf[Wanted(m)[j].layer] = m
    BY <2>1
  <2>4. PICK h \in 1..Len(Begins(n)) :
          /\ h \in DOMAIN Wanted(n) /\ i = Place(n) + h /\ AllBegun[i][1] = Wanted(n)[h]
          /\ ModalityOf[Wanted(n)[h].layer] = n
    BY <2>2
  <2>5. m = n
    BY <1>2, <2>3, <2>4
  <2>6. WantedFits(m, Wanted(m))
    BY BakeAllPlaces
  <2>7. j = h
    BY <1>2, <2>3, <2>4, <2>5, <2>6 DEF WantedFits
  <2> QED BY <2>3, <2>4, <2>5, <2>7
<1> QED BY <1>1, <1>2, BakeAllPlaces DEF MayBegin, BakeInv, BakeTypes

\* At most two batches open.
LEMMA OpenedFinite ==
  /\ IsFiniteSet(Opened) /\ Cardinality(Opened) \in Nat
  /\ Cardinality(Opened) = (IF Opens("sss") THEN 1 ELSE 0) + (IF Opens("sbp") THEN 1 ELSE 0)
<1>1. Modality = {"sss", "sbp"}
  BY BakesAssumption DEF BakesAssumption
<1> DEFINE A == IF Opens("sss") THEN {"sss"} ELSE {}
           B == IF Opens("sbp") THEN {"sbp"} ELSE {}
<1>2. Opened = A \cup B /\ A \cap B = {}
  BY <1>1 DEF Opened
<1>3. /\ IsFiniteSet(A) /\ Cardinality(A) = IF Opens("sss") THEN 1 ELSE 0
      /\ IsFiniteSet(B) /\ Cardinality(B) = IF Opens("sbp") THEN 1 ELSE 0
  BY FS_EmptySet, FS_Singleton
<1> HIDE DEF A, B
<1>4. IsFiniteSet(A \cup B)
      /\ Cardinality(A \cup B) = Cardinality(A) + Cardinality(B) - Cardinality(A \cap B)
  BY <1>3, FS_Union
<1>5. Cardinality(A \cap B) = 0
  BY <1>2, FS_EmptySet
<1> QED BY <1>2, <1>3, <1>4, <1>5

\* The new batches fit; the layers they begin were free.
LEMMA BakeAllKeeps == ASSUME BakeInv, BakeAll PROVE BakeInv' /\ CallsKept
<1> DEFINE started == AllBegun
<1>1. /\ batch' = [m \in Modality |-> IF Opens(m) THEN Pumped(Fresh(m)) ELSE batch[m]]
      /\ nextBatch' = nextBatch + Cardinality(Opened)
      /\ Begin(jobs, jobIds, jobGenerations, started, session)
      /\ UNCHANGED <<generation, layers, customized, session>>
  BY BakeAllDoes
<1>3. Cardinality(Opened) \in Nat
  BY OpenedFinite
<1>5. \A m \in Modality : /\ Fresh(m) \in BatchRec /\ QueueFits(Fresh(m))
                          /\ Fresh(m).queue = Wanted(m) /\ QueueFree(m, Fresh(m), jobIds)
                          /\ WantedFits(m, Wanted(m))
  BY BakeAllPlaces
<1>8. \A k \in DOMAIN started : \E m \in Modality : \E j \in DOMAIN Wanted(m) :
        Opens(m) /\ j \in 1..Slots(Fresh(m)) /\ started[k][1] = Wanted(m)[j]
  BY BegunItem
<1>9. \A m \in Modality : \A j \in DOMAIN Wanted(m) :
        /\ Wanted(m)[j].layer \in Layer /\ jobIds[Wanted(m)[j].layer] = 0
        /\ ModalityOf[Wanted(m)[j].layer] = m
        /\ \A i \in DOMAIN Wanted(m) : Wanted(m)[i].layer = Wanted(m)[j].layer => i = j
  <2> SUFFICES ASSUME NEW m \in Modality, NEW j \in DOMAIN Wanted(m)
               PROVE  Wanted(m)[j].layer \in Layer
    BY <1>5 DEF WantedFits
  <2>1. Wanted(m)[j] \in Item
    BY <1>5 DEF WantedFits
  <2> QED BY <2>1 DEF Item
<1>10. MayBegin(jobs, jobIds, jobGenerations, started)
  BY BakeAllMayBegin
<1> HIDE DEF started
<1>11. Begun(jobs, jobIds, started)
  BY <1>1, <1>10, BeginKeeps
<1>12. ASSUME NEW m \in Modality
       PROVE  /\ batch'[m] \in BatchRec /\ QueueFits(batch'[m])
              /\ QueueFree(m, batch'[m], jobIds')
  <2>1. CASE ~Opens(m)
    <3>1. batch'[m] = batch[m] /\ batch[m] \in BatchRec /\ QueueFits(batch[m])
          /\ QueueFree(m, batch[m], jobIds)
      BY <2>1, <1>1 DEF BakeInv, BakeTypes
    <3>2. ASSUME NEW i \in DOMAIN batch[m].queue PROVE jobIds'[batch[m].queue[i].layer] = 0
      <4> DEFINE x == batch[m].queue[i].layer
      <4>1. x \in Layer /\ ModalityOf[x] = m /\ jobIds[x] = 0
        BY <3>1 DEF BatchRec, QueueFree
      <4>2. \A k \in DOMAIN started : started[k][1].layer # x
        BY <4>1, <2>1, <1>8, <1>9
      <4> QED BY <4>1, <4>2, <1>11 DEF Begun
    <3> QED BY <3>1, <3>2 DEF QueueFree
  <2>2. CASE Opens(m)
    <3> DEFINE b == Pumped(Fresh(m))
    <3>1. batch'[m] = b
      BY <2>2, <1>1
    <3>2. /\ b \in BatchRec /\ QueueFits(b) /\ b.layers = Fresh(m).layers
          /\ \A i \in DOMAIN b.queue :
               /\ i + Slots(Fresh(m)) \in DOMAIN Wanted(m)
               /\ i + Slots(Fresh(m)) \notin 1..Slots(Fresh(m))
               /\ b.queue[i] = Wanted(m)[i + Slots(Fresh(m))]
      BY <1>5, PumpFacts
    <3> HIDE DEF b
    <3>3. ASSUME NEW i \in DOMAIN b.queue
          PROVE  /\ ModalityOf[b.queue[i].layer] = m /\ b.queue[i].layer \in b.layers
                 /\ jobIds'[b.queue[i].layer] = 0
      <4> DEFINE x == b.queue[i].layer
                 j == i + Slots(Fresh(m))
      <4>1. j \in DOMAIN Wanted(m) /\ j \notin 1..Slots(Fresh(m)) /\ x = Wanted(m)[j].layer
        BY <3>2
      <4>2. x \in Layer /\ ModalityOf[x] = m /\ jobIds[x] = 0
        BY <4>1, <1>9
      <4>3. x \in b.layers
        BY <4>1, <3>2, <1>5 DEF QueueFree
      <4> HIDE DEF x, j
      <4>4. \A k \in DOMAIN started : started[k][1].layer # x
        BY <4>1, <4>2, <1>8, <1>9
      <4> QED BY <4>2, <4>3, <4>4, <1>11 DEF Begun, x
    <3> QED BY <3>1, <3>2, <3>3 DEF QueueFree
  <2> QED BY <2>1, <2>2
<1>13. BakeTypes'
  <2>1. batch' \in [Modality -> BatchRec]
    BY <1>1, <1>12
  <2>2. nextBatch' \in Nat \ {0}
    BY <1>1, <1>3 DEF BakeInv, BakeTypes
  <2>3. generation' \in Nat \ {0} /\ session' \in Nat
    BY <1>1 DEF BakeInv, BakeTypes
  <2> QED BY <2>1, <2>2, <2>3, <1>11 DEF BakeTypes, Begun
<1>14. LayerTypes'
  BY <1>1 DEF BakeInv, LayerTypes
<1>15. Linked(jobs, jobIds, jobGenerations, session, generation)'
  BY <1>1, <1>11 DEF Begun
<1>16. CallsKept
  BY <1>11 DEF Begun, CallsKept
<1> QED BY <1>12, <1>13, <1>14, <1>15, <1>16 DEF BakeInv

\* Commits of the coordinator, a revert and an opening keep the layers' shape.
LEMMA LayersKeep ==
  ASSUME BakeInv
  PROVE  /\ \A l \in Layer : Revert(l) => LayerTypes'
         /\ CloseProject \/ OpenProject => LayerTypes'
         /\ \A k \in DOMAIN runs : RunDelivers(k) => LayerTypes'
<1>1. ASSUME NEW l \in Layer, Revert(l) PROVE LayerTypes'
  BY <1>1, PathsOfLayers DEF Revert, BakeInv, LayerTypes
<1>2. ASSUME CloseProject \/ OpenProject PROVE LayerTypes'
  BY <1>2 DEF CloseProject, OpenProject, BakeInv, LayerTypes
<1>3. ASSUME NEW k \in DOMAIN runs, RunDelivers(k) PROVE LayerTypes'
  <2> DEFINE Committed(l) == open /\ \E r \in Persisted(k) : r.layer = l
             Made(l) == (CHOOSE r \in Persisted(k) : r.layer = l).graph
  <2>1. /\ UNCHANGED customized
        /\ layers' = [l \in Layer |->
                        IF Committed(l)
                        THEN [artifact |-> SideOf(l), index |-> <<"graph", Made(l)>>,
                              origin |-> "NodeGraph", applied |-> projectGraph]
                        ELSE layers[l]]
    BY <1>3 DEF RunDelivers
  <2> HIDE DEF Committed, Made
  <2> QED BY <2>1, PathsOfLayers DEF BakeInv, LayerTypes
<1> QED BY <1>1, <1>2, <1>3

LEMMA RevertKeeps == ASSUME BakeInv, NEW l \in Layer, Revert(l) PROVE BakeInv'
<1>1. LayerTypes' /\ UNCHANGED <<batchVars, session>>
  BY LayersKeep DEF Revert
<1> QED BY <1>1 DEF BakeInv, BakeTypes, batchVars, QueueFits, QueueFree, Linked

LEMMA DeliverRunKeeps == ASSUME BakeInv, NEW k \in DOMAIN runs, RunDelivers(k) PROVE BakeInv'
<1>1. LayerTypes' /\ UNCHANGED <<batchVars, session>>
  BY LayersKeep DEF RunDelivers
<1> QED BY <1>1 DEF BakeInv, BakeTypes, batchVars, QueueFits, QueueFree, Linked

LEMMA SignalKeeps ==
  ASSUME BakeInv, NEW i \in DOMAIN jobs, BakeSignal(i)
  PROVE  BakeInv' /\ OthersKept(i)
<1>1. jobs[i].task = "returned" /\ UNCHANGED <<customized, session>>
  BY DEF BakeSignal
<1>2. jobs[i] \in Job
  BY <1>1, CallKnown
<1>3. CASE DiscardSignal(i) /\ UNCHANGED layers
  <2>1. \A k \in DOMAIN jobs : k # i => k \in DOMAIN jobs' /\ jobs'[k] = jobs[k]
    BY <1>3 DEF DiscardSignal, Settled, BakeInv, BakeTypes
  <2> QED BY <1>1, <1>3, <2>1, DiscardKeeps DEF OthersKept
<1>4. CASE AcceptSignal(i, session) /\ CommitBake(i)
  <2>1. LayerTypes'
    BY <1>1, <1>2, <1>4, CommitKeeps DEF BakeInv
  <2> QED BY <1>1, <1>4, <2>1, AcceptKeeps
<1> QED BY <1>3, <1>4 DEF BakeSignal

LEMMA BakeInvStep == BakeInv /\ [Next]_vars => BakeInv'
<1> SUFFICES ASSUME BakeInv, [Next]_vars PROVE BakeInv'
  OBVIOUS
<1>1. ASSUME NEW l \in Layer, ApplyOne(l) \/ RunOne(l) \/ Revert(l) PROVE BakeInv'
  <2>1. CASE RunOne(l)
    BY <2>1, BakeInvStutter DEF RunOne, layerVars
  <2> QED BY <1>1, <2>1, ApplyKeeps, RevertKeeps
<1>2. CASE BakeAll
  BY <1>2, BakeAllKeeps
<1>3. CASE RunProject \/ EditGraph
  BY <1>3, BakeInvStutter DEF RunProject, EditGraph, layerVars
<1>4. CASE CloseProject \/ OpenProject
  <2>1. CancelBatch /\ session' \in Nat
    BY <1>4 DEF CloseProject, OpenProject, BakeInv, BakeTypes
  <2> QED BY <1>4, <2>1, LayersKeep, CancelKeeps
<1>5. ASSUME NEW i \in DOMAIN jobs, Bake(i) PROVE BakeInv'
  BY <1>5, ReturnsKeeps, SignalKeeps DEF Bake
<1>6. ASSUME NEW k \in DOMAIN runs, Run(k) PROVE BakeInv'
  <2>1. ASSUME NEW outcome, RunExecutes(k, outcome) PROVE BakeInv'
    BY <2>1, BakeInvStutter DEF RunExecutes, layerVars
  <2> QED BY <1>6, <2>1, DeliverRunKeeps DEF Run
<1>7. CASE UNCHANGED vars
  BY <1>7, BakeInvStutter DEF vars, layerVars
<1> QED BY <1>1, <1>2, <1>3, <1>4, <1>5, <1>6, <1>7 DEF Next, Operator, Resting

LEMMA OneBake ==
  ASSUME BakeInv, NEW l \in Layer
  PROVE  Cardinality(Bakes(l)) <= 1
<1>1. \A i, j \in Bakes(l) : i = j
  BY CallKnown DEF Bakes
<1> QED BY <1>1, AtMostOne

\* A layer has at most one bake and one graph run under way, and the paths in use
\* are those of the runs.
THEOREM OneWriterOfALayer == Spec => []OneWriter
<1>1. BakeInv /\ RunInv => OneWriter
  <2> SUFFICES ASSUME BakeInv, RunInv PROVE OneWriter
    OBVIOUS
  <2>1. \A p : p \in activePaths <=>
          p \in UNION {Paths(runs[k].requests) : k \in {j \in DOMAIN runs : Under(j)}}
    BY DEF RunInv, PathsExact
  <2> QED BY <2>1, OneBake, OneRun DEF OneWriter
<1> QED BY <1>1, BakeInvInit, BakeInvStep, RunInvInit, RunInvStep, PTL DEF Spec

\* A call settles in its own signal only.
LEMMA SettlesInSignal ==
  ASSUME BakeInv, [Next]_vars, NEW i \in DOMAIN jobs,
         jobs[i].task # "settled", jobs'[i].task = "settled"
  PROVE  BakeSignal(i)
<1>1. ASSUME NEW l \in Layer, ApplyOne(l) \/ RunOne(l) \/ Revert(l) PROVE FALSE
  <2>1. CASE RunOne(l) \/ Revert(l)
    BY <2>1 DEF RunOne, Revert, batchVars
  <2> QED BY <1>1, <2>1, ApplyKeeps DEF CallsKept
<1>2. CASE BakeAll
  BY <1>2, BakeAllKeeps DEF CallsKept
<1>3. CASE RunProject \/ EditGraph
  BY <1>3 DEF RunProject, EditGraph, batchVars
<1>4. CASE CloseProject \/ OpenProject
  <2>1. CancelBatch
    BY <1>4 DEF CloseProject, OpenProject
  <2>2. jobs[i] \in Job
    BY CallKnown
  <2> QED BY <2>1, <2>2 DEF CancelBatch, Job
<1>5. ASSUME NEW k \in DOMAIN jobs, NEW outcome \in {"persisted", "skipped", "failed"},
             BakeReturns(k, outcome)
      PROVE  FALSE
  <2>1. jobs' = [jobs EXCEPT ![k].task = "returned", ![k].outcome = outcome] /\ jobs[i] \in Job
    BY <1>5, CallKnown DEF BakeReturns, Returns
  <2> QED BY <2>1 DEF Job
<1>6. ASSUME NEW k \in DOMAIN jobs, BakeSignal(k) PROVE k = i
  BY <1>6, SignalKeeps DEF OthersKept
<1>7. ASSUME NEW k \in DOMAIN runs, Run(k) PROVE FALSE
  BY <1>7 DEF Run, RunExecutes, RunDelivers, batchVars
<1>8. CASE UNCHANGED vars
  BY <1>8 DEF vars, batchVars
<1> QED BY <1>1, <1>2, <1>3, <1>4, <1>5, <1>6, <1>7, <1>8 DEF Next, Operator, Bake, Resting

\* A call begun before the project was opened last is discarded.
LEMMA LateIsDiscarded ==
  ASSUME BakeInv, NEW i \in DOMAIN jobs, BakeSignal(i), jobs[i].session # session
  PROVE  /\ UNCHANGED <<layers, batch, hubBatches>>
         /\ jobs[i].status = "cancelled" /\ jobs'[i].status = "cancelled"
<1>1. jobs[i].task # "settled"
  BY DEF BakeSignal
<1>2. /\ jobs[i] \in Job /\ jobs[i].status = "cancelled"
      /\ ~Current(jobs[i].layer)
  BY <1>1, CallKnown DEF BakeInv, Linked, Current
<1>3. DiscardSignal(i) /\ UNCHANGED layers
  BY <1>2 DEF BakeSignal, AcceptSignal
<1> QED BY <1>2, <1>3 DEF DiscardSignal, Settled, Job

\* A bake that outlives the project it was begun in changes no layer, no batch and
\* nothing the hub shows.
THEOREM LateBakesAreDiscarded == Spec => LateNotCommitted
<1>1. BakeInv /\ [Next]_vars =>
        [\A i \in DOMAIN jobs :
           jobs[i].task # "settled" /\ jobs'[i].task = "settled" /\ jobs[i].session # session
             => /\ UNCHANGED <<layers, batch, hubBatches>>
                /\ jobs[i].status = "cancelled" /\ jobs'[i].status = "cancelled"]_vars
  BY SettlesInSignal, LateIsDiscarded
<1> QED BY <1>1, BakeInvInit, BakeInvStep, PTL DEF Spec, LateNotCommitted

-----------------------------------------------------------------------------
(* The books of a batch: what each counter counts.                         *)

\* The calls of batch id of modality m that have not settled, and their layers.
Mine(js, m, id) == {i \in DOMAIN js : /\ js[i].task # "settled" /\ js[i].batch = id
                                      /\ ModalityOf[js[i].layer] = m /\ id # NoBatch}
LayersOf(js, S) == {js[i].layer : i \in S}
Queued(b) == {b.queue[i].layer : i \in DOMAIN b.queue}

\* Calls of the open batch are of the current generation: no cancelled call counts.
Counts(m, b, js, gens, gen) ==
  /\ b.dispatched = Cardinality(Mine(js, m, b.id))
  /\ b.layers = Queued(b) \cup LayersOf(js, Mine(js, m, b.id))
  /\ b.succeeded <= b.total - b.pending
  /\ \A i \in Mine(js, m, b.id) : gens[js[i].layer] = gen

Books(m, b, js, gens, gen) ==
  /\ Counts(m, b, js, gens, gen)
  /\ b.id = NoBatch => b.queue = <<>>
  /\ b.id # NoBatch => b.pending > 0

HubStates == {"running", "completed", "errors", "failed", "cancelled"}

\* A batch id is used once, so a batch counts no call of an earlier one.
HubInv ==
  /\ hubBatches \in Seq(HubStates) /\ Len(hubBatches) = nextBatch - 1
  /\ \A m \in Modality :
       /\ batch[m].id < nextBatch
       /\ batch[m].id # NoBatch => hubBatches[batch[m].id] = "running"
       /\ \A n \in Modality : batch[m].id = batch[n].id => m = n \/ batch[m].id = NoBatch
  /\ \A i \in DOMAIN jobs : jobs[i].batch < nextBatch

BooksInv ==
  /\ BakeInv
  /\ HubInv
  /\ \A m \in Modality : Books(m, batch[m], jobs, jobGenerations, generation)

\* What Begin makes of the jobs and of the generations, exactly.
LEMMA BeginExact ==
  ASSUME NEW js, NEW ids, NEW gens, NEW started,
         MayBegin(js, ids, gens, started), Begin(js, ids, gens, started, session)
  PROVE  /\ Len(started) \in Nat /\ DOMAIN started = 1..Len(started)
         /\ DOMAIN js = 1..(nextJob - 1) /\ DOMAIN jobs' = 1..(nextJob - 1 + Len(started))
         /\ \A i \in DOMAIN js : i \in DOMAIN jobs' /\ jobs'[i] = js[i]
         /\ \A k \in DOMAIN started :
              /\ jobs'[nextJob - 1 + k].layer = started[k][1].layer
              /\ jobs'[nextJob - 1 + k].batch = started[k][2]
              /\ jobs'[nextJob - 1 + k].task = "running"
              /\ jobGenerations'[started[k][1].layer] = generation
         /\ \A l \in Layer : (\A k \in DOMAIN started : started[k][1].layer # l)
                               => jobGenerations'[l] = gens[l]
<1> DEFINE n == Len(started)
           StartOf(l) == {i \in 1..n : started[i][1].layer = l}
<1>1. /\ n \in Nat /\ DOMAIN started = 1..n /\ nextJob \in Nat \ {0}
      /\ DOMAIN js = 1..(nextJob - 1) /\ started \in Seq(Item \X Nat)
  BY DEF MayBegin
<1>2. \A i \in 1..n : started[i][1].layer \in Layer
  <2>1. \A i \in 1..n : started[i] \in Item \X Nat
    BY <1>1
  <2> QED BY <2>1 DEF Item
<1>3. /\ jobs' = [i \in 1..(nextJob - 1 + n) |->
                    IF i < nextJob THEN js[i]
                    ELSE NewJob(started[i - nextJob + 1][1], started[i - nextJob + 1][2], session)]
      /\ jobGenerations' = [l \in Layer |-> IF StartOf(l) = {} THEN gens[l] ELSE generation]
  BY DEF Begin
<1>4. \A k \in 1..n : jobGenerations'[started[k][1].layer] = generation
  BY <1>2, <1>3
<1>5. \A l \in Layer : (\A k \in 1..n : started[k][1].layer # l) => jobGenerations'[l] = gens[l]
  BY <1>3
<1>6. \A k \in 1..n : jobs'[nextJob - 1 + k] = NewJob(started[k][1], started[k][2], session)
  <2> SUFFICES ASSUME NEW k \in 1..n
               PROVE  jobs'[nextJob - 1 + k] = NewJob(started[k][1], started[k][2], session)
    OBVIOUS
  <2>1. /\ nextJob - 1 + k \in 1..(nextJob - 1 + n) /\ ~(nextJob - 1 + k < nextJob)
        /\ (nextJob - 1 + k) - nextJob + 1 = k
    <3> HIDE DEF n
    <3> QED BY <1>1
  <2>2. jobs'[nextJob - 1 + k] = NewJob(started[(nextJob - 1 + k) - nextJob + 1][1],
                                        started[(nextJob - 1 + k) - nextJob + 1][2], session)
    BY <2>1, <1>3
  <2> QED BY <2>1, <2>2
<1>7. \A i \in DOMAIN js : i \in DOMAIN jobs' /\ jobs'[i] = js[i]
  <2> SUFFICES ASSUME NEW i \in 1..(nextJob - 1) PROVE i \in DOMAIN jobs' /\ jobs'[i] = js[i]
    BY <1>1
  <2>1. i \in 1..(nextJob - 1 + n) /\ i < nextJob
    <3> HIDE DEF n
    <3> QED BY <1>1
  <2> QED BY <2>1, <1>3
<1>8. \A k \in 1..n : /\ jobs'[nextJob - 1 + k].layer = started[k][1].layer
                      /\ jobs'[nextJob - 1 + k].batch = started[k][2]
                      /\ jobs'[nextJob - 1 + k].task = "running"
  <2> SUFFICES ASSUME NEW k \in 1..n
               PROVE  /\ jobs'[nextJob - 1 + k].layer = started[k][1].layer
                      /\ jobs'[nextJob - 1 + k].batch = started[k][2]
                      /\ jobs'[nextJob - 1 + k].task = "running"
    OBVIOUS
  <2>1. jobs'[nextJob - 1 + k] = NewJob(started[k][1], started[k][2], session)
    BY <1>6
  <2> HIDE DEF n
  <2> QED BY <2>1 DEF NewJob
<1>9. DOMAIN jobs' = 1..(nextJob - 1 + n)
  BY <1>3
<1> QED BY <1>1, <1>4, <1>5, <1>7, <1>8, <1>9

\* The calls of a batch are finitely many.
LEMMA MineFinite ==
  ASSUME NEW js, NEW n \in Nat, DOMAIN js = 1..n, NEW m, NEW id
  PROVE  IsFiniteSet(Mine(js, m, id)) /\ Cardinality(Mine(js, m, id)) \in Nat
<1>1. IsFiniteSet(1..n)
  BY FS_Interval
<1>2. Mine(js, m, id) \in SUBSET (1..n)
  BY DEF Mine
<1>3. IsFiniteSet(Mine(js, m, id))
  BY <1>1, <1>2, FS_Subset
<1> QED BY <1>3, FS_CardinalityType

\* When the items of batch id among those begun are at places lo + 1 to lo + s, s
\* calls more are its own.
LEMMA Grown ==
  ASSUME NEW js, NEW ids, NEW gens, NEW started,
         MayBegin(js, ids, gens, started), Begin(js, ids, gens, started, session),
         NEW m, NEW id \in Nat \ {0}, NEW lo \in Nat, NEW s \in Nat, lo + s <= Len(started),
         \A k \in DOMAIN started :
           started[k][2] = id /\ ModalityOf[started[k][1].layer] = m <=> k \in (lo + 1)..(lo + s)
  PROVE  /\ Cardinality(Mine(jobs', m, id)) = Cardinality(Mine(js, m, id)) + s
         /\ LayersOf(jobs', Mine(jobs', m, id)) =
              LayersOf(js, Mine(js, m, id))
                \cup {started[k][1].layer : k \in (lo + 1)..(lo + s)}
         /\ (\A i \in Mine(js, m, id) : gens[js[i].layer] = generation)
              => \A i \in Mine(jobs', m, id) : jobGenerations'[jobs'[i].layer] = generation
<1> DEFINE n == Len(started)
           old == Mine(js, m, id)
           now == Mine(jobs', m, id)
           first == nextJob + lo
           last  == nextJob - 1 + lo + s
<1>1. /\ n \in Nat /\ DOMAIN started = 1..n /\ nextJob \in Nat \ {0}
      /\ DOMAIN js = 1..(nextJob - 1) /\ DOMAIN jobs' = 1..(nextJob - 1 + n)
      /\ \A i \in DOMAIN js : i \in DOMAIN jobs' /\ jobs'[i] = js[i]
      /\ \A k \in DOMAIN started :
           /\ jobs'[nextJob - 1 + k].layer = started[k][1].layer
           /\ jobs'[nextJob - 1 + k].batch = started[k][2]
           /\ jobs'[nextJob - 1 + k].task = "running"
           /\ jobGenerations'[started[k][1].layer] = generation
      /\ \A l \in Layer : (\A k \in DOMAIN started : started[k][1].layer # l)
                            => jobGenerations'[l] = gens[l]
  <2>1. nextJob \in Nat \ {0}
    BY DEF MayBegin
  <2> QED BY <2>1, BeginExact
<1>2. \A i \in DOMAIN jobs' \ DOMAIN js : i - (nextJob - 1) \in 1..n
                                          /\ i = nextJob - 1 + (i - (nextJob - 1))
  BY <1>1
<1>3. now = old \cup (first..last)
  <2>1. ASSUME NEW i \in now PROVE i \in old \cup (first..last)
    <3>1. CASE i \in DOMAIN js
      BY <3>1, <1>1 DEF Mine
    <3>2. CASE i \notin DOMAIN js
      <4> DEFINE k == i - (nextJob - 1)
      <4>1. k \in DOMAIN started /\ i = nextJob - 1 + k
        BY <3>2, <1>1, <1>2 DEF Mine
      <4>2. started[k][2] = id /\ ModalityOf[started[k][1].layer] = m
        BY <4>1, <1>1 DEF Mine
      <4>3. k \in (lo + 1)..(lo + s)
        BY <4>1, <4>2
      <4> QED BY <4>1, <4>3, <1>1
    <3> QED BY <3>1, <3>2
  <2>2. ASSUME NEW i \in first..last PROVE i \in now
    <3> DEFINE k == i - (nextJob - 1)
    <3>1. k \in DOMAIN started /\ i = nextJob - 1 + k /\ k \in (lo + 1)..(lo + s)
          /\ i \in DOMAIN jobs'
      <4> HIDE DEF n
      <4> QED BY <1>1
    <3>2. started[k][2] = id /\ ModalityOf[started[k][1].layer] = m
      BY <3>1
    <3> QED BY <3>1, <3>2, <1>1 DEF Mine, NoBatch
  <2>3. ASSUME NEW i \in old PROVE i \in now
    BY <1>1 DEF Mine
  <2> HIDE DEF now, old, first, last
  <2> QED BY <2>1, <2>2, <2>3
<1>4. /\ IsFiniteSet(old) /\ Cardinality(old) \in Nat
      /\ IsFiniteSet(first..last) /\ Cardinality(first..last) = s
  <2>1. IsFiniteSet(old) /\ Cardinality(old) \in Nat
    BY <1>1, MineFinite
  <2>2. first \in Int /\ last \in Int
    BY <1>1
  <2>3. IsFiniteSet(first..last)
        /\ Cardinality(first..last) = IF first > last THEN 0 ELSE last - first + 1
    BY <2>2, FS_Interval
  <2>4. (IF first > last THEN 0 ELSE last - first + 1) = s
    BY <1>1
  <2> QED BY <2>1, <2>3, <2>4
<1>5. old \cap (first..last) = {}
  BY <1>1 DEF Mine
<1>6. Cardinality(now) = Cardinality(old) + s
  <2> HIDE DEF now, old, first, last
  <2>1. Cardinality(old \cup (first..last))
          = Cardinality(old) + Cardinality(first..last) - Cardinality(old \cap (first..last))
    BY <1>4, FS_Union
  <2>2. Cardinality(old \cap (first..last)) = 0
    BY <1>5, FS_EmptySet
  <2> QED BY <2>1, <2>2, <1>3, <1>4
<1>7. \A i \in old : jobs'[i].layer = js[i].layer
  BY <1>1 DEF Mine
<1>8. \A k \in (lo + 1)..(lo + s) :
        /\ k \in DOMAIN started /\ nextJob - 1 + k \in first..last
        /\ jobs'[nextJob - 1 + k].layer = started[k][1].layer
  <2> SUFFICES ASSUME NEW k \in (lo + 1)..(lo + s)
               PROVE  k \in DOMAIN started /\ nextJob - 1 + k \in first..last
    BY <1>1
  <2> QED BY <1>1
<1>9. \A i \in first..last : \E k \in (lo + 1)..(lo + s) : i = nextJob - 1 + k
  <2> SUFFICES ASSUME NEW i \in first..last
               PROVE  \E k \in (lo + 1)..(lo + s) : i = nextJob - 1 + k
    OBVIOUS
  <2> DEFINE k == i - (nextJob - 1)
  <2>1. k \in (lo + 1)..(lo + s) /\ i = nextJob - 1 + k
    BY <1>1
  <2> QED BY <2>1
<1>10. LayersOf(jobs', now) = LayersOf(js, old) \cup {started[k][1].layer : k \in (lo + 1)..(lo + s)}
  <2> HIDE DEF now, old, first, last
  <2>1. ASSUME NEW i \in now
        PROVE  jobs'[i].layer \in LayersOf(js, old) \cup {started[k][1].layer : k \in (lo + 1)..(lo + s)}
    <3>1. CASE i \in old
      BY <3>1, <1>7 DEF LayersOf
    <3>2. CASE i \in first..last
      BY <3>2, <1>8, <1>9
    <3> QED BY <2>1, <3>1, <3>2, <1>3
  <2>2. ASSUME NEW i \in old PROVE \E j \in now : jobs'[j].layer = js[i].layer
    BY <1>3, <1>7
  <2>3. ASSUME NEW k \in (lo + 1)..(lo + s) PROVE \E j \in now : jobs'[j].layer = started[k][1].layer
    BY <1>3, <1>8
  <2> QED BY <2>1, <2>2, <2>3 DEF LayersOf
<1>11. ASSUME \A i \in old : gens[js[i].layer] = generation, NEW i \in now
       PROVE  jobGenerations'[jobs'[i].layer] = generation
  <2>1. CASE i \in first..last
    <3>1. PICK k \in (lo + 1)..(lo + s) : i = nextJob - 1 + k
      BY <2>1, <1>9
    <3> QED BY <3>1, <1>8, <1>1
  <2>2. CASE i \in old
    <3>1. i \in DOMAIN js /\ js[i].task # "settled" /\ js[i] \in Job /\ i # 0
      BY <2>2, <1>1 DEF Mine, MayBegin
    <3>2. js[i].layer \in Layer /\ ids[js[i].layer] = i
      BY <3>1 DEF Job, MayBegin, Linked
    <3>3. \A k \in DOMAIN started : started[k][1].layer # js[i].layer
      BY <3>1, <3>2 DEF MayBegin
    <3>4. jobGenerations'[js[i].layer] = gens[js[i].layer]
      BY <3>2, <3>3, <1>1
    <3> QED BY <3>4, <1>7, <1>11, <2>2
  <2> QED BY <1>3, <2>1, <2>2
<1> QED BY <1>6, <1>10, <1>11

\* A modality without a batch has its books in order.
LEMMA NoBatchBooks ==
  ASSUME NEW m, NEW b, b.id = NoBatch, b.dispatched = 0, b.layers = {}, b.queue = <<>>,
         b.succeeded <= b.total - b.pending, NEW js, NEW gens, NEW gen
  PROVE  Books(m, b, js, gens, gen)
<1>1. Mine(js, m, b.id) = {}
  BY DEF Mine
<1>2. Queued(b) = {} /\ LayersOf(js, {}) = {}
  BY DEF Queued, LayersOf
<1> QED BY <1>1, <1>2, FS_EmptySet DEF Books, Counts

\* What does not touch the calls of a batch keeps its books.
LEMMA BooksMove ==
  ASSUME NEW m, NEW b, NEW js, NEW gens, NEW gen, Books(m, b, js, gens, gen),
         NEW js2, NEW gens2, Mine(js2, m, b.id) = Mine(js, m, b.id),
         \A i \in Mine(js, m, b.id) : /\ js2[i].layer = js[i].layer
                                      /\ gens2[js[i].layer] = gens[js[i].layer]
  PROVE  Books(m, b, js2, gens2, gen)
<1>1. LayersOf(js2, Mine(js, m, b.id)) = LayersOf(js, Mine(js, m, b.id))
  BY DEF LayersOf
<1> QED BY <1>1 DEF Books, Counts

LEMMA NoneOpenBooks ==
  ASSUME NEW m, NEW js, NEW gens, NEW gen
  PROVE  Books(m, NoneOpen, js, gens, gen)
<1>1. /\ NoneOpen.id = NoBatch /\ NoneOpen.dispatched = 0 /\ NoneOpen.layers = {}
      /\ NoneOpen.queue = <<>> /\ NoneOpen.succeeded <= NoneOpen.total - NoneOpen.pending
  BY DEF NoneOpen
<1> HIDE DEF NoneOpen
<1> QED BY <1>1, NoBatchBooks

LEMMA BooksInvInit == Init => BooksInv
<1> SUFFICES ASSUME Init PROVE BooksInv
  OBVIOUS
<1>1. /\ batch = [m \in Modality |-> NoneOpen] /\ hubBatches = <<>> /\ nextBatch = 1
      /\ jobs = <<>>
  BY DEF Init, BatchInit
<1>2. HubInv
  <2>1. hubBatches \in Seq(HubStates) /\ Len(hubBatches) = nextBatch - 1
    BY <1>1
  <2>2. \A m \in Modality : batch[m].id = NoBatch
    BY <1>1 DEF NoneOpen
  <2> QED BY <2>1, <2>2, <1>1 DEF HubInv, NoBatch
<1>3. \A m \in Modality : Books(m, batch[m], jobs, jobGenerations, generation)
  BY <1>1, NoneOpenBooks
<1> QED BY <1>2, <1>3, BakeInvInit DEF BooksInv

LEMMA BooksInvStutter ==
  BooksInv /\ UNCHANGED batchVars /\ BakeInv' => BooksInv'
BY DEF BooksInv, HubInv, batchVars

\* A background function that returns settles nothing.
LEMMA ReturnsBooks ==
  ASSUME BooksInv, BakeInv', NEW i \in DOMAIN jobs,
         NEW outcome \in {"persisted", "skipped", "failed"}, BakeReturns(i, outcome)
  PROVE  BooksInv'
<1>1. /\ jobs' = [jobs EXCEPT ![i].task = "returned", ![i].outcome = outcome]
      /\ jobs[i].task = "running"
      /\ UNCHANGED <<jobGenerations, generation, batch, nextBatch, hubBatches>>
  BY DEF BakeReturns, Returns
<1>2. /\ DOMAIN jobs' = DOMAIN jobs
      /\ \A k \in DOMAIN jobs : /\ jobs'[k].layer = jobs[k].layer
                                /\ jobs'[k].batch = jobs[k].batch
                                /\ jobs'[k].task = IF k = i THEN "returned" ELSE jobs[k].task
  <2>1. jobs[i] \in Job
    BY DEF BooksInv, BakeInv, BakeTypes
  <2>2. \A k \in DOMAIN jobs : k # i => jobs'[k] = jobs[k]
    BY <1>1
  <2>3. /\ jobs'[i].layer = jobs[i].layer /\ jobs'[i].batch = jobs[i].batch
        /\ jobs'[i].task = "returned"
    BY <1>1, <2>1 DEF Job
  <2> QED BY <1>1, <2>2, <2>3
<1>3. ASSUME NEW m \in Modality
      PROVE  Books(m, batch[m], jobs', jobGenerations, generation)
  <2>1. Mine(jobs', m, batch[m].id) = Mine(jobs, m, batch[m].id)
    BY <1>1, <1>2 DEF Mine
  <2>2. \A k \in Mine(jobs, m, batch[m].id) : jobs'[k].layer = jobs[k].layer
    BY <1>2 DEF Mine
  <2>3. Books(m, batch[m], jobs, jobGenerations, generation)
    BY DEF BooksInv
  <2> QED BY <2>1, <2>2, <2>3, BooksMove
<1>4. HubInv'
  BY <1>1, <1>2 DEF BooksInv, HubInv
<1> QED BY <1>1, <1>3, <1>4 DEF BooksInv

\* Cancelling leaves no batch open; what is under way counts nowhere.
LEMMA CancelBooks ==
  ASSUME BooksInv, BakeInv', CancelBatch
  PROVE  BooksInv'
<1>1. /\ batch' = [m \in Modality |-> NoneOpen] /\ nextBatch' = nextBatch
      /\ hubBatches' = [b \in DOMAIN hubBatches |->
                          IF \E m \in Modality : batch[m].id = b THEN "cancelled"
                                                                 ELSE hubBatches[b]]
      /\ jobs' = [i \in DOMAIN jobs |-> IF \E l \in Layer : jobIds[l] = i
                                        THEN [jobs[i] EXCEPT !.status = "cancelled"] ELSE jobs[i]]
  BY DEF CancelBatch
<1>2. \A m \in Modality : Books(m, batch'[m], jobs', jobGenerations', generation')
  BY <1>1, NoneOpenBooks
<1>3. HubInv'
  <2>1. hubBatches \in Seq(HubStates) /\ Len(hubBatches) = nextBatch - 1
    BY DEF BooksInv, HubInv
  <2>2. Len(hubBatches) \in Nat /\ DOMAIN hubBatches = 1..Len(hubBatches)
        /\ \A b \in 1..Len(hubBatches) : hubBatches[b] \in HubStates
    BY <2>1, LenProperties, ElementOfSeq
  <2>3. hubBatches' \in [1..Len(hubBatches) -> HubStates]
    BY <1>1, <2>2 DEF HubStates
  <2>4. hubBatches' \in Seq(HubStates) /\ Len(hubBatches') = nextBatch' - 1
    BY <2>1, <2>2, <2>3, <1>1, FunctionIsSeq
  <2>5. \A m \in Modality : batch'[m].id = NoBatch
    BY <1>1 DEF NoneOpen
  <2>6. NoBatch < nextBatch'
    BY <1>1 DEF BooksInv, BakeInv, BakeTypes, NoBatch
  <2>7. \A i \in DOMAIN jobs' : jobs'[i].batch < nextBatch'
    <3> SUFFICES ASSUME NEW i \in DOMAIN jobs PROVE jobs'[i].batch = jobs[i].batch
      BY <1>1 DEF BooksInv, HubInv
    <3>1. jobs[i] \in Job
      BY DEF BooksInv, BakeInv, BakeTypes
    <3> QED BY <1>1, <3>1 DEF Job
  <2> QED BY <2>4, <2>5, <2>6, <2>7 DEF HubInv
<1> QED BY <1>2, <1>3 DEF BooksInv

\* Of what was begun, places lo + 1 to lo + s are items of batch b of m, which moved
\* from its queue to the calls it counts: it is now c.
Moved(m, b, c, started, lo, s) ==
  /\ lo + s <= Len(started)
  /\ \A k \in DOMAIN started :
       started[k][2] = b.id /\ ModalityOf[started[k][1].layer] = m <=> k \in (lo + 1)..(lo + s)
  /\ c.id = b.id /\ c.dispatched = b.dispatched + s /\ c.layers = b.layers
  /\ c.succeeded = b.succeeded /\ c.total = b.total /\ c.pending = b.pending
  /\ Queued(b) = Queued(c) \cup {started[k][1].layer : k \in (lo + 1)..(lo + s)}

LEMMA BegunCounts ==
  ASSUME NEW js, NEW ids, NEW gens, NEW started,
         MayBegin(js, ids, gens, started), Begin(js, ids, gens, started, session),
         NEW m, NEW b, b.id \in Nat \ {0}, b.dispatched \in Int,
         Counts(m, b, js, gens, generation),
         NEW lo \in Nat, NEW s \in Nat, NEW c, Moved(m, b, c, started, lo, s)
  PROVE  Counts(m, c, jobs', jobGenerations', generation)
<1>1. /\ Cardinality(Mine(jobs', m, b.id)) = Cardinality(Mine(js, m, b.id)) + s
      /\ LayersOf(jobs', Mine(jobs', m, b.id)) =
           LayersOf(js, Mine(js, m, b.id)) \cup {started[k][1].layer : k \in (lo + 1)..(lo + s)}
      /\ (\A i \in Mine(js, m, b.id) : gens[js[i].layer] = generation)
           => \A i \in Mine(jobs', m, b.id) : jobGenerations'[jobs'[i].layer] = generation
  <2>1. PICK id \in Nat \ {0} : id = b.id
    OBVIOUS
  <2>2. lo + s <= Len(started) /\ \A k \in DOMAIN started :
          started[k][2] = id /\ ModalityOf[started[k][1].layer] = m <=> k \in (lo + 1)..(lo + s)
    BY <2>1 DEF Moved
  <2>3. /\ Cardinality(Mine(jobs', m, id)) = Cardinality(Mine(js, m, id)) + s
        /\ LayersOf(jobs', Mine(jobs', m, id)) =
             LayersOf(js, Mine(js, m, id)) \cup {started[k][1].layer : k \in (lo + 1)..(lo + s)}
        /\ (\A i \in Mine(js, m, id) : gens[js[i].layer] = generation)
             => \A i \in Mine(jobs', m, id) : jobGenerations'[jobs'[i].layer] = generation
    BY <2>2, Grown
  <2> QED BY <2>1, <2>3
<1> QED BY <1>1 DEF Counts, Moved

\* A batch none of whose items were begun.
LEMMA BegunOthers ==
  ASSUME NEW js, NEW ids, NEW gens, NEW started,
         MayBegin(js, ids, gens, started), Begin(js, ids, gens, started, session),
         NEW m, NEW b, b.id \in Nat, b.dispatched \in Int, Books(m, b, js, gens, generation),
         \A k \in DOMAIN started :
           b.id = NoBatch \/ started[k][2] # b.id \/ ModalityOf[started[k][1].layer] # m
  PROVE  Books(m, b, jobs', jobGenerations', generation)
<1>1. CASE b.id = NoBatch
  <2>1. Mine(jobs', m, b.id) = {} /\ Mine(js, m, b.id) = {}
    BY <1>1 DEF Mine
  <2> QED BY <2>1, BooksMove
<1>2. CASE b.id # NoBatch
  <2> PICK z \in Nat : z = 0
    OBVIOUS
  <2>1. z + z <= Len(started) /\ b.dispatched = b.dispatched + z
    BY DEF MayBegin
  <2>2. Counts(m, b, js, gens, generation) /\ b.id \in Nat \ {0}
    BY <1>2 DEF Books, NoBatch
  <2>3. \A k : k \notin (z + 1)..(z + z)
    OBVIOUS
  <2>4. /\ \A k \in DOMAIN started :
             started[k][2] = b.id /\ ModalityOf[started[k][1].layer] = m
               <=> k \in (z + 1)..(z + z)
        /\ Queued(b) = Queued(b) \cup {started[k][1].layer : k \in (z + 1)..(z + z)}
    BY <2>3, <1>2
  <2>6. Counts(m, b, jobs', jobGenerations', generation)
    <3>1. Moved(m, b, b, started, z, z)
      BY <2>1, <2>4 DEF Moved
    <3> QED BY <2>2, <3>1, BegunCounts
  <2> QED BY <2>6 DEF Books
<1> QED BY <1>1, <1>2

\* No job is numbered with a batch still to come.
LEMMA BegunNumbers ==
  ASSUME NEW js, NEW ids, NEW gens, NEW started,
         MayBegin(js, ids, gens, started), Begin(js, ids, gens, started, session),
         NEW top, \A i \in DOMAIN js : js[i].batch < top,
         \A k \in DOMAIN started : started[k][2] < top
  PROVE  \A i \in DOMAIN jobs' : jobs'[i].batch < top
<1>1. /\ Len(started) \in Nat /\ DOMAIN started = 1..Len(started) /\ nextJob \in Nat \ {0}
      /\ DOMAIN js = 1..(nextJob - 1) /\ DOMAIN jobs' = 1..(nextJob - 1 + Len(started))
      /\ \A i \in DOMAIN js : jobs'[i] = js[i]
      /\ \A k \in DOMAIN started : jobs'[nextJob - 1 + k].batch = started[k][2]
  <2>1. nextJob \in Nat \ {0}
    BY DEF MayBegin
  <2> QED BY <2>1, BeginExact
<1> SUFFICES ASSUME NEW i \in DOMAIN jobs' PROVE jobs'[i].batch < top
  OBVIOUS
<1>2. CASE i \in DOMAIN js
  BY <1>1, <1>2
<1>3. CASE i \notin DOMAIN js
  <2> DEFINE k == i - (nextJob - 1)
  <2>2. i \in 1..(nextJob - 1 + Len(started)) /\ ~(i \in 1..(nextJob - 1))
    BY <1>1, <1>3
  <2>1. k \in 1..Len(started) /\ i = nextJob - 1 + k
    BY <2>2, <1>1
  <2> QED BY <2>1, <1>1
<1> QED BY <1>2, <1>3

\* A modality without a batch begins nothing, counts nothing: applySSS and applySBP.
LEMMA ApplyBooks ==
  ASSUME BooksInv, BakeInv', NEW l \in Layer, ApplyOne(l)
  PROVE  BooksInv'
<1> DEFINE started == << <<ItemOf(l), NoBatch>> >>
<1>1. /\ Begin(jobs, jobIds, jobGenerations, started, session)
      /\ jobIds[l] = 0
      /\ UNCHANGED <<generation, batch, nextBatch, hubBatches>>
  BY ItemTypes DEF ApplyOne, Apply, BeginJobs, Free, NoJob, BooksInv, BakeInv
<1>2. /\ started \in Seq(Item \X Nat) /\ DOMAIN started = {1} /\ started[1][1].layer = l
      /\ started[1][2] = NoBatch
  BY ItemTypes DEF NoBatch, BooksInv, BakeInv
<1> HIDE DEF started
<1>3. MayBegin(jobs, jobIds, jobGenerations, started)
  BY <1>1, <1>2 DEF BooksInv, BakeInv, BakeTypes, MayBegin
<1>4. ASSUME NEW m \in Modality
      PROVE  Books(m, batch[m], jobs', jobGenerations', generation)
  <2>1. /\ batch[m].id \in Nat /\ batch[m].dispatched \in Int
        /\ Books(m, batch[m], jobs, jobGenerations, generation)
    BY DEF BooksInv, BakeInv, BakeTypes, BatchRec
  <2>2. \A k \in DOMAIN started : batch[m].id = NoBatch \/ started[k][2] # batch[m].id
    BY <1>2
  <2> QED BY <2>1, <2>2, <1>1, <1>3, BegunOthers
<1>5. \A i \in DOMAIN jobs' : jobs'[i].batch < nextBatch
  <2>1. \A k \in DOMAIN started : started[k][2] < nextBatch
    <3>1. nextBatch \in Nat \ {0}
      BY DEF BooksInv, BakeInv, BakeTypes
    <3> QED BY <3>1, <1>2 DEF NoBatch
  <2>2. \A i \in DOMAIN jobs : jobs[i].batch < nextBatch
    BY DEF BooksInv, HubInv
  <2> QED BY <2>1, <2>2, <1>1, <1>3, BegunNumbers
<1>6. HubInv'
  BY <1>1, <1>5 DEF BooksInv, HubInv
<1> QED BY <1>1, <1>4, <1>6 DEF BooksInv

-----------------------------------------------------------------------------
(* The books when a call settles.                                          *)

\* A batch that does not count the call that settles keeps its books.
LEMMA SettledOthers ==
  ASSUME BooksInv, NEW i \in DOMAIN jobs, jobs[i].task # "settled",
         NEW js, DOMAIN js = DOMAIN jobs, js[i].task = "settled",
         \A k \in DOMAIN jobs : k # i => js[k] = jobs[k],
         NEW n \in Modality, i \notin Mine(jobs, n, batch[n].id)
  PROVE  Books(n, batch[n], js, Without(jobGenerations, jobs[i].layer), generation)
<1> DEFINE l == jobs[i].layer
<1>1. BakeInv /\ Books(n, batch[n], jobs, jobGenerations, generation)
  BY DEF BooksInv
<1>2. Mine(js, n, batch[n].id) = Mine(jobs, n, batch[n].id)
  BY DEF Mine
<1>3. ASSUME NEW k \in Mine(jobs, n, batch[n].id)
      PROVE  /\ js[k].layer = jobs[k].layer
             /\ Without(jobGenerations, l)[jobs[k].layer] = jobGenerations[jobs[k].layer]
  <2>1. k \in DOMAIN jobs /\ jobs[k].task # "settled" /\ k # i
    BY DEF Mine
  <2>2. jobs[k].layer \in Layer /\ jobIds[jobs[k].layer] = k /\ jobIds[l] = i
    BY <1>1, <2>1, CallKnown
  <2> QED BY <2>1, <2>2, <1>1 DEF Without, BakeInv, BakeTypes
<1> QED BY <1>1, <1>2, <1>3, BooksMove

\* A layer in its modality's batch that a call works on is one the batch counts.
LEMMA InItsBatch ==
  ASSUME BooksInv, NEW i \in DOMAIN jobs, jobs[i].task # "settled"
  PROVE  LET l == jobs[i].layer
             m == ModalityOf[l] IN
         /\ InBatch(l) <=> i \in Mine(jobs, m, batch[m].id)
         /\ InBatch(l) => batch[m].id # NoBatch /\ l \notin Queued(batch[m])
<1> DEFINE l == jobs[i].layer
           m == ModalityOf[l]
<1>1. l \in Layer /\ jobIds[l] = i /\ i # 0 /\ m \in Modality /\ BakeInv
  BY CallKnown, BatchAssumption DEF BatchAssumption, BooksInv
<1>2. /\ batch[m].layers = Queued(batch[m]) \cup LayersOf(jobs, Mine(jobs, m, batch[m].id))
      /\ QueueFree(m, batch[m], jobIds)
  BY <1>1 DEF BooksInv, Books, Counts, BakeInv
<1>3. l \notin Queued(batch[m])
  BY <1>1, <1>2 DEF Queued, QueueFree
<1>4. ASSUME NEW k \in Mine(jobs, m, batch[m].id), jobs[k].layer = l PROVE k = i
  BY <1>4, <1>1, CallKnown DEF Mine
<1>5. l \in LayersOf(jobs, Mine(jobs, m, batch[m].id)) <=> i \in Mine(jobs, m, batch[m].id)
  BY <1>4 DEF LayersOf
<1> HIDE DEF l, m
<1> QED BY <1>2, <1>3, <1>5 DEF InBatch, Mine, l, m

\* The batch that does counts one less, and its layer is gone from it.
LEMMA SettledCounts ==
  ASSUME BooksInv, NEW i \in DOMAIN jobs, jobs[i].task # "settled", InBatch(jobs[i].layer),
         NEW js, DOMAIN js = DOMAIN jobs, js[i].task = "settled",
         \A k \in DOMAIN jobs : k # i => js[k] = jobs[k], NEW ok \in BOOLEAN
  PROVE  LET l == jobs[i].layer
             m == ModalityOf[l] IN
         Counts(m, Counted(batch[m], l, ok), js, Without(jobGenerations, l), generation)
<1> DEFINE l == jobs[i].layer
           m == ModalityOf[l]
           b == batch[m]
           c == Counted(b, l, ok)
           old == Mine(jobs, m, b.id)
<1>1. l \in Layer /\ jobIds[l] = i /\ m \in Modality /\ BakeInv
  BY CallKnown, BatchAssumption DEF BatchAssumption, BooksInv
<1>2. i \in old /\ b.id # NoBatch /\ l \notin Queued(b)
  BY InItsBatch
<1>3. b \in BatchRec /\ Counts(m, b, jobs, jobGenerations, generation)
  BY <1>1 DEF BooksInv, Books, BakeInv, BakeTypes
<1>4. /\ c.queue = b.queue /\ c.id = b.id /\ c.layers = b.layers \ {l}
      /\ c.dispatched = b.dispatched - 1 /\ c.pending = b.pending - 1 /\ c.total = b.total
      /\ c.succeeded <= b.succeeded + 1 /\ c.succeeded \in Int
      /\ b.dispatched \in Int /\ b.pending \in Int /\ b.total \in Int /\ b.succeeded \in Int
  BY <1>3 DEF Counted, BatchRec
<1>5. Mine(js, m, b.id) = old \ {i}
  BY DEF Mine
<1>6. IsFiniteSet(old) /\ Cardinality(old \ {i}) = Cardinality(old) - 1
  <2>1. nextJob - 1 \in Nat /\ DOMAIN jobs = 1..(nextJob - 1)
    BY <1>1 DEF BakeInv, BakeTypes
  <2>2. IsFiniteSet(old)
    BY <2>1, MineFinite
  <2> HIDE DEF old
  <2> QED BY <2>2, <1>2, FS_RemoveElement
<1>7. \A k \in old \ {i} : js[k] = jobs[k] /\ jobs[k].layer # l /\ jobs[k].layer \in Layer
  <2> SUFFICES ASSUME NEW k \in old \ {i}
               PROVE  js[k] = jobs[k] /\ jobs[k].layer # l /\ jobs[k].layer \in Layer
    OBVIOUS
  <2>1. k \in DOMAIN jobs /\ jobs[k].task # "settled" /\ k # i
    BY DEF Mine
  <2> QED BY <2>1, <1>1, CallKnown
<1>8. LayersOf(js, old \ {i}) = LayersOf(jobs, old) \ {l}
  <2>1. jobs[i].layer = l
    OBVIOUS
  <2> HIDE DEF old, l
  <2> QED BY <2>1, <1>7, <1>2 DEF LayersOf
<1>9. \A k \in old \ {i} : Without(jobGenerations, l)[js[k].layer] = generation
  <2>1. \A k \in old : jobGenerations[jobs[k].layer] = generation
    BY <1>3 DEF Counts
  <2>2. jobGenerations \in [Layer -> Nat]
    BY <1>1 DEF BakeInv, BakeTypes
  <2> HIDE DEF old, l
  <2> QED BY <2>1, <2>2, <1>7 DEF Without
<1>10. /\ b.dispatched = Cardinality(old) /\ b.layers = Queued(b) \cup LayersOf(jobs, old)
       /\ b.succeeded <= b.total - b.pending
  BY <1>3 DEF Counts
<1>11. Queued(c) = Queued(b)
  <2> HIDE DEF c
  <2> QED BY <1>4 DEF Queued
<1> HIDE DEF c, old, l, b, m
<1>12. c.layers = Queued(c) \cup LayersOf(js, Mine(js, m, c.id))
  BY <1>2, <1>4, <1>5, <1>8, <1>10, <1>11
<1>13. c.dispatched = Cardinality(Mine(js, m, c.id)) /\ c.succeeded <= c.total - c.pending
  BY <1>4, <1>5, <1>6, <1>10
<1>14. \A k \in Mine(js, m, c.id) : Without(jobGenerations, l)[js[k].layer] = generation
  BY <1>4, <1>5, <1>9
<1>15. Counts(m, c, js, Without(jobGenerations, l), generation)
  BY <1>12, <1>13, <1>14 DEF Counts
<1> QED BY <1>15 DEF c, l, b, m

\* A signal that is discarded is of a call no batch counts.
LEMMA DiscardBooks ==
  ASSUME BooksInv, BakeInv', NEW i \in DOMAIN jobs, jobs[i].task = "returned", DiscardSignal(i)
  PROVE  BooksInv'
<1> DEFINE l == jobs[i].layer
<1>1. /\ l \in Layer /\ jobIds[l] = i /\ jobGenerations[l] # 0 /\ jobs[i] \in Job
      /\ BakeInv /\ jobs[i].task # "settled"
  BY CallKnown DEF BooksInv
<1>2. /\ jobs' = [jobs EXCEPT ![i].task = "settled", ![i].outcome = "none"]
      /\ jobGenerations' = Without(jobGenerations, l)
      /\ jobGenerations[l] # generation
      /\ UNCHANGED <<generation, batch, nextBatch, hubBatches>>
  BY DEF DiscardSignal, Settled, Without, Current
<1>3. /\ DOMAIN jobs' = DOMAIN jobs
      /\ jobs'[i].task = "settled" /\ jobs'[i].batch = jobs[i].batch
      /\ \A k \in DOMAIN jobs : k # i => jobs'[k] = jobs[k]
  BY <1>1, <1>2 DEF Job
<1>4. ASSUME NEW m \in Modality
      PROVE  Books(m, batch[m], jobs', jobGenerations', generation)
  <2>1. i \notin Mine(jobs, m, batch[m].id)
    BY <1>2 DEF BooksInv, Books, Counts
  <2> QED BY <2>1, <1>1, <1>2, <1>3, SettledOthers
<1>5. HubInv'
  <2>1. \A k \in DOMAIN jobs' : jobs'[k].batch = jobs[k].batch
    BY <1>3
  <2> QED BY <2>1, <1>2, <1>3 DEF BooksInv, HubInv
<1> QED BY <1>1, <1>2, <1>4, <1>5 DEF BooksInv

\* dispatchNext moves the head of the queue to the calls of the batch.
LEMMA PumpMoves ==
  ASSUME NEW m, NEW b \in BatchRec, QueueFits(b), NEW started,
         Len(started) \in Nat, DOMAIN started = 1..Len(started),
         NEW lo \in Nat, lo + Slots(b) <= Len(started),
         \A k \in 1..Slots(b) : started[lo + k] = Pump(b)[k],
         \A k \in DOMAIN b.queue : ModalityOf[b.queue[k].layer] = m,
         \A k \in DOMAIN started :
           k \notin (lo + 1)..(lo + Slots(b)) => ModalityOf[started[k][1].layer] # m
  PROVE  Moved(m, b, Pumped(b), started, lo, Slots(b))
<1> DEFINE s == Slots(b)
           c == Pumped(b)
           begun == {started[k][1].layer : k \in (lo + 1)..(lo + s)}
<1>1. /\ s \in 0..Len(b.queue) /\ Len(b.queue) \in Nat /\ DOMAIN b.queue = 1..Len(b.queue)
      /\ \A k \in 1..s : k \in DOMAIN b.queue /\ started[lo + k] = <<b.queue[k], b.id>>
      /\ c.layers = b.layers /\ c.id = b.id
      /\ DOMAIN c.queue = 1..(Len(b.queue) - s)
      /\ \A k \in DOMAIN c.queue : k + s \in DOMAIN b.queue /\ c.queue[k] = b.queue[k + s]
  BY PumpFacts, LenProperties DEF BatchRec
<1>2. /\ c.dispatched = b.dispatched + s /\ c.succeeded = b.succeeded
      /\ c.total = b.total /\ c.pending = b.pending
  BY DEF Pumped, BatchRec
<1> HIDE DEF s, c
<1>3. \A k \in (lo + 1)..(lo + s) : /\ k - lo \in 1..s /\ k - lo \in DOMAIN b.queue
                                    /\ started[k] = <<b.queue[k - lo], b.id>>
  <2> SUFFICES ASSUME NEW k \in (lo + 1)..(lo + s)
               PROVE  /\ k - lo \in 1..s /\ k - lo \in DOMAIN b.queue
                      /\ started[k] = <<b.queue[k - lo], b.id>>
    OBVIOUS
  <2> DEFINE j == k - lo
  <2>1. j \in 1..s /\ lo + j = k
    BY <1>1
  <2> HIDE DEF j
  <2>2. j \in DOMAIN b.queue /\ started[k] = <<b.queue[j], b.id>>
    BY <2>1, <1>1
  <2> QED BY <2>1, <2>2 DEF j
<1>4. ASSUME NEW k \in DOMAIN started
      PROVE  started[k][2] = b.id /\ ModalityOf[started[k][1].layer] = m
               <=> k \in (lo + 1)..(lo + s)
  <2>1. CASE k \in (lo + 1)..(lo + s)
    BY <2>1, <1>3
  <2>2. CASE k \notin (lo + 1)..(lo + s)
    BY <2>2 DEF s
  <2> QED BY <2>1, <2>2
<1>5. ASSUME NEW x \in Queued(b) PROVE x \in Queued(c) \cup begun
  <2>1. PICK k \in DOMAIN b.queue : x = b.queue[k].layer
    BY <1>5 DEF Queued
  <2>2. CASE k \in 1..s
    <3>1. lo + k \in (lo + 1)..(lo + s) /\ started[lo + k] = <<b.queue[k], b.id>>
      BY <2>2, <1>1
    <3>2. started[lo + k][1].layer = x
      BY <2>1, <3>1
    <3> QED BY <3>1, <3>2
  <2>3. CASE k \notin 1..s
    <3> DEFINE j == k - s
    <3>1. j \in DOMAIN c.queue /\ j + s = k
      BY <2>3, <1>1
    <3> HIDE DEF j
    <3>2. c.queue[j] = b.queue[k]
      BY <3>1, <1>1
    <3> QED BY <3>1, <3>2, <2>1 DEF Queued
  <2> QED BY <2>2, <2>3
<1>6. ASSUME NEW x \in Queued(c) \cup begun PROVE x \in Queued(b)
  <2>1. CASE x \in Queued(c)
    BY <2>1, <1>1 DEF Queued
  <2>2. CASE x \in begun
    BY <2>2, <1>3 DEF Queued
  <2> QED BY <2>1, <2>2, <1>6
<1>7. Queued(b) = Queued(c) \cup begun
  <2> HIDE DEF begun
  <2> QED BY <1>5, <1>6
<1> QED BY <1>1, <1>2, <1>4, <1>7 DEF Moved, s, c

\* Closing a batch whose numbers are exact.
LEMMA ClosedBooks ==
  ASSUME NEW m, NEW b \in BatchRec, QueueFits(b), b.pending = 0 => b.queue = <<>>,
         b.id # NoBatch, NEW js, NEW n \in Nat, DOMAIN js = 1..n, NEW gens, NEW gen,
         Counts(m, b, js, gens, gen)
  PROVE  Books(m, Closed(b), js, gens, gen)
<1>1. /\ b.dispatched \in Int /\ b.pending = Len(b.queue) + b.dispatched /\ Len(b.queue) \in Nat
      /\ b.succeeded <= b.total - b.pending /\ b.dispatched = Cardinality(Mine(js, m, b.id))
  BY LenProperties DEF BatchRec, QueueFits, Counts
<1>2. b.dispatched >= 0
  BY <1>1, MineFinite
<1>3. CASE b.pending = 0
  <2> DEFINE c == [b EXCEPT !.id = NoBatch, !.layers = {}]
  <2>1. Closed(b) = c
    BY <1>3 DEF Closed
  <2>2. b.queue = <<>> /\ b.dispatched = 0
    BY <1>1, <1>2, <1>3
  <2>3. /\ c.id = NoBatch /\ c.layers = {} /\ c.queue = <<>> /\ c.dispatched = 0
        /\ c.succeeded = b.succeeded /\ c.total = b.total /\ c.pending = b.pending
    BY <2>2 DEF BatchRec
  <2> HIDE DEF c
  <2>4. c.succeeded <= c.total - c.pending
    BY <2>3, <1>1
  <2> QED BY <2>1, <2>3, <2>4, NoBatchBooks
<1>4. CASE b.pending # 0
  <2>1. b.pending > 0
    BY <1>1, <1>2, <1>4
  <2> QED BY <1>4, <2>1 DEF Closed, Books
<1> QED BY <1>3, <1>4

\* A signal of the current generation: its call leaves the batch that counts it, the
\* next of the queue is begun, and the batch ends with its last.
LEMMA AcceptBooks ==
  ASSUME BooksInv, BakeInv', NEW i \in DOMAIN jobs, jobs[i].task = "returned",
         AcceptSignal(i, session)
  PROVE  BooksInv'
<1> DEFINE l == jobs[i].layer
           m == ModalityOf[l]
           ok == jobs[i].outcome # "failed"
           b == Counted(batch[m], l, ok)
           after == Pumped(b)
           ended == [Settled(i) EXCEPT ![jobIds[l]].status = IF ok THEN "completed" ELSE "failed"]
           ids == Without(jobIds, l)
           gens == Without(jobGenerations, l)
           started == IF InBatch(l) THEN Pump(b) ELSE <<>>
<1>1. /\ BakeInv /\ l \in Layer /\ jobIds[l] = i /\ jobs[i] \in Job /\ m \in Modality
      /\ jobs[i].task # "settled" /\ ok \in BOOLEAN
  BY CallKnown, BatchAssumption DEF BatchAssumption, BooksInv
<1>2. /\ ended \in [1..(nextJob - 1) -> Job] /\ ended[i].task = "settled"
      /\ DOMAIN ended = DOMAIN jobs
      /\ \A k \in DOMAIN jobs : k # i => ended[k] = jobs[k]
      /\ \A k \in DOMAIN jobs : ended[k].batch = jobs[k].batch
  <2>1. /\ ended \in [1..(nextJob - 1) -> Job] /\ ended[i].task = "settled"
        /\ \A k \in DOMAIN jobs : k # i => ended[k] = jobs[k]
    BY <1>1 DEF BakeInv, BakeTypes, Settled, Job, Status
  <2>2. ended[i].batch = jobs[i].batch
    BY <1>1 DEF Settled, Job
  <2>3. DOMAIN ended = DOMAIN jobs
    BY <1>1 DEF Settled
  <2> HIDE DEF ended
  <2> QED BY <2>1, <2>2, <2>3
<1>3. /\ Begin(ended, ids, gens, started, session)
      /\ UNCHANGED <<generation, nextBatch>>
      /\ InBatch(l) => /\ batch' = [batch EXCEPT ![m] = Closed(after)]
                       /\ hubBatches' = IF after.pending = 0 /\ after.id # NoBatch
                                        THEN [hubBatches EXCEPT ![after.id] = Verdict(after)]
                                        ELSE hubBatches
      /\ ~InBatch(l) => UNCHANGED <<batch, hubBatches>>
  BY DEF AcceptSignal, NoJob, Without
<1>4. MayBegin(ended, ids, gens, started) /\ OfQueue(started, batch[m].queue)
  <2>1. started = <<>> \/ \E o \in BOOLEAN : started = Pump(Counted(batch[m], l, o))
    <3> HIDE DEF ok
    <3> QED BY <1>1
  <2> HIDE DEF ended, started
  <2>2. Settling(i, ended, started)
    BY <2>1, <1>1, <1>2 DEF Settling
  <2> QED BY <2>2, <1>1, <1>3, NextOfBatch
<1>5. /\ b \in BatchRec /\ QueueFits(b) /\ b.queue = batch[m].queue /\ b.id = batch[m].id
  <2>1. batch[m] \in BatchRec /\ QueueFits(batch[m])
    BY <1>1 DEF BakeInv, BakeTypes
  <2> HIDE DEF ok
  <2> QED BY <2>1, <1>1, CountedFits
<1>6. HubInv /\ \A n \in Modality : /\ batch[n].id \in Nat /\ batch[n].dispatched \in Int
                                    /\ Books(n, batch[n], jobs, jobGenerations, generation)
  BY <1>1 DEF BooksInv, BakeInv, BakeTypes, BatchRec
<1> HIDE DEF b, ended, ids, gens, ok, started
\* Of a batch the call does not count, nothing is begun.
<1>7. ASSUME NEW n \in Modality, i \notin Mine(jobs, n, batch[n].id), n # m \/ started = <<>>
      PROVE  Books(n, batch[n], jobs', jobGenerations', generation)
  <2>1. Books(n, batch[n], ended, gens, generation)
    BY <1>1, <1>2, <1>7, SettledOthers DEF gens
  <2>2. ASSUME NEW k \in DOMAIN started PROVE ModalityOf[started[k][1].layer] # n
    <3>1. n # m /\ k \in DOMAIN batch[m].queue /\ started[k][1] = batch[m].queue[k]
      BY <1>4, <1>7, <2>2 DEF OfQueue
    <3>2. ModalityOf[batch[m].queue[k].layer] = m
      BY <3>1, <1>1 DEF BakeInv, QueueFree
    <3> QED BY <3>1, <3>2
  <2> QED BY <2>1, <2>2, <1>3, <1>4, <1>6, BegunOthers
<1>8. \A n \in Modality : n # m => i \notin Mine(jobs, n, batch[n].id)
  BY DEF Mine
<1>9. ASSUME NEW top, \A k \in DOMAIN jobs : jobs[k].batch < top,
             \A k \in DOMAIN started : started[k][2] < top
      PROVE  \A k \in DOMAIN jobs' : jobs'[k].batch < top
  <2>1. \A k \in DOMAIN ended : ended[k].batch < top
    BY <1>9, <1>2
  <2> QED BY <2>1, <1>9, <1>3, <1>4, BegunNumbers
<1>10. CASE ~InBatch(l)
  <2>1. started = <<>> /\ UNCHANGED <<batch, hubBatches>>
    BY <1>10, <1>3 DEF started
  <2>2. i \notin Mine(jobs, m, batch[m].id)
    BY <1>10, <1>1, InItsBatch
  <2>3. \A n \in Modality : Books(n, batch[n], jobs', jobGenerations', generation)
    BY <2>1, <2>2, <1>7, <1>8
  <2>4. \A k \in DOMAIN jobs' : jobs'[k].batch < nextBatch
    BY <2>1, <1>6, <1>9 DEF HubInv
  <2> QED BY <2>1, <2>3, <2>4, <1>3, <1>6 DEF BooksInv, HubInv
<1>11. CASE InBatch(l)
  <2>1. /\ after \in BatchRec /\ QueueFits(after) /\ after.id = b.id
        /\ after.pending = 0 => after.queue = <<>>
        /\ started = Pump(b) /\ DOMAIN started = 1..Slots(b) /\ Slots(b) \in Nat
        /\ \A k \in 1..Slots(b) : k \in DOMAIN b.queue /\ started[k] = <<b.queue[k], b.id>>
    BY <1>11, <1>5, PumpFacts DEF started
  <2>2. batch[m].id # NoBatch /\ b.id \in Nat \ {0} /\ b.dispatched \in Int
    BY <1>11, <1>1, <1>5, InItsBatch DEF BatchRec, NoBatch
  <2>3. Counts(m, b, ended, gens, generation)
    BY <1>11, <1>1, <1>2, SettledCounts DEF b, gens
  <2>4. Moved(m, b, after, started, 0, Slots(b))
    <3>1. Len(started) = Slots(b)
      BY <2>1 DEF Pump
    <3>2. \A k \in 1..Slots(b) : 0 + k = k
      OBVIOUS
    <3>3. \A k \in DOMAIN b.queue : ModalityOf[b.queue[k].layer] = m
      BY <1>1, <1>5 DEF BakeInv, QueueFree
    <3>4. PICK z \in Nat : z = 0
      OBVIOUS
    <3>5. /\ z + Slots(b) <= Len(started) /\ Len(started) \in Nat
          /\ DOMAIN started = 1..Len(started)
          /\ \A k \in 1..Slots(b) : started[z + k] = Pump(b)[k]
          /\ \A k \in DOMAIN started : k \in (z + 1)..(z + Slots(b))
      BY <3>1, <3>2, <3>4, <2>1
    <3>6. Moved(m, b, after, started, z, Slots(b))
      BY <3>3, <3>5, <1>5, PumpMoves
    <3> QED BY <3>4, <3>6
  <2> HIDE DEF after
  <2>5. Counts(m, after, jobs', jobGenerations', generation)
    BY <2>1, <2>2, <2>3, <2>4, <1>3, <1>4, BegunCounts
  <2>6. Books(m, Closed(after), jobs', jobGenerations', generation)
    <3>1. nextJob' - 1 \in Nat /\ DOMAIN jobs' = 1..(nextJob' - 1)
      <4>1. nextJob' \in Nat \ {0}
        BY DEF BakeInv, BakeTypes
      <4>2. \A n \in Nat \ {0} : n - 1 \in Nat
        OBVIOUS
      <4>3. DOMAIN jobs' = 1..(nextJob' - 1)
        BY DEF BakeInv, BakeTypes
      <4> QED BY <4>1, <4>2, <4>3
    <3> QED BY <3>1, <2>1, <2>2, <2>5, <1>5, ClosedBooks
  <2>7. batch' = [batch EXCEPT ![m] = Closed(after)] /\ DOMAIN batch = Modality
    BY <1>11, <1>3, <1>1 DEF BakeInv, BakeTypes, after
  <2>8. \A n \in Modality : Books(n, batch'[n], jobs', jobGenerations', generation)
    BY <2>6, <2>7, <1>7, <1>8
  <2>9. \A k \in DOMAIN jobs' : jobs'[k].batch < nextBatch
    <3>1. \A k \in DOMAIN started : started[k][2] < nextBatch
      BY <2>1, <1>1, <1>5, <1>6 DEF HubInv
    <3> QED BY <3>1, <1>6, <1>9 DEF HubInv
  <2>10. HubInv'
    <3> DEFINE id == batch[m].id
    <3>1. id # NoBatch /\ id \in DOMAIN hubBatches /\ after.id = id
      <4>1. /\ id \in Nat /\ id # 0 /\ id < nextBatch /\ nextBatch \in Nat
            /\ Len(hubBatches) = nextBatch - 1 /\ hubBatches \in Seq(HubStates)
        BY <2>2, <1>1, <1>5, <1>6 DEF HubInv, BakeInv, BakeTypes
      <4>2. DOMAIN hubBatches = 1..(nextBatch - 1)
        BY <4>1, LenProperties
      <4> QED BY <4>1, <4>2, <2>1, <2>2, <1>5
    <3>2. \A n \in Modality : n # m => batch'[n] = batch[n] /\ batch'[n].id # id
      BY <2>2, <2>7, <1>1, <1>6 DEF HubInv
    <3>3. CASE after.pending = 0
      <4>1. hubBatches' = [hubBatches EXCEPT ![id] = Verdict(after)] /\ Verdict(after) \in HubStates
        BY <3>1, <3>3, <1>3, <1>11 DEF Verdict, HubStates, after
      <4>2. hubBatches' \in Seq(HubStates) /\ Len(hubBatches') = Len(hubBatches)
        <5>1. hubBatches \in Seq(HubStates) /\ DOMAIN hubBatches = 1..Len(hubBatches)
          BY <1>6, LenProperties DEF HubInv
        <5> QED BY <5>1, <4>1, <3>1, ExceptSeq
      <4>3. batch'[m].id = NoBatch
        BY <2>1, <2>7, <3>3, <1>1 DEF Closed, BatchRec
      <4>4. \A n \in Modality : batch'[n].id # NoBatch => n # m
        BY <4>3
      <4>5. \A n \in Modality : n # m => /\ batch'[n].id < nextBatch
                                         /\ batch'[n].id # NoBatch => hubBatches'[batch'[n].id] = "running"
        BY <4>1, <3>2, <1>6 DEF HubInv
      <4>6. NoBatch < nextBatch
        BY <1>1 DEF BakeInv, BakeTypes, NoBatch
      <4> QED BY <4>2, <4>3, <4>5, <4>6, <3>2, <2>9, <1>3, <1>6 DEF HubInv
    <3>4. CASE after.pending # 0
      <4>1. batch'[m].id = id /\ hubBatches' = hubBatches
        BY <3>1, <3>4, <2>7, <1>1, <1>3, <1>11 DEF Closed, after
      <4>2. \A n \in Modality : batch'[n].id = batch[n].id
        BY <4>1, <3>2
      <4> QED BY <4>1, <4>2, <2>9, <1>3, <1>6 DEF HubInv
    <3> QED BY <3>3, <3>4
  <2> QED BY <2>8, <2>10, <1>3 DEF BooksInv
<1> QED BY <1>10, <1>11

\* The new batches have ids of their own, and the hub shows them as running.
LEMMA BakeAllHub ==
  ASSUME BooksInv, BakeAll
  PROVE  HubInv'
<1>1. /\ batch' = [m \in Modality |-> IF Opens(m) THEN Pumped(Fresh(m)) ELSE batch[m]]
      /\ nextBatch' = nextBatch + Cardinality(Opened)
      /\ hubBatches' = hubBatches \o [i \in 1..Cardinality(Opened) |-> "running"]
      /\ Begin(jobs, jobIds, jobGenerations, AllBegun, session)
  BY BakeAllDoes
<1>2. /\ BakeInv /\ nextBatch \in Nat \ {0} /\ Modality = {"sss", "sbp"}
      /\ hubBatches \in Seq(HubStates) /\ Len(hubBatches) = nextBatch - 1
      /\ \A m \in Modality : batch[m].id \in Nat /\ batch[m].id < nextBatch
      /\ \A i \in DOMAIN jobs : jobs[i].batch < nextBatch
  BY BakesAssumption DEF BooksInv, HubInv, BakeInv, BakeTypes, BatchRec, BakesAssumption
<1> DEFINE c == Cardinality(Opened)
           news == [i \in 1..c |-> "running"]
<1>3. c \in Nat /\ c = (IF Opens("sss") THEN 1 ELSE 0) + (IF Opens("sbp") THEN 1 ELSE 0)
  BY OpenedFinite
<1> HIDE DEF c
<1>4. news \in Seq(HubStates) /\ Len(news) = c /\ \A i \in 1..c : news[i] = "running"
  <2>1. news \in [1..c -> HubStates]
    BY DEF HubStates
  <2> QED BY <2>1, <1>3, FunctionIsSeq
<1>5. hubBatches' = hubBatches \o news /\ nextBatch' = nextBatch + c
  BY <1>1 DEF c
<1> HIDE DEF news
<1>6. /\ hubBatches' \in Seq(HubStates) /\ Len(hubBatches') = nextBatch' - 1
      /\ \A i \in 1..(nextBatch' - 1) :
           hubBatches'[i] = IF i <= nextBatch - 1 THEN hubBatches[i] ELSE news[i - (nextBatch - 1)]
  <2>1. /\ hubBatches' \in Seq(HubStates) /\ Len(hubBatches') = (nextBatch - 1) + c
        /\ \A i \in 1..(nextBatch - 1) + c :
             hubBatches'[i] = IF i <= nextBatch - 1 THEN hubBatches[i]
                                                    ELSE news[i - (nextBatch - 1)]
    BY <1>2, <1>4, <1>5, ConcatProperties
  <2>2. nextBatch' - 1 = (nextBatch - 1) + c
    BY <1>2, <1>3, <1>5
  <2> QED BY <2>1, <2>2
\* The id of a batch that opens.
<1>7. ASSUME NEW m \in Modality, Opens(m)
      PROVE  /\ batch'[m].id = IdOf(m) /\ IdOf(m) \in Nat /\ IdOf(m) >= nextBatch
             /\ IdOf(m) < nextBatch' /\ hubBatches'[IdOf(m)] = "running"
  <2>1. batch'[m].id = IdOf(m)
    <3>1. Pumped(Fresh(m)).id = Fresh(m).id
      BY <1>2, BakeAllPlaces, PumpFacts
    <3> QED BY <3>1, <1>1, <1>7 DEF Fresh, NewBatch
  <2>2. IdOf(m) \in Nat /\ IdOf(m) >= nextBatch /\ IdOf(m) < nextBatch'
    <3>1. CASE m = "sbp" /\ Opens("sss")
      BY <3>1, <1>2, <1>3, <1>5, <1>7 DEF IdOf
    <3>2. CASE ~(m = "sbp" /\ Opens("sss"))
      <4>1. IdOf(m) = nextBatch
        BY <3>2 DEF IdOf
      <4>2. m = "sss" \/ m = "sbp"
        BY <1>2
      <4> QED BY <4>1, <4>2, <1>2, <1>3, <1>5, <1>7
    <3> QED BY <3>1, <3>2
  <2>3. /\ IdOf(m) \in 1..(nextBatch' - 1) /\ ~(IdOf(m) <= nextBatch - 1)
        /\ IdOf(m) - (nextBatch - 1) \in 1..c
    BY <2>2, <1>2, <1>3, <1>5
  <2> QED BY <2>1, <2>2, <2>3, <1>4, <1>6
<1>8. ASSUME NEW m \in Modality, ~Opens(m)
      PROVE  /\ batch'[m] = batch[m] /\ batch[m].id < nextBatch'
             /\ batch[m].id # NoBatch => hubBatches'[batch[m].id] = "running"
  <2>1. batch'[m] = batch[m] /\ batch[m].id < nextBatch'
    BY <1>1, <1>2, <1>3, <1>5, <1>8
  <2>2. ASSUME batch[m].id # NoBatch PROVE hubBatches'[batch[m].id] = "running"
    <3>1. batch[m].id \in 1..(nextBatch' - 1) /\ batch[m].id <= nextBatch - 1
      BY <2>2, <1>2, <1>3, <1>5 DEF NoBatch
    <3>2. hubBatches[batch[m].id] = "running"
      BY <2>2 DEF BooksInv, HubInv
    <3> QED BY <3>1, <3>2, <1>6
  <2> QED BY <2>1, <2>2
<1>9. ASSUME NEW m \in Modality, NEW n \in Modality, batch'[m].id = batch'[n].id, m # n
      PROVE  batch'[m].id = NoBatch
  <2>1. CASE Opens(m) /\ Opens(n)
    <3>1. IdOf(m) # IdOf(n)
      BY <2>1, <1>2, <1>9 DEF IdOf
    <3> QED BY <3>1, <2>1, <1>7, <1>9
  <2>2. CASE Opens(m) /\ ~Opens(n)
    BY <2>2, <1>2, <1>7, <1>8, <1>9
  <2>3. CASE ~Opens(m) /\ Opens(n)
    BY <2>3, <1>2, <1>7, <1>8, <1>9
  <2>4. CASE ~Opens(m) /\ ~Opens(n)
    BY <2>4, <1>8, <1>9 DEF BooksInv, HubInv
  <2> QED BY <2>1, <2>2, <2>3, <2>4
<1>10. \A i \in DOMAIN jobs' : jobs'[i].batch < nextBatch'
  <2>1. \A i \in DOMAIN jobs : jobs[i].batch < nextBatch'
    <3> SUFFICES ASSUME NEW i \in DOMAIN jobs PROVE jobs[i].batch < nextBatch'
      OBVIOUS
    <3>1. jobs[i] \in Job /\ jobs[i].batch < nextBatch
      BY <1>2 DEF BakeInv, BakeTypes
    <3>2. jobs[i].batch \in Nat
      BY <3>1 DEF Job
    <3> QED BY <3>1, <3>2, <1>2, <1>3, <1>5
  <2>2. \A k \in DOMAIN AllBegun : AllBegun[k][2] < nextBatch'
    <3> SUFFICES ASSUME NEW k \in DOMAIN AllBegun PROVE AllBegun[k][2] < nextBatch'
      OBVIOUS
    <3>1. PICK m \in Modality : Opens(m) /\ AllBegun[k][2] = IdOf(m)
      BY <1>2, BegunItem
    <3> QED BY <3>1, <1>7
  <2> QED BY <2>1, <2>2, <1>1, <1>2, BakeAllMayBegin, BegunNumbers
<1>11. \A m \in Modality : /\ batch'[m].id < nextBatch'
                           /\ batch'[m].id # NoBatch => hubBatches'[batch'[m].id] = "running"
  BY <1>7, <1>8
<1> QED BY <1>6, <1>9, <1>10, <1>11 DEF HubInv

\* A bake of all customised layers: what a new batch has begun is what it counts, and
\* an open batch counts nothing new.
LEMMA BakeAllBooks ==
  ASSUME BooksInv, BakeInv', BakeAll
  PROVE  BooksInv'
<1>1. /\ batch' = [m \in Modality |-> IF Opens(m) THEN Pumped(Fresh(m)) ELSE batch[m]]
      /\ Begin(jobs, jobIds, jobGenerations, AllBegun, session)
      /\ UNCHANGED generation
  BY BakeAllDoes
<1>2. BakeInv /\ MayBegin(jobs, jobIds, jobGenerations, AllBegun)
  BY BakeAllMayBegin DEF BooksInv
<1>3. ASSUME NEW m \in Modality, ~Opens(m)
      PROVE  Books(m, batch'[m], jobs', jobGenerations', generation)
  <2>1. /\ batch[m].id \in Nat /\ batch[m].dispatched \in Int
        /\ Books(m, batch[m], jobs, jobGenerations, generation)
    BY DEF BooksInv, BakeInv, BakeTypes, BatchRec
  <2>2. \A k \in DOMAIN AllBegun : ModalityOf[AllBegun[k][1].layer] # m
    <3> SUFFICES ASSUME NEW k \in DOMAIN AllBegun PROVE ModalityOf[AllBegun[k][1].layer] # m
      OBVIOUS
    <3>1. PICK n \in Modality : Opens(n) /\ ModalityOf[AllBegun[k][1].layer] = n
      BY <1>2, BegunItem
    <3> QED BY <3>1, <1>3
  <2>3. Books(m, batch[m], jobs', jobGenerations', generation)
    BY <2>1, <2>2, <1>1, <1>2, BegunOthers
  <2> QED BY <2>3, <1>1, <1>3
<1>4. ASSUME NEW m \in Modality, Opens(m)
      PROVE  Books(m, batch'[m], jobs', jobGenerations', generation)
  <2> DEFINE b == Fresh(m)
             c == Pumped(b)
  <2>1. /\ b \in BatchRec /\ QueueFits(b) /\ b.queue = Wanted(m) /\ QueueFree(m, b, jobIds)
        /\ Len(Begins(m)) = Slots(b) /\ Place(m) \in Nat
        /\ Place(m) + Slots(b) <= Len(AllBegun)
        /\ \A k \in 1..Slots(b) : AllBegun[Place(m) + k] = Pump(b)[k]
        /\ Len(AllBegun) \in Nat /\ DOMAIN AllBegun = 1..Len(AllBegun)
        /\ IdOf(m) \in Nat
    BY <1>2, <1>4, BakeAllPlaces DEF Begins
  <2>2. /\ b.id = IdOf(m) /\ b.dispatched = 0 /\ b.succeeded = 0 /\ b.total = Len(Wanted(m))
        /\ b.pending = Len(Wanted(m)) /\ b.layers = Queued(b)
    BY DEF Fresh, NewBatch, Queued
  <2>3. b.id \in Nat \ {0} /\ Mine(jobs, m, b.id) = {}
    <3>1. nextBatch \in Nat \ {0} /\ \A i \in DOMAIN jobs : jobs[i].batch < nextBatch
      BY DEF BooksInv, HubInv, BakeInv, BakeTypes
    <3>2. b.id = nextBatch \/ b.id = nextBatch + 1
      BY <2>2 DEF IdOf
    <3>3. b.id \in Nat \ {0}
      BY <3>1, <3>2
    <3>4. ASSUME NEW i \in DOMAIN jobs, jobs[i].batch = b.id PROVE FALSE
      BY <3>1, <3>2, <3>4
    <3> QED BY <3>3, <3>4 DEF Mine
  <2>4. Wanted(m) \in Seq(Item) /\ Len(Wanted(m)) \in Nat /\ Len(Wanted(m)) > 0
    <3>1. Wanted(m) \in Seq(Item) /\ Wanted(m) # <<>>
      BY <1>2, <1>4, BakeAllPlaces DEF Opens, WantedFits
    <3> QED BY <3>1, EmptySeq, LenProperties
  <2>5. Counts(m, b, jobs, jobGenerations, generation)
    <3>1. LayersOf(jobs, {}) = {}
      BY DEF LayersOf
    <3> HIDE DEF b
    <3>2. b.succeeded <= b.total - b.pending
      BY <2>2, <2>4
    <3> QED BY <3>1, <3>2, <2>2, <2>3, FS_EmptySet DEF Counts
  <2>6. Moved(m, b, c, AllBegun, Place(m), Slots(b))
    <3>1. \A k \in DOMAIN b.queue : ModalityOf[b.queue[k].layer] = m
      BY <2>1 DEF QueueFree
    <3>2. ASSUME NEW k \in DOMAIN AllBegun, ModalityOf[AllBegun[k][1].layer] = m
          PROVE  k \in (Place(m) + 1)..(Place(m) + Slots(b))
      <4>1. PICK n \in Modality : \E j \in 1..Len(Begins(n)) :
              /\ j \in 1..Slots(Fresh(n)) /\ k = Place(n) + j
              /\ ModalityOf[AllBegun[k][1].layer] = n
        BY <1>2, BegunItem
      <4>2. n = m
        BY <4>1, <3>2
      <4>3. PICK j \in 1..Slots(b) : k = Place(m) + j
        BY <4>1, <4>2
      <4>4. Slots(b) \in Nat
        BY <2>1, PumpFacts
      <4> QED BY <4>3, <4>4, <2>1
    <3> HIDE DEF b
    <3> QED BY <3>1, <3>2, <2>1, PumpMoves
  <2>7. c.id = b.id /\ c.pending = b.pending
    BY <2>6 DEF Moved
  <2> HIDE DEF c, b
  <2>8. b.dispatched \in Int /\ Slots(b) \in Nat
    BY <2>1, <2>2, PumpFacts
  <2>9. Counts(m, c, jobs', jobGenerations', generation)
    BY <2>1, <2>3, <2>5, <2>6, <2>8, <1>1, <1>2, BegunCounts
  <2>10. c.id # NoBatch /\ c.pending > 0
    BY <2>2, <2>3, <2>4, <2>7 DEF NoBatch
  <2>11. Books(m, c, jobs', jobGenerations', generation)
    BY <2>9, <2>10 DEF Books
  <2> QED BY <2>11, <1>1, <1>4 DEF b, c
<1>5. HubInv'
  BY BakeAllHub
<1> QED BY <1>1, <1>3, <1>4, <1>5 DEF BooksInv

LEMMA BooksInvStep == BooksInv /\ [Next]_vars => BooksInv'
<1> SUFFICES ASSUME BooksInv, [Next]_vars PROVE BooksInv'
  OBVIOUS
<1>0. BakeInv'
  BY BakeInvStep DEF BooksInv
<1>1. ASSUME NEW l \in Layer, ApplyOne(l) \/ RunOne(l) \/ Revert(l) PROVE BooksInv'
  BY <1>0, <1>1, ApplyBooks, BooksInvStutter DEF RunOne, Revert
<1>2. CASE BakeAll
  BY <1>0, <1>2, BakeAllBooks
<1>3. CASE RunProject \/ EditGraph
  BY <1>0, <1>3, BooksInvStutter DEF RunProject, EditGraph
<1>4. CASE CloseProject \/ OpenProject
  BY <1>0, <1>4, CancelBooks DEF CloseProject, OpenProject
<1>5. ASSUME NEW i \in DOMAIN jobs, Bake(i) PROVE BooksInv'
  BY <1>0, <1>5, ReturnsBooks, DiscardBooks, AcceptBooks DEF Bake, BakeSignal
<1>6. ASSUME NEW k \in DOMAIN runs, Run(k) PROVE BooksInv'
  BY <1>0, <1>6, BooksInvStutter DEF Run, RunExecutes, RunDelivers
<1>7. CASE UNCHANGED vars
  BY <1>0, <1>7, BooksInvStutter DEF vars
<1> QED BY <1>1, <1>2, <1>3, <1>4, <1>5, <1>6, <1>7 DEF Next, Operator, Resting

\* A batch's counters are what they count: no call of an earlier generation or of
\* another batch is in them, its cap holds, and it is open as long as something is
\* pending and no longer.
THEOREM BatchBooksExact == Spec => []BatchBooks
<1>1. BooksInv => BatchBooks
  <2> SUFFICES ASSUME BooksInv, NEW m \in Modality
               PROVE  LET books == batch[m]
                          mine == {i \in DOMAIN jobs :
                                     /\ jobs[i].task # "settled" /\ jobs[i].batch = books.id
                                     /\ ModalityOf[jobs[i].layer] = m /\ books.id # NoBatch} IN
                      /\ books.dispatched = Cardinality(mine) /\ books.dispatched <= MaxConcurrent
                      /\ books.pending = Len(books.queue) + books.dispatched
                      /\ books.layers = {books.queue[i].layer : i \in DOMAIN books.queue}
                                          \cup {jobs[i].layer : i \in mine}
                      /\ books.succeeded <= books.total - books.pending
                      /\ books.id # NoBatch => hubBatches[books.id] = "running" /\ books.pending > 0
    BY DEF BatchBooks
  <2>1. Books(m, batch[m], jobs, jobGenerations, generation) /\ QueueFits(batch[m])
    BY DEF BooksInv, BakeInv
  <2>2. batch[m].id # NoBatch => hubBatches[batch[m].id] = "running"
    BY DEF BooksInv, HubInv
  <2> QED BY <2>1, <2>2 DEF Books, Counts, Mine, Queued, LayersOf, QueueFits
<1> QED BY <1>1, BooksInvInit, BooksInvStep, PTL DEF Spec

-----------------------------------------------------------------------------
(* What a layer remembers of its store, and what is under way between the  *)
(* store and the layer.                                                    *)

\* What is written to the store of l and not yet handled, by a bake or by a graph
\* run, and bakes of l under way that an earlier opening of the project began.
Awaited(l) == {i \in DOMAIN jobs : /\ jobs[i].layer = l /\ jobs[i].task = "returned"
                                   /\ jobs[i].outcome = "persisted" /\ Current(l)}
Drawn(l) == UNION {{r \in Persisted(k) : r.layer = l} : k \in {j \in DOMAIN runs : Under(j)}}
Stray(l) == {i \in DOMAIN jobs : jobs[i].layer = l /\ jobs[i].task = "running" /\ ~Current(l)}

LayerTrue(l) ==
  /\ \A i \in Awaited(l) : stores[SideOf(l)].made = <<"bake", i>>
  /\ \A r \in Drawn(l) : stores[SideOf(l)].made = <<"graph", r.graph>>
  /\ open /\ Awaited(l) = {} /\ Drawn(l) = {} => stores[layers[l].artifact].made = layers[l].index
  /\ open => Stray(l) = {}

\* A run executes requests of different layers, in order.
RunOrder ==
  \A k \in DOMAIN runs :
    /\ Len(runs[k].requests) \in Nat /\ DOMAIN runs[k].requests = 1..Len(runs[k].requests)
    /\ runs[k].executed \in 0..Len(runs[k].requests)
    /\ \A i, j \in DOMAIN runs[k].requests :
         runs[k].requests[i].layer = runs[k].requests[j].layer => i = j
    /\ \A i \in DOMAIN runs[k].requests :
         i > runs[k].executed => runs[k].requests[i].outcome = "none"

TrueInv ==
  /\ BakeInv /\ StoreInv /\ RunInv /\ RunOrder
  /\ \A l \in Layer : l \in crossed \/ LayerTrue(l)

\* Nothing of layer l moves.
Still(l) ==
  /\ Awaited(l)' = Awaited(l) /\ Drawn(l)' = Drawn(l) /\ Stray(l)' \subseteq Stray(l)
  /\ layers'[l] = layers[l] /\ open' = open
  /\ stores'[SideOf(l)] = stores[SideOf(l)] /\ stores'[RawOf(l)] = stores[RawOf(l)]

LEMMA StillTrue ==
  ASSUME BakeInv, NEW l \in Layer, LayerTrue(l), Still(l)
  PROVE  LayerTrue(l)'
<1>1. layers[l].artifact \in {RawOf(l), SideOf(l)}
  BY DEF BakeInv, LayerTypes, Own
<1>2. stores'[layers'[l].artifact].made = stores[layers[l].artifact].made
  BY <1>1 DEF Still
<1>3. SideOf(l)' = SideOf(l)
  BY DEF SideOf
<1> QED BY <1>2, <1>3 DEF Still, LayerTrue

LEMMA TrueInvInit == Init => TrueInv
<1> SUFFICES ASSUME Init PROVE TrueInv
  OBVIOUS
<1>1. RunOrder
  BY DEF Init, ServiceInit, RunOrder
<1>2. ASSUME NEW l \in Layer PROVE LayerTrue(l)
  <2>1. Awaited(l) = {} /\ Stray(l) = {}
    BY DEF Init, BatchInit, Awaited, Stray
  <2>2. Drawn(l) = {}
    BY DEF Init, ServiceInit, Drawn
  <2>3. stores[layers[l].artifact].made = layers[l].index
    BY DEF Init, Path, Baseline, RawOf
  <2> QED BY <2>1, <2>2, <2>3 DEF LayerTrue
<1> QED BY <1>1, <1>2, BakeInvInit, StoreInvInit, RunInvInit DEF TrueInv

\* Run k of rs draws request r for layer l.
DrawnBy(rs, k, l, r) ==
  /\ rs[k].phase = "running" /\ r.outcome = "persisted" /\ r.layer = l
  /\ \E i \in DOMAIN rs[k].requests : r = rs[k].requests[i]

LEMMA InDrawn ==
  ASSUME NEW l
  PROVE  /\ \A r : r \in Drawn(l) <=> \E k \in DOMAIN runs : DrawnBy(runs, k, l, r)
         /\ \A r : r \in Drawn(l)' <=> \E k \in DOMAIN runs' : DrawnBy(runs', k, l, r)
BY DEF Drawn, DrawnBy, Persisted, Under

\* Runs: what each step makes of their requests.
LEMMA StartOrder ==
  ASSUME RunInv, RunOrder, NEW requests, Start(requests),
         Len(requests) \in Nat, DOMAIN requests = 1..Len(requests),
         \A i \in DOMAIN requests : requests[i].outcome = "none",
         \A i, j \in DOMAIN requests : requests[i].layer = requests[j].layer => i = j
  PROVE  RunOrder' /\ \A l \in Layer : Drawn(l)' = Drawn(l)
<1>1. /\ DOMAIN runs' = DOMAIN runs \cup {nextRun} /\ nextRun \notin DOMAIN runs
      /\ \A k \in DOMAIN runs : runs'[k] = runs[k]
      /\ runs'[nextRun] = [requests |-> requests, executed |-> 0, phase |-> "running"]
  BY DEF Start, RunInv, RunShape
<1>2. runs'[nextRun].requests = requests /\ runs'[nextRun].executed = 0
  BY <1>1
<1>3. RunOrder'
  <2> SUFFICES ASSUME NEW k \in DOMAIN runs'
               PROVE  /\ Len(runs'[k].requests) \in Nat
                      /\ DOMAIN runs'[k].requests = 1..Len(runs'[k].requests)
                      /\ runs'[k].executed \in 0..Len(runs'[k].requests)
                      /\ \A i, j \in DOMAIN runs'[k].requests :
                           runs'[k].requests[i].layer = runs'[k].requests[j].layer => i = j
                      /\ \A i \in DOMAIN runs'[k].requests :
                           i > runs'[k].executed => runs'[k].requests[i].outcome = "none"
    BY DEF RunOrder
  <2>1. CASE k = nextRun
    BY <2>1, <1>2
  <2>2. CASE k # nextRun
    BY <2>2, <1>1 DEF RunOrder
  <2> QED BY <2>1, <2>2
<1>4. ASSUME NEW l \in Layer PROVE Drawn(l)' = Drawn(l)
  <2>1. \A r : ~DrawnBy(runs', nextRun, l, r)
    BY <1>2 DEF DrawnBy
  <2>2. \A r : \A k \in DOMAIN runs : DrawnBy(runs', k, l, r) <=> DrawnBy(runs, k, l, r)
    BY <1>1 DEF DrawnBy
  <2>3. \A r : r \in Drawn(l)' <=> \E k \in DOMAIN runs' : DrawnBy(runs', k, l, r)
    BY InDrawn
  <2>4. \A r : r \in Drawn(l) <=> \E k \in DOMAIN runs : DrawnBy(runs, k, l, r)
    BY InDrawn
  <2> QED BY <2>1, <2>2, <2>3, <2>4, <1>1
<1> QED BY <1>3, <1>4

\* One request executed: the run's other requests stay, and what is drawn for the
\* layer of this one is its own request or nothing.
LEMMA ExecuteOrder ==
  ASSUME RunInv, RunOrder, NEW k \in DOMAIN runs, NEW outcome, Execute(k, outcome),
         NEW l, l = NextOf(k).layer
  PROVE  /\ RunOrder'
         /\ l \in Layer /\ NextOf(k).input = RawOf(l) /\ k \in Runs(l)
         /\ Drawn(l) = {}
         /\ outcome # "persisted" => Drawn(l)' = {}
         /\ outcome = "persisted" => Drawn(l)' # {}
         /\ \A r \in Drawn(l)' : r.graph = NextOf(k).graph
         /\ \A x \in Layer : x # l => Drawn(x)' = Drawn(x)
<1> DEFINE reqs == runs[k].requests
           n == runs[k].executed + 1
           done == [reqs[n] EXCEPT !.outcome = outcome]
<1>1. /\ n \in DOMAIN reqs /\ DOMAIN reqs = 1..Len(reqs) /\ Len(reqs) \in Nat
      /\ runs[k].executed \in 0..Len(reqs) /\ Under(k)
  BY DEF Execute, RunOrder, Ended
<1>2. /\ RequestShape(reqs[n]) /\ reqs[n].outcome = "none" /\ NextOf(k) = reqs[n]
  BY <1>1 DEF RunInv, RunShape, RunOrder, NextOf
<1>3. /\ done.layer = reqs[n].layer /\ done.graph = reqs[n].graph /\ done.outcome = outcome
  BY <1>2 DEF RequestShape
<1>4. /\ DOMAIN runs' = DOMAIN runs
      /\ \A j \in DOMAIN runs : j # k => runs'[j] = runs[j]
      /\ runs'[k].phase = runs[k].phase /\ runs'[k].executed = n
      /\ DOMAIN runs'[k].requests = DOMAIN reqs /\ Len(runs'[k].requests) = Len(reqs)
      /\ \A i \in DOMAIN reqs : runs'[k].requests[i] = IF i = n THEN done ELSE reqs[i]
  BY DEF Execute, RunInv, RunShape
<1> HIDE DEF done, n, reqs
<1>5. RunOrder'
  <2> SUFFICES ASSUME NEW j \in DOMAIN runs'
               PROVE  /\ Len(runs'[j].requests) \in Nat
                      /\ DOMAIN runs'[j].requests = 1..Len(runs'[j].requests)
                      /\ runs'[j].executed \in 0..Len(runs'[j].requests)
                      /\ \A h, i \in DOMAIN runs'[j].requests :
                           runs'[j].requests[h].layer = runs'[j].requests[i].layer => h = i
                      /\ \A i \in DOMAIN runs'[j].requests :
                           i > runs'[j].executed => runs'[j].requests[i].outcome = "none"
    BY DEF RunOrder
  <2>1. CASE j = k
    <3>1. n \in 0..Len(reqs)
      BY <1>1
    <3>2. \A h, i \in DOMAIN reqs :
            runs'[k].requests[h].layer = runs'[k].requests[i].layer => h = i
      BY <1>3, <1>4 DEF RunOrder, reqs
    <3>3. \A i \in DOMAIN reqs : i > n => runs'[k].requests[i].outcome = "none"
      BY <1>1, <1>4 DEF RunOrder, reqs, n
    <3> QED BY <2>1, <3>1, <3>2, <3>3, <1>1, <1>4
  <2>2. CASE j # k
    BY <2>2, <1>4 DEF RunOrder
  <2> QED BY <2>1, <2>2
<1>6. ASSUME NEW x \in Layer, x # l PROVE Drawn(x)' = Drawn(x)
  <2>1. \A r : DrawnBy(runs', k, x, r) <=> DrawnBy(runs, k, x, r)
    BY <1>2, <1>3, <1>4, <1>6 DEF DrawnBy, reqs
  <2>2. \A r : \A j \in DOMAIN runs : j # k => (DrawnBy(runs', j, x, r) <=> DrawnBy(runs, j, x, r))
    BY <1>4 DEF DrawnBy
  <2>3. \A r : r \in Drawn(x)' <=> r \in Drawn(x)
    <3>1. \A r : r \in Drawn(x)' <=> \E j \in DOMAIN runs' : DrawnBy(runs', j, x, r)
      BY InDrawn
    <3>2. \A r : r \in Drawn(x) <=> \E j \in DOMAIN runs : DrawnBy(runs, j, x, r)
      BY InDrawn
    <3> QED BY <3>1, <3>2, <2>1, <2>2, <1>4
  <2> QED BY <2>3
<1>7. l \in Layer /\ NextOf(k).input = RawOf(l)
  BY <1>2 DEF RequestShape
\* No other run under way has a request of the layer, and no other request of this one.
<1>8. ASSUME NEW j \in DOMAIN runs, runs[j].phase = "running",
             NEW i \in DOMAIN runs[j].requests, runs[j].requests[i].layer = l
      PROVE  j = k /\ i = n
  <2>1. RawOf(l) \in Paths(runs[j].requests)
    BY <1>8 DEF RunInv, RunShape, RequestShape, Paths
  <2>2. RawOf(l) \in Paths(runs[k].requests)
    BY <1>1, <1>2, <1>7 DEF Paths, reqs
  <2>3. j = k
    BY <2>1, <2>2, <1>1, <1>8 DEF RunInv, RunsApart, Under
  <2> QED BY <2>3, <1>1, <1>2, <1>8 DEF RunOrder, reqs
<1>9. Drawn(l) = {}
  <2>1. \A r : \A j \in DOMAIN runs : ~DrawnBy(runs, j, l, r)
    BY <1>2, <1>8 DEF DrawnBy, reqs
  <2> QED BY <2>1, InDrawn
<1>10. \A r : \A j \in DOMAIN runs' : DrawnBy(runs', j, l, r) => r = done
  <2> SUFFICES ASSUME NEW r, NEW j \in DOMAIN runs', DrawnBy(runs', j, l, r) PROVE r = done
    OBVIOUS
  <2>1. CASE j = k
    <3>1. PICK i \in DOMAIN runs'[k].requests : r = runs'[k].requests[i] /\ r.layer = l
      BY <2>1 DEF DrawnBy
    <3>2. i \in DOMAIN reqs /\ reqs[i].layer = l
      BY <3>1, <1>2, <1>3, <1>4
    <3>3. i = n
      BY <3>2, <1>1, <1>8 DEF reqs, Under
    <3> QED BY <3>1, <3>2, <3>3, <1>4
  <2>2. CASE j # k
    <3>1. runs'[j] = runs[j] /\ j \in DOMAIN runs
      BY <2>2, <1>4
    <3>2. PICK i \in DOMAIN runs[j].requests : runs[j].requests[i].layer = l
      BY <3>1 DEF DrawnBy
    <3> QED BY <2>2, <3>1, <3>2, <1>8 DEF DrawnBy
  <2> QED BY <2>1, <2>2
<1>11. \A r \in Drawn(l)' : r = done /\ outcome = "persisted"
  <2>1. \A r \in Drawn(l)' : \E j \in DOMAIN runs' : DrawnBy(runs', j, l, r)
    BY InDrawn
  <2>2. \A r \in Drawn(l)' : r = done
    BY <2>1, <1>10
  <2> QED BY <2>1, <2>2, <1>3 DEF DrawnBy
<1>12. outcome = "persisted" => done \in Drawn(l)'
  <2>1. outcome = "persisted" => DrawnBy(runs', k, l, done)
    BY <1>1, <1>2, <1>3, <1>4 DEF DrawnBy, Under
  <2> QED BY <2>1, <1>4, InDrawn
<1>13. k \in Runs(l)
  BY <1>1, <1>2 DEF Runs, Under, reqs
<1> QED BY <1>2, <1>3, <1>5, <1>6, <1>7, <1>9, <1>11, <1>12, <1>13

\* A run delivered: nothing more is drawn for the layers whose results it persisted.
LEMMA DeliverOrder ==
  ASSUME RunInv, RunOrder, NEW k \in DOMAIN runs, Deliver(k)
  PROVE  /\ RunOrder'
         /\ \A l \in Layer :
              IF \E r \in Persisted(k) : r.layer = l
              THEN /\ Drawn(l)' = {}
                   /\ (CHOOSE r \in Persisted(k) : r.layer = l) \in Drawn(l)
              ELSE Drawn(l)' = Drawn(l)
<1>1. /\ DOMAIN runs' = DOMAIN runs /\ Under(k)
      /\ \A j \in DOMAIN runs : j # k => runs'[j] = runs[j]
      /\ runs'[k].phase = "delivered" /\ runs'[k].requests = runs[k].requests
      /\ runs'[k].executed = runs[k].executed
  BY DEF Deliver, RunInv, RunShape
<1>2. RunOrder'
  <2> SUFFICES ASSUME NEW j \in DOMAIN runs'
               PROVE  runs'[j].requests = runs[j].requests /\ runs'[j].executed = runs[j].executed
    BY <1>1 DEF RunOrder
  <2> QED BY <1>1
<1>3. ASSUME NEW l \in Layer, NEW r \in Persisted(k), r.layer = l
      PROVE  /\ Drawn(l)' = {}
             /\ (CHOOSE q \in Persisted(k) : q.layer = l) \in Drawn(l)
  <2>1. PICK i \in DOMAIN runs[k].requests : r = runs[k].requests[i]
    BY <1>3 DEF Persisted
  <2>2. RawOf(l) \in Paths(runs[k].requests)
    BY <1>3, <2>1 DEF RunInv, RunShape, RequestShape, Paths
  <2>3. ASSUME NEW q, NEW j \in DOMAIN runs', DrawnBy(runs', j, l, q) PROVE FALSE
    <3>1. j # k /\ runs'[j] = runs[j] /\ runs[j].phase = "running"
      BY <2>3, <1>1 DEF DrawnBy
    <3>2. PICK h \in DOMAIN runs[j].requests : runs[j].requests[h].layer = l
      BY <2>3, <3>1 DEF DrawnBy
    <3>3. RawOf(l) \in Paths(runs[j].requests)
      BY <3>2, <1>1 DEF RunInv, RunShape, RequestShape, Paths
    <3> QED BY <3>1, <3>3, <2>2, <1>1 DEF RunInv, RunsApart, Under
  <2>4. Drawn(l)' = {}
    BY <2>3, InDrawn
  <2>5. (CHOOSE q \in Persisted(k) : q.layer = l) \in Drawn(l)
    BY <1>1, <1>3 DEF Drawn
  <2> QED BY <2>4, <2>5
<1>4. ASSUME NEW l \in Layer, \A r \in Persisted(k) : r.layer # l
      PROVE  Drawn(l)' = Drawn(l)
  <2>1. \A r : ~DrawnBy(runs', k, l, r) /\ ~DrawnBy(runs, k, l, r)
    BY <1>1, <1>4 DEF DrawnBy, Persisted
  <2>2. \A r : \A j \in DOMAIN runs : j # k => (DrawnBy(runs', j, l, r) <=> DrawnBy(runs, j, l, r))
    BY <1>1 DEF DrawnBy
  <2>3. \A r : r \in Drawn(l)' <=> \E j \in DOMAIN runs' : DrawnBy(runs', j, l, r)
    BY InDrawn
  <2>4. \A r : r \in Drawn(l) <=> \E j \in DOMAIN runs : DrawnBy(runs, j, l, r)
    BY InDrawn
  <2> QED BY <2>1, <2>2, <2>3, <2>4, <1>1
<1> QED BY <1>2, <1>3, <1>4

\* Bakes: what each step makes of the calls of a layer.
AwaitedOf(js, gens, gen, l) ==
  {i \in DOMAIN js : /\ js[i].layer = l /\ js[i].task = "returned"
                     /\ js[i].outcome = "persisted" /\ gens[l] = gen}
StrayOf(js, gens, gen, l) ==
  {i \in DOMAIN js : js[i].layer = l /\ js[i].task = "running" /\ gens[l] # gen}

LEMMA CallsOf ==
  ASSUME NEW l
  PROVE  /\ Awaited(l) = AwaitedOf(jobs, jobGenerations, generation, l)
         /\ Stray(l) = StrayOf(jobs, jobGenerations, generation, l)
         /\ Awaited(l)' = AwaitedOf(jobs', jobGenerations', generation', l)
         /\ Stray(l)' = StrayOf(jobs', jobGenerations', generation', l)
BY DEF Awaited, Stray, AwaitedOf, StrayOf, Current

\* Calls begun are neither awaited nor stray.
LEMMA BegunStill ==
  ASSUME NEW js, NEW ids, NEW gens, NEW started, NEW l \in Layer,
         MayBegin(js, ids, gens, started), Begin(js, ids, gens, started, session)
  PROVE  /\ AwaitedOf(jobs', jobGenerations', generation, l) = AwaitedOf(js, gens, generation, l)
         /\ StrayOf(jobs', jobGenerations', generation, l) \subseteq StrayOf(js, gens, generation, l)
<1>0. nextJob \in Nat \ {0}
  BY DEF MayBegin
<1>1. /\ Len(started) \in Nat /\ DOMAIN started = 1..Len(started)
      /\ DOMAIN js = 1..(nextJob - 1) /\ DOMAIN jobs' = 1..(nextJob - 1 + Len(started))
      /\ \A i \in DOMAIN js : i \in DOMAIN jobs' /\ jobs'[i] = js[i]
      /\ \A k \in DOMAIN started :
           /\ jobs'[nextJob - 1 + k].layer = started[k][1].layer
           /\ jobs'[nextJob - 1 + k].task = "running"
           /\ jobGenerations'[started[k][1].layer] = generation
      /\ (\A k \in DOMAIN started : started[k][1].layer # l) => jobGenerations'[l] = gens[l]
  BY BeginExact
<1>2. \A i \in DOMAIN jobs' : i \in DOMAIN js \/ \E k \in DOMAIN started : i = nextJob - 1 + k
  <2> SUFFICES ASSUME NEW i \in DOMAIN jobs', i \notin DOMAIN js
               PROVE  \E k \in DOMAIN started : i = nextJob - 1 + k
    OBVIOUS
  <2> DEFINE n == Len(started)
  <2> HIDE DEF n
  <2>1. n \in Nat /\ i \in 1..(nextJob - 1 + n) /\ i \notin 1..(nextJob - 1) /\ nextJob \in Nat \ {0}
    BY <1>0, <1>1 DEF n
  <2>2. i - nextJob + 1 \in 1..n /\ i = nextJob - 1 + (i - nextJob + 1)
    BY <2>1
  <2> QED BY <2>2, <1>1 DEF n
<1>3. CASE \A k \in DOMAIN started : started[k][1].layer # l
  <2>1. \A i \in DOMAIN jobs' : jobs'[i].layer = l => i \in DOMAIN js
    BY <1>1, <1>2, <1>3
  <2>2. jobGenerations'[l] = gens[l]
    BY <1>1, <1>3
  <2> QED BY <1>1, <2>1, <2>2 DEF AwaitedOf, StrayOf
<1>4. ASSUME NEW k \in DOMAIN started, started[k][1].layer = l
      PROVE  /\ AwaitedOf(jobs', jobGenerations', generation, l) = {}
             /\ AwaitedOf(js, gens, generation, l) = {}
             /\ StrayOf(jobs', jobGenerations', generation, l) = {}
  <2>1. jobGenerations'[l] = generation
    BY <1>1, <1>4
  <2>2. \A i \in DOMAIN js : js[i].layer = l => js[i].task = "settled"
    BY <1>4 DEF MayBegin, Linked
  <2>3. \A i \in DOMAIN jobs' : jobs'[i].layer = l => jobs'[i].task # "returned"
    BY <2>2, <1>1, <1>2
  <2> QED BY <2>1, <2>2, <2>3 DEF AwaitedOf, StrayOf
<1> QED BY <1>3, <1>4

\* What a step of calls only leaves true.
LEMMA CallsLeave ==
  ASSUME TrueInv, UNCHANGED <<serviceVars, layers, open, stores, crossed>>,
         \A l \in Layer : Awaited(l)' = Awaited(l) /\ Stray(l)' \subseteq Stray(l)
  PROVE  \A l \in Layer : l \in crossed' \/ LayerTrue(l)'
<1> SUFFICES ASSUME NEW l \in Layer, l \notin crossed PROVE LayerTrue(l)'
  OBVIOUS
<1>1. Drawn(l)' = Drawn(l)
  BY DEF Drawn, Persisted, Under, serviceVars
<1>2. Still(l)
  BY <1>1 DEF Still
<1> QED BY <1>2, StillTrue DEF TrueInv

\* applySSS, applySBP and bakeCustomized.
LEMMA AskedTrue ==
  ASSUME TrueInv, (\E l \in Layer : ApplyOne(l)) \/ BakeAll
  PROVE  \A l \in Layer : l \in crossed' \/ LayerTrue(l)'
<1>1. UNCHANGED <<serviceVars, layers, open, stores, crossed, generation>>
  BY DEF ApplyOne, Apply, BakeAll, BakeCustomized, layerVars, fileVars
<1>2. \E started : /\ MayBegin(jobs, jobIds, jobGenerations, started)
                   /\ Begin(jobs, jobIds, jobGenerations, started, session)
  <2>1. CASE BakeAll
    BY <2>1, BakeAllDoes, BakeAllMayBegin DEF TrueInv
  <2>2. ASSUME NEW l \in Layer, ApplyOne(l)
        PROVE  \E started : /\ MayBegin(jobs, jobIds, jobGenerations, started)
                            /\ Begin(jobs, jobIds, jobGenerations, started, session)
    <3> DEFINE started == << <<ItemOf(l), NoBatch>> >>
    <3>1. Begin(jobs, jobIds, jobGenerations, started, session) /\ jobIds[l] = 0
      BY <2>2, ItemTypes DEF ApplyOne, Apply, BeginJobs, Free, NoJob, TrueInv, BakeInv
    <3>2. started \in Seq(Item \X Nat) /\ DOMAIN started = {1} /\ started[1][1].layer = l
      BY ItemTypes DEF NoBatch, TrueInv, BakeInv
    <3>3. MayBegin(jobs, jobIds, jobGenerations, started)
      BY <3>1, <3>2 DEF TrueInv, BakeInv, BakeTypes, MayBegin
    <3> QED BY <3>1, <3>3
  <2> QED BY <2>1, <2>2
<1>3. PICK started : /\ MayBegin(jobs, jobIds, jobGenerations, started)
                     /\ Begin(jobs, jobIds, jobGenerations, started, session)
  BY <1>2
<1>4. ASSUME NEW l \in Layer PROVE Awaited(l)' = Awaited(l) /\ Stray(l)' \subseteq Stray(l)
  BY <1>1, <1>3, BegunStill, CallsOf
<1> QED BY <1>1, <1>4, CallsLeave

\* The call's signal: the layer is told what the store holds.
LEMMA SignalTrue ==
  ASSUME TrueInv, NEW i \in DOMAIN jobs, BakeSignal(i)
  PROVE  \A l \in Layer : l \in crossed' \/ LayerTrue(l)'
<1> DEFINE l == jobs[i].layer
<1>1. /\ UNCHANGED <<serviceVars, stores, crossed, open>> /\ jobs[i].task = "returned"
  BY DEF BakeSignal, fileVars
<1>2. /\ l \in Layer /\ jobs[i] \in Job /\ jobIds[l] = i /\ i # 0 /\ jobGenerations[l] # 0
      /\ \A k \in DOMAIN jobs : jobs[k].task # "settled" /\ jobs[k].layer = l => k = i
  BY <1>1, CallKnown DEF TrueInv
<1>3. /\ generation \in Nat \ {0} /\ DOMAIN jobs = 1..(nextJob - 1) /\ DOMAIN layers = Layer
      /\ jobGenerations \in [Layer -> Nat]
  BY DEF TrueInv, BakeInv, BakeTypes, LayerTypes
<1>4. \A x \in Layer : Drawn(x)' = Drawn(x)
  BY <1>1 DEF Drawn, Persisted, Under, serviceVars
\* Nothing of the layer is under way, of the others nothing changes.
<1>5. /\ Awaited(l) # {} => Awaited(l) = {i} /\ jobs[i].outcome = "persisted" /\ Current(l)
      /\ jobs[i].outcome = "persisted" /\ Current(l) => i \in Awaited(l)
  BY <1>1, <1>2 DEF Awaited
<1>6. ASSUME NEW js, DOMAIN js = DOMAIN jobs, js[i].task = "settled",
             \A k \in DOMAIN jobs : k # i => js[k] = jobs[k],
             NEW gens, gens = [jobGenerations EXCEPT ![l] = 0], NEW x \in Layer
      PROVE  IF x = l
             THEN /\ AwaitedOf(js, gens, generation, x) = {}
                  /\ StrayOf(js, gens, generation, x) = {}
             ELSE /\ AwaitedOf(js, gens, generation, x) = Awaited(x)
                  /\ StrayOf(js, gens, generation, x) = Stray(x)
  <2>1. CASE x = l
    <3>1. gens[l] = 0
      BY <1>2, <1>3, <1>6
    <3> QED BY <2>1, <3>1, <1>2, <1>3, <1>6 DEF AwaitedOf, StrayOf
  <2>2. CASE x # l
    <3>1. gens[x] = jobGenerations[x]
      BY <1>3, <1>6, <2>2
    <3> QED BY <2>2, <3>1, <1>6 DEF AwaitedOf, StrayOf, Awaited, Stray, Current
  <2> QED BY <2>1, <2>2
<1>7. /\ generation' = generation
      /\ \A x \in Layer : IF x = l THEN Awaited(x)' = {} /\ Stray(x)' = {}
                          ELSE Awaited(x)' = Awaited(x) /\ Stray(x)' \subseteq Stray(x)
  <2>1. CASE DiscardSignal(i)
    <3>1. /\ jobs' = Settled(i) /\ jobGenerations' = [jobGenerations EXCEPT ![l] = 0]
          /\ generation' = generation
      BY <2>1 DEF DiscardSignal
    <3>2. /\ DOMAIN jobs' = DOMAIN jobs /\ jobs'[i].task = "settled"
          /\ \A k \in DOMAIN jobs : k # i => jobs'[k] = jobs[k]
      BY <3>1, <1>2 DEF Settled, Job
    <3> HIDE DEF l
    <3>3. \A x \in Layer :
            IF x = l
            THEN /\ AwaitedOf(jobs', jobGenerations', generation, x) = {}
                 /\ StrayOf(jobs', jobGenerations', generation, x) = {}
            ELSE /\ AwaitedOf(jobs', jobGenerations', generation, x) = Awaited(x)
                 /\ StrayOf(jobs', jobGenerations', generation, x) = Stray(x)
      BY <3>1, <3>2, <1>6
    <3> QED BY <3>1, <3>3, CallsOf
  <2>2. CASE AcceptSignal(i, session)
    <3> DEFINE m == ModalityOf[l]
               ok == jobs[i].outcome # "failed"
               b == Counted(batch[m], l, ok)
               ended == [Settled(i) EXCEPT ![jobIds[l]].status =
                                             IF ok THEN "completed" ELSE "failed"]
               ids == Without(jobIds, l)
               gens == Without(jobGenerations, l)
               started == IF InBatch(l) THEN Pump(b) ELSE <<>>
    <3>1. /\ ended \in [1..(nextJob - 1) -> Job] /\ ended[i].task = "settled"
          /\ \A k \in DOMAIN jobs : k # i => ended[k] = jobs[k]
      <4>1. jobs \in [1..(nextJob - 1) -> Job]
        BY DEF TrueInv, BakeInv, BakeTypes
      <4> QED BY <4>1, <1>2 DEF Settled, Job, Status
    <3>2. Begin(ended, ids, gens, started, session) /\ generation' = generation
      BY <2>2 DEF AcceptSignal, NoJob, Without
    <3>3. \/ started = <<>>
          \/ \E o \in BOOLEAN : started = Pump(Counted(batch[m], l, o))
      <4>1. ok \in BOOLEAN
        OBVIOUS
      <4> QED BY <4>1
    <3> HIDE DEF ended, started
    <3>4. Settling(i, ended, started)
      BY <3>1, <3>3, <1>1 DEF Settling
    <3>5. MayBegin(ended, ids, gens, started)
      BY <3>2, <3>4, NextOfBatch DEF TrueInv
    <3>6. DOMAIN ended = DOMAIN jobs /\ gens = [jobGenerations EXCEPT ![l] = 0]
      BY <3>1, <1>3 DEF Without
    <3> HIDE DEF ids, gens, l
    <3>7. \A x \in Layer :
            /\ AwaitedOf(jobs', jobGenerations', generation, x) = AwaitedOf(ended, gens, generation, x)
            /\ StrayOf(jobs', jobGenerations', generation, x)
                 \subseteq StrayOf(ended, gens, generation, x)
      BY <3>2, <3>5, BegunStill
    <3>8. \A x \in Layer :
            IF x = l
            THEN /\ AwaitedOf(ended, gens, generation, x) = {}
                 /\ StrayOf(ended, gens, generation, x) = {}
            ELSE /\ AwaitedOf(ended, gens, generation, x) = Awaited(x)
                 /\ StrayOf(ended, gens, generation, x) = Stray(x)
      BY <3>1, <3>6, <1>6
    <3> QED BY <3>2, <3>7, <3>8, CallsOf
  <2> QED BY <2>1, <2>2 DEF BakeSignal
<1>8. \A x \in Layer : x # l => layers'[x] = layers[x]
  BY <1>3 DEF BakeSignal, CommitBake
<1>9. ASSUME NEW x \in Layer, x # l, LayerTrue(x) PROVE LayerTrue(x)'
  BY <1>1, <1>4, <1>7, <1>8, <1>9, StillTrue DEF Still, TrueInv
<1>10. ASSUME LayerTrue(l), NEW x, x = l PROVE LayerTrue(x)'
  <2>1. Awaited(x)' = {} /\ Stray(x)' = {} /\ Drawn(x)' = Drawn(x) /\ SideOf(x)' = SideOf(x)
    BY <1>2, <1>4, <1>7, <1>10 DEF SideOf
  <2>2. ASSUME open, Drawn(x) = {} PROVE stores[layers'[x].artifact].made = layers'[x].index
    <3>1. CASE Awaited(x) = {}
      <4>1. layers' = layers
        <5>1. ~(Current(l) /\ jobs[i].outcome = "persisted")
          BY <1>5, <1>10, <3>1
        <5> QED BY <5>1 DEF BakeSignal, AcceptSignal, CommitBake
      <4> QED BY <4>1, <3>1, <2>2, <1>10 DEF LayerTrue
    <3>2. CASE Awaited(x) # {}
      <4>1. Awaited(x) = {i} /\ jobs[i].outcome = "persisted" /\ Current(l)
        BY <1>5, <1>10, <3>2
      <4>2. layers'[x].artifact = SideOf(x) /\ layers'[x].index = <<"bake", i>>
        BY <4>1, <2>2, <1>2, <1>3, <1>10 DEF BakeSignal, DiscardSignal, CommitBake
      <4>3. stores[SideOf(x)].made = <<"bake", i>>
        BY <4>1, <1>10 DEF LayerTrue
      <4> QED BY <4>2, <4>3
    <3> QED BY <3>1, <3>2
  <2>3. \A r \in Drawn(x) : stores[SideOf(x)].made = <<"graph", r.graph>>
    BY <1>10 DEF LayerTrue
  <2> QED BY <2>1, <2>2, <2>3, <1>1 DEF LayerTrue
<1> QED BY <1>1, <1>9, <1>10 DEF TrueInv

\* A background function writes to the sidecar of its own layer and to nothing else.
LEMMA OwnSidecar ==
  ASSUME StoreInv, NEW l \in Layer, NEW path \in Own(l), NEW made,
         Written(SidecarPath(path, l), made)
  PROVE  /\ stores'[SideOf(l)].made = made
         /\ \A x \in Layer : /\ stores'[RawOf(x)] = stores[RawOf(x)]
                             /\ x # l => stores'[SideOf(x)] = stores[SideOf(x)]
<1>1. /\ DOMAIN stores = Path /\ stores[RawOf(l)].role # "sidecar"
      /\ SideOf(l) \in Path /\ \A x \in Layer : RawOf(x) \in Path /\ SideOf(x) \in Path
  BY DEF StoreInv, BaselineKept, Baseline, Path
<1>2. RawOf(l) # SideOf(l)
  BY DEF RawOf, SideOf
<1>3. SidecarPath(path, l) = SideOf(l)
  BY <1>1, <1>2 DEF SidecarPath, Own
<1>4. stores' = [stores EXCEPT ![SideOf(l)] = [role |-> "sidecar", made |-> made]]
  BY <1>3 DEF Written
<1>5. \A x \in Layer : RawOf(x) # SideOf(l) /\ (x # l => SideOf(x) # SideOf(l))
  BY DEF RawOf, SideOf
<1> QED BY <1>1, <1>4, <1>5

\* A bake's result: awaited, unless a graph run or a reopening crossed it.
LEMMA ReturnTrue ==
  ASSUME TrueInv, NEW i \in DOMAIN jobs, NEW outcome \in {"persisted", "skipped", "failed"},
         BakeReturns(i, outcome)
  PROVE  \A l \in Layer : l \in crossed' \/ LayerTrue(l)'
<1>1. PICK l \in Layer : l = jobs[i].layer
  BY CallKnown DEF TrueInv, BakeReturns, Returns
<1>2. /\ jobs' = [jobs EXCEPT ![i].task = "returned", ![i].outcome = outcome]
      /\ jobs[i].task = "running" /\ jobs[i] \in Job
      /\ UNCHANGED <<jobGenerations, generation, serviceVars, layers, open>>
      /\ crossed \subseteq crossed'
  BY CallKnown DEF TrueInv, BakeReturns, Returns, layerVars, fileVars
<1>3. /\ DOMAIN jobs' = DOMAIN jobs
      /\ jobs'[i].layer = l /\ jobs'[i].task = "returned" /\ jobs'[i].outcome = outcome
      /\ \A k \in DOMAIN jobs : k # i => jobs'[k] = jobs[k]
      /\ \A k \in DOMAIN jobs : jobs[k].task # "settled" /\ jobs[k].layer = l => k = i
  <2>1. \A k \in DOMAIN jobs : jobs[k].task # "settled" /\ jobs[k].layer = l => k = i
    BY <1>1, <1>2, CallKnown DEF TrueInv
  <2> QED BY <2>1, <1>1, <1>2 DEF Job
<1>4. \A x \in Layer : Drawn(x)' = Drawn(x)
  BY <1>2 DEF Drawn, Persisted, Under, serviceVars
<1>5. ASSUME NEW x \in Layer, x # l PROVE Awaited(x)' = Awaited(x) /\ Stray(x)' = Stray(x)
  BY <1>1, <1>2, <1>3, <1>5 DEF Awaited, Stray, Current
<1>6. /\ Awaited(l) = {} /\ Stray(l)' = {}
      /\ Awaited(l)' = IF outcome = "persisted" /\ Current(l) THEN {i} ELSE {}
      /\ ~Current(l) => Stray(l) # {}
  BY <1>1, <1>2, <1>3 DEF Awaited, Stray, Current
<1>7. CASE outcome = "persisted"
  <2>1. /\ Written(SidecarPath(jobs[i].input, l), <<"bake", i>>)
        /\ crossed' = IF Runs(l) # {} THEN crossed \cup {l} ELSE crossed
    BY <1>1, <1>7 DEF BakeReturns
  <2>2. jobs[i].input \in Own(l)
    BY <1>1, <1>2 DEF Job
  <2>3. /\ stores'[SideOf(l)].made = <<"bake", i>>
        /\ \A x \in Layer : /\ stores'[RawOf(x)] = stores[RawOf(x)]
                            /\ x # l => stores'[SideOf(x)] = stores[SideOf(x)]
    BY <2>1, <2>2, OwnSidecar DEF TrueInv
  <2>4. ASSUME NEW x \in Layer, x # l, LayerTrue(x) PROVE LayerTrue(x)'
    BY <2>3, <2>4, <1>2, <1>4, <1>5, StillTrue DEF Still, TrueInv
  <2>5. ASSUME l \notin crossed' PROVE LayerTrue(l)'
    <3>1. Runs(l) = {} /\ LayerTrue(l)
      BY <2>1, <2>5 DEF TrueInv
    <3>2. Drawn(l) = {}
      BY <3>1 DEF Drawn, Runs, Persisted, Under
    <3>3. open => Current(l)
      BY <3>1, <1>6 DEF LayerTrue
    <3>4. SideOf(l)' = SideOf(l)
      BY DEF SideOf
    <3> QED BY <3>2, <3>3, <3>4, <2>3, <1>2, <1>4, <1>6, <1>7 DEF LayerTrue
  <2> QED BY <2>4, <2>5, <1>2 DEF TrueInv
<1>8. CASE outcome # "persisted"
  <2>1. UNCHANGED <<stores, crossed>>
    BY <1>8 DEF BakeReturns, fileVars
  <2>2. ASSUME NEW x \in Layer PROVE Awaited(x)' = Awaited(x) /\ Stray(x)' \subseteq Stray(x)
    BY <1>5, <1>6, <1>8
  <2> QED BY <2>1, <2>2, <1>2, CallsLeave
<1> QED BY <1>7, <1>8

\* A request's result: drawn, unless a bake crossed it.
LEMMA ExecuteTrue ==
  ASSUME TrueInv, NEW k \in DOMAIN runs, NEW outcome, RunExecutes(k, outcome)
  PROVE  RunOrder' /\ \A l \in Layer : l \in crossed' \/ LayerTrue(l)'
<1>1. PICK l : l = NextOf(k).layer
  OBVIOUS
<1>2. /\ RunOrder'
      /\ l \in Layer /\ NextOf(k).input = RawOf(l) /\ k \in Runs(l)
      /\ Drawn(l) = {}
      /\ outcome # "persisted" => Drawn(l)' = {}
      /\ outcome = "persisted" => Drawn(l)' # {}
      /\ \A r \in Drawn(l)' : r.graph = NextOf(k).graph
      /\ \A x \in Layer : x # l => Drawn(x)' = Drawn(x)
  BY <1>1, ExecuteOrder DEF TrueInv, RunExecutes
<1>3. UNCHANGED <<batchVars, layers, open>> /\ crossed \subseteq crossed'
  BY DEF RunExecutes, layerVars, fileVars
<1>4. \A x \in Layer : Awaited(x)' = Awaited(x) /\ Stray(x)' = Stray(x)
  BY <1>3 DEF Awaited, Stray, Current, batchVars
<1>5. CASE outcome = "persisted"
  <2>1. /\ Written(SidecarPath(RawOf(l), l), <<"graph", NextOf(k).graph>>)
        /\ crossed' = IF Bakes(l) # {} THEN crossed \cup {l} ELSE crossed
    BY <1>1, <1>2, <1>5 DEF RunExecutes
  <2>2. /\ stores'[SideOf(l)].made = <<"graph", NextOf(k).graph>>
        /\ \A x \in Layer : /\ stores'[RawOf(x)] = stores[RawOf(x)]
                            /\ x # l => stores'[SideOf(x)] = stores[SideOf(x)]
    <3>1. RawOf(l) \in Own(l)
      BY DEF Own
    <3> QED BY <3>1, <2>1, <1>2, OwnSidecar DEF TrueInv
  <2>3. ASSUME NEW x \in Layer, x # l, LayerTrue(x) PROVE LayerTrue(x)'
    BY <2>2, <2>3, <1>2, <1>3, <1>4, StillTrue DEF Still, TrueInv
  <2>4. ASSUME l \notin crossed' PROVE LayerTrue(l)'
    <3>1. Awaited(l) = {} /\ Stray(l) = {}
      BY <2>1, <2>4 DEF Bakes, Awaited, Stray
    <3>2. SideOf(l)' = SideOf(l)
      BY DEF SideOf
    <3> QED BY <3>1, <3>2, <2>2, <1>2, <1>4, <1>5 DEF LayerTrue
  <2> QED BY <2>3, <2>4, <1>2, <1>3 DEF TrueInv
<1>6. CASE outcome # "persisted"
  <2>1. UNCHANGED <<stores, crossed>>
    BY <1>6 DEF RunExecutes, fileVars
  <2>2. \A x \in Layer : Drawn(x)' = Drawn(x)
    BY <1>2, <1>6
  <2>3. \A x \in Layer : Still(x)
    BY <2>1, <2>2, <1>3, <1>4 DEF Still
  <2> QED BY <2>1, <2>3, <1>2, StillTrue DEF TrueInv
<1> QED BY <1>5, <1>6

\* runLayer and runAll: new runs have drawn nothing.
LEMMA RunsTrue ==
  ASSUME TrueInv, (\E l \in Layer : RunOne(l)) \/ RunProject
  PROVE  RunOrder' /\ \A l \in Layer : l \in crossed' \/ LayerTrue(l)'
<1>1. UNCHANGED <<batchVars, layers, open, stores, crossed>>
  BY DEF RunOne, RunProject, layerVars, fileVars
<1>2. \A x \in Layer : Awaited(x)' = Awaited(x) /\ Stray(x)' = Stray(x)
  BY <1>1 DEF Awaited, Stray, Current, batchVars
<1>3. RunOrder' /\ \A x \in Layer : Drawn(x)' = Drawn(x)
  <2>1. CASE UNCHANGED serviceVars
    BY <2>1 DEF TrueInv, RunOrder, Drawn, Persisted, Under, serviceVars
  <2>2. ASSUME NEW l \in Layer, RunOne(l), ~UNCHANGED serviceVars
        PROVE  RunOrder' /\ \A x \in Layer : Drawn(x)' = Drawn(x)
    <3> DEFINE requests == <<RequestOf(l)>>
    <3>1. Start(requests)
      BY <2>2 DEF RunOne, RunLayer
    <3>2. /\ Len(requests) = 1 /\ DOMAIN requests = {1}
          /\ requests[1].outcome = "none"
      BY DEF RequestOf, Request
    <3> HIDE DEF requests
    <3>3. DOMAIN requests = 1..Len(requests)
      BY <3>2
    <3> QED BY <3>1, <3>2, <3>3, StartOrder DEF TrueInv
  <2>3. ASSUME RunProject, ~UNCHANGED serviceVars
        PROVE  RunOrder' /\ \A x \in Layer : Drawn(x)' = Drawn(x)
    <3> DEFINE free == {l \in Layer : ~Refused(RawOf(l))}
               ls   == InOrder[free]
               requests == [i \in DOMAIN ls |-> RequestOf(ls[i])]
    <3>1. Start(requests)
      BY <2>3 DEF RunProject, RunAll
    <3>2. /\ ls \in Seq(free) /\ \A i, j \in DOMAIN ls : ls[i] = ls[j] => i = j
      BY BakesAssumption DEF BakesAssumption
    <3> HIDE DEF free, ls
    <3>3. Len(ls) \in Nat /\ DOMAIN ls = 1..Len(ls)
      BY <3>2, LenProperties
    <3>4. \A i \in DOMAIN requests : /\ i \in DOMAIN ls /\ requests[i].layer = ls[i]
                                     /\ requests[i].outcome = "none"
      BY DEF RequestOf, Request
    <3>5. DOMAIN requests = 1..Len(ls) /\ Len(requests) = Len(ls)
      BY <3>3
    <3> HIDE DEF requests
    <3>6. \A i, j \in DOMAIN requests : requests[i].layer = requests[j].layer => i = j
      BY <3>2, <3>4
    <3> QED BY <3>1, <3>3, <3>4, <3>5, <3>6, StartOrder DEF TrueInv
  <2> QED BY <2>1, <2>2, <2>3
<1>4. \A x \in Layer : Still(x)
  BY <1>1, <1>2, <1>3 DEF Still
<1> QED BY <1>1, <1>3, <1>4, StillTrue DEF TrueInv

\* A run's results: each layer is told what the store holds.
LEMMA DeliverTrue ==
  ASSUME TrueInv, NEW k \in DOMAIN runs, RunDelivers(k)
  PROVE  RunOrder' /\ \A l \in Layer : l \in crossed' \/ LayerTrue(l)'
<1> DEFINE Got(l) == \E r \in Persisted(k) : r.layer = l
           Made(l) == (CHOOSE r \in Persisted(k) : r.layer = l).graph
<1>1. /\ UNCHANGED <<batchVars, open, stores, crossed>>
      /\ Deliver(k)
      /\ layers' = [l \in Layer |->
                      IF open /\ Got(l)
                      THEN [artifact |-> SideOf(l), index |-> <<"graph", Made(l)>>,
                            origin |-> "NodeGraph", applied |-> projectGraph]
                      ELSE layers[l]]
  BY DEF RunDelivers, fileVars
<1>2. /\ RunOrder'
      /\ \A l \in Layer :
           IF Got(l)
           THEN /\ Drawn(l)' = {}
                /\ (CHOOSE r \in Persisted(k) : r.layer = l) \in Drawn(l)
           ELSE Drawn(l)' = Drawn(l)
  BY <1>1, DeliverOrder DEF TrueInv
<1>3. \A x \in Layer : Awaited(x)' = Awaited(x) /\ Stray(x)' = Stray(x)
  BY <1>1 DEF Awaited, Stray, Current, batchVars
<1>4. ASSUME NEW l \in Layer, LayerTrue(l), ~Got(l) PROVE LayerTrue(l)'
  <2>1. layers'[l] = layers[l]
    BY <1>1, <1>4
  <2> QED BY <2>1, <1>1, <1>2, <1>3, <1>4, StillTrue DEF Still, TrueInv
<1>5. ASSUME NEW l \in Layer, LayerTrue(l), Got(l) PROVE LayerTrue(l)'
  <2>1. stores[SideOf(l)].made = <<"graph", Made(l)>>
    BY <1>2, <1>5 DEF LayerTrue
  <2>2. open => layers'[l].artifact = SideOf(l) /\ layers'[l].index = <<"graph", Made(l)>>
    BY <1>1, <1>5
  <2>3. SideOf(l)' = SideOf(l)
    BY DEF SideOf
  <2> HIDE DEF Made, Got
  <2> QED BY <2>1, <2>2, <2>3, <1>1, <1>2, <1>3, <1>5 DEF LayerTrue
<1> QED BY <1>1, <1>2, <1>4, <1>5 DEF TrueInv

\* A revert names the baseline, with what it has held since the import.
LEMMA RevertTrue ==
  ASSUME TrueInv, NEW l \in Layer, Revert(l)
  PROVE  \A x \in Layer : x \in crossed' \/ LayerTrue(x)'
<1>1. /\ UNCHANGED <<batchVars, serviceVars, stores, crossed, open>>
      /\ layers' = [layers EXCEPT ![l] = [artifact |-> RawOf(l), index |-> stores[RawOf(l)].made,
                                          origin |-> "None", applied |-> 0]]
      /\ DOMAIN layers = Layer
  BY DEF Revert, fileVars, TrueInv, BakeInv, LayerTypes
<1>2. \A x \in Layer : /\ Awaited(x)' = Awaited(x) /\ Stray(x)' = Stray(x)
                       /\ Drawn(x)' = Drawn(x)
  BY <1>1 DEF Awaited, Stray, Current, Drawn, Persisted, Under, batchVars, serviceVars
<1>3. ASSUME NEW x \in Layer, x # l, LayerTrue(x) PROVE LayerTrue(x)'
  BY <1>1, <1>2, <1>3, StillTrue DEF Still, TrueInv
<1>4. ASSUME LayerTrue(l) PROVE LayerTrue(l)'
  <2>1. SideOf(l)' = SideOf(l)
    BY DEF SideOf
  <2>2. layers'[l].artifact = RawOf(l) /\ layers'[l].index = stores[RawOf(l)].made
    BY <1>1
  <2> QED BY <2>1, <2>2, <1>1, <1>2, <1>4 DEF LayerTrue
<1> QED BY <1>1, <1>3, <1>4 DEF TrueInv

\* Closing and opening: what is under way is of another generation; an opening
\* reads the indexes of the stores as they are.
LEMMA SwitchTrue ==
  ASSUME TrueInv, CloseProject \/ OpenProject
  PROVE  \A l \in Layer : l \in crossed' \/ LayerTrue(l)'
<1>1. /\ CancelBatch /\ UNCHANGED <<serviceVars, stores>> /\ crossed \subseteq crossed'
      /\ generation \in Nat \ {0} /\ jobGenerations \in [Layer -> Nat]
      /\ DOMAIN layers = Layer
  BY DEF CloseProject, OpenProject, fileVars, TrueInv, BakeInv, BakeTypes, LayerTypes
<1> SUFFICES ASSUME NEW l \in Layer, l \notin crossed', LayerTrue(l) PROVE LayerTrue(l)'
  BY <1>1 DEF TrueInv
<1>2. /\ jobGenerations'[l] # generation' /\ DOMAIN jobs' = DOMAIN jobs
      /\ \A i \in DOMAIN jobs : jobs'[i].layer = jobs[i].layer /\ jobs'[i].task = jobs[i].task
  <2>1. jobGenerations[l] <= generation /\ jobGenerations[l] \in Nat
    BY <1>1 DEF TrueInv, BakeInv, Linked
  <2>2. jobGenerations' = jobGenerations /\ generation' = generation + 1
    BY <1>1 DEF CancelBatch, NextGeneration
  <2>3. \A i \in DOMAIN jobs : jobs[i] \in Job
    BY DEF TrueInv, BakeInv, BakeTypes
  <2> QED BY <1>1, <2>1, <2>2, <2>3 DEF CancelBatch, Job
<1>3. Awaited(l)' = {} /\ Drawn(l)' = Drawn(l) /\ SideOf(l)' = SideOf(l)
  BY <1>1, <1>2 DEF Awaited, Current, Drawn, Persisted, Under, serviceVars, SideOf
<1>4. CASE CloseProject
  <2>1. ~open'
    BY <1>4 DEF CloseProject
  <2> QED BY <2>1, <1>1, <1>3 DEF LayerTrue
<1>5. CASE OpenProject
  <2>1. \A i \in Bakes(l) : jobs[i].task # "running"
    BY <1>5 DEF OpenProject
  <2>2. Stray(l)' = {}
    BY <2>1, <1>2 DEF Stray, Bakes
  <2>3. /\ layers'[l].artifact = layers[l].artifact
        /\ layers'[l].index = stores[layers[l].artifact].made
    <3>1. /\ DOMAIN layers[l] = {"artifact", "index", "origin", "applied"}
          /\ layers'[l] = [layers[l] EXCEPT !.index = stores[layers[l].artifact].made]
      BY <1>5 DEF OpenProject, TrueInv, BakeInv, LayerTypes
    <3> QED BY <3>1
  <2> QED BY <2>2, <2>3, <1>1, <1>3 DEF LayerTrue
<1> QED BY <1>1, <1>4, <1>5

LEMMA TrueInvStutter ==
  TrueInv /\ UNCHANGED <<batchVars, serviceVars, layers, open, stores, crossed>>
    => RunOrder' /\ \A l \in Layer : l \in crossed' \/ LayerTrue(l)'
<1> SUFFICES ASSUME TrueInv, UNCHANGED <<batchVars, serviceVars, layers, open, stores, crossed>>
             PROVE  RunOrder' /\ \A l \in Layer : l \in crossed' \/ LayerTrue(l)'
  OBVIOUS
<1>1. RunOrder'
  BY DEF TrueInv, RunOrder, serviceVars
<1>2. \A l \in Layer : Awaited(l)' = Awaited(l) /\ Stray(l)' = Stray(l)
  BY DEF Awaited, Stray, Current, batchVars
<1> QED BY <1>1, <1>2, CallsLeave

LEMMA TrueInvStep == TrueInv /\ [Next]_vars => TrueInv'
<1> SUFFICES ASSUME TrueInv, [Next]_vars
             PROVE  RunOrder' /\ \A l \in Layer : l \in crossed' \/ LayerTrue(l)'
  BY BakeInvStep, StoreInvStep, RunInvStep DEF TrueInv
<1>1. ASSUME UNCHANGED serviceVars PROVE RunOrder'
  BY <1>1 DEF TrueInv, RunOrder, serviceVars
<1>2. CASE (\E l \in Layer : ApplyOne(l)) \/ BakeAll
  BY <1>2, <1>1, AskedTrue DEF ApplyOne, BakeAll
<1>3. CASE (\E l \in Layer : RunOne(l)) \/ RunProject
  BY <1>3, RunsTrue
<1>4. ASSUME NEW l \in Layer, Revert(l)
      PROVE  RunOrder' /\ \A x \in Layer : x \in crossed' \/ LayerTrue(x)'
  BY <1>4, <1>1, RevertTrue DEF Revert
<1>5. CASE EditGraph
  BY <1>5, TrueInvStutter DEF EditGraph, fileVars
<1>6. CASE CloseProject \/ OpenProject
  BY <1>6, <1>1, SwitchTrue DEF CloseProject, OpenProject
<1>7. ASSUME NEW i \in DOMAIN jobs, Bake(i)
      PROVE  RunOrder' /\ \A l \in Layer : l \in crossed' \/ LayerTrue(l)'
  <2>1. UNCHANGED serviceVars
    BY <1>7 DEF Bake, BakeReturns, BakeSignal
  <2> QED BY <2>1, <1>1, <1>7, ReturnTrue, SignalTrue DEF Bake
<1>8. ASSUME NEW k \in DOMAIN runs, Run(k)
      PROVE  RunOrder' /\ \A l \in Layer : l \in crossed' \/ LayerTrue(l)'
  BY <1>8, ExecuteTrue, DeliverTrue DEF Run
<1>9. CASE UNCHANGED vars
  BY <1>9, TrueInvStutter DEF vars, layerVars, fileVars
<1> QED BY <1>2, <1>3, <1>4, <1>5, <1>6, <1>7, <1>8, <1>9 DEF Next, Operator, Resting

\* A layer on which nothing works remembers what is in the store it names, unless two
\* writers of it, or a bake and its project, crossed.
THEOREM StoresAreTrue == Spec => []StoresTrue
<1>1. TrueInv => StoresTrue
  <2> SUFFICES ASSUME TrueInv, NEW l \in Layer, open, l \notin crossed,
                      Bakes(l) = {}, Runs(l) = {}
               PROVE  stores[layers[l].artifact].made = layers[l].index
    BY DEF StoresTrue
  <2>1. Awaited(l) = {}
    BY DEF Awaited, Bakes
  <2>2. Drawn(l) = {}
    BY DEF Drawn, Runs, Persisted, Under
  <2> QED BY <2>1, <2>2 DEF TrueInv, LayerTrue
<1> QED BY <1>1, TrueInvInit, TrueInvStep, PTL DEF Spec
=============================================================================
