----------------------------- MODULE LayerBakes -----------------------------
(***************************************************************************)
(* Correction bakes and graph runs on the layers of one project, through   *)
(* closing and reopening it: CorrectionBatchOperator and ProcessingService *)
(* with their pool threads, the stores they write, and the coordinator     *)
(* that commits their results to the layers.                               *)
(*                                                                         *)
(* A store is the role marked in it and what made its data.  A layer's     *)
(* index stands for everything the layer remembers of the store it names:  *)
(* index, flags and length of its records.  Graphs are numbered in the     *)
(* order they were edited.                                                 *)
(***************************************************************************)
EXTENDS CorrectionBatch, ProcessingService, SequencesExt

CONSTANTS
  Source,      \* imported files; each has one baseline store
  SourceOf,    \* the file a layer was imported from
  InOrder,     \* the layers of each set, in the project's order
  Customized,  \* the sets of customised layers to start from
  Plans        \* bounds: budgets, each saying how often the operator does each thing

Deed == {"apply", "bake", "run", "runAll", "edit", "revert", "reopen"}

ASSUME BakesAssumption ==
  /\ Modality = {"sss", "sbp"}
  /\ SourceOf \in [Layer -> Source]
  /\ \A ls \in SUBSET Layer :
       /\ InOrder[ls] \in Seq(ls)
       /\ \A l \in ls : \E i \in DOMAIN InOrder[ls] : InOrder[ls][i] = l
       /\ \A i, j \in DOMAIN InOrder[ls] : InOrder[ls][i] = InOrder[ls][j] => i = j
  /\ Customized \subseteq SUBSET Layer
  /\ Plans \subseteq [Deed -> Nat]

VARIABLES
  stores,        \* the .dlpd files by path
  layers,        \* the project's layers
  customized,    \* layers whose display state has corrections to bake
  projectGraph,  \* processing_graph; every layer uses it
  workerGraph,   \* the graph of a layer's worker, 0 without a worker
  open,          \* m_project is not null
  session,       \* history: how often the project was opened
  crossed,       \* history: layers whose store was written with another writer's
                 \* result still to come
  left           \* what is left of the budget

layerVars == <<layers, customized, projectGraph, workerGraph, open, session>>
fileVars  == <<stores, crossed>>
vars == <<batchVars, serviceVars, layerVars, fileVars, left>>

RawOf(l)  == <<"raw", SourceOf[l]>>
SideOf(l) == <<"side", l>>
Path == {RawOf(l) : l \in Layer} \cup {SideOf(l) : l \in Layer}

NoStore == [role |-> "none", made |-> <<"nothing">>]
Baseline == [role |-> "baseline", made |-> <<"import">>]

Init ==
  /\ BatchInit
  /\ ServiceInit
  /\ stores = [p \in Path |-> IF \E l \in Layer : p = RawOf(l) THEN Baseline ELSE NoStore]
  /\ layers = [l \in Layer |-> [artifact |-> RawOf(l), index |-> <<"import">>,
                                origin |-> "None", applied |-> 0]]
  /\ customized \in Customized
  /\ projectGraph = 1
  /\ workerGraph = [l \in Layer |-> 0]
  /\ open = TRUE
  /\ session = 1
  /\ crossed = {}
  /\ left \in Plans

Does(d) == open /\ left[d] > 0 /\ left' = [left EXCEPT ![d] = @ - 1]

-----------------------------------------------------------------------------
(* Stores and their writers.                                               *)

\* sidecarArtifactPath: what is a sidecar already, by its role or its name, is
\* written again; a baseline never.
SidecarPath_Input(path, l) == path
SidecarPath(path, l) ==
  IF stores[path].role = "sidecar" \/ path = SideOf(l) THEN path ELSE SideOf(l)

Written(path, made) ==
  stores' = [stores EXCEPT ![path] = [role |-> "sidecar", made |-> made]]

Bakes(l) == {i \in DOMAIN jobs : jobs[i].layer = l /\ jobs[i].task # "settled"}
Runs(l)  == {k \in DOMAIN runs : /\ runs[k].phase = "running"
                                 /\ \E i \in DOMAIN runs[k].requests :
                                      runs[k].requests[i].layer = l}

-----------------------------------------------------------------------------
(* The operator.                                                           *)

\* Sidescan bakes read the baseline, sub-bottom bakes the active store.
ItemOf(l) ==
  [layer |-> l, input |-> IF ModalityOf[l] = "sss" THEN RawOf(l) ELSE layers[l].artifact]

ApplyOne(l) ==
  /\ Does("apply")
  /\ Apply(ItemOf(l), session)
  /\ UNCHANGED <<serviceVars, layerVars, fileVars>>

Wanted(m) ==
  LET ls == InOrder[{l \in customized : ModalityOf[l] = m /\ Free(l)}] IN
  [i \in DOMAIN ls |-> ItemOf(ls[i])]

BakeAll ==
  /\ Does("bake")
  /\ BakeCustomized([m \in Modality |-> Wanted(m)], "sss", "sbp", session)
  /\ UNCHANGED <<serviceVars, layerVars, fileVars>>

\* The graph a run of the layer uses, and the one its result is recorded with.
GraphOf(l) == IF workerGraph[l] # 0 THEN workerGraph[l] ELSE projectGraph
RequestOf(l) == Request(l, RawOf(l), GraphOf(l))

RunOne(l) ==
  /\ Does("run")
  /\ RunLayer(RequestOf(l))
  /\ UNCHANGED <<batchVars, layerVars, fileVars>>

RunProject ==
  /\ Does("runAll")
  /\ LET ls == InOrder[{l \in Layer : ~Refused(RawOf(l))}] IN
       RunAll([i \in DOMAIN ls |-> RequestOf(ls[i])])
  /\ UNCHANGED <<batchVars, layerVars, fileVars>>

\* The node graph window edits the project's graph or, once there are workers,
\* the graph of the worker whose tab is open.
LastGraph == Max({projectGraph} \cup {workerGraph[l] : l \in Layer})
EditGraph ==
  /\ Does("edit")
  /\ IF \A l \in Layer : workerGraph[l] = 0
     THEN projectGraph' = LastGraph + 1 /\ UNCHANGED workerGraph
     ELSE \E l \in {k \in Layer : workerGraph[k] # 0} :
            /\ workerGraph' = [workerGraph EXCEPT ![l] = LastGraph + 1]
            /\ UNCHANGED projectGraph
  /\ UNCHANGED <<batchVars, serviceVars, fileVars, layers, customized, open, session>>

\* onRevertProcessedLayer; its display state is left customised for sidescan.
Revert(l) ==
  /\ Does("revert")
  /\ layers[l].artifact # RawOf(l)
  /\ layers' = [layers EXCEPT ![l] = [artifact |-> RawOf(l), index |-> stores[RawOf(l)].made,
                                      origin |-> "None", applied |-> 0]]
  /\ customized' = IF ModalityOf[l] = "sss" THEN customized \cup {l} ELSE customized \ {l}
  /\ UNCHANGED <<batchVars, serviceVars, fileVars, projectGraph, workerGraph, open, session>>

\* closeProject: projectAboutToChange, then there is no project.
CloseProject ==
  /\ Does("reopen")
  /\ CancelBatch
  /\ open' = FALSE
  /\ UNCHANGED <<serviceVars, fileVars, layers, customized, projectGraph, workerGraph, session>>

\* loadProjectPath of the same project: projectAboutToChange again; the indexes are
\* those of the stores' footers, and workers are not part of the manifest.
OpenProject ==
  /\ ~open
  /\ CancelBatch
  /\ open' = TRUE
  /\ session' = session + 1
  /\ layers' = [l \in Layer |-> [layers[l] EXCEPT !.index = stores[layers[l].artifact].made]]
  /\ workerGraph' = [l \in Layer |-> 0]
  /\ crossed' = crossed \cup {l \in Layer : \E i \in Bakes(l) : jobs[i].task = "running"}
  /\ UNCHANGED <<serviceVars, stores, customized, projectGraph, left>>

-----------------------------------------------------------------------------
(* Pool threads and the handlers of their results.                         *)

\* execute of a correction service: the sidecar is replaced only when something
\* was modified.
BakeReturns(i, outcome) ==
  LET l == jobs[i].layer IN
  /\ Returns(i, outcome)
  /\ IF outcome = "persisted"
     THEN /\ Written(SidecarPath(jobs[i].input, l), <<"bake", i>>)
          /\ crossed' = IF Runs(l) # {} THEN crossed \cup {l} ELSE crossed
     ELSE UNCHANGED fileVars
  /\ UNCHANGED <<serviceVars, layerVars, left>>

\* onCorrectionPersisted.
CommitBake(i) ==
  LET l == jobs[i].layer IN
  IF open /\ jobs[i].outcome = "persisted"
  THEN layers' = [layers EXCEPT ![l] = [artifact |-> SideOf(l), index |-> <<"bake", i>>,
                                        origin |-> "Waterfall", applied |-> 0]]
  ELSE UNCHANGED layers

BakeSignal(i) ==
  /\ jobs[i].task = "returned"
  /\ \/ DiscardSignal(i) /\ UNCHANGED layers
     \/ AcceptSignal(i, session) /\ CommitBake(i)
  /\ UNCHANGED <<serviceVars, fileVars, customized, projectGraph, workerGraph, open, session, left>>

\* executeRequest: an empty result is a success that writes nothing.
RunExecutes(k, outcome) ==
  LET r == NextOf(k) IN
  /\ Execute(k, outcome)
  /\ IF outcome = "persisted"
     THEN /\ Written(SidecarPath(r.input, r.layer), <<"graph", r.graph>>)
          /\ crossed' = IF Bakes(r.layer) # {} THEN crossed \cup {r.layer} ELSE crossed
     ELSE UNCHANGED fileVars
  /\ UNCHANGED <<batchVars, layerVars, left>>

\* onProcessingPersisted for each result; the worker is made of the project's graph.
RunDelivers(k) ==
  LET ended == Persisted(k)
      Committed(l) == open /\ \E r \in ended : r.layer = l
      Made(l) == (CHOOSE r \in ended : r.layer = l).graph IN
  /\ Deliver(k)
  /\ layers' = [l \in Layer |->
                  IF Committed(l)
                  THEN [artifact |-> SideOf(l), index |-> <<"graph", Made(l)>>,
                        origin |-> "NodeGraph", applied |-> projectGraph]
                  ELSE layers[l]]
  /\ workerGraph' = [l \in Layer |-> IF Committed(l) /\ workerGraph[l] = 0
                                     THEN projectGraph ELSE workerGraph[l]]
  /\ UNCHANGED <<batchVars, fileVars, customized, projectGraph, open, session, left>>

-----------------------------------------------------------------------------
Operator ==
  \/ \E l \in Layer : ApplyOne(l) \/ RunOne(l) \/ Revert(l)
  \/ BakeAll \/ RunProject \/ EditGraph \/ CloseProject \/ OpenProject

Bake(i) == (\E outcome \in {"persisted", "skipped", "failed"} : BakeReturns(i, outcome))
             \/ BakeSignal(i)
Run(k)  == (\E outcome \in {"persisted", "empty", "failed"} : RunExecutes(k, outcome))
             \/ RunDelivers(k)

Resting ==
  /\ \A l \in Layer : Bakes(l) = {} /\ Runs(l) = {}
  /\ UNCHANGED vars

Next ==
  \/ Operator
  \/ \E i \in DOMAIN jobs : Bake(i)
  \/ \E k \in DOMAIN runs : Run(k)
  \/ Resting

Spec == Init /\ [][Next]_vars

\* Background functions return and their results are handled.
FairSpec ==
  /\ Spec
  /\ WF_vars(\E i \in DOMAIN jobs : Bake(i))
  /\ WF_vars(\E k \in DOMAIN runs : Run(k))

-----------------------------------------------------------------------------
\* A batch's counters are exact while its calls are under way, and a call of an
\* earlier generation is in none of them: dispatched holds the cap, pending ends
\* the batch.
BatchBooks ==
  \A m \in Modality :
    LET books == batch[m]
        mine == {i \in DOMAIN jobs : /\ jobs[i].task # "settled" /\ jobs[i].batch = books.id
                                     /\ ModalityOf[jobs[i].layer] = m /\ books.id # NoBatch} IN
    /\ books.dispatched = Cardinality(mine) /\ books.dispatched <= MaxConcurrent
    /\ books.pending = Len(books.queue) + books.dispatched
    /\ books.layers = {books.queue[i].layer : i \in DOMAIN books.queue} \cup {jobs[i].layer : i \in mine}
    /\ books.succeeded <= books.total - books.pending
    /\ books.id # NoBatch => hubBatches[books.id] = "running" /\ books.pending > 0

\* A layer has at most one bake under way, a cancelled one that still runs
\* included, and at most one graph run; the paths in use are those of the runs.
OneWriter ==
  /\ \A l \in Layer : Cardinality(Bakes(l)) <= 1 /\ Cardinality(Runs(l)) <= 1
  /\ activePaths = UNION {Paths(runs[k].requests) : k \in {j \in DOMAIN runs : Under(j)}}

\* D-04: no bake or graph run replaces the imported data.
BaselineKept == \A l \in Layer : stores[RawOf(l)] = Baseline

\* What a layer remembers of the store it names is true of the file, once nothing
\* works on the layer; unless a bake and a graph run of it, or a bake and its
\* project, crossed.
StoresTrue ==
  \A l \in Layer : open /\ l \notin crossed /\ Bakes(l) = {} /\ Runs(l) = {}
                     => stores[layers[l].artifact].made = layers[l].index

\* "their terminal signals are discarded and cannot be committed into a subsequently
\* opened project": nor do they count in a batch of it or change what the hub says.
LateNotCommitted ==
  [][\A i \in DOMAIN jobs :
       jobs[i].task # "settled" /\ jobs'[i].task = "settled" /\ jobs[i].session # session
         => /\ UNCHANGED <<layers, batch, hubBatches>>
            /\ jobs[i].status = "cancelled" /\ jobs'[i].status = "cancelled"]_vars

\* A layer that is baked or waits in a batch is free for another bake in the end,
\* whatever failed, was skipped or was cancelled.
BakesSettle ==
  \A l \in Layer : ~Free(l) \/ InBatch(l) ~> Free(l) /\ ~InBatch(l)
=============================================================================
