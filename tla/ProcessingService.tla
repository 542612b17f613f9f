-------------------------- MODULE ProcessingService --------------------------
(***************************************************************************)
(* ProcessingService: graph runs in the background, of one layer or of all *)
(* layers of the project.  A run of all layers executes its requests one   *)
(* after another and delivers their results together, when it has ended.   *)
(* The service knows layers and stores by name only and is not told of a   *)
(* project switch.                                                         *)
(***************************************************************************)
EXTENDS Naturals, FiniteSets, Sequences

VARIABLES
  runs,        \* every run started: its requests and how far it is
  nextRun,
  activePaths  \* m_active_paths: baselines of layers with a run under way

serviceVars == <<runs, nextRun, activePaths>>

ServiceInit ==
  /\ runs = <<>> /\ nextRun = 1
  /\ activePaths = {}

\* A request captures the layer, its baseline store and the graph of the moment.
Request(l, path, graph) == [layer |-> l, input |-> path, graph |-> graph, outcome |-> "none"]
Paths(requests) == {requests[i].input : i \in DOMAIN requests}

\* runLayer and runAll reserve the paths and start the background function.
Reserved(requests) == Paths(requests)
Start(requests) ==
  /\ runs' = [k \in 1..nextRun |->
                IF k < nextRun THEN runs[k]
                ELSE [requests |-> requests, executed |-> 0, phase |-> "running"]]
  /\ nextRun' = nextRun + 1
  /\ activePaths' = activePaths \cup Reserved(requests)

\* runLayer: refused while a run of the same baseline is under way.
Refused_Never(path) == FALSE
Refused(path) == path \in activePaths
RunLayer(request) ==
  IF Refused(request.input)
  THEN UNCHANGED serviceVars
  ELSE Start(<<request>>)

\* runAll of the layers whose baseline is not in use; with none it is over.
RunAll(requests) ==
  IF requests = <<>> THEN UNCHANGED serviceVars ELSE Start(requests)

\* executeRequest for the next request of run k, on a pool thread.
Under(k) == runs[k].phase = "running"
Ended(k) == runs[k].executed = Len(runs[k].requests)
NextOf(k) == runs[k].requests[runs[k].executed + 1]
Execute(k, outcome) ==
  /\ Under(k) /\ ~Ended(k)
  /\ runs' = [runs EXCEPT ![k].executed = @ + 1,
                          ![k].requests[runs[k].executed + 1].outcome = outcome]
  /\ UNCHANGED <<nextRun, activePaths>>

\* The finished handler frees the paths, then signals every result.
Deliver(k) ==
  /\ Under(k) /\ Ended(k)
  /\ runs' = [runs EXCEPT ![k].phase = "delivered"]
  /\ activePaths' = activePaths \ Paths(runs[k].requests)
  /\ UNCHANGED nextRun

\* The requests of run k whose results are persisted; each is signalled, and they are
\* of different layers.
Persisted(k) == {r \in {runs[k].requests[i] : i \in DOMAIN runs[k].requests} :
                   r.outcome = "persisted"}
=============================================================================
