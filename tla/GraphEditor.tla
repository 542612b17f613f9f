------------------------------ MODULE GraphEditor ------------------------------
(***************************************************************************)
(* The node graph window on the graph of a project, with the manifest that *)
(* autoSave writes after each change and from which the project is opened  *)
(* again.  An edge is drawn by dragging; keys work while the mouse is held.*)
(***************************************************************************)
EXTENDS NodeGraph

CONSTANTS
  Node,     \* ids, each used once
  CountOf,  \* the inputs a node starts with
  Wide,     \* MultiMerge nodes, whose inputs are a parameter
  Widths,   \* bound: the values it is given, of 2..8
  NoNode,
  Plans     \* bounds: budgets, each saying how often the operator does each thing

Deed == {"add", "delete", "drag", "unlink", "group", "ungroup", "widen", "narrow", "fail", "reopen"}

ASSUME EditorAssumption ==
  /\ NoNode \notin Node
  /\ CountOf \in [Node -> Nat \ {0}] /\ Wide \subseteq Node /\ Widths \subseteq 2..8
  /\ Plans \subseteq [Deed -> Nat]

VARIABLES
  graph,     \* the project's processing_graph
  drag,      \* m_edge_from while an edge is being dragged
  dirty,     \* m_project_dirty
  manifest,  \* the graph in the file
  opened,    \* the project is open; a manifest that is refused leaves none
  used,      \* ids given out
  left       \* what is left of the budget

vars == <<graph, drag, dirty, manifest, opened, used, left>>

Init ==
  /\ graph = EmptyGraph /\ manifest = EmptyGraph
  /\ drag = NoNode /\ dirty = FALSE /\ opened = TRUE /\ used = {}
  /\ left \in Plans

Does(ds) ==
  /\ opened /\ \A d \in ds : left[d] > 0
  /\ left' = [d \in Deed |-> IF d \in ds THEN left[d] - 1 ELSE left[d]]

\* graphModified: the project is dirty, and clean again if it can be saved.
Modified(ds, g) ==
  /\ graph' = g
  /\ \/ Does(ds) /\ manifest' = g /\ dirty' = FALSE
     \/ Does(ds \cup {"fail"}) /\ manifest' = manifest /\ dirty' = TRUE
  /\ opened' = opened

AddNodeAt(n) ==
  /\ n \notin used /\ used' = used \cup {n}
  /\ Modified({"add"}, AddNode(graph, n, CountOf[n]))
  /\ drag' = drag

\* A group whose last member goes stays, out of sight.
Pruned(g, ns) ==
  [g EXCEPT !.groups = [i \in DOMAIN @ |-> [@[i] EXCEPT !.members = @ \ ns]]]
Deleted_KeepsMembers(g, ns) == Without(g, ns)
Deleted(g, ns) == Pruned(Without(g, ns), ns)

\* The keys work during a drag too, on the selection made before it.
DeleteSelected(ns) ==
  /\ ns # {}
  /\ Modified({"delete"}, Deleted(graph, ns))
  /\ UNCHANGED <<drag, used>>

GroupSelected(ns) ==
  /\ \E n, m \in ns : n # m
  /\ Modified({"group"}, AddGroup(graph, ns))
  /\ UNCHANGED <<drag, used>>

\* A group is found by its header, and one without members has none.
Ungroup(grp) ==
  /\ grp.members # {}
  /\ Modified({"ungroup"}, RemoveGroup(graph, grp.id))
  /\ UNCHANGED <<drag, used>>

RemoveConnection(e) ==
  /\ Modified({"unlink"}, RemoveEdge(graph, e.from, e.to))
  /\ UNCHANGED <<drag, used>>

SetInputs(n, k) ==
  /\ n \in Wide /\ k # graph.inputs[n]
  /\ Modified({IF k > graph.inputs[n] THEN "widen" ELSE "narrow"},
              [graph EXCEPT !.inputs[n] = k])
  /\ UNCHANGED <<drag, used>>

PressOutput(n) ==
  /\ drag = NoNode /\ Does({"drag"})
  /\ drag' = n
  /\ UNCHANGED <<graph, dirty, manifest, opened, used>>

\* Pressing an occupied input takes its edge off and drags it from its source.
PressInput(e) ==
  /\ drag = NoNode /\ e.port < graph.inputs[e.to]
  /\ Modified({"drag"}, RemoveEdgeToPort(graph, e.to, e.port))
  /\ drag' = e.from
  /\ UNCHANGED used

\* Only an edge that was added is a change; a refused one may still have emptied the port.
ReleaseOnInput(to, port) ==
  /\ drag \notin {NoNode, to}
  /\ port < graph.inputs[to]
  /\ \/ /\ Adds(graph, drag, to, port)
        /\ Modified({}, AddEdge(graph, drag, to, port))
     \/ /\ ~Adds(graph, drag, to, port)
        /\ opened /\ graph' = AddEdge(graph, drag, to, port)
        /\ UNCHANGED <<dirty, manifest, opened, left>>
  /\ drag' = NoNode /\ used' = used

ReleaseElsewhere ==
  /\ opened /\ drag # NoNode /\ drag' = NoNode
  /\ UNCHANGED <<graph, dirty, manifest, opened, used, left>>

SaveProject ==
  /\ opened /\ manifest' = graph /\ dirty' = FALSE
  /\ UNCHANGED <<graph, drag, opened, used, left>>

\* Anything else of the project is edited: Project::modified.
EditElsewhere ==
  /\ opened /\ dirty' \in {dirty, TRUE}
  /\ UNCHANGED <<graph, drag, manifest, opened, used, left>>

\* The project is closed without saving, or the program ends; then it is opened again.
\* The file can be refused for the rest of what is in it, too.
Reopen ==
  /\ Does({"reopen"})
  /\ opened' \in {FALSE, FromJson(manifest)}
  /\ graph' = IF opened' THEN manifest ELSE EmptyGraph
  /\ drag' = NoNode /\ dirty' = FALSE
  /\ UNCHANGED <<manifest, used>>

GraphEdit ==
  \/ \E n \in Node : AddNodeAt(n)
  \/ \E ns \in SUBSET graph.nodes : DeleteSelected(ns) \/ GroupSelected(ns)
  \/ \E grp \in ToSet(graph.groups) : Ungroup(grp)
  \/ \E e \in graph.edges : RemoveConnection(e) \/ PressInput(e)
  \/ \E n \in graph.nodes : PressOutput(n) \/ \E k \in Widths : SetInputs(n, k)
  \/ \E n \in graph.nodes, port \in 0..7 : ReleaseOnInput(n, port)
  \/ ReleaseElsewhere

Next == GraphEdit \/ EditElsewhere \/ SaveProject \/ Reopen
Spec == Init /\ [][Next]_vars

-----------------------------------------------------------------------------
(* Every edge joins two nodes of the graph and no input is fed twice, also *)
(* in the file: deletes, reroutes and refused connections leave neither a  *)
(* loose end nor a second edge on a port (NodeGraph::removeNode, addEdge). *)
Sound(g) ==
  /\ \A e \in g.edges : e.from \in g.nodes /\ e.to \in g.nodes /\ e.from # e.to
  /\ \A e, f \in g.edges : e.to = f.to /\ e.port = f.port => e = f
EdgesSound == Sound(graph) /\ Sound(manifest)

(* The graph a run is given can always be run: the order that execute      *)
(* computes has every node, and none before a node that feeds it           *)
(* (NodeGraph::topoSort, wouldCreateCycle).                                *)
TopoComplete ==
  LET order == TopoSort(graph)
      at(n) == CHOOSE i \in DOMAIN order : order[i] = n
  IN /\ ToSet(order) = graph.nodes
     /\ \A e \in graph.edges : at(e.from) < at(e.to)

(* What was saved can be read back: a project whose graph fromJson refuses *)
(* cannot be opened at all (tests/test_node_graph.cpp has it of the graphs *)
(* it writes: CHECK(loaded.fromJson(serialized))).                         *)
Reopens == FromJson(manifest)
=============================================================================
