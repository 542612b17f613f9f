------------------------------- MODULE NodeGraph -------------------------------
(***************************************************************************)
(* pipeline::NodeGraph: its structure, the order in which execute runs its *)
(* nodes, and what fromJson accepts.                                       *)
(*                                                                         *)
(* A graph is its nodes, the inputCount of each, its edges and its groups. *)
(* The edges are a set: a port has one at most, and their order only says  *)
(* which of the nodes that are ready runs first.  Positions and the other  *)
(* parameters do not matter here, nor do dirty flags and caches: a graph   *)
(* that is edited is never executed, and the copy a run makes with         *)
(* fromJson has everything dirty.                                          *)
(***************************************************************************)
EXTENDS Naturals, SequencesExt

EmptyGraph == [nodes |-> {}, inputs |-> <<>>, edges |-> {}, groups |-> <<>>]

Edge(from, to, port) == [from |-> from, to |-> to, port |-> port]
Group(id, members)   == [id |-> id, members |-> members]

AddNode(g, n, count) ==
  [g EXCEPT !.nodes = @ \cup {n},
            !.inputs = [m \in g.nodes \cup {n} |-> IF m = n THEN count ELSE g.inputs[m]]]

\* removeNode of each of some nodes.
Without_KeepsIn(g, ns) ==
  [g EXCEPT !.nodes = @ \ ns, !.inputs = [m \in g.nodes \ ns |-> g.inputs[m]],
            !.edges = {e \in @ : e.from \notin ns}]
Without(g, ns) ==
  [g EXCEPT !.nodes = @ \ ns, !.inputs = [m \in g.nodes \ ns |-> g.inputs[m]],
            !.edges = {e \in @ : e.from \notin ns /\ e.to \notin ns}]

RemoveEdge(g, from, to) == [g EXCEPT !.edges = {e \in @ : e.from # from \/ e.to # to}]
RemoveEdgeToPort(g, to, port) ==
  [g EXCEPT !.edges = {e \in @ : e.to # to \/ e.port # port}]

\* The nodes that a node feeds, itself included.
Feeds(g, n) ==
  LET after(ns) == ns \cup {e.to : e \in {x \in g.edges : x.from \in ns}}
      within[k \in 0..Cardinality(g.nodes)] == IF k = 0 THEN {n} ELSE after(within[k - 1])
  IN within[Cardinality(g.nodes)]

WouldCreateCycle_Direct(g, from, to) == \E e \in g.edges : e.from = to /\ e.to = from
WouldCreateCycle(g, from, to) == from \in Feeds(g, to)

\* addEdge empties the port before it asks for a cycle; a refused edge leaves it empty.
Known(g, from, to) == from # to /\ {from, to} \subseteq g.nodes
Adds(g, from, to, port) ==
  Known(g, from, to) /\ ~WouldCreateCycle(RemoveEdgeToPort(g, to, port), from, to)
AddEdge(g, from, to, port) ==
  IF Known(g, from, to)
  THEN [RemoveEdgeToPort(g, to, port) EXCEPT
          !.edges = @ \cup (IF Adds(g, from, to, port) THEN {Edge(from, to, port)} ELSE {})]
  ELSE g

\* addGroup names a group by the number of groups there are.
AddGroup(g, members) == [g EXCEPT !.groups = Append(@, Group(Len(@), members))]
RemoveGroup(g, id) == [g EXCEPT !.groups = SelectSeq(@, LAMBDA grp : grp.id # id)]

-----------------------------------------------------------------------------
(* topoSort: a stack of nodes all of whose upstream nodes are in order.    *)

EdgesInto(g, froms, n) == Cardinality({e \in g.edges : e.from \in froms /\ e.to = n})

SortStart(g) ==
  LET degree == [n \in g.nodes |-> EdgesInto(g, g.nodes, n)]
  IN [degree |-> degree, stack |-> SetToSeq({n \in g.nodes : degree[n] = 0}), order |-> <<>>]

SortStep(g, s) ==
  IF s.stack = <<>> THEN s
  ELSE LET cur    == Last(s.stack)
           degree == [n \in g.nodes |-> s.degree[n] - EdgesInto(g, {cur}, n)]
           freed  == {n \in g.nodes : degree[n] = 0 /\ s.degree[n] > 0}
       IN [degree |-> degree, stack |-> Front(s.stack) \o SetToSeq(freed),
           order |-> Append(s.order, cur)]

TopoSort(g) ==
  LET done[k \in 0..Cardinality(g.nodes)] ==
        IF k = 0 THEN SortStart(g) ELSE SortStep(g, done[k - 1])
      order == done[Cardinality(g.nodes)].order
  IN IF Len(order) = Cardinality(g.nodes) THEN order ELSE <<>>

-----------------------------------------------------------------------------
(* fromJson reads all of a document into a graph of its own, edge by edge  *)
(* with addEdge, and takes its place; or it refuses and changes nothing.   *)

EdgesValid(doc) ==
  /\ \A e \in doc.edges :
       /\ Known(doc, e.from, e.to)
       /\ e.port < doc.inputs[e.to]
       /\ ~WouldCreateCycle(doc, e.from, e.to)
  /\ \A e, f \in doc.edges : e.to = f.to /\ e.port = f.port => e = f

GroupsValid(doc) ==
  \A i \in DOMAIN doc.groups :
    /\ doc.groups[i].members \subseteq doc.nodes
    /\ \A j \in DOMAIN doc.groups : doc.groups[i].id = doc.groups[j].id => i = j

FromJson(doc) == EdgesValid(doc) /\ GroupsValid(doc)
=============================================================================
