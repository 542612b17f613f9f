-------------------------- MODULE ProjectEditorProofs --------------------------
(***************************************************************************)
(* No edit of a node graph leaves a loose end or feeds an input twice, for *)
(* any nodes, numbers of inputs and budgets.  That the graph stays acyclic *)
(* rests on Feeds, a recursion over data, and is left to TLC.              *)
(***************************************************************************)
EXTENDS ProjectEditor, TLAPS

\* The fields a graph has, whatever is in them, and that its edges are sound.
Fields == {"nodes", "inputs", "edges", "groups"}
Good(g) ==
  /\ DOMAIN g = Fields
  /\ g = [x \in Fields |-> g[x]]
  /\ Sound(g)

\* Every operator keeps a sound graph sound.

LEMMA AddNodeSound == ASSUME NEW g, Good(g), NEW n, NEW c PROVE Good(AddNode(g, n, c))
  BY DEF Good, Sound, AddNode, Fields

LEMMA WithoutSound == ASSUME NEW g, Good(g), NEW ns PROVE Good(Without(g, ns))
  BY DEF Good, Sound, Without, Fields

LEMMA PrunedSound == ASSUME NEW g, Good(g), NEW ns PROVE Good(Pruned(g, ns))
  BY DEF Good, Sound, Pruned, Fields

LEMMA RemoveEdgeSound ==
  ASSUME NEW g, Good(g), NEW from, NEW to PROVE Good(RemoveEdge(g, from, to))
  BY DEF Good, Sound, RemoveEdge, Fields

LEMMA RemoveEdgeToPortSound ==
  ASSUME NEW g, Good(g), NEW to, NEW port PROVE Good(RemoveEdgeToPort(g, to, port))
  BY DEF Good, Sound, RemoveEdgeToPort, Fields

LEMMA AddGroupSound == ASSUME NEW g, Good(g), NEW ns PROVE Good(AddGroup(g, ns))
  BY DEF Good, Sound, AddGroup, Fields

LEMMA RemoveGroupSound == ASSUME NEW g, Good(g), NEW id PROVE Good(RemoveGroup(g, id))
  BY DEF Good, Sound, RemoveGroup, Fields

\* A new edge goes to a port that has just been emptied.
LEMMA AddEdgeSound ==
  ASSUME NEW g, Good(g), NEW from, NEW to, NEW port PROVE Good(AddEdge(g, from, to, port))
<1> DEFINE h == RemoveEdgeToPort(g, to, port)
<1>1. CASE ~Known(g, from, to)
  BY <1>1 DEF AddEdge
<1>2. CASE Known(g, from, to)
  <2>1. Good(h)
    BY RemoveEdgeToPortSound
  <2>2. /\ h.nodes = g.nodes
        /\ \A e \in h.edges : e.to # to \/ e.port # port
    BY DEF Good, RemoveEdgeToPort, Fields
  <2>3. /\ Edge(from, to, port).from = from
        /\ Edge(from, to, port).to = to
        /\ Edge(from, to, port).port = port
    BY DEF Edge
  <2> DEFINE added == IF Adds(g, from, to, port) THEN {Edge(from, to, port)} ELSE {}
             after == [h EXCEPT !.edges = @ \cup added]
  <2>4. AddEdge(g, from, to, port) = after
    BY <1>2 DEF AddEdge
  <2>5. /\ DOMAIN after = Fields
        /\ after = [x \in Fields |-> after[x]]
        /\ after.nodes = h.nodes
        /\ after.edges = h.edges \cup added
    <3> HIDE DEF h, added
    <3> QED BY <2>1 DEF Good, Fields
  <2>6. Sound(after)
    <3>1. added \in {{}, {Edge(from, to, port)}}
      OBVIOUS
    <3> HIDE DEF h, added, after
    <3> QED BY <1>2, <2>1, <2>2, <2>3, <2>5, <3>1 DEF Good, Sound, Known
  <2> QED BY <2>4, <2>5, <2>6 DEF Good
<1> QED BY <1>1, <1>2

-----------------------------------------------------------------------------
EdgesInv == Good(graph) /\ Good(manifest)

LEMMA InitEdges == Init => EdgesInv
  BY DEF Init, EdgesInv, Good, Sound, Fields, EmptyGraph

\* A change is saved whole or not at all.
LEMMA ModifiedEdges ==
  ASSUME EdgesInv, NEW ds, NEW g, Good(g), Modified(ds, g) PROVE EdgesInv'
  BY DEF EdgesInv, Modified

LEMMA SetInputsSound ==
  ASSUME NEW g, Good(g), NEW n, NEW k PROVE Good([g EXCEPT !.inputs[n] = k])
  BY DEF Good, Sound, Fields

LEMMA NextEdges == EdgesInv /\ [Next]_vars => EdgesInv'
<1> SUFFICES ASSUME EdgesInv, [Next]_vars PROVE EdgesInv'
  OBVIOUS
<1> USE DEF EdgesInv
<1>1. ASSUME NEW n \in Node, AddNodeAt(n) PROVE EdgesInv'
  BY <1>1, AddNodeSound, ModifiedEdges DEF AddNodeAt
<1>2. ASSUME NEW ns, DeleteSelected(ns) PROVE EdgesInv'
  BY <1>2, WithoutSound, PrunedSound, ModifiedEdges DEF DeleteSelected, Deleted
<1>3. ASSUME NEW ns, GroupSelected(ns) PROVE EdgesInv'
  BY <1>3, AddGroupSound, ModifiedEdges DEF GroupSelected
<1>4. ASSUME NEW grp, Ungroup(grp) PROVE EdgesInv'
  BY <1>4, RemoveGroupSound, ModifiedEdges DEF Ungroup
<1>5. ASSUME NEW e, RemoveConnection(e) PROVE EdgesInv'
  BY <1>5, RemoveEdgeSound, ModifiedEdges DEF RemoveConnection
<1>6. ASSUME NEW e, PressInput(e) PROVE EdgesInv'
  BY <1>6, RemoveEdgeToPortSound, ModifiedEdges DEF PressInput
<1>7. ASSUME NEW n, NEW k, SetInputs(n, k) PROVE EdgesInv'
  BY <1>7, SetInputsSound, ModifiedEdges DEF SetInputs
<1>8. ASSUME NEW n, NEW port, ReleaseOnInput(n, port) PROVE EdgesInv'
  <2>1. Good(AddEdge(graph, drag, n, port))
    BY AddEdgeSound
  <2>2. CASE Modified({}, AddEdge(graph, drag, n, port))
    BY <2>1, <2>2, ModifiedEdges
  <2>3. CASE graph' = AddEdge(graph, drag, n, port) /\ manifest' = manifest
    BY <2>1, <2>3
  <2> QED BY <1>8, <2>2, <2>3 DEF ReleaseOnInput
<1>9. CASE SaveProject
  BY <1>9 DEF SaveProject
<1>10. CASE Reopen
  <2>1. Good(EmptyGraph)
    BY DEF EmptyGraph, Good, Sound, Fields
  <2> QED BY <1>10, <2>1 DEF Reopen
<1>11. CASE EditElsewhere \/ ReleaseElsewhere \/ (\E n \in graph.nodes : PressOutput(n)) \/ UNCHANGED vars
  BY <1>11 DEF EditElsewhere, ReleaseElsewhere, PressOutput, vars
<1> QED
  BY <1>1, <1>2, <1>3, <1>4, <1>5, <1>6, <1>7, <1>8, <1>9, <1>10, <1>11 DEF Next, GraphEdit

LEMMA EditorEdges == Spec => []EdgesSound
<1>1. EdgesInv => EdgesSound
  BY DEF EdgesInv, Good, EdgesSound
<1> QED
  BY InitEdges, NextEdges, <1>1, PTL DEF Spec

-----------------------------------------------------------------------------
\* The project is edited through the node graph window or beside it: to the window,
\* every step of the project is a step of its own, or none.
THEOREM EditorOfTheProject == ProjectSpec => Spec
<1>1. ProjectInit => Init
  BY DEF ProjectInit
<1>2. [ProjectNext]_projectVars => [Next]_vars
  <2> SUFFICES ASSUME [ProjectNext]_projectVars PROVE [Next]_vars
    OBVIOUS
  <2>1. CASE GraphStep
    BY <2>1 DEF GraphStep, Next
  <2>2. CASE ContactStep
    BY <2>2 DEF ContactStep, Next
  <2>3. CASE Save
    BY <2>3 DEF Save, Next
  <2>4. CASE ReopenProject
    BY <2>4 DEF ReopenProject, Next
  <2>5. CASE UNCHANGED projectVars
    BY <2>5 DEF projectVars
  <2> QED BY <2>1, <2>2, <2>3, <2>4, <2>5 DEF ProjectNext
<1> QED
  BY <1>1, <1>2, PTL DEF ProjectSpec, Spec

\* Whatever is edited, dragged, deleted, refused or saved, in memory and in the
\* manifest every edge joins two nodes and no input port is fed twice
\* (NodeGraph::removeNode, NodeGraph::addEdge).
THEOREM EdgesAreSound == ProjectSpec => []EdgesSound
  BY EditorEdges, EditorOfTheProject
=============================================================================
