----------------------------- MODULE TaskGraphs -----------------------------
(***************************************************************************)
(* TaskGraph.validate_graph (src/onshape_agent/contracts.py): what every   *)
(* task graph passes when it is made, the loop that looks for a cycle      *)
(* included.  The loop visits the node queued last; here it is any queued  *)
(* node, as the verdict must not depend on it.                             *)
(***************************************************************************)
EXTENDS Orchestrator, FiniteSets

CONSTANTS
    Nodes,   \* the ids nodes and edges may have
    Graphs   \* the graphs that may be made

Edge  == [source : Nodes, target : Nodes]
Graph == [nodes : Seq(Nodes), edges : Seq(Edge)]
NoGraph == [nodes |-> <<>>, edges |-> <<>>]

ASSUME GraphsAssumption == Graphs \subseteq Graph

VARIABLES
    graph,    \* the graph under validation
    verdict,  \* "made", "visiting", then "valid" or the error
    pending,  \* indegree: per node, the edges to it from nodes not yet visited
    queue,    \* the nodes to visit
    visited   \* the nodes visited, in order: the code counts them

graphVars == <<graph, verdict, pending, queue, visited>>

Known == {graph.nodes[i] : i \in DOMAIN graph.nodes}

\* The edges between two nodes: an edge may be repeated.
Edges(from, to) ==
    {k \in DOMAIN graph.edges : graph.edges[k].source \in from /\ graph.edges[k].target \in to}

GraphInit ==
    /\ graph \in Graphs
    /\ verdict = "made"
    /\ pending = [n \in {} |-> 0]
    /\ queue = {}
    /\ visited = <<>>

Duplicates == Cardinality(Known) # Len(graph.nodes)
MissingNode == Edges(Known, Known) # DOMAIN graph.edges

Reject ==
    /\ verdict = "made" /\ (Duplicates \/ MissingNode)
    /\ verdict' = IF Duplicates THEN "duplicate" ELSE "missing"
    /\ UNCHANGED <<graph, pending, queue, visited>>

Indegree(n) == Cardinality(Edges(Known, {n}))

CountEdges ==
    /\ verdict = "made" /\ ~Duplicates /\ ~MissingNode
    /\ verdict' = "visiting"
    /\ pending' = [n \in Known |-> Indegree(n)]
    /\ queue' = {n \in Known : Indegree(n) = 0}
    /\ UNCHANGED <<graph, visited>>

\* Mutant: a node is queued again by every edge that leads to it.
VisitEager(n) ==
    /\ verdict = "visiting"
    /\ visited' = Append(visited, n)
    /\ pending' = [m \in Known |-> pending[m] - Cardinality(Edges({n}, {m}))]
    /\ queue' = (queue \ {n}) \union {m \in Known : Edges({n}, {m}) # {}}
    /\ UNCHANGED <<graph, verdict>>

Visit(n) ==
    /\ verdict = "visiting"
    /\ visited' = Append(visited, n)
    /\ pending' = [m \in Known |-> pending[m] - Cardinality(Edges({n}, {m}))]
    /\ queue' = (queue \ {n}) \union {m \in Known : Edges({n}, {m}) # {} /\ pending'[m] = 0}
    /\ UNCHANGED <<graph, verdict>>

\* Mutant: a graph none of whose nodes could be visited is not looked at.
ConcludeStarted ==
    /\ verdict = "visiting" /\ queue = {}
    /\ verdict' = IF Len(visited) \notin {0, Len(graph.nodes)} THEN "cycle" ELSE "valid"
    /\ UNCHANGED <<graph, pending, queue, visited>>

\* Mutant: the loop waits until all nodes are visited.
ConcludeComplete ==
    /\ verdict = "visiting" /\ Len(visited) = Len(graph.nodes)
    /\ verdict' = "valid"
    /\ UNCHANGED <<graph, pending, queue, visited>>

Conclude ==
    /\ verdict = "visiting" /\ queue = {}
    /\ verdict' = IF Len(visited) # Len(graph.nodes) THEN "cycle" ELSE "valid"
    /\ UNCHANGED <<graph, pending, queue, visited>>

GraphNext == Reject \/ CountEdges \/ (\E n \in queue : Visit(n)) \/ Conclude

GraphSpec == GraphInit /\ [][GraphNext]_graphVars

-----------------------------------------------------------------------------
(* Properties.                                                             *)

\* Every variable has its type.
GraphTypeOK ==
    /\ graph \in Graph
    /\ verdict \in {"made", "visiting", "valid", "duplicate", "missing", "cycle"}
    /\ queue \subseteq Known
    /\ visited \in Seq(Known)
    /\ verdict \in {"visiting", "valid", "cycle"} => pending \in [Known -> Nat]

\* A cycle: nodes each of which has an edge from one of them.
Cycle(S) == S # {} /\ \A n \in S : Edges(S, {n}) # {}

\* No graph that the orchestrator selects is refused, and its tasks can be done
\* in one order only, the one in which it lists them.
SelectedGraphsStand ==
    \A kind \in DOMAIN Capabilities :
        graph = SelectGraph(kind) =>
            /\ verdict \in {"made", "visiting", "valid"}
            /\ verdict = "valid" => visited = graph.nodes

\* A graph is accepted exactly if its tasks can be done one after another:
\* whatever node is visited next, a graph with a cycle is refused as such, and
\* one without is not, repeated edges and edges from a node to itself included;
\* so every graph of the orchestrator stands.
GraphVerdictExact ==
    /\ verdict = "valid" => \A S \in SUBSET Known : ~Cycle(S)
    /\ verdict = "cycle" => \E S \in SUBSET Known : Cycle(S)
    /\ verdict \in {"valid", "cycle"} => ~Duplicates /\ ~MissingNode
    /\ SelectedGraphsStand

\* No node is visited twice, or before all the nodes with an edge to it: the
\* count that is compared with the number of nodes counts each once, and no
\* indegree falls below zero.
VisitsInOrder ==
    /\ GraphTypeOK
    /\ \A i, j \in DOMAIN visited : visited[i] = visited[j] => i = j
    /\ \A i \in DOMAIN visited :
           \A k \in Edges(Known, {visited[i]}) :
               \E j \in 1..(i - 1) : /\ visited[j] = graph.edges[k].source
                                     /\ visited[j] # visited[i]
=============================================================================
