-------------------------- MODULE TaskGraphsProofs --------------------------
(***************************************************************************)
(* Theorems about TaskGraphs for every graph: of any size, with repeated   *)
(* edges and edges from a node to itself, visited in any order.            *)
(***************************************************************************)
EXTENDS TaskGraphs, PolicyProofs

-----------------------------------------------------------------------------
(* Graphs.                                                                 *)

\* The nodes of a graph are finitely many, and so are its edges.
LEMMA GraphFinite ==
  ASSUME graph \in Graph
  PROVE  /\ Known \subseteq Nodes /\ IsFiniteSet(Known)
         /\ Len(graph.nodes) \in Nat /\ DOMAIN graph.nodes = 1..Len(graph.nodes)
         /\ IsFiniteSet(DOMAIN graph.edges)
         /\ \A from, to : IsFiniteSet(Edges(from, to)) /\ Edges(from, to) \subseteq DOMAIN graph.edges
<1>1. graph.nodes \in Seq(Nodes) /\ graph.edges \in Seq(Edge)
  BY DEF Graph
<1> PICK nodes : nodes = graph.nodes
  OBVIOUS
<1> PICK n : n = Len(nodes)
  OBVIOUS
<1>2. nodes \in Seq(Nodes) /\ n \in Nat /\ DOMAIN nodes = 1..n
  BY <1>1
<1>3. IsFiniteSet(1..n)
  BY <1>2, FS_Interval
<1>4. Known = {nodes[i] : i \in 1..n}
  BY <1>2 DEF Known
<1>5. Known \subseteq Nodes
  BY <1>2, <1>4
<1>6. IsFiniteSet(Known)
  <2>1. nodes \in Surjection(1..n, Known)
    BY <1>2, <1>4 DEF Surjection
  <2> QED
    BY <1>3, <2>1, FS_Surjection
<1>7. IsFiniteSet(DOMAIN graph.edges)
  <2> PICK m : m = Len(graph.edges)
    OBVIOUS
  <2>1. m \in Nat
    BY <1>1
  <2>2. DOMAIN graph.edges = 1..m
    BY <1>1
  <2>3. IsFiniteSet(1..m)
    BY ONLY <2>1, FS_Interval
  <2> QED
    BY <2>2, <2>3
<1>8. ASSUME NEW from, NEW to
      PROVE  IsFiniteSet(Edges(from, to)) /\ Edges(from, to) \subseteq DOMAIN graph.edges
  <2>1. Edges(from, to) \subseteq DOMAIN graph.edges
    BY DEF Edges
  <2> QED
    BY <1>7, <2>1, FS_Subset
<1> QED
  BY <1>2, <1>5, <1>6, <1>7, <1>8

-----------------------------------------------------------------------------
(* The inductive invariant.                                                *)

Seen == {visited[i] : i \in DOMAIN visited}

\* The loop is under way, or has ended.
Visiting == verdict \in {"visiting", "valid", "cycle"}

\* indegree counts the edges from the nodes not yet visited, and the queue holds
\* those of them that no such edge leads to.
Pendings ==
    Visiting =>
        /\ ~Duplicates /\ ~MissingNode
        /\ \A n \in Known : pending[n] = Cardinality(Edges(Known \ Seen, {n}))
        /\ queue = {n \in Known \ Seen : pending[n] = 0}

\* A node is visited once.
VisitedOnce == \A i, k \in DOMAIN visited : visited[i] = visited[k] => i = k

\* A node is visited after those with an edge to it.
SourcesFirst ==
    \A i \in DOMAIN visited : \A k \in Edges(Known, {visited[i]}) :
        \E j \in 1..(i - 1) : visited[j] = graph.edges[k].source

\* Each verdict has its reason.
Reasons ==
    /\ verdict \notin {"visiting", "valid", "cycle"} => visited = <<>> /\ queue = {}
    /\ verdict = "duplicate" => Duplicates
    /\ verdict = "missing" => MissingNode
    /\ verdict = "valid" => queue = {} /\ Len(visited) = Len(graph.nodes)
    /\ verdict = "cycle" => queue = {} /\ Len(visited) # Len(graph.nodes)

GraphInv == GraphTypeOK /\ Pendings /\ VisitedOnce /\ SourcesFirst /\ Reasons

\* When `n` is visited exactly the edges from it stop counting.
LEMMA OneLessPending ==
  ASSUME graph \in Graph, NEW S, S \subseteq Known, NEW n \in Known \ S, NEW m
  PROVE  /\ Cardinality(Edges(Known \ S, {m})) \in Nat
         /\ Cardinality(Edges(Known \ (S \union {n}), {m})) \in Nat
         /\ Cardinality(Edges(Known \ (S \union {n}), {m}))
               = Cardinality(Edges(Known \ S, {m})) - Cardinality(Edges({n}, {m}))
         /\ Cardinality(Edges({n}, {m})) \in Nat
         /\ Cardinality(Edges({n}, {m})) = 0 <=> Edges({n}, {m}) = {}
<1> DEFINE W == Edges(Known \ S, {m})
           T == Edges({n}, {m})
           U == Edges(Known \ (S \union {n}), {m})
<1>1. T \subseteq W /\ U = W \ T
  BY DEF Edges
<1>2. IsFiniteSet(W)
  BY GraphFinite
<1> HIDE DEF W, T, U
<1>3. /\ Cardinality(W \ T) = Cardinality(W) - Cardinality(T)
      /\ Cardinality(W) \in Nat /\ Cardinality(T) \in Nat /\ Cardinality(W \ T) \in Nat
      /\ Cardinality(T) = 0 <=> T = {}
  BY <1>1, <1>2, WithoutPart
<1> QED
  BY <1>1, <1>3 DEF W, T, U

\* The invariant holds of a graph that is made.
LEMMA GraphInvInit == GraphInit => GraphInv
BY GraphsAssumption DEF GraphInit, GraphInv, GraphTypeOK, Pendings, Visiting, VisitedOnce,
   SourcesFirst, Reasons

\* What depends on the graph alone stays.
LEMMA SameGraph ==
  ASSUME graph' = graph
  PROVE  /\ Known' = Known /\ (Duplicates <=> Duplicates') /\ (MissingNode <=> MissingNode')
         /\ \A from, to : Edges(from, to)' = Edges(from, to)
<1>1. Known' = Known /\ \A from, to : Edges(from, to)' = Edges(from, to)
  BY DEF Known, Edges
<1> QED
  BY <1>1 DEF Duplicates, MissingNode

\* A graph that is refused as it is made has nothing visited.
LEMMA RejectKeeps == GraphInv /\ Reject => GraphInv'
<1> SUFFICES ASSUME GraphInv, Reject PROVE GraphInv'
  OBVIOUS
<1>1. /\ graph' = graph /\ visited' = visited /\ queue' = queue /\ pending' = pending
      /\ verdict = "made" /\ verdict' \in {"duplicate", "missing"}
      /\ verdict' = "duplicate" => Duplicates
      /\ verdict' = "missing" => MissingNode
  BY DEF Reject
<1>2. visited = <<>> /\ queue = {}
  BY <1>1 DEF GraphInv, Reasons
<1>3. VisitedOnce' /\ SourcesFirst'
  BY <1>1, <1>2 DEF VisitedOnce, SourcesFirst
<1>4. Reasons' /\ Pendings'
  BY <1>1, <1>2, SameGraph DEF Reasons, Pendings, Visiting
<1>5. GraphTypeOK'
  BY <1>1, <1>2, SameGraph DEF GraphInv, GraphTypeOK
<1> QED
  BY <1>3, <1>4, <1>5 DEF GraphInv

\* Before the first visit every edge counts.
LEMMA CountEdgesKeeps == GraphInv /\ CountEdges => GraphInv'
<1> SUFFICES ASSUME GraphInv, CountEdges PROVE GraphInv'
  OBVIOUS
<1>1. /\ graph' = graph /\ visited' = visited /\ verdict = "made" /\ verdict' = "visiting"
      /\ ~Duplicates /\ ~MissingNode
      /\ pending' = [n \in Known |-> Indegree(n)]
      /\ queue' = {n \in Known : Indegree(n) = 0}
  BY DEF CountEdges
<1>2. visited = <<>> /\ graph \in Graph
  BY <1>1 DEF GraphInv, GraphTypeOK, Reasons
<1>3. Seen' = {} /\ Known \ {} = Known
  BY <1>1, <1>2 DEF Seen
<1>4. \A n \in Known : /\ Indegree(n) = Cardinality(Edges(Known, {n})) /\ Indegree(n) \in Nat
                       /\ pending'[n] = Indegree(n)
  BY <1>1, <1>2, GraphFinite, FS_CardinalityType DEF Indegree
<1>5. Pendings'
  <2>1. \A n \in Known : pending'[n] = Cardinality(Edges(Known \ Seen', {n}))
    BY <1>3, <1>4
  <2>2. queue' = {n \in Known \ Seen' : pending'[n] = 0}
    BY <1>1, <1>3, <1>4
  <2> QED
    BY <1>1, <2>1, <2>2, SameGraph DEF Pendings
<1>6. VisitedOnce' /\ SourcesFirst' /\ Reasons'
  BY <1>1, <1>2 DEF VisitedOnce, SourcesFirst, Reasons
<1>7. GraphTypeOK'
  BY <1>1, <1>2, <1>4, SameGraph DEF GraphInv, GraphTypeOK
<1> QED
  BY <1>5, <1>6, <1>7 DEF GraphInv

\* No edge that counts leads to a node that was visited.
LEMMA SeenIsFree ==
  ASSUME GraphInv, NEW m \in Seen
  PROVE  Edges(Known \ Seen, {m}) = {}
<1>1. PICK i \in DOMAIN visited : visited[i] = m
  BY DEF Seen
<1>2. DOMAIN visited = 1..Len(visited) /\ Len(visited) \in Nat
  BY DEF GraphInv, GraphTypeOK
<1>3. ASSUME NEW k \in Edges(Known, {m}) PROVE graph.edges[k].source \in Seen
  <2>1. PICK j \in 1..(i - 1) : visited[j] = graph.edges[k].source
    BY <1>1, <1>3 DEF GraphInv, SourcesFirst
  <2>2. j \in DOMAIN visited
    BY <1>2, <2>1
  <2> QED
    BY <2>1, <2>2 DEF Seen
<1> QED
  BY <1>3 DEF Edges

\* A node is visited: the counts follow, it was not visited before, and those
\* with an edge to it were.
LEMMA VisitKeeps ==
  ASSUME GraphInv, NEW n \in queue, Visit(n)
  PROVE  GraphInv'
<1> DEFINE h == Len(visited)
<1>1. /\ graph' = graph /\ verdict = "visiting" /\ verdict' = "visiting"
      /\ graph \in Graph /\ visited \in Seq(Known) /\ h \in Nat /\ DOMAIN visited = 1..h
      /\ pending \in [Known -> Nat]
      /\ pending' = [m \in Known |-> pending[m] - Cardinality(Edges({n}, {m}))]
      /\ queue' = (queue \ {n}) \union {m \in Known : Edges({n}, {m}) # {} /\ pending'[m] = 0}
  BY DEF Visit, GraphInv, GraphTypeOK
<1>2. /\ ~Duplicates /\ ~MissingNode
      /\ \A m \in Known : pending[m] = Cardinality(Edges(Known \ Seen, {m}))
      /\ queue = {m \in Known \ Seen : pending[m] = 0}
  BY <1>1 DEF GraphInv, Pendings, Visiting
<1>3. n \in Known /\ n \notin Seen /\ pending[n] = 0 /\ Seen \subseteq Known
  BY <1>1, <1>2 DEF Seen
<1>4. /\ visited' \in Seq(Known) /\ DOMAIN visited' = 1..(h + 1) /\ Len(visited') = h + 1
      /\ visited'[h + 1] = n /\ \A i \in 1..h : visited'[i] = visited[i]
  BY <1>1, <1>3 DEF Visit
<1>5. Seen' = Seen \union {n} /\ Seen = {visited[i] : i \in 1..h}
  <2>1. Seen = {visited[i] : i \in 1..h}
    BY <1>1 DEF Seen
  <2>2. Seen' = {visited'[i] : i \in 1..(h + 1)}
    BY <1>4 DEF Seen
  <2>3. 1..(h + 1) = (1..h) \union {h + 1}
    BY <1>1
  <2>4. Seen' = {visited'[i] : i \in 1..h} \union {n}
    BY <1>4, <2>2, <2>3
  <2> QED
    BY <1>4, <2>1, <2>4
<1>6. ASSUME NEW m \in Known
      PROVE  /\ pending'[m] = Cardinality(Edges(Known \ Seen', {m})) /\ pending'[m] \in Nat
             /\ Edges({n}, {m}) = {} => pending'[m] = pending[m]
             /\ Edges({n}, {m}) # {} => pending[m] # 0
  <2>1. pending[m] = Cardinality(Edges(Known \ Seen, {m}))
    BY <1>2
  <2>2. pending'[m] = pending[m] - Cardinality(Edges({n}, {m}))
    BY <1>1
  <2>3. /\ Cardinality(Edges(Known \ Seen, {m})) \in Nat
        /\ Cardinality(Edges(Known \ (Seen \union {n}), {m})) \in Nat
        /\ Cardinality(Edges(Known \ (Seen \union {n}), {m}))
              = Cardinality(Edges(Known \ Seen, {m})) - Cardinality(Edges({n}, {m}))
        /\ Cardinality(Edges({n}, {m})) \in Nat
        /\ Cardinality(Edges({n}, {m})) = 0 <=> Edges({n}, {m}) = {}
    BY <1>1, <1>3, OneLessPending
  <2>4. \A a, b, c \in Nat : a = b - c => (c = 0 => a = b) /\ (c # 0 => b # 0)
    OBVIOUS
  <2>5. /\ pending[m] \in Nat /\ pending'[m] \in Nat /\ Cardinality(Edges({n}, {m})) \in Nat
        /\ pending'[m] = Cardinality(Edges(Known \ Seen', {m}))
    <3>1. pending'[m] = Cardinality(Edges(Known \ (Seen \union {n}), {m}))
      BY ONLY <2>1, <2>2, <2>3
    <3> QED
      BY ONLY <1>5, <2>1, <2>3, <3>1
  <2>6. /\ Cardinality(Edges({n}, {m})) = 0 => pending'[m] = pending[m]
        /\ Cardinality(Edges({n}, {m})) # 0 => pending[m] # 0
    BY ONLY <2>2, <2>4, <2>5
  <2> QED
    BY ONLY <2>3, <2>5, <2>6
<1>7. GraphTypeOK'
  <2>1. pending' \in [Known -> Nat]
    BY <1>1, <1>6
  <2>2. queue' \subseteq Known
    BY <1>1, <1>2
  <2> QED
    BY <1>1, <1>4, <2>1, <2>2, SameGraph DEF GraphTypeOK
<1>8. Pendings'
  <2>1. ASSUME NEW m \in Known
        PROVE  m \in queue' <=> m \notin Seen' /\ pending'[m] = 0
    <3>1. CASE Edges({n}, {m}) = {}
      BY <1>1, <1>2, <1>5, <1>6, <3>1
    <3>2. CASE Edges({n}, {m}) # {}
      <4>1. pending[m] # 0 /\ m # n /\ m \notin queue
        BY <1>2, <1>3, <1>6, <3>2
      <4>2. m \notin Seen
        <5>1. Edges(Known \ Seen, {m}) # {}
          BY <1>3, <3>2 DEF Edges
        <5> QED
          BY <5>1, SeenIsFree
      <4> QED
        BY <1>1, <1>5, <3>2, <4>1, <4>2
    <3> QED
      BY <3>1, <3>2
  <2>2. queue' \subseteq Known
    BY <1>1, <1>2
  <2>3. queue' = {m \in Known \ Seen' : pending'[m] = 0}
    BY <2>1, <2>2
  <2>4. \A m \in Known : pending'[m] = Cardinality(Edges(Known \ Seen', {m}))
    BY <1>6
  <2>5. Known' = Known /\ ~Duplicates' /\ ~MissingNode'
    BY <1>1, <1>2, SameGraph
  <2>6. \A m \in Known' : pending'[m] = Cardinality(Edges(Known \ Seen, {m})')
    <3>1. \A m : Edges(Known \ Seen, {m})' = Edges(Known \ Seen', {m})
      BY <1>1, <2>5 DEF Edges
    <3> QED
      BY <2>4, <2>5, <3>1
  <2>7. queue' = {m \in (Known \ Seen)' : pending'[m] = 0}
    BY <2>3, <2>5
  <2> QED
    BY <2>5, <2>6, <2>7 DEF Pendings
<1>9. VisitedOnce'
  <2>1. \A i \in 1..h : visited[i] # n
    BY <1>3, <1>5
  <2>2. SUFFICES ASSUME NEW i \in 1..(h + 1), NEW k \in 1..(h + 1), visited'[i] = visited'[k]
                 PROVE  i = k
    BY <1>4 DEF VisitedOnce
  <2>3. CASE i \in 1..h /\ k \in 1..h
    BY <1>1, <1>4, <2>2, <2>3 DEF GraphInv, VisitedOnce
  <2>4. CASE i = h + 1 /\ k \in 1..h
    BY <1>4, <2>1, <2>2, <2>4
  <2>5. CASE i \in 1..h /\ k = h + 1
    BY <1>4, <2>1, <2>2, <2>5
  <2> QED
    BY <1>1, <2>3, <2>4, <2>5
<1>10. SourcesFirst'
  <2>1. DOMAIN visited' = 1..(h + 1) /\ graph' = graph
    BY <1>1, <1>4
  <2>2. Known' = Known
    BY <2>1, SameGraph
  <2>3. \A m : Edges(Known, {visited[m]})' = Edges(Known, {visited'[m]})
    BY ONLY <2>1, <2>2 DEF Edges
  <2>4. ASSUME NEW i \in 1..h, NEW k \in Edges(Known, {visited'[i]})
        PROVE  \E j \in 1..(i - 1) : visited'[j] = graph.edges[k].source
    <3>1. PICK j \in 1..(i - 1) : visited[j] = graph.edges[k].source
      BY <1>1, <1>4 DEF GraphInv, SourcesFirst
    <3> QED
      BY <1>1, <1>4, <3>1
  <2>5. ASSUME NEW k \in Edges(Known, {visited'[h + 1]})
        PROVE  \E j \in 1..((h + 1) - 1) : visited'[j] = graph.edges[k].source
    <3>1. Edges(Known \ Seen, {n}) = {}
      BY <1>1, <1>2, <1>3, GraphFinite, FS_EmptySet
    <3>2. graph.edges[k].source \in Seen
      BY <1>4, <3>1 DEF Edges
    <3>3. PICK j \in 1..h : visited[j] = graph.edges[k].source
      BY <1>5, <3>2
    <3> QED
      BY <1>1, <1>4, <3>3
  <2>6. \A i \in DOMAIN visited' : i \in 1..h \/ i = h + 1
    BY ONLY <1>1, <2>1
  <2>7. ASSUME NEW i \in DOMAIN visited', NEW k \in Edges(Known, {visited'[i]})
        PROVE  \E j \in 1..(i - 1) : visited'[j] = graph.edges[k].source
    BY ONLY <2>4, <2>5, <2>6
  <2>8. \A i \in DOMAIN visited' : \A k \in Edges(Known, {visited[i]})' :
           \E j \in 1..(i - 1) : visited'[j] = (graph').edges[k].source
    BY ONLY <2>1, <2>3, <2>7
  <2> QED
    BY ONLY <2>8 DEF SourcesFirst
<1> QED
  BY <1>1, <1>7, <1>8, <1>9, <1>10 DEF GraphInv, Reasons

\* What has been visited stays in order as long as nothing is added.
LEMMA SameVisitsKeep ==
  ASSUME GraphInv, graph' = graph, visited' = visited, pending' = pending, queue' = queue
  PROVE  /\ Visiting /\ Visiting' => Pendings'
         /\ VisitedOnce' /\ SourcesFirst'
<1>1. Seen' = Seen
  BY DEF Seen
<1>2. Visiting /\ Visiting' => Pendings'
  BY <1>1, SameGraph DEF GraphInv, Pendings
<1>3. VisitedOnce' /\ SourcesFirst'
  BY SameGraph DEF GraphInv, VisitedOnce, SourcesFirst
<1> QED
  BY <1>2, <1>3

\* The loop ends: the number of nodes visited decides.
LEMMA ConcludeKeeps == GraphInv /\ Conclude => GraphInv'
<1> SUFFICES ASSUME GraphInv, Conclude PROVE GraphInv'
  OBVIOUS
<1>1. /\ graph' = graph /\ visited' = visited /\ pending' = pending /\ queue' = queue
      /\ verdict = "visiting" /\ queue = {} /\ verdict' \in {"valid", "cycle"}
      /\ verdict' = "valid" <=> Len(visited) = Len(graph.nodes)
  BY DEF Conclude
<1>2. Pendings' /\ VisitedOnce' /\ SourcesFirst'
  BY <1>1, SameVisitsKeep DEF Visiting
<1>3. GraphTypeOK'
  BY <1>1, SameGraph DEF GraphInv, GraphTypeOK
<1>4. Reasons'
  BY <1>1 DEF Reasons
<1> QED
  BY <1>2, <1>3, <1>4 DEF GraphInv

\* Whatever the graph, the loop's state always satisfies the invariant.
LEMMA GraphInvNext == GraphInv /\ [GraphNext]_graphVars => GraphInv'
<1> SUFFICES ASSUME GraphInv, [GraphNext]_graphVars PROVE GraphInv'
  OBVIOUS
<1>1. CASE UNCHANGED graphVars
  <2>1. /\ graph' = graph /\ verdict' = verdict /\ visited' = visited /\ pending' = pending
        /\ queue' = queue /\ (Visiting' <=> Visiting)
    BY <1>1 DEF graphVars, Visiting
  <2>2. Pendings' /\ VisitedOnce' /\ SourcesFirst'
    BY <2>1, SameVisitsKeep DEF Pendings
  <2>3. Reasons' /\ GraphTypeOK'
    BY <2>1, SameGraph DEF GraphInv, Reasons, GraphTypeOK
  <2> QED
    BY <2>2, <2>3 DEF GraphInv
<1>2. CASE GraphNext
  BY <1>2, RejectKeeps, CountEdgesKeeps, VisitKeeps, ConcludeKeeps DEF GraphNext
<1> QED
  BY <1>1, <1>2

\* The invariant holds throughout every validation.
LEMMA GraphInvariant == GraphSpec => []GraphInv
BY GraphInvInit, GraphInvNext, PTL DEF GraphSpec

-----------------------------------------------------------------------------
(* What the invariant says of the verdicts.                                *)

\* The nodes visited are all the nodes exactly if they are as many: a graph that
\* is visited names each of its nodes once.
LEMMA AllByLength ==
  ASSUME GraphInv, Visiting
  PROVE  Seen = Known <=> Len(visited) = Len(graph.nodes)
<1>1. /\ visited \in Seq(Known) /\ graph \in Graph /\ Cardinality(Known) = Len(graph.nodes)
  BY DEF GraphInv, GraphTypeOK, Pendings, Duplicates
<1>2. IsFiniteSet(Seen) /\ Cardinality(Seen) = Len(visited)
  <2>1. visited \in Seq(Seen) /\ \A n \in Seen : \E i \in DOMAIN visited : visited[i] = n
    BY <1>1 DEF Seen
  <2>2. \A i, k \in DOMAIN visited : visited[i] = visited[k] => i = k
    BY DEF GraphInv, VisitedOnce
  <2> QED
    BY <2>1, <2>2, ListingSize
<1>3. Seen \subseteq Known /\ IsFiniteSet(Known)
  BY <1>1, GraphFinite DEF Seen
<1>4. Cardinality(Seen) = Cardinality(Known) => Known \ Seen = {}
  <2>1. /\ Cardinality(Known \ Seen) = Cardinality(Known) - Cardinality(Seen)
        /\ IsFiniteSet(Known \ Seen) /\ Cardinality(Known) \in Nat
    BY <1>3, WithoutPart
  <2> QED
    BY <2>1, FS_EmptySet
<1> QED
  BY <1>1, <1>2, <1>3, <1>4

\* A refusal names a real cycle: those not visited have edges from each other;
\* and what was visited whole has none: its first node would come after another.
LEMMA CyclesOfInv ==
  ASSUME GraphInv
  PROVE  /\ verdict = "valid" => \A S \in SUBSET Known : ~Cycle(S)
         /\ verdict = "cycle" => \E S \in SUBSET Known : Cycle(S)
<1>1. visited \in Seq(Known) /\ graph \in Graph /\ DOMAIN visited = 1..Len(visited)
  BY DEF GraphInv, GraphTypeOK
<1>2. ASSUME verdict = "cycle" PROVE \E S \in SUBSET Known : Cycle(S)
  <2> DEFINE S == Known \ Seen
  <2>1. Visiting /\ queue = {} /\ Len(visited) # Len(graph.nodes)
    BY <1>2 DEF Visiting, GraphInv, Reasons
  <2>2. S # {}
    <3>1. Seen \subseteq Known
      BY <1>1 DEF Seen
    <3> QED
      BY <2>1, <3>1, AllByLength
  <2>3. ASSUME NEW n \in S PROVE Edges(S, {n}) # {}
    <3>1. Cardinality(Edges(S, {n})) # 0
      BY <2>1 DEF GraphInv, Pendings
    <3> QED
      BY <3>1, FS_EmptySet
  <2> QED
    BY <2>2, <2>3 DEF Cycle
<1>3. ASSUME verdict = "valid", NEW S \in SUBSET Known, Cycle(S) PROVE FALSE
  <2> DEFINE P == {i \in DOMAIN visited : visited[i] \in S}
  <2>1. Seen = Known
    BY <1>3, AllByLength DEF GraphInv, Reasons, Visiting
  <2>2. P # {} /\ P \subseteq Nat
    BY <1>1, <1>3, <2>1 DEF Cycle, Seen
  <2>3. PICK m \in P : \A i \in P : m <= i
    BY <2>2, LeastNat
  <2>4. PICK k \in Edges(S, {visited[m]}) : TRUE
    BY <1>3, <2>3 DEF Cycle
  <2>5. k \in Edges(Known, {visited[m]}) /\ graph.edges[k].source \in S
    BY <1>3, <2>4 DEF Edges
  <2>6. PICK j \in 1..(m - 1) : visited[j] = graph.edges[k].source
    BY <2>3, <2>5 DEF GraphInv, SourcesFirst
  <2>7. j \in P /\ j < m
    BY <1>1, <2>3, <2>5, <2>6
  <2> QED
    BY <1>1, <2>2, <2>3, <2>7
<1> QED
  BY <1>2, <1>3

-----------------------------------------------------------------------------
(* The graphs of the orchestrator.                                         *)

\* A graph that is selected is a chain of all its nodes.
LEMMA SelectedIsChain ==
  ASSUME NEW kind \in DOMAIN Capabilities, graph = SelectGraph(kind)
  PROVE  \E n \in Nat : /\ graph.nodes = [i \in 1..n |-> i] /\ Len(graph.nodes) = n
                        /\ graph.edges = Chain(n) /\ Known = 1..n
<1> DEFINE caps == Capabilities[kind]
           n == Len(caps)
<1>1. n \in Nat /\ DOMAIN caps = 1..n
  <2>1. kind \in {"full_design", "cad_edit", "drawing_only", "analysis_only"}
    BY DEF Capabilities
  <2> QED
    BY <2>1 DEF Capabilities
<1>2. graph.nodes = [i \in DOMAIN caps |-> i] /\ graph.edges = Chain(n)
  BY DEF SelectGraph
<1> HIDE DEF caps, n
<1>3. graph.nodes = [i \in 1..n |-> i] /\ Len(graph.nodes) = n /\ DOMAIN graph.nodes = 1..n
  BY <1>1, <1>2
<1>4. Known = 1..n
  BY <1>3 DEF Known
<1> QED
  BY <1>1, <1>2, <1>3, <1>4

\* The edges of a chain lead from each node to the next.
LEMMA ChainFacts ==
  ASSUME NEW n \in Nat
  PROVE  /\ DOMAIN Chain(n) = 1..(n - 1)
         /\ \A k \in 1..(n - 1) : /\ Chain(n)[k].source = k /\ Chain(n)[k].target = k + 1
                                  /\ k \in 1..n /\ k + 1 \in 1..n
BY DEF Chain

\* No chain is refused, and its nodes are visited in order.
LEMMA SelectedOfInv == GraphInv => SelectedGraphsStand
<1> SUFFICES ASSUME GraphInv, NEW kind \in DOMAIN Capabilities, graph = SelectGraph(kind)
             PROVE  /\ verdict \in {"made", "visiting", "valid"}
                    /\ verdict = "valid" => visited = graph.nodes
  BY DEF SelectedGraphsStand
<1>1. PICK n \in Nat : /\ graph.nodes = [i \in 1..n |-> i] /\ Len(graph.nodes) = n
                       /\ graph.edges = Chain(n) /\ Known = 1..n
  BY SelectedIsChain
<1>2. /\ DOMAIN graph.edges = 1..(n - 1)
      /\ \A k \in 1..(n - 1) : /\ graph.edges[k].source = k /\ graph.edges[k].target = k + 1
                               /\ k \in 1..n /\ k + 1 \in 1..n
  BY <1>1, ChainFacts
<1>3. ~Duplicates
  <2>1. Cardinality(1..n) = n
    BY FS_Interval
  <2> QED
    BY <1>1, <2>1 DEF Duplicates
<1>4. ~MissingNode
  BY <1>1, <1>2 DEF MissingNode, Edges
<1>5. verdict # "cycle"
  <2> SUFFICES ASSUME NEW S \in SUBSET (1..n), Cycle(S) PROVE FALSE
    BY <1>1, CyclesOfInv
  <2>1. S # {} /\ S \subseteq Nat
    BY DEF Cycle
  <2>2. PICK m \in S : \A i \in S : m <= i
    BY <2>1, LeastNat
  <2>3. PICK k \in DOMAIN graph.edges :
           graph.edges[k].source \in S /\ graph.edges[k].target = m
    BY <2>2 DEF Cycle, Edges
  <2>4. k \in S /\ m = k + 1 /\ k \in Nat
    BY <1>2, <2>3
  <2> QED
    BY <2>2, <2>4
<1>6. verdict \in {"made", "visiting", "valid"}
  BY <1>3, <1>4, <1>5 DEF GraphInv, GraphTypeOK, Reasons
<1>7. ASSUME verdict = "valid" PROVE visited = graph.nodes
  <2>1. visited \in Seq(1..n) /\ Len(visited) = n /\ DOMAIN visited = 1..n
    BY <1>1, <1>7 DEF GraphInv, GraphTypeOK, Reasons
  <2> DEFINE D == {i \in 1..n : visited[i] # i}
  <2>2. ASSUME D # {} PROVE FALSE
    <3>1. D \subseteq Nat
      OBVIOUS
    <3>2. PICK i \in D : \A h \in D : i <= h
      BY <2>2, <3>1, LeastNat
    <3>3. \A h \in 1..(i - 1) : h \in 1..n /\ visited[h] = h
      BY <3>2
    <3>4. PICK v \in 1..n : v = visited[i]
      BY <2>1
    <3>5. ASSUME v < i PROVE FALSE
      <4>1. v \in 1..(i - 1) /\ visited[v] = visited[i]
        BY <3>3, <3>4, <3>5
      <4>2. v = i
        BY <2>1, <3>2, <4>1 DEF GraphInv, VisitedOnce
      <4> QED
        BY <3>5, <4>2
    <3>6. v > i /\ v - 1 \in 1..(n - 1) /\ v - 1 >= i
      BY <3>2, <3>4, <3>5
    <3>7. v - 1 \in Edges(Known, {visited[i]})
      <4>1. /\ v - 1 \in DOMAIN graph.edges /\ graph.edges[v - 1].source \in Known
            /\ graph.edges[v - 1].target = v
        BY <1>1, <1>2, <3>6
      <4> QED
        BY <3>4, <4>1 DEF Edges
    <3>8. PICK j \in 1..(i - 1) : visited[j] = graph.edges[v - 1].source
      BY <2>1, <3>2, <3>7 DEF GraphInv, SourcesFirst
    <3>9. j = v - 1
      BY <1>2, <3>3, <3>6, <3>8
    <3> QED
      BY <3>2, <3>6, <3>8, <3>9
  <2>3. visited = [i \in 1..n |-> visited[i]]
    BY <2>1
  <2> QED
    BY <1>1, <2>2, <2>3
<1> QED
  BY <1>6, <1>7

\* A node is visited once, and not before those with an edge to it, of which it
\* is none.
LEMMA OrderOfInv == GraphInv => VisitsInOrder
<1> SUFFICES ASSUME GraphInv, NEW i \in DOMAIN visited, NEW k \in Edges(Known, {visited[i]})
             PROVE  \E j \in 1..(i - 1) : /\ visited[j] = graph.edges[k].source
                                          /\ visited[j] # visited[i]
  BY DEF VisitsInOrder, GraphInv, VisitedOnce
<1>1. DOMAIN visited = 1..Len(visited) /\ Len(visited) \in Nat
  BY DEF GraphInv, GraphTypeOK
<1>2. PICK j \in 1..(i - 1) : visited[j] = graph.edges[k].source
  BY DEF GraphInv, SourcesFirst
<1>3. j \in DOMAIN visited /\ j # i
  BY <1>1, <1>2
<1>4. visited[j] # visited[i]
  BY <1>3 DEF GraphInv, VisitedOnce
<1> QED
  BY <1>2, <1>4

-----------------------------------------------------------------------------
(* The theorems.                                                           *)

\* No node is visited twice or before one with an edge to it, and no indegree
\* falls below zero, whichever queued node the loop of validate_graph takes.
THEOREM NodesVisitedInOrder == GraphSpec => []VisitsInOrder
BY GraphInvariant, OrderOfInv, PTL

\* Exactly the graphs with a cycle are refused for it (TaskGraph.validate_graph),
\* and every graph of select_graph stands, with one order of its tasks.
THEOREM GraphVerdictTrue == GraphSpec => []GraphVerdictExact
<1>1. GraphInv => GraphVerdictExact
  BY CyclesOfInv, SelectedOfInv DEF GraphVerdictExact, GraphInv, Pendings, Visiting
<1> QED
  BY <1>1, GraphInvariant, PTL

=============================================================================
