---------------------------- MODULE SearchProofs ----------------------------
(***************************************************************************)
(* That a search returns a path of the graph to a goal, and finds one      *)
(* whenever there is one, for every graph and every heuristic; and that a  *)
(* walk is a path without a repetition.                                    *)
(*                                                                         *)
(* While A* runs, every scored node is visited or queued (Frontier) and    *)
(* the visited nodes' targets are scored (Expanded), so that the scored    *)
(* nodes are closed under edges once the heap is empty.  Predecessors form *)
(* edges, and only the start has none (Predecessors), so that what is      *)
(* traced back is a path from it (Traced).                                 *)
(***************************************************************************)
EXTENDS Search, SequenceTheorems, TLAPS

AStar == phase \in {"search", "no path"}
Scored == {n \in Node : scores[n] # Unscored}

Frontier ==
    /\ \A n \in Scored \ visited : \E e \in visit_next : e[2] = n
    /\ \A e \in visit_next : e[2] \in Scored
    /\ Start \in visited \/ \A e \in visit_next : e[2] = Start
    /\ phase = "no path" => visit_next = {}

Expanded ==
    /\ visited \subseteq Scored /\ visited \cap goals = {}
    /\ \A m \in visited, n \in Node : IsEdge(m, n) => n \in Scored

Predecessors ==
    /\ Start \in Scored /\ came_from[Start] = NoNode
    /\ \A n \in Scored \ {Start} :
            came_from[n] \in Scored /\ IsEdge(came_from[n], n)

\* The path from where the trace has got to.
Traced ==
    /\ current \in Scored
    /\ phase = "found" => current = Start
    /\ IF result = <<>> THEN current \in goals
       ELSE IsEdge(current, result[1]) /\ result[Len(result)] \in goals
    /\ \A i \in 1..(Len(result) - 1) : IsEdge(result[i], result[i + 1])

Walked ==
    /\ Connected /\ EndOf = current
    /\ \A i \in 1..(Len(result) - 1) : result[i] \in visited
    /\ \A i, j \in DOMAIN result : result[i] = result[j] => i = j
    /\ phase = "walk" => current \notin visited

SearchInv ==
    /\ SearchTypeOK
    /\ AStar => Frontier /\ Expanded
    /\ AStar => result = <<>>
    /\ phase \in {"search", "no path", "trace", "found"} => Predecessors
    /\ phase \in {"trace", "found"} => Traced
    /\ phase \in {"walk", "walked"} => Walked

-----------------------------------------------------------------------------

\* Putting a node before a sequence of nodes.
LEMMA Prefixed ==
    ASSUME NEW n \in Node, NEW q \in Seq(Node)
    PROVE  /\ <<n>> \o q \in Seq(Node)
           /\ Len(<<n>> \o q) = Len(q) + 1 /\ (<<n>> \o q)[1] = n
           /\ \A i \in 1..Len(q) : (<<n>> \o q)[i + 1] = q[i]
           /\ q = <<>> => (<<n>> \o q)[Len(<<n>> \o q)] = n
           /\ q # <<>> => (<<n>> \o q)[Len(<<n>> \o q)] = q[Len(q)]
<1>1. <<n>> \in Seq(Node) /\ Len(<<n>>) = 1 /\ <<n>>[1] = n
  OBVIOUS
<1>2. /\ <<n>> \o q \in Seq(Node)
      /\ Len(<<n>> \o q) = 1 + Len(q)
      /\ \A i \in 1..(1 + Len(q)) :
            (<<n>> \o q)[i] = IF i <= 1 THEN <<n>>[i] ELSE q[i - 1]
  BY <1>1, ConcatProperties
<1>3. Len(q) \in Nat /\ (q # <<>> => Len(q) \in Nat \ {0}) /\ (q = <<>> => Len(q) = 0)
  BY EmptySeq, LenProperties
<1>. QED  BY <1>1, <1>2, <1>3

\* Putting a node behind a sequence of nodes.
LEMMA Suffixed ==
    ASSUME NEW n \in Node, NEW q \in Seq(Node)
    PROVE  /\ Append(q, n) \in Seq(Node)
           /\ Len(Append(q, n)) = Len(q) + 1 /\ Append(q, n)[Len(q) + 1] = n
           /\ \A i \in 1..Len(q) : Append(q, n)[i] = q[i]
           /\ Len(q) \in Nat /\ DOMAIN q = 1..Len(q)
           /\ DOMAIN Append(q, n) = 1..(Len(q) + 1)
           /\ Append(q, n) # <<>> /\ (q # <<>> <=> Len(q) # 0)
  BY LenProperties, EmptySeq

LEMMA SearchInitInv == SearchInit => SearchInv
<1> SUFFICES ASSUME SearchInit PROVE SearchInv
  OBVIOUS
<1>1. /\ cost \in [Node -> [Node -> Nat]] /\ estimate \in [Node -> Nat] /\ goals \subseteq Node
      /\ Start \in Node /\ NoNode \notin Node /\ MaxFuel \in Nat
  BY SearchAssumption DEF SearchInit
<1> USE <1>1 DEF SearchInit
<1>2. SearchTypeOK
  <2>1. visit_next \subseteq Nat \X Node
    OBVIOUS
  <2>2. scores \in [Node -> Nat \cup {Unscored}] /\ came_from \in [Node -> Node \cup {NoNode}]
    OBVIOUS
  <2>3. result \in Seq(Node)
    OBVIOUS
  <2>. QED  BY <2>1, <2>2, <2>3 DEF SearchTypeOK
<1>3. ASSUME phase = "search" PROVE Frontier /\ Expanded /\ Predecessors
  <2>1. visit_next = {<<estimate[Start], Start>>} /\ \A e \in visit_next : e[2] = Start
    BY <1>3
  <2>2. \A n \in Node : (scores[n] # Unscored <=> n = Start) /\ came_from[n] = NoNode
    <3>1. scores = [n \in Node |-> IF n = Start THEN 0 ELSE Unscored] /\ 0 # Unscored
      BY <1>3 DEF Unscored
    <3>. QED  BY <3>1
  <2>3. Scored = {Start}
    BY <2>2 DEF Scored
  <2>. QED  BY <1>3, <2>1, <2>2, <2>3 DEF Frontier, Expanded, Predecessors
<1>4. phase = "walk" => Walked
  BY DEF Walked, Connected, EndOf
<1>. QED  BY <1>2, <1>3, <1>4 DEF SearchInv, AStar

-----------------------------------------------------------------------------
LEMMA PopGoalInv ==
    ASSUME SearchInv, NEW e \in visit_next, PopGoal(e)
    PROVE  SearchInv'
<1> USE DEF PopGoal, arguments, SearchInv, AStar
<1>1. SearchTypeOK'
  BY DEF SearchTypeOK
<1>2. Predecessors'
  BY DEF Predecessors, Scored, IsEdge
<1>3. Traced'
  BY DEF Traced, Frontier, Scored, SearchTypeOK
<1>. QED  BY <1>1, <1>2, <1>3

LEMMA PopVisitedInv ==
    ASSUME SearchInv, NEW e \in visit_next, PopVisited(e)
    PROVE  SearchInv'
<1> USE DEF PopVisited, arguments, SearchInv, AStar
<1>1. SearchTypeOK'
  BY DEF SearchTypeOK
<1>2. Predecessors' /\ Expanded'
  BY DEF Predecessors, Scored, IsEdge, Expanded
<1>3. Frontier'
  BY DEF Frontier, Scored
<1>. QED  BY <1>1, <1>2, <1>3

LEMMA PopNewInv ==
    ASSUME SearchInv, NEW e \in visit_next, PopNew(e)
    PROVE  SearchInv'
<1> DEFINE node == e[2]
<1> USE DEF PopNew, Expand, arguments, SearchInv, AStar
<1>1. node \in Node /\ node \in Scored /\ scores[node] \in Nat /\ node \notin goals
  BY DEF SearchTypeOK, Frontier, Scored, Unscored
<1>2. \A n \in Node : cost[node][n] \in Nat /\ Through(node, n) \in Nat
  BY <1>1 DEF SearchTypeOK, Through
<1>3. \A n \in Node : /\ n \in Open(node) \/ scores[n] # Unscored => scores'[n] # Unscored
                      /\ n \in Open(node) => scores'[n] \in Nat
                      /\ n \notin Open(node) => scores'[n] = scores[n]
                                                /\ came_from'[n] = came_from[n]
  <2> SUFFICES ASSUME NEW n \in Node
               PROVE  /\ n \in Open(node) \/ scores[n] # Unscored => scores'[n] # Unscored
                      /\ n \in Open(node) => scores'[n] \in Nat
                      /\ n \notin Open(node) => scores'[n] = scores[n]
                                                /\ came_from'[n] = came_from[n]
    OBVIOUS
  <2>1. /\ scores'[n] = IF n \in Open(node) /\ Better(node, n) THEN Through(node, n) ELSE scores[n]
        /\ came_from'[n] = IF n \in Open(node) /\ Better(node, n) THEN node ELSE came_from[n]
    OBVIOUS
  <2>2. Through(node, n) \in Nat /\ scores[n] \in Nat \cup {-1} /\ Unscored = -1
    BY <1>2 DEF SearchTypeOK, Unscored
  <2>3. ~Better(node, n) => scores[n] # Unscored
    BY DEF Better
  <2> HIDE DEF PopNew, Expand, SearchInv, node
  <2>. QED  BY <2>1, <2>2, <2>3
<1>4. SearchTypeOK'
  <2>1. scores' \in [Node -> Nat \cup {Unscored}] /\ came_from' \in [Node -> Node \cup {NoNode}]
    BY <1>1, <1>2 DEF SearchTypeOK
  <2>2. visit_next' \subseteq Nat \X Node
    <3>1. \A n \in Open(node) : scores'[n] + estimate[n] \in Nat /\ n \in Node
      BY <1>3 DEF Open, SearchTypeOK
    <3>2. visit_next \subseteq Nat \X Node
      BY DEF SearchTypeOK
    <3>3. visit_next' = (visit_next \ {e})
                            \cup {<<scores'[n] + estimate[n], n>> : n \in Open(node)}
      OBVIOUS
    <3> HIDE DEF PopNew, Expand, SearchInv, node
    <3>. QED  BY <3>1, <3>2, <3>3
  <2>. QED  BY <1>1, <2>1, <2>2 DEF SearchTypeOK
<1>5. Scored' = Scored \cup Open(node)
  BY <1>3 DEF Scored, Open, IsEdge
<1>6. Expanded'
  <2>1. visited' \subseteq Scored' /\ visited' \cap goals' = {}
    BY <1>1, <1>5 DEF Expanded
  <2>2. ASSUME NEW m \in visited', NEW n \in Node, IsEdge(m, n)' PROVE n \in Scored'
    <3>1. CASE m = node
      <4>1. n \in Open(node) \/ n \in visited'
        BY <2>2, <3>1 DEF Open, IsEdge
      <4>. QED  BY <4>1, <1>5, <2>1
    <3>2. CASE m # node
      BY <2>2, <3>2, <1>5 DEF Expanded, IsEdge
    <3>. QED  BY <3>1, <3>2
  <2>. QED  BY <2>1, <2>2 DEF Expanded
<1>7. Frontier'
  <2>1. ASSUME NEW n \in Scored' \ visited' PROVE \E f \in visit_next' : f[2] = n
    <3>1. CASE n \in Open(node)
      <4> DEFINE f == <<scores'[n] + estimate[n], n>>
      <4>1. f \in visit_next' /\ f[2] = n
        BY <3>1
      <4>. QED  BY <4>1
    <3>2. CASE n \notin Open(node)
      <4>1. n \in Scored \ visited /\ n # node
        BY <3>2, <1>5, <2>1
      <4>2. PICK f \in visit_next : f[2] = n
        BY <4>1 DEF Frontier
      <4>3. f # e /\ f \in visit_next'
        BY <4>1, <4>2
      <4>. QED  BY <4>2, <4>3
    <3>. QED  BY <3>1, <3>2
  <2>2. \A f \in visit_next' : f[2] \in Scored'
    BY <1>5 DEF Frontier
  <2>3. Start \in visited'
    BY DEF Frontier
  <2>. QED  BY <2>1, <2>2, <2>3 DEF Frontier
<1>8. Predecessors'
  <2>1. Start \notin Open(node)
    BY DEF Open, Frontier
  <2>2. Start \in Scored' /\ came_from'[Start] = NoNode
    BY <2>1, <1>3, <1>5, SearchAssumption DEF Predecessors
  <2>3. ASSUME NEW n \in Scored' \ {Start}
        PROVE  came_from'[n] \in Scored' /\ IsEdge(came_from[n], n)'
    <3>1. n \in Node
      BY DEF Scored
    <3>2. CASE n \in Open(node) /\ Better(node, n)
      <4>1. came_from'[n] = node
        BY <3>1, <3>2
      <4>2. IsEdge(node, n) /\ node \in Scored'
        BY <3>2, <1>1, <1>5 DEF Open
      <4>. QED  BY <4>1, <4>2 DEF IsEdge
    <3>3. CASE ~(n \in Open(node) /\ Better(node, n))
      <4>1. came_from'[n] = came_from[n] /\ scores'[n] = scores[n]
        BY <3>1, <3>3
      <4>2. n \in Scored \ {Start}
        BY <4>1, <3>1 DEF Scored
      <4>3. came_from[n] \in Scored /\ IsEdge(came_from[n], n)
        BY <4>2 DEF Predecessors
      <4>. QED  BY <4>1, <4>3, <1>5 DEF IsEdge
    <3>. QED  BY <3>2, <3>3
  <2>. QED  BY <2>2, <2>3 DEF Predecessors
<1>. QED  BY <1>4, <1>6, <1>7, <1>8

LEMMA ExhaustedInv ==
    ASSUME SearchInv, Exhausted
    PROVE  SearchInv'
<1> USE DEF Exhausted, arguments, SearchInv, AStar
<1>1. SearchTypeOK'
  BY DEF SearchTypeOK
<1>2. Predecessors' /\ Expanded' /\ Frontier'
  BY DEF Predecessors, Scored, IsEdge, Expanded, Frontier
<1>. QED  BY <1>1, <1>2

LEMMA TraceInv ==
    ASSUME SearchInv, Trace
    PROVE  SearchInv'
<1> USE DEF Trace, arguments, SearchInv, AStar
<1>1. Predecessors'
  BY DEF Predecessors, Scored, IsEdge
<1>2. CASE came_from[current] # NoNode
  <2>1. current \in Node /\ current # Start /\ current \in Scored
    BY <1>2 DEF Traced, Predecessors, Scored
  <2>2. came_from[current] \in Scored /\ IsEdge(came_from[current], current)
    BY <2>1 DEF Predecessors
  <2>3. result \in Seq(Node) /\ result' = <<current>> \o result
    BY <1>2 DEF SearchTypeOK
  <2>4. /\ result' \in Seq(Node) /\ result' # <<>>
        /\ Len(result') = Len(result) + 1 /\ result'[1] = current /\ Len(result) \in Nat
        /\ \A i \in 1..Len(result) : result'[i + 1] = result[i]
        /\ result'[Len(result')] = IF result = <<>> THEN current ELSE result[Len(result)]
        /\ result = <<>> => Len(result) = 0
    BY <2>1, <2>3, Prefixed, LenProperties, EmptySeq
  <2>5. SearchTypeOK'
    BY <1>2, <2>2, <2>4 DEF SearchTypeOK, Scored
  <2>6. \A i \in 1..(Len(result') - 1) : IsEdge(result'[i], result'[i + 1])
    <3> SUFFICES ASSUME NEW i \in 1..Len(result)
                 PROVE  IsEdge(result'[i], result'[i + 1])
      BY <2>4
    <3>1. CASE i = 1
      BY <3>1, <2>4 DEF Traced
    <3>2. CASE i # 1
      <4>1. i - 1 \in 1..(Len(result) - 1) /\ i = (i - 1) + 1
        BY <3>2, <2>4
      <4>2. result'[i] = result[i - 1] /\ result'[i + 1] = result[i]
        BY <4>1, <2>4
      <4>3. IsEdge(result[i - 1], result[(i - 1) + 1])
        BY <4>1 DEF Traced
      <4>. QED  BY <4>1, <4>2, <4>3
    <3>. QED  BY <3>1, <3>2
  <2>7. Traced'
    <3>1. current' \in Scored' /\ phase' = "trace"
      BY <1>2, <2>2 DEF Scored
    <3>2. IsEdge(current', result'[1]) /\ result'[Len(result')] \in goals
      BY <1>2, <2>2, <2>4 DEF Traced
    <3>. QED  BY <3>1, <3>2, <2>4, <2>6 DEF Traced, IsEdge
  <2>. QED  BY <1>1, <1>2, <2>5, <2>7
<1>3. CASE came_from[current] = NoNode
  <2>1. current = Start
    BY <1>3, SearchAssumption DEF Traced, Predecessors, Scored
  <2>2. SearchTypeOK'
    BY <1>3 DEF SearchTypeOK
  <2>3. Traced'
    BY <1>3, <2>1 DEF Traced, Scored, IsEdge
  <2>. QED  BY <1>1, <1>3, <2>2, <2>3
<1>. QED  BY <1>2, <1>3

LEMMA WanderInv ==
    ASSUME SearchInv, Wander
    PROVE  SearchInv'
<1> USE DEF Wander, arguments, SearchInv, AStar
<1>1. CASE fuel = 0
  <2>1. SearchTypeOK'
    BY <1>1 DEF SearchTypeOK
  <2>2. Walked'
    BY <1>1 DEF Walked, Connected, EndOf, IsEdge
  <2>. QED  BY <1>1, <2>1, <2>2
<1>2. CASE fuel # 0 /\ Fresh = {}
  <2>1. SearchTypeOK'
    BY <1>2 DEF SearchTypeOK
  <2>2. Walked'
    BY <1>2 DEF Walked, Connected, EndOf, IsEdge
  <2>. QED  BY <1>2, <2>1, <2>2
<1>3. CASE fuel # 0 /\ Fresh # {}
  <2>1. PICK n \in Fresh : /\ result' = Append(result, n) /\ current' = n
                           /\ fuel' = fuel - 1
                           /\ phase' \in IF n \in Borders \cup goals THEN {"walk", "walked"}
                                         ELSE {"walk"}
    BY <1>3
  <2>2. n \in Node /\ IsEdge(current, n) /\ n \notin visited' /\ phase' \in {"walk", "walked"}
    BY <2>1 DEF Fresh
  <2>3. visited' = visited \cup {current}
    BY <1>3
  <2>4. SearchTypeOK'
    <3>1. result' \in Seq(Node)
      BY <2>1, <2>2, Suffixed DEF SearchTypeOK
    <3>2. fuel' \in Nat /\ current' \in Node /\ visited' \subseteq Node
      BY <1>3, <2>1, <2>2, <2>3 DEF SearchTypeOK
    <3>. QED  BY <2>2, <3>1, <3>2 DEF SearchTypeOK
  <2>5. /\ Len(result') = Len(result) + 1 /\ result'[Len(result) + 1] = n
        /\ \A i \in 1..Len(result) : result'[i] = result[i]
        /\ Len(result) \in Nat /\ DOMAIN result = 1..Len(result)
        /\ DOMAIN result' = 1..(Len(result) + 1)
        /\ result' # <<>> /\ (result # <<>> <=> Len(result) # 0)
    BY <2>1, <2>2, Suffixed DEF SearchTypeOK
  <2>6. Walked /\ (result # <<>> => result[Len(result)] = current)
               /\ (result = <<>> => Start = current)
    BY DEF Walked, EndOf
  <2>7. \A i \in 1..Len(result) : result[i] \in visited'
    BY <2>3, <2>5, <2>6 DEF Walked
  <2>8. Connected'
    <3>1. IsEdge(Start, result'[1])
      BY <2>2, <2>5, <2>6 DEF Walked, Connected
    <3>2. ASSUME NEW i \in 1..Len(result) PROVE IsEdge(result'[i], result'[i + 1])
      <4>1. CASE i = Len(result)
        BY <4>1, <2>2, <2>5, <2>6
      <4>2. CASE i # Len(result)
        <5>1. i \in 1..(Len(result) - 1) /\ i \in 1..Len(result) /\ i + 1 \in 1..Len(result)
          <6>1. Len(result) \in Nat /\ i \in 1..Len(result) /\ i # Len(result)
            BY <4>2, <2>5
          <6> HIDE DEF Wander, SearchInv
          <6>. QED  BY <6>1
        <5>. QED  BY <5>1, <2>5, <2>6 DEF Walked, Connected
      <4>. QED  BY <4>1, <4>2
    <3>3. \A i \in 1..(Len(result') - 1) : IsEdge(result'[i], result'[i + 1])
      BY <3>2, <2>5
    <3>. QED  BY <3>1, <3>3 DEF Connected, IsEdge
  <2>9. \A i, j \in DOMAIN result' : result'[i] = result'[j] => i = j
    BY <2>2, <2>5, <2>6, <2>7 DEF Walked
  <2>10. EndOf' = current' /\ (phase' = "walk" => current' \notin visited')
    BY <2>1, <2>2, <2>5 DEF EndOf
  <2>11. \A i \in 1..(Len(result') - 1) : result'[i] \in visited'
    BY <2>5, <2>7
  <2>12. Walked'
    BY <2>8, <2>9, <2>10, <2>11 DEF Walked
  <2>. QED  BY <2>2, <2>4, <2>12
<1>. QED  BY <1>1, <1>2, <1>3

LEMMA SearchStep == SearchInv /\ [SearchNext]_sevars => SearchInv'
<1> SUFFICES ASSUME SearchInv, [SearchNext]_sevars PROVE SearchInv'
  OBVIOUS
<1>1. CASE \E e \in visit_next : PopGoal(e) \/ PopVisited(e) \/ PopNew(e)
  BY <1>1, PopGoalInv, PopVisitedInv, PopNewInv
<1>2. CASE Exhausted
  BY <1>2, ExhaustedInv
<1>3. CASE Trace
  BY <1>3, TraceInv
<1>4. CASE Wander
  BY <1>4, WanderInv
<1>5. CASE UNCHANGED sevars
  BY <1>5 DEF sevars, SearchInv, SearchTypeOK, AStar, Frontier, Expanded, Predecessors, Traced,
      Walked, Scored, Connected, EndOf, IsEdge
<1>. QED  BY <1>1, <1>2, <1>3, <1>4, <1>5 DEF SearchNext

THEOREM SearchInvariant == SearchSpec => []SearchInv
<1>1. SearchInit => SearchInv
  BY SearchInitInv
<1>2. SearchInv /\ [SearchNext]_sevars => SearchInv'
  BY SearchStep
<1>. QED  BY <1>1, <1>2, PTL DEF SearchSpec

\* Whatever the graph and the heuristic: a path that A* returns runs along edges from
\* the start to a goal; a walk never comes through a node twice (search.rs:142).
THEOREM SearchFindsPaths == SearchSpec => []ResultLeads
<1>1. SearchInv => ResultLeads
  <2> SUFFICES ASSUME SearchInv PROVE ResultLeads
    OBVIOUS
  <2>1. CASE phase = "found"
    BY <2>1 DEF SearchInv, Traced, ResultLeads, Connected, EndOf
  <2>2. CASE phase # "found"
    BY <2>2 DEF SearchInv, Walked, ResultLeads
  <2>. QED  BY <2>1, <2>2
<1>. QED  BY <1>1, SearchInvariant, PTL

\* Whatever the graph and the heuristic: A* fails only if a set of nodes that no edge
\* leaves has the start in it and no goal.
THEOREM SearchIsComplete == SearchSpec => []NoPathIsTrue
<1>1. SearchInv => NoPathIsTrue
  <2> SUFFICES ASSUME SearchInv, phase = "no path" PROVE Unreachable
    BY DEF NoPathIsTrue
  <2> USE DEF SearchInv, AStar
  <2>1. visited \in SUBSET Node /\ Scored \subseteq visited
    BY DEF Frontier, Scored, SearchTypeOK
  <2>2. Start \in visited /\ visited \cap goals = {}
    BY <2>1 DEF Predecessors, Expanded
  <2>3. \A m \in visited, n \in Node : IsEdge(m, n) => n \in visited
    BY <2>1 DEF Expanded
  <2>. QED  BY <2>1, <2>2, <2>3 DEF Unreachable
<1>. QED  BY <1>1, SearchInvariant, PTL

\* Both, for every graph, heuristic and set of goals: the verdict of a search is true.
THEOREM SearchIsCorrect == SearchSpec => []VerdictsAreTrue
BY SearchFindsPaths, SearchIsComplete, PTL DEF VerdictsAreTrue
=============================================================================
