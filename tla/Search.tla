------------------------------- MODULE Search -------------------------------
(***************************************************************************)
(* The graph searches that navigation is built on (world/navigation/       *)
(* search.rs): A* over a frozen graph of areas or of the blocks of one     *)
(* area, and the random walk by which somebody wanders.  They are state    *)
(* machines, one action for each turn of a loop.                           *)
(*                                                                         *)
(* The estimate of A* is any function: neither heuristic of the code is a  *)
(* lower bound of the cost (a jump of cost 1.2 crosses a manhattan         *)
(* distance of 2; an area is a chunk's width away at a cost of 1), so      *)
(* nothing here is about the shortest path.                                *)
(***************************************************************************)
EXTENDS Integers, Sequences

CONSTANTS
    Node,
    Start,
    CostMaps,   \* what a search finds: the cost of each edge, 0 where there is none
    Estimates,  \* heuristics: [Node -> Nat]
    GoalSets,   \* sets of nodes for which is_goal holds
    Borders,    \* nodes at the edge of a chunk, where a walk may end
    MaxFuel,
    NoNode

ASSUME SearchAssumption ==
    /\ Start \in Node /\ NoNode \notin Node
    /\ CostMaps \subseteq [Node -> [Node -> Nat]]
    /\ Estimates \subseteq [Node -> Nat]
    /\ GoalSets \subseteq SUBSET Node
    /\ Borders \subseteq Node
    /\ MaxFuel \in Nat

VARIABLES
    cost, estimate, goals,  \* the arguments of the search
    phase,      \* "search", "trace" and "walk" run; the others are verdicts
    visited,
    visit_next, \* the heap, of entries <<score, node>>
    scores,     \* -1: not scored yet
    came_from,  \* the predecessor and the edge from it, NoNode if there is none
    result,     \* the nodes of the path without the first
    current,    \* where reconstruct_path_to or the walk has got to
    fuel

sevars == <<cost, estimate, goals, phase, visited, visit_next, scores, came_from, result,
            current, fuel>>
arguments == <<cost, estimate, goals>>

IsEdge(m, n) == cost[m][n] > 0
Unscored == -1

SearchInit ==
    /\ cost \in CostMaps /\ estimate \in Estimates /\ goals \in GoalSets
    /\ phase \in {"search", "walk"}
    /\ visited = {} /\ result = <<>> /\ current = Start
    /\ visit_next = IF phase = "search" THEN {<<estimate[Start], Start>>} ELSE {}
    /\ scores = [n \in Node |-> IF phase = "search" /\ n = Start THEN 0 ELSE Unscored]
    /\ came_from = [n \in Node |-> NoNode]
    /\ fuel = IF phase = "walk" THEN MaxFuel ELSE 0

----------------------------------------------------------------------------
\* astar

\* The heap yields any of the entries with the least score.  It is a set here: of two
\* equal entries the second finds its node visited.
Least(e) == e \in visit_next /\ \A f \in visit_next : e[1] <= f[1]

Open(node) == {n \in Node : IsEdge(node, n) /\ n \notin visited'}
Through(node, n) == scores[node] + cost[node][n]
Better(node, n) == scores[n] = Unscored \/ Through(node, n) < scores[n]

\* An edge that is no better pushes its target again all the same.
Expand(e, node) ==
    /\ scores' = [n \in Node |->
            IF n \in Open(node) /\ Better(node, n) THEN Through(node, n) ELSE scores[n]]
    /\ came_from' = [n \in Node |->
            IF n \in Open(node) /\ Better(node, n) THEN node ELSE came_from[n]]
    /\ visit_next' = (visit_next \ {e})
                        \cup {<<scores'[n] + estimate[n], n>> : n \in Open(node)}

PopGoal(e) ==
    /\ phase = "search" /\ Least(e) /\ e[2] \in goals
    /\ phase' = "trace" /\ current' = e[2]
    /\ UNCHANGED <<arguments, visited, visit_next, scores, came_from, result, fuel>>

PopVisited(e) ==
    /\ phase = "search" /\ Least(e) /\ e[2] \notin goals /\ e[2] \in visited
    /\ visit_next' = visit_next \ {e}
    /\ UNCHANGED <<arguments, phase, visited, scores, came_from, result, current, fuel>>

\* Mutant of PopNew: a node is not marked when it is visited.
PopNewForgets(e) ==
    /\ phase = "search" /\ Least(e) /\ e[2] \notin goals /\ e[2] \notin visited
    /\ visited' = visited
    /\ Expand(e, e[2])
    /\ UNCHANGED <<arguments, phase, result, current, fuel>>

PopNew(e) ==
    /\ phase = "search" /\ Least(e) /\ e[2] \notin goals /\ e[2] \notin visited
    /\ visited' = visited \cup {e[2]}
    /\ Expand(e, e[2])
    /\ UNCHANGED <<arguments, phase, result, current, fuel>>

Exhausted ==
    /\ phase = "search" /\ visit_next = {}
    /\ phase' = "no path"
    /\ UNCHANGED <<arguments, visited, visit_next, scores, came_from, result, current, fuel>>

\* reconstruct_path_to
Trace ==
    /\ phase = "trace"
    /\ IF came_from[current] # NoNode
       THEN /\ result' = <<current>> \o result
            /\ current' = came_from[current]
            /\ UNCHANGED phase
       ELSE phase' = "found" /\ UNCHANGED <<result, current>>
    /\ UNCHANGED <<arguments, visited, visit_next, scores, came_from, fuel>>

----------------------------------------------------------------------------
\* explore

\* Mutant of Fresh: a walk may turn back.
FreshAny == {n \in Node : IsEdge(current, n)}

Fresh == {n \in Node : IsEdge(current, n) /\ n \notin visited'}

\* A turn of the loop: the walk goes on, ends at a border by chance (AtBorder) or
\* because the filter says so (AbortByFilter), or has no fuel left.
Wander ==
    /\ phase = "walk"
    /\ IF fuel = 0
       THEN /\ phase' = "walked"
            /\ UNCHANGED <<visited, result, current, fuel>>
       ELSE /\ visited' = visited \cup {current}
            /\ IF Fresh = {}
               THEN phase' = "walked" /\ UNCHANGED <<result, current, fuel>>
               ELSE \E n \in Fresh :
                    /\ result' = Append(result, n)
                    /\ current' = n
                    /\ fuel' = fuel - 1
                    /\ phase' \in IF n \in Borders \cup goals THEN {"walk", "walked"}
                                  ELSE {"walk"}
    /\ UNCHANGED <<arguments, visit_next, scores, came_from>>

SearchNext ==
    \/ \E e \in visit_next : PopGoal(e) \/ PopVisited(e) \/ PopNew(e)
    \/ Exhausted
    \/ Trace
    \/ Wander

SearchSpec == SearchInit /\ [][SearchNext]_sevars /\ WF_sevars(SearchNext)

----------------------------------------------------------------------------
SearchTypeOK ==
    /\ cost \in [Node -> [Node -> Nat]] /\ estimate \in [Node -> Nat] /\ goals \subseteq Node
    /\ phase \in {"search", "trace", "walk", "found", "no path", "walked"}
    /\ visited \subseteq Node /\ visit_next \subseteq Nat \X Node
    /\ scores \in [Node -> Nat \cup {Unscored}] /\ came_from \in [Node -> Node \cup {NoNode}]
    /\ result \in Seq(Node) /\ current \in Node /\ fuel \in Nat

EndOf == IF result = <<>> THEN Start ELSE result[Len(result)]
Connected ==
    /\ result # <<>> => IsEdge(Start, result[1])
    /\ \A i \in 1..(Len(result) - 1) : IsEdge(result[i], result[i + 1])

\* A path that was found leads from the start to a goal along the graph's edges, and
\* a walk to where it ends, never twice through a node (the assertion of explore).
ResultLeads ==
    /\ phase = "found" => Connected /\ EndOf \in goals
    /\ phase \in {"walk", "walked"} =>
            /\ Connected /\ EndOf = current
            /\ \A i, j \in DOMAIN result : result[i] = result[j] => i = j

\* No path is reported only if no goal can be reached: a set closed under edges
\* separates the start from the goals.
Unreachable ==
    \E S \in SUBSET Node :
        /\ Start \in S /\ S \cap goals = {}
        /\ \A m \in S, n \in Node : IsEdge(m, n) => n \in S
NoPathIsTrue == phase = "no path" => Unreachable

\* What a search says is so: its paths lead to goals, its walks do not turn back, and
\* there is no path when it says so.
VerdictsAreTrue == ResultLeads /\ NoPathIsTrue

\* Every search ends: reconstruct_path_to, too, which a cycle of predecessors would
\* keep going for ever.
SearchEnds == <>(phase \in {"found", "no path", "walked"})
=============================================================================
