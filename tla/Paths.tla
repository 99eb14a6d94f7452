------------------------------- MODULE Paths -------------------------------
(***************************************************************************)
(* What the world answers from its navigation graphs (world/world.rs):     *)
(* where somebody stands in a column, the path from one place to another,  *)
(* where a walk without aim may lead, and which blocks can be worked on.   *)
(* These are questions, not steps: operators over the state of Terrain,    *)
(* one for each method.                                                    *)
(*                                                                         *)
(* The searches are modelled in Search.  Here a search has every outcome   *)
(* that it may have: any path through the areas that visits none twice,    *)
(* and, where several blocks are goals, any of them.                       *)
(***************************************************************************)
EXTENDS Terrain

CONSTANTS
    Nearness,   \* ranges of SearchGoal::Nearby
    WanderFuel  \* what find_exploratory_destination is given

ASSUME PathsAssumption == Nearness \subseteq Nat /\ WanderFuel \in Nat

Goals == [kind : {"Arrive", "Adjacent"}, range : {0}] \cup [kind : {"Nearby"}, range : Nearness]
Arrive == [kind |-> "Arrive", range |-> 0]
Outcome(verdict, legs, target) == [verdict |-> verdict, legs |-> legs, target |-> target]

----------------------------------------------------------------------------
\* find_accessible_block_in_column_with_range: the highest walkable block of a column, from
\* p down to the slice "floor".  (Sets stand for Options.)
Highest(S) == {q \in S : \A r \in S : r[3] <= q[3]}
Standing(p, floor) ==
    Highest({q \in DOMAIN area : /\ q[1] = p[1] /\ q[2] = p[2]
                                 /\ floor <= q[3] /\ q[3] <= p[3] /\ Down(q) \in solid})
Lowest == Min(Levels) * Height

\* find_accessible_block_in_range: the first column in which somebody can stand.
StandingIn(from, to) ==
    LET columns == {p \in Box(from, to) : p[3] = to[3] /\ Standing(p, from[3]) # {}}
        first == {p \in columns : \A q \in columns : p[2] < q[2] \/ (p[2] = q[2] /\ p[1] <= q[1])}
    IN UNION {Standing(p, from[3]) : p \in first}

Square(n) == n * n
Distance2(p, q) == Square(p[1] - q[1]) + Square(p[2] - q[2]) + Square(p[3] - q[3])
Abs(n) == IF n < 0 THEN -n ELSE n
Manhattan(p, q) == Abs(p[1] - q[1]) + Abs(p[2] - q[2]) + Abs(p[3] - q[3])

\* Where a search is sent, and with which goal.  Whoever wants to be adjacent goes to the
\* nearest place beside the block, in its slice, the one above or the one below, and under
\* it if there is none.
Neighbouring(to) ==
    UNION {Standing(n, n[3] - 1) : n \in Beside(to) \cup Beside(Above(to)) \cup Beside(Down(to))}
Destinations(from, to, goal) ==
    IF goal.kind = "Adjacent" /\ Neighbouring(to) # {}
    THEN {<<p, Arrive>> : p \in {q \in Neighbouring(to) : \A r \in Neighbouring(to) :
                                    Distance2(q, from) <= Distance2(r, from)}}
    ELSE {<<p, IF goal.kind = "Adjacent" THEN Arrive ELSE goal>> : p \in Standing(to, Lowest)}

----------------------------------------------------------------------------
\* find_area_path: the ports that are crossed.
RECURSIVE AreaPaths(_, _, _)
AreaPaths(from, to, visited) ==
    IF from = to THEN {<<>>}
    ELSE UNION {{<<e>> \o path : path \in AreaPaths(e.to, to, visited \cup {from})} :
                    e \in {f \in ports : f.from = from /\ f.to \notin visited \cup {from}}}

\* find_block_path: where a search in the graph of one area may end.
RECURSIVE Closure(_)
Closure(S) ==
    LET more == S \cup {e[2] : e \in {f \in steps : f[1] \in S}} IN
    IF more = S THEN S ELSE Closure(more)
BlockPathEnds(from, to, goal) ==
    IF from = to THEN {to}
    ELSE {p \in Closure({from}) \ {from} :
            IF goal.kind = "Nearby" THEN Manhattan(p, to) <= goal.range ELSE p = to}

\* exit_closest: the first of the nearest blocks of a port.
ClosestExit(e, p) ==
    LET far(b) == Abs(b[1] - p[1]) + Abs(b[2] - p[2]) IN
    CHOOSE b \in ExitBlocks(e) :
        \A c \in ExitBlocks(e) : far(b) < far(c) \/ (far(b) = far(c) /\ b[2] <= c[2])

\* Mutant of Crossing: the height of the step across is forgotten.
CrossingFlat(walk, e) ==
    LET exit == ClosestExit(e, walk.at) IN
    [at |-> <<(e.from[1] + e.dir) * Size + Across(e.dir, exit[1]), exit[2], exit[3]>>,
     legs |-> Append(walk.legs, <<walk.at, exit>>),
     sound |-> walk.sound /\ BlockPathEnds(walk.at, exit, Arrive) # {}]

\* One round of the loop that expands a path through areas into blocks.
Crossing(walk, e) ==
    LET exit == ClosestExit(e, walk.at) IN
    [at |-> EntryBlock(e, exit),
     legs |-> Append(walk.legs, <<walk.at, exit>>),
     sound |-> walk.sound /\ BlockPathEnds(walk.at, exit, Arrive) # {}]

Expansions(from, to, goal, path) ==
    LET walk == FoldLeft(Crossing, [at |-> from, legs |-> <<>>, sound |-> TRUE], path)
        ends == BlockPathEnds(walk.at, to, goal)
    IN IF ~walk.sound \/ ends = {} THEN {Outcome("BlockError", <<>>, to)}
       ELSE {Outcome("Found", Append(walk.legs, <<walk.at, q>>), q) : q \in ends}

\* find_path_with_goal
PathsBetween(from, to, goal) ==
    IF from = to THEN {Outcome("Found", <<>>, to)}
    ELSE LET through == AreaPaths(AreaOf(from, area), AreaOf(to, area), {}) IN
         IF through = {} THEN {Outcome("NoPath", <<>>, to)}
         ELSE UNION {Expansions(from, to, goal, path) : path \in through}

FindPath(from, to, goal) ==
    IF Standing(from, Lowest) = {} THEN {Outcome("SourceNotWalkable", <<>>, from)}
    ELSE UNION {IF Destinations(src, to, goal) = {} THEN {Outcome("TargetNotWalkable", <<>>, to)}
                ELSE UNION {PathsBetween(src, d[1], d[2]) : d \in Destinations(src, to, goal)} :
                    src \in Standing(from, Lowest)}

----------------------------------------------------------------------------
\* find_exploratory_destination: a walk that never turns back, which may leave its chunk
\* where a port that get_adjacent_area_edge finds (any of several) says so.
OnBorder(p) == Local(p)[1] \in {0, Size - 1} \/ Local(p)[2] \in {0, Size - 1}
Leaving(p) ==
    LET dir == IF Local(p)[1] = 0 THEN West ELSE East
        beyond == Plus(p, <<dir, 0, 0>>)
        edges == {e \in ports : /\ beyond \in DOMAIN area
                                /\ e.from = AreaOf(p, area) /\ e.to = AreaOf(beyond, area)}
    IN {beyond : e \in {f \in edges : Local(p)[1] \in {0, Size - 1} /\ p \in ExitBlocks(f)}}

RECURSIVE Explored(_, _, _)
Explored(p, fuel, visited) ==
    IF fuel = 0 THEN {p}
    ELSE {p} \cup UNION {Explored(q, fuel - 1, visited \cup {p}) :
                            q \in {e[2] : e \in {f \in steps : f[1] = p}} \ visited}
             \cup UNION {Explored(q, fuel, {}) : q \in IF OnBorder(p) /\ visited # {} THEN Leaving(p) ELSE {}}
Wanderings(from) == UNION {Explored(p, WanderFuel, {}) : p \in Standing(from, Lowest)}

----------------------------------------------------------------------------
\* filter_reachable_blocks_in_range, of the blocks that are not air.
Reachable(from, to) ==
    {p \in Box(from, to) : /\ p \in solid
                           /\ (Beside(p) \cup {Above(p), Down(p)}) \cap DOMAIN area # {}}

\* choose_random_accessible_block_in_radius: any of these.
AccessibleWithin(from, radius) ==
    IF from \notin DOMAIN area THEN {}
    ELSE {p \in UNION {Standing(<<from[1] + dx, from[2] + dy, Max(Levels) * Height + Height - 1>>, Lowest) :
                            dx, dy \in -radius .. radius - 1} :
            AreaPaths(AreaOf(from, area), AreaOf(p, area), {}) # {}}

----------------------------------------------------------------------------
\* A step across a boundary: each of the two blocks is the first that the other finds.
StepsAcross(p, q) == SlabOf(p)[1] # SlabOf(q)[1] /\ (q \in Beyond(p, East) \cup Beyond(p, West)
                                                  \/ p \in Beyond(q, East) \cup Beyond(q, West))
RECURSIVE Walkers(_)
Walkers(S) ==
    LET more == S \cup {q \in DOMAIN area : \E p \in S : CanStep(p, q) \/ StepsAcross(p, q)} IN
    IF more = S THEN S ELSE Walkers(more)

RECURSIVE InSlab(_)
InSlab(S) ==
    LET more == S \cup {q \in DOMAIN area : \E p \in S : CanStep(p, q)} IN
    IF more = S THEN S ELSE InSlab(more)

Linked(legs) ==
    /\ \A i \in DOMAIN legs : legs[i][2] \in InSlab({legs[i][1]})
    /\ \A i \in 1 .. Len(legs) - 1 : StepsAcross(legs[i][2], legs[i + 1][1])

Arrived(from, to, goal, target) ==
    CASE goal.kind = "Arrive" -> target \in Standing(to, Lowest)
      [] goal.kind = "Nearby" -> \E p \in Standing(to, Lowest) : p = target \/ Manhattan(p, target) <= goal.range
      [] OTHER -> \/ Abs(target[1] - to[1]) + Abs(target[2] - to[2]) = 1 /\ target[3] - to[3] \in -2 .. 1
                  \/ target \in Standing(to, Lowest)

\* A path is never found that cannot be walked, step by step from where somebody stands to
\* where the goal is met, never given up half way after its areas have been found to be
\* joined, and never denied to somebody who could walk there.
PathsAreTrue ==
    stale = {} => \A from \in DOMAIN area, goal \in Goals :
        \A to \in IF goal.kind = "Adjacent" THEN solid ELSE DOMAIN area :
        \A r \in FindPath(from, to, goal) :
        CASE r.verdict = "Found" ->
                /\ Arrived(from, to, goal, r.target)
                /\ r.legs # <<>> => /\ r.legs[1][1] \in Standing(from, Lowest)
                                    /\ Last(r.legs)[2] = r.target
                                    /\ Linked(r.legs)
          [] r.verdict = "NoPath" -> r.target \notin Walkers(Standing(from, Lowest))
          [] OTHER -> r.verdict # "BlockError"

\* Nobody wanders to where there is no way or is sent there at random, whatever is offered
\* to be dug can be approached (a block that can only be stood upon cannot: see README),
\* and a place to stand in a range is found just if there is one.
AnswersAreSound ==
    stale = {} =>
        /\ \A p \in DOMAIN area :
                /\ Wanderings(p) \subseteq Walkers({p})
                /\ AccessibleWithin(p, 1) \subseteq Walkers({p})
        /\ \A p \in solid : Reachable(p, p) # {} /\ Above(p) \notin DOMAIN area
                => Destinations(p, p, [Arrive EXCEPT !.kind = "Adjacent"]) # {}
        /\ \A range \in Ranges : StandingIn(range[1], range[2]) = {}
                <=> DOMAIN area \cap Box(range[1], range[2]) = {}

PathsLead == PathsAreTrue /\ AnswersAreSound
=============================================================================
