------------------------------ MODULE MCWorld -------------------------------
(* The world below the creatures, each component in a part of its own: they   *)
(* share no state.  A behaviour is one of one part.                           *)
EXTENDS Search, Paths, MCPlanet

CONSTANTS s, a, b, c, g, NoParent

VARIABLES rock, shade, slabs, loaded, underway, queue, dug
VARIABLES raw, parents, comps, unread, wrong, stage, registry
VARIABLES view_range, chunk_range, clean_slabs, requested_slabs, meshes, present, sent, opaque,
          finalizing, dirty_slabs, fresh, moves, changes

-----------------------------------------------------------------------------
\* Graphs of four nodes: every edge between the start, a and b is there or not, some in
\* two lengths, and the heuristics may be far too high.
Costs(m, n) ==
    CASE m = a /\ n = s -> {0, 1}
      [] m # n /\ n \in {a, b} -> {0, 2, 6}
      [] n = g -> {0, 5}
      [] OTHER -> {0}
Row(m) == {r \in [{s, a, b, g} -> {0, 1, 2, 5, 6}] : \A n \in {s, a, b, g} : r[n] \in Costs(m, n)}
NoEdges == [n \in {s, a, b, g} |-> 0]
MCNode == {s, a, b, g}
MCCostMaps == {s :> p @@ a :> q @@ b :> r @@ g :> NoEdges : p \in Row(s), q \in Row(a), r \in Row(b)}
MCEstimates == {s :> 0 @@ a :> x @@ b :> y @@ g :> 0 : x, y \in {0, 7}}
MCGoalSets == {{g}}
MCBorders == {b}

\* Two chunks of two slabs, two blocks wide and high; what is below 0 is stone.  Ranges
\* lie in one chunk or slab, over their boundaries, and beyond them.
Span(x, y, z) == <<<<x[1], y[1], z[1]>>, <<x[2], y[2], z[2]>>>>
MCPair == {-1, 0}
MCGround == (-2 .. 1) \X (0 .. 1) \X (-2 .. -1)
MCRanges == {Span(x, y, z) : x \in {<<-1, -1>>, <<-1, 0>>, <<-2, 1>>},
                             y \in {<<0, 0>>, <<1, 1>>},
                             z \in {<<-1, -1>>, <<-1, 0>>, <<0, 0>>, <<0, 1>>, <<1, 1>>}}

\* Two chunks side by side and one at the corner of the first, of two slabs: a floor with a
\* step where they meet, part of it in the upper slab.  Edits remove and add blocks on
\* either side.
At(x, y, z) == <<<<x \div 2, y \div 2>>, x % 2, y % 2, z>>
Oc == INSTANCE Occlusion WITH
        Chunks <- {<<0, 0>>, <<1, 0>>, <<1, 1>>}, Levels <- {0, 1}, edits <- dug, MaxEdits <- 1,
        Ground <- {At(x, y, 0) : x \in 0 .. 3, y \in 0 .. 3}
                    \cup {At(1, 1, 1), At(2, 1, 1), At(2, 2, 1), At(2, 1, 2)},
        Requests <- {{<<<<0, 0>>, 0>>, <<<<1, 0>>, 0>>}, {<<<<1, 1>>, 0>>}, {<<<<1, 0>>, 1>>}},
        Edits <- {<<"air", {At(2, 1, 1)}>>, <<"stone", {At(1, 0, 1)}>>, <<"stone", {At(2, 0, 2)}>>,
                  <<"air", {At(1, 1, 0), At(2, 1, 0)}>>}

\* Three definitions, one abstract, that are parents of each other in any way, and have a
\* component, remove it or override its fields; and files with something wrong in them.
Values == {<<>>} \cup {"cool" :> v : v \in {[kind |-> "unit", fields |-> <<>>],
                                           [kind |-> "negate", fields |-> <<>>],
                                           [kind |-> "fields", fields |-> "x" :> 1],
                                           [kind |-> "fields", fields |-> "x" :> 2 @@ "y" :> 2]}}
Raw(u, ps, cs) ==
    {[uid |-> u, parent |-> p, abstract |-> u = a, sound |-> TRUE, components |-> x] : p \in ps, x \in cs}
Odd == {<<>>, "odd" :> [kind |-> "unit", fields |-> <<>>]}
MCFiles ==
    {<<x, y, z>> : x \in Raw(a, {NoParent, c}, Values), y \in Raw(b, {NoParent, a, b}, Values),
                   z \in Raw(c, {NoParent, a, b, g}, Values)}
    \cup {<<x, y>> : x \in Raw(a, {NoParent, b}, {<<>>}), y \in Raw(a, {NoParent}, Odd)}
    \cup {<<[x EXCEPT !.sound = FALSE], y>> : x \in Raw(a, {NoParent}, {<<>>}), y \in Raw(b, {a}, Odd)}
    \cup {<<y>> : y \in Raw(b, {NoParent}, Odd)}
De == INSTANCE Definitions WITH
        RawFiles <- MCFiles, Templates <- {"cool"}, edges <- parents, todo <- unread

\* Two chunks of two slabs, one of them not loaded; the view takes in a slice of each, and
\* the camera may move to see both chunks or the other one.
Vi == INSTANCE Viewer WITH
        Height <- 2, Chunks <- {0, 1}, Slices <- 0 .. 3, StartView <- <<1, 2>>,
        StartChunks <- <<0, 0>>, StartSlabs <- {<<0, 0>>, <<0, 1>>, <<1, 0>>},
        Bounds <- {<<0, 0>>, <<0, 1>>, <<1, 1>>},
        Ground <- ({0, 1} \X {0, 1}) \cup {<<1, 2>>},
        MaxMoves <- 2, MaxChanges <- 1, loaded <- present

-----------------------------------------------------------------------------
blocks == <<rock, shade, slabs, loaded, underway, queue, dug>>
definitions == <<raw, parents, comps, unread, wrong, stage, registry>>
sights == <<view_range, chunk_range, clean_slabs, requested_slabs, meshes, present, sent, opaque,
            finalizing, dirty_slabs, fresh, moves, changes>>
wvars == <<part, sevars, tevars, blocks, definitions, sights, planetvars>>

\* A part that is not the behaviour's stays in an initial state.
Init ==
    /\ part \in {"search", "terrain", "occlusion", "definitions", "viewer",
                "slabs", "region", "continents", "biomes"}
    /\ PlanetInit /\ TerrainInit /\ Oc!OcclusionInit /\ De!DefinitionsInit /\ Vi!ViewerInit
    /\ part # "definitions" => Len(raw) = 1 /\ raw[1].components = <<>>
    /\ IF part = "search" THEN SearchInit
       ELSE /\ cost = s :> NoEdges @@ a :> NoEdges @@ b :> NoEdges @@ g :> NoEdges
            /\ estimate = NoEdges /\ goals = {g} /\ phase = "search" /\ visited = {}
            /\ visit_next = {<<0, s>>} /\ scores = [n \in {s, a, b, g} |-> IF n = s THEN 0 ELSE -1]
            /\ came_from = [n \in {s, a, b, g} |-> NoNode]
            /\ result = <<>> /\ current = s /\ fuel = 0

OneSearch ==
    part = "search" /\ SearchNext /\ UNCHANGED <<part, tevars, blocks, definitions, sights, planetvars>>
OneTerrain ==
    part = "terrain" /\ TerrainNext /\ UNCHANGED <<part, sevars, blocks, definitions, sights, planetvars>>
OneOcclusion ==
    part = "occlusion" /\ Oc!OcclusionNext /\ UNCHANGED <<part, sevars, tevars, definitions, sights, planetvars>>
OneDefinitions ==
    part = "definitions" /\ De!DefinitionsNext /\ UNCHANGED <<part, sevars, tevars, blocks, sights, planetvars>>
OneViewer ==
    part = "viewer" /\ Vi!ViewerNext /\ UNCHANGED <<part, sevars, tevars, blocks, definitions, planetvars>>
OnePart == OnePlanet /\ UNCHANGED <<sevars, tevars, blocks, definitions, sights>>
Next == OneSearch \/ OneTerrain \/ OneOcclusion \/ OneDefinitions \/ OneViewer \/ OnePart

WorldSpec == Init /\ [][Next]_wvars /\ WF_wvars(OneSearch)

-----------------------------------------------------------------------------
\* Every search ends (SearchEnds): reconstruct_path_to, too, which a cycle of
\* predecessors would keep going for ever.
SearchesEnd == part = "search" => SearchEnds

\* The graphs that walkers use are those of the terrain, paths lead where they are said to,
\* and answers about places are right (Terrain, Paths).
NavigationIsRight == part = "terrain" => GraphsMatchTerrain /\ PathsLead

\* Whoever draws a block knows which blocks around it are solid, what is drawn is what there
\* is, and what is in view is asked for (Occlusion, Viewer).
PictureIsRight == /\ part = "occlusion" => Oc!OcclusionIsExact
                  /\ part = "viewer" => Vi!ViewIsKept

\* Definitions are loaded whole, or refused for a reason (Definitions).
DefinitionsAreSound == part = "definitions" => De!DefinitionsAreSound

\* What a parent removes its children do not inherit (Definitions).
RemovedStaysRemoved == De!RemovedStaysRemoved
=============================================================================
