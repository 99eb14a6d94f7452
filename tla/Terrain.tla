------------------------------- MODULE Terrain -------------------------------
(***************************************************************************)
(* The voxel world and the navigation graphs derived from it: an edit is   *)
(* split into slabs (loader/update.rs), applied to their blocks, the       *)
(* touched slabs are flood filled into areas with a graph of steps each    *)
(* (navigation/discovery.rs), and the finalizer joins the areas of         *)
(* neighbouring chunks by ports (loader/finalizer.rs,                      *)
(* navigation/area_navigation.rs).  Who does this when is modelled in      *)
(* WorldLoader; here an edit is one step.                                  *)
(*                                                                         *)
(* Chunks stand in a row along x, which leaves the directions East and     *)
(* West.  Positions are <<x, y, z>>; those of chunk -1 are negative.       *)
(***************************************************************************)
EXTENDS Integers, Sequences, FiniteSets, SequencesExt, FiniteSetsExt, TLC

CONSTANTS
    Size,        \* CHUNK_SIZE
    Height,      \* SLAB_SIZE
    Chunks,      \* an interval of chunks
    Levels,      \* an interval of slabs, those that each chunk has
    Ground,      \* the blocks that are solid at first
    Ranges,      \* WorldPositionRanges that are edited: pairs of corners
    MaxEdits     \* bound

ASSUME TerrainAssumption ==
    /\ Size \in Nat \ {0} /\ Height \in Nat \ {0} /\ Size % 2 = 0 /\ Height % 2 = 0
    /\ Chunks \subseteq Int /\ Levels \subseteq Int /\ MaxEdits \in Nat

VARIABLES
    solid,   \* the blocks that are solid, the others are air
    area,    \* walkable block |-> the index of its area in its slab
    steps,   \* edges of the block graphs: <<from, to, cost>>
    nodes,   \* nodes of the area graph: <<chunk, slab, area>>
    ports,   \* its edges
    stale,   \* history: slabs whose floor has changed in the slab below since their flood fill
    edits    \* how many edits there have been

tevars == <<solid, area, steps, nodes, ports, stale, edits>>

Origin(s) == <<s[1] * Size, 0, s[2] * Height>>
SlabOf(p) == <<p[1] \div Size, p[3] \div Height>>
Slabs == Chunks \X Levels
Box(from, to) == (from[1]..to[1]) \X (from[2]..to[2]) \X (from[3]..to[3])
Plus(p, q) == <<p[1] + q[1], p[2] + q[2], p[3] + q[3]>>
BlocksOf(s) == Box(Origin(s), Plus(Origin(s), <<Size - 1, Size - 1, Height - 1>>))
World == UNION {BlocksOf(s) : s \in Slabs}
Above(p) == Plus(p, <<0, 0, 1>>)
Down(p) == Plus(p, <<0, 0, -1>>)
InOrder(S, Before(_, _)) ==
    [i \in 1..Cardinality(S) |->
        CHOOSE x \in S : Cardinality({y \in S : Before(y, x)}) = i - 1]
SliceBelow(s) == {p \in World : p[1] \div Size = s[1] /\ p[3] = Origin(s)[3] - 1}

----------------------------------------------------------------------------
\* split_range_across_slabs, on one axis: the pieces between the multiples of the
\* size, rounded up from the first (find_boundaries).

RoundUp(v, m) == -((-v) \div m) * m

\* Mutant of Cuts: the first multiple is rounded towards zero.
CutsToZero(a, b, m) ==
    LET first == IF a >= 0 THEN RoundUp(a, m) ELSE RoundUp(a, m) + m IN
    {c \in a..b : c >= first /\ (c - first) % m = 0} \ {a}

Cuts(a, b, m) == {c \in a..b : c >= RoundUp(a, m) /\ (c - RoundUp(a, m)) % m = 0} \ {a}

Pieces(a, b, m) ==
    {<<x, Min({b} \cup {c - 1 : c \in {d \in Cuts(a, b, m) : d > x}})>> :
        x \in {a} \cup Cuts(a, b, m)}

\* A piece is an update of one slab, its corners relative to the slab.
Local(p) == <<p[1] % Size, p[2] % Size, p[3] % Height>>
SlabUpdates(from, to) ==
    {[slab |-> SlabOf(<<x[1], y[1], z[1]>>),
      from |-> Local(<<x[1], y[1], z[1]>>), to |-> Local(<<x[2], y[2], z[2]>>)] :
        x \in Pieces(from[1], to[1], Size), y \in Pieces(from[2], to[2], Size),
        z \in Pieces(from[3], to[3], Height)}

Changed(u) == {Plus(Origin(u.slab), p) : p \in Box(u.from, u.to)}

----------------------------------------------------------------------------
\* AreaDiscovery: flood fill of a slab.

Opposite(c) == CASE c = "JumpUp" -> "JumpDown" [] c = "JumpDown" -> "JumpUp" [] OTHER -> c
ZOffset(c) == CASE c = "JumpUp" -> 1 [] c = "JumpDown" -> -1 [] OTHER -> 0

Index(s, p) == LET o == Origin(s) IN
    (p[1] - o[1]) + (p[2] - o[2]) * Size + (p[3] - o[3]) * Size * Size
Beside(p) == {Plus(p, d) : d \in {<<1, 0, 0>>, <<-1, 0, 0>>, <<0, 1, 0>>, <<0, -1, 0>>}}

\* Below the bottom of the world opacity is unknown, which counts as transparent.
IsWalkable(p, blocks) == p \notin blocks /\ Down(p) \in blocks

\* What is pushed when a block has been given to an area.  Neither the slab above nor
\* the one below is looked into, but for the slice that is stood upon.
Pushes(s, p, blocks) ==
    LET around == Beside(p) \cap BlocksOf(s) IN
    {<<p, q, "Walk">> : q \in around}
    \cup {<<p, Above(q), "JumpUp">> :
            q \in {r \in around : Above(p) \in BlocksOf(s) \ blocks}}
    \cup {<<p, Down(q), "JumpDown">> :
            q \in {r \in around : Down(p) \in BlocksOf(s) /\ r \notin blocks}}

\* do_flood_fill: the queue holds moves to look at; its order makes no difference.
RECURSIVE Fill(_, _, _, _)
Fill(s, queue, found, blocks) ==
    IF queue = {} THEN found
    ELSE LET e == CHOOSE e \in queue : TRUE
             more == queue \ {e}
             new == e[2] \notin DOMAIN found.area
             linked == IF e[1] = e[2] THEN found.steps
                       ELSE found.steps \cup {e, <<e[2], e[1], Opposite(e[3])>>}
         IN CASE new /\ IsWalkable(e[2], blocks) ->
                    Fill(s, more \cup Pushes(s, e[2], blocks),
                         [found EXCEPT !.area = e[2] :> found.next @@ @, !.steps = linked], blocks)
              [] ~new /\ found.area[e[2]] = found.next ->
                    Fill(s, more, [found EXCEPT !.steps = linked], blocks)
              [] OTHER -> Fill(s, more, found, blocks)

\* flood_fill_areas, from the blocks in the order of their indices.
RECURSIVE Discover(_, _, _)
Discover(s, found, blocks) ==
    LET left == {p \in BlocksOf(s) : IsWalkable(p, blocks)} \ DOMAIN found.area IN
    IF left = {} THEN found
    ELSE LET p == CHOOSE p \in left : \A q \in left : Index(s, p) <= Index(s, q) IN
         Discover(s, [Fill(s, {<<p, p, "Walk">>}, found, blocks) EXCEPT !.next = @ + 1], blocks)
Undiscovered == [area |-> <<>>, steps |-> {}, next |-> 1]

----------------------------------------------------------------------------
\* Ports between the areas of neighbouring chunks.

AreaOf(p, areas) == <<SlabOf(p)[1], SlabOf(p)[2], areas[p]>>
East == 1
West == -1
OnBoundary(dir, y) == <<IF dir = East THEN Size - 1 ELSE 0, y>>
\* extend_across_boundary_aligned
Across(dir, x) == IF dir = East THEN 0 ELSE Size - 1

\* The first block that is walkable on the other side of a boundary, of those below,
\* beside and above.
FirstBeyond(p, dir, areas) ==
    LET beside == Plus(p, <<dir, 0, 0>>)
        there == SelectSeq(<<<<Down(beside), "JumpDown">>, <<beside, "Walk">>,
                             <<Above(beside), "JumpUp">>>>,
                           LAMBDA e : e[1] \in DOMAIN areas)
    IN IF there = <<>> THEN {} ELSE {there[1]}

\* cross_chunk_pairs_nav_foreach, sorted by coordinate (and by height, as a short
\* vector is sorted stably).
Links(c, dir, levels, areas) ==
    LET mine == {p \in DOMAIN areas : /\ SlabOf(p) \in {c} \X levels
                                      /\ Local(p)[1] = OnBoundary(dir, p[2])[1]}
        links == UNION {{[from |-> AreaOf(p, areas), to |-> AreaOf(e[1], areas), cost |-> e[2],
                          coord |-> p[2], z |-> p[3]] : e \in FirstBeyond(p, dir, areas)} : p \in mine}
    IN InOrder(links, LAMBDA a, b : a.coord < b.coord \/ (a.coord = b.coord /\ a.z < b.z))

\* discover_ports_between: links side by side become one port.
Continues(port, link, dir) ==
    /\ port.from = link.from /\ port.to = link.to /\ port.cost = link.cost
    /\ port.exit[3] = link.z /\ port.exit[2] + port.width = link.coord

PortsOf(links, dir) ==
    LET Add(found, k) ==
            IF found # <<>> /\ Continues(Last(found), k, dir)
            THEN [found EXCEPT ![Len(found)].width = @ + 1]
            ELSE Append(found, [from |-> k.from, to |-> k.to, dir |-> dir, cost |-> k.cost,
                                exit |-> OnBoundary(dir, k.coord) \o <<k.z>>, width |-> 1])
    IN ToSet(FoldLeft(Add, <<>>, links))

Reversed(port) ==
    LET cost == Opposite(port.cost) IN
    [from |-> port.to, to |-> port.from, dir |-> -port.dir, cost |-> cost,
     exit |-> <<Size - 1 - port.exit[1], port.exit[2], port.exit[3] - ZOffset(cost)>>,
     width |-> port.width]

\* finalize_chunk: the chunk's areas in the slabs of the batch are new.
FinalizeChunk(graph, c, levels, areas) ==
    LET gone(a) == a[1] = c /\ a[2] \in levels
        found == UNION {PortsOf(Links(c, dir, levels, areas), dir) :
                            dir \in {d \in {East, West} : c + d \in Chunks}}
        mine == {AreaOf(p, areas) : p \in {q \in DOMAIN areas : SlabOf(q)[1] = c}}
    IN [nodes |-> {a \in graph.nodes : ~gone(a)} \cup mine
                    \cup UNION {{e.from, e.to} : e \in found},
        ports |-> {e \in graph.ports : ~gone(e.from) /\ ~gone(e.to)}
                    \cup found \cup {Reversed(e) : e \in found}]

----------------------------------------------------------------------------
\* Slabs are flood filled, and their batch is finalized chunk by chunk.  The batch's
\* slabs are taken for a cuboid: every chunk in it has all of its levels.
Process(slabs, blocks) ==
    LET found == {Discover(s, Undiscovered, blocks) : s \in slabs}
        areas == FoldSet(LAMBDA f, g : f.area @@ g,
                         Restrict(area, {p \in DOMAIN area : SlabOf(p) \notin slabs}), found)
        levels == {s[2] : s \in slabs}
        graph == FoldLeft(LAMBDA g, c : FinalizeChunk(g, c, Min(levels)..Max(levels), areas),
                          [nodes |-> nodes, ports |-> ports],
                          InOrder({s[1] : s \in slabs}, <))
    IN
    /\ area' = areas
    /\ steps' = {e \in steps : SlabOf(e[1]) \notin slabs} \cup UNION {f.steps : f \in found}
    /\ stale' = (stale \cup {s \in Slabs : SliceBelow(s) \cap blocks # SliceBelow(s) \cap solid}) \ slabs
    /\ nodes' = graph.nodes /\ ports' = graph.ports

Load ==
    /\ edits = 0 /\ edits' = 1
    /\ Process(Slabs, solid)
    /\ UNCHANGED solid

Edit(range, becomes) ==
    LET updates == SlabUpdates(range[1], range[2])
        here == UNION {Changed(u) : u \in updates}
        blocks == IF becomes = "air" THEN solid \ here ELSE solid \cup here
    IN
    /\ edits \in 1..MaxEdits /\ edits' = edits + 1
    /\ solid' = blocks
    /\ Process({u.slab : u \in updates}, blocks)

TerrainInit ==
    /\ solid = Ground
    /\ area = <<>> /\ steps = {} /\ nodes = {} /\ ports = {} /\ edits = 0
    /\ stale = Slabs

TerrainNext ==
    \/ Load
    \/ \E range \in Ranges, becomes \in {"air", "stone"} : Edit(range, becomes)

TerrainSpec == TerrainInit /\ [][TerrainNext]_tevars

----------------------------------------------------------------------------
\* A step that somebody can take inside a slab, if each is on its feet: the same for
\* both ways.
Headroom(p, q) == IF q[3] > p[3] THEN Above(p) ELSE Above(q)
CanStep(p, q) ==
    /\ SlabOf(p) = SlabOf(q)
    /\ (p[1] - q[1]) * (p[1] - q[1]) + (p[2] - q[2]) * (p[2] - q[2]) = 1
    /\ p[3] = q[3] \/ (p[3] - q[3] \in {-1, 1} /\ Headroom(p, q) \notin solid)

\* The areas of a slab are what can be walked to in it: a block has one just if it can
\* be stood on, the block graphs have just the steps that can be taken, and two blocks
\* have the same area just if those connect them.  (A slab whose floor was edited in the
\* slab below is not flood filled again; it is left out.)
AreasAreConnected ==
    \A s \in Slabs \ stale :
        LET on == {p \in BlocksOf(s) : IsWalkable(p, solid)}
            mine == {e \in steps : SlabOf(e[1]) = s}
            Reach[p \in on, n \in 0..Cardinality(on)] ==
                IF n = 0 THEN {p}
                ELSE UNION {{q \in on : q = r \/ CanStep(r, q)} : r \in Reach[p, n - 1]}
        IN
        /\ on = DOMAIN area \cap BlocksOf(s)
        /\ {<<e[1], e[2]>> : e \in mine} = {e \in on \X on : CanStep(e[1], e[2])}
        /\ \A e \in mine : e[2][3] - e[1][3] = ZOffset(e[3])
        /\ \A p, q \in on : area[p] = area[q] <=> q \in Reach[p, Cardinality(on)]

\* Wherever a port is crossed (exit_closest may choose any block of its width), it leads
\* out of the one area and into the other, as find_path takes for granted when it goes on
\* from the block beyond; and its areas are nodes of the graph.
ExitBlocks(e) == {Plus(<<e.from[1] * Size, 0, 0>>, Plus(e.exit, <<0, i, 0>>)) : i \in 0..(e.width - 1)}
EntryBlock(e, b) == <<(e.from[1] + e.dir) * Size + Across(e.dir, b[1]), b[2], b[3] + ZOffset(e.cost)>>
InArea(p, a) == p \in DOMAIN area /\ AreaOf(p, area) = a
PortsLead ==
    /\ \A e \in ports : /\ {e.from, e.to} \subseteq nodes /\ Reversed(e) \in ports
                        /\ \A b \in ExitBlocks(e) : InArea(b, e.from) /\ InArea(EntryBlock(e, b), e.to)
    /\ nodes = {AreaOf(p, area) : p \in DOMAIN area}

\* No link is lost: two blocks side by side across a boundary that are each the first the
\* other finds are joined by a port, whichever chunk was finalized last.
Beyond(p, dir) == {e[1] : e \in FirstBeyond(p, dir, area)}
NeighboursJoined ==
    \A p, q \in DOMAIN area :
        /\ SlabOf(p)[1] # SlabOf(q)[1] /\ {SlabOf(p), SlabOf(q)} \cap stale = {}
        /\ q \in Beyond(p, East) /\ p \in Beyond(q, West)
        => \E e \in ports : p \in ExitBlocks(e) /\ EntryBlock(e, p) = q

\* All three: what the graphs say of walking is what the blocks say, within slabs and
\* across chunks, whatever was edited in between.
GraphsMatchTerrain == AreasAreConnected /\ PortsLead /\ NeighboursJoined

\* An edit changes the blocks of its range and no other, however the range lies across
\* the boundaries of chunks and slabs.
EditsAreExact ==
    [][\A range \in Ranges, becomes \in {"air", "stone"} : Edit(range, becomes) =>
            solid' = IF becomes = "air" THEN solid \ Box(range[1], range[2])
                     ELSE solid \cup Box(range[1], range[2])]_tevars
=============================================================================
