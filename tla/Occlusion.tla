------------------------------ MODULE Occlusion ------------------------------
(***************************************************************************)
(* Which of the blocks around and above it each block remembers to be      *)
(* solid, to be drawn darker (occlusion.rs).  A worker finds out within a  *)
(* slab (chunk/slab.rs), the finalizer compares slabs and chunks that are  *)
(* side by side (loader/finalizer.rs, chunk/terrain.rs) and queues what it *)
(* finds for the game's next tick (world.rs), while other slabs are edited *)
(* or loaded.  Who loads what is modelled in WorldLoader; here a batch is  *)
(* processed slab by slab and finalized in one step.                       *)
(*                                                                         *)
(* A block is <<chunk, x, y, z>>, with x and y relative to the chunk.      *)
(***************************************************************************)
EXTENDS Integers, Sequences, FiniteSets, SequencesExt, FiniteSetsExt, TLC

CONSTANTS
    Size,      \* CHUNK_SIZE
    Height,    \* SLAB_SIZE
    Chunks,    \* pairs, all of which are in the world
    Levels,    \* an interval of slabs with 0 in it
    Ground,    \* the blocks that are solid when their slab is loaded
    Requests,  \* sets of slabs that are requested together
    Edits,     \* pairs: what blocks become, "stone" or "air", and which blocks
    MaxEdits   \* bound

VARIABLES
    rock,      \* the blocks that are solid
    shade,     \* BlockOcclusion of every block
    slabs,     \* chunk |-> its lowest and highest slab (DoubleSidedVec)
    loaded,    \* slabs that are not placeholders
    underway,  \* batches: slab |-> what its processing has come to
    queue,     \* OcclusionChunkUpdates
    edits      \* how many edits there have been

occlusionVars == <<rock, shade, slabs, loaded, underway, queue, edits>>

Coords == (0 .. Size - 1) \X (0 .. Size - 1)
BlocksOf(s) == {<<s[1], p[1], p[2], z>> : p \in Coords, z \in s[2] * Height .. s[2] * Height + Height - 1}
Slabs == Chunks \X Levels
Block == UNION {BlocksOf(s) : s \in Slabs}
SlabOf(p) == <<p[1], p[4] \div Height>>
Within(p, ranges) == SlabOf(p)[2] \in ranges[p[1]][1] .. ranges[p[1]][2]
Above(p) == <<p[1], p[2], p[3], p[4] + 1>>
IsTop(z) == z % Height = Height - 1

----------------------------------------------------------------------------
\* NeighbourOffset: directions from south, anti-clockwise.

Dirs == 0 .. 7
Offset(d) == <<<<0, -1>>, <<1, -1>>, <<1, 0>>, <<1, 1>>, <<0, 1>>, <<-1, 1>>, <<-1, 0>>, <<-1, -1>>>>[d + 1]
Next(d) == (d + 7) % 8
Prev(d) == (d + 1) % 8
Opposite(d) == (d + 4) % 8
Aligned == {0, 2, 4, 6}
South == 0
East == 2
North == 4
West == 6
Beside(c, d) == <<c[1] + Offset(d)[1], c[2] + Offset(d)[2]>>

\* OcclusionOpacity.  What is known is not forgotten for something unknown.
Nothing == [d \in Dirs |-> "unknown"]
AllClear == [d \in Dirs |-> "clear"]
Opacity(blocks, p) == IF p \in blocks THEN "solid" ELSE "clear"

Update(old, new) == [d \in Dirs |-> IF new[d] = "unknown" THEN old[d] ELSE new[d]]
SameSolids(a, b) == \A d \in Dirs : (a[d] = "solid") <=> (b[d] = "solid")

----------------------------------------------------------------------------
\* DoubleSidedVec and RawChunkTerrain

\* create_slabs_until: placeholders fill the gap, on the side of the new slab.
CreateUntil(range, l) == <<Min({range[1], l}), Max({range[2], l})>>

\* limited_slab_indices; the first may be above the second.
Limited(range, lo, hi) == <<Max({lo, range[1]}), Min({hi, range[2]})>>

\* with_slice_above: only blocks of the same chunk are looked at.
WithSliceAbove(p, blocks) ==
    [d \in Dirs |-> LET x == p[2] + Offset(d)[1]
                        y == p[3] + Offset(d)[2] IN
        IF <<x, y>> \in Coords THEN Opacity(blocks, <<p[1], x, y, p[4] + 1>>) ELSE "unknown"]

\* init_occlusion of slab s, whose blocks are as in "blocks".  In "above" is what is solid
\* in the slab above, or nothing if that is not there: the top slice is left alone then.
InitOcclusion(s, blocks, above, before) ==
    LET around == blocks \cup UNION above IN
    [p \in BlocksOf(s) |->
        IF IsTop(p[4]) /\ above = {} THEN before[p]
        ELSE IF p \in blocks /\ Above(p) \notin around THEN WithSliceAbove(p, around)
        ELSE Nothing]

\* calculate_boundary_slice_block_offsets: the blocks along a side, anti-clockwise.
BoundaryOf(d) ==
    [i \in 1 .. Size |-> CASE d = North -> <<Size - i, Size - 1>> [] d = South -> <<i - 1, 0>>
                           [] d = West -> <<0, Size - i>>         [] d = East -> <<Size - 1, i - 1>>]

\* extend_boundary_slice_block
Extended(d, p) ==
    CASE d = North -> <<p[1], 0>>        [] d = South -> <<p[1], Size - 1>>
      [] d = West -> <<Size - 1, p[2]>>  [] d = East -> <<0, p[2]>>

Corner(d) == CASE d = 1 -> <<Size - 1, 0>> [] d = 3 -> <<Size - 1, Size - 1>>
               [] d = 5 -> <<0, Size - 1>> [] d = 7 -> <<0, 0>>

Seen(p, opacities) == [block |-> p, opacities |-> opacities]

\* yield_side: what the blocks of chunk c along the side to chunk o see there.
YieldSide(c, z, o, d, blocks) ==
    {Seen(<<c, BoundaryOf(d)[i][1], BoundaryOf(d)[i][2], z>>,
          [n \in Dirs |->
              LET k == CASE n = d -> i [] n = Next(d) -> i - 1 [] n = Prev(d) -> i + 1 [] OTHER -> 0
                  there == Extended(d, BoundaryOf(d)[k]) IN
              IF k \in 1 .. Size THEN Opacity(blocks, <<o, there[1], there[2], z + 1>>) ELSE "unknown"]) :
        i \in {j \in 1 .. Size : Above(<<c, BoundaryOf(d)[j][1], BoundaryOf(d)[j][2], z>>) \notin blocks}}

\* yield_corner speaks up only for a solid block.
YieldCorner(c, z, o, d, blocks) ==
    LET p == <<c, Corner(d)[1], Corner(d)[2], z>>
        there == Corner(Opposite(d)) IN
    IF Above(p) \in blocks \/ <<o, there[1], there[2], z + 1>> \notin blocks THEN {}
    ELSE {Seen(p, [Nothing EXCEPT ![d] = "solid"])}

Yield(c, z, o, d, blocks) == IF d \in Aligned THEN YieldSide(c, z, o, d, blocks) ELSE YieldCorner(c, z, o, d, blocks)

\* cross_chunk_pairs_foreach: the slices of either chunk below a slice of the other, in
\* the slabs that both have, and the top slice of the slab where the one or the other
\* has its first slab above it, or its last.
CrossChunkPairs(c, d, lo, hi, blocks, ranges) ==
    LET o == Beside(c, d)
        my == Limited(ranges[c], lo, hi)
        ur == Limited(ranges[o], lo, hi)
        Top(l) == l * Height + Height - 1
        common == {z \in Max({my[1], ur[1]}) * Height .. Top(Min({my[2], ur[2]})) - 1 : TRUE}
        lower(first, second) == IF first < second THEN {<<c, o, d>>} ELSE {<<o, c, Opposite(d)>>}
        below == IF my[1] = ur[1] THEN {}
                 ELSE {<<w, Top(Max({my[1], ur[1]}) - 1)>> : w \in lower(my[1], ur[1])}
        above == IF my[2] = ur[2] THEN {}
                 ELSE {<<w, Top(Min({my[2], ur[2]}))>> : w \in lower(my[2], ur[2])}
        visits == {<<w, z>> : w \in {<<c, o, d>>, <<o, c, Opposite(d)>>}, z \in common}
                    \cup below \cup above
    IN UNION {Yield(v[1][1], v[2], v[1][2], v[1][3], blocks) : v \in visits}

\* slab_boundary_slices, and what the blocks below a boundary see.
AcrossSlabs(c, blocks, ranges) ==
    {Seen(p, WithSliceAbove(p, blocks)) :
        p \in {q \in blocks : q[1] = c /\ IsTop(q[4]) /\ Above(q) \notin blocks /\ Within(Above(q), ranges)}}

\* finalize_occlusion, for the slabs of chunk c from lo to hi.
FinalizeOcclusion(c, lo, hi, blocks, ranges) ==
    UNION {CrossChunkPairs(c, d, lo, hi, blocks, ranges) : d \in {n \in Dirs : Beside(c, n) \in Chunks}}
        \cup AcrossSlabs(c, blocks, ranges)

----------------------------------------------------------------------------
\* What the processing of a slab has come to.  A slab that is in the world is processed
\* in place; a new one is kept, with its shades, until its batch is complete.
Waits == [done |-> FALSE, blocks |-> {}, shades |-> <<>>]
InPlace == [Waits EXCEPT !.done = TRUE]

\* SlabLoadingStatus
InProgress(s) == \E b \in underway : s \in DOMAIN b /\ b[s].done
IsRequested(s) == s \notin loaded /\ \E b \in underway : s \in DOMAIN b /\ ~b[s].done

\* Slabs that are wanted and not loaded, after ensure_chunk.
Request(ss) ==
    /\ \A s \in ss : s \notin loaded /\ ~InProgress(s) /\ ~IsRequested(s)
    /\ underway' = underway \cup {[s \in ss |-> Waits]}
    /\ UNCHANGED <<rock, shade, slabs, loaded, queue, edits>>

\* apply_terrain_updates_in_place, then the slabs go to the workers.  A block that is set
\* is a new one, with the default occlusion.  What is to become of a slab that is being
\* loaded is put off.
Edit(becomes, ps) ==
    LET ss == {SlabOf(p) : p \in ps} IN
    /\ edits < MaxEdits /\ edits' = edits + 1
    /\ \A s \in ss : s \in loaded /\ ~InProgress(s)
    /\ rock' = IF becomes = "stone" THEN rock \cup ps ELSE rock \ ps
    /\ shade' = [p \in Block |-> IF p \in ps THEN AllClear ELSE shade[p]]
    /\ underway' = underway \cup {[s \in ss |-> Waits]}
    /\ UNCHANGED <<slabs, loaded, queue>>

\* get_neighbouring_slabs and process_terrain: a worker waits for the slab below if that
\* is on its way, and makes do without the one above if that is not there yet.
Process(b, s) ==
    LET old == s \in loaded
        blocks == (IF old THEN rock ELSE Ground) \cap BlocksOf(s)
        over == <<s[1], s[2] + 1>>
        held == {x[over].blocks : x \in {y \in underway : over \in DOMAIN y /\ y[over].done}}
        above == IF over \in loaded THEN {rock \cap BlocksOf(over)} ELSE held
        before == IF old THEN shade ELSE [p \in BlocksOf(s) |-> AllClear]
        found == InitOcclusion(s, blocks, above, before)
    IN
    /\ ~b[s].done /\ ~IsRequested(<<s[1], s[2] - 1>>)
    /\ underway' = (underway \ {b}) \cup
            {[b EXCEPT ![s] = IF old THEN InPlace ELSE [done |-> TRUE, blocks |-> blocks, shades |-> found]]}
    /\ shade' = IF old THEN found @@ shade ELSE shade
    /\ UNCHANGED <<rock, slabs, loaded, queue, edits>>

\* populate_chunk_with_slabs, for every chunk of a batch that is complete.  The range of
\* slabs is that of the whole batch.
Lowest(b) == Min({s[2] : s \in DOMAIN b})
Highest(b) == Max({s[2] : s \in DOMAIN b})
Populate(b) ==
    LET new == DOMAIN b \ loaded
        chunks == {s[1] : s \in DOMAIN b} IN
    /\ \A s \in DOMAIN b : b[s].done
    /\ underway' = underway \ {b}
    /\ rock' = rock \cup UNION {b[s].blocks : s \in new}
    /\ shade' = [p \in Block |-> IF SlabOf(p) \in new THEN b[SlabOf(p)].shades[p] ELSE shade[p]]
    /\ slabs' = [c \in Chunks |-> IF c \in chunks THEN CreateUntil(CreateUntil(slabs[c], Lowest(b)), Highest(b))
                                  ELSE slabs[c]]
    /\ loaded' = loaded \cup DOMAIN b

Finalize(b) ==
    /\ Populate(b)
    /\ queue' = Append(queue, UNION {FinalizeOcclusion(c, Lowest(b), Highest(b), rock', slabs') :
                                        c \in {s[1] : s \in DOMAIN b}})
    /\ UNCHANGED edits

\* iter_occlusion_updates and apply_occlusion_updates, at the start of a tick.
ApplyUpdate(old, seen) ==
    [p \in Block |->
        FoldSet(LAMBDA u, o : IF SameSolids(o, u.opacities) THEN o ELSE Update(o, u.opacities),
                old[p], {u \in seen : u.block = p})]

Tick ==
    /\ queue # <<>> /\ queue' = <<>>
    /\ shade' = FoldLeft(ApplyUpdate, shade, queue)
    /\ UNCHANGED <<rock, slabs, loaded, underway, edits>>

\* A chunk begins with a placeholder at 0, of air.
OcclusionInit ==
    /\ rock = {} /\ shade = [p \in Block |-> AllClear]
    /\ slabs = [c \in Chunks |-> <<0, 0>>] /\ loaded = {}
    /\ underway = {} /\ queue = <<>> /\ edits = 0

OcclusionNext ==
    \/ \E ss \in Requests : Request(ss)
    \/ \E e \in Edits : Edit(e[1], e[2])
    \/ \E b \in underway : (\E s \in DOMAIN b : Process(b, s)) \/ Finalize(b)
    \/ Tick

OcclusionSpec == OcclusionInit /\ [][OcclusionNext]_occlusionVars

----------------------------------------------------------------------------
\* The block that block p sees in a direction, in whatever chunk.
SeenFrom(p, d) ==
    LET x == p[2] + Offset(d)[1]
        y == p[3] + Offset(d)[2]
    IN <<<<p[1][1] + x \div Size, p[1][2] + y \div Size>>, x % Size, y % Size, p[4] + 1>>
IsVisible(p) == p \in rock /\ Within(p, slabs) /\ Within(Above(p), slabs) /\ Above(p) \notin rock

\* Once nothing is underway, a block in the open knows which of the blocks around it are
\* solid, whichever of their slabs was edited or loaded last and whatever was queued
\* meanwhile: to all sides within its chunk; beyond a side of the chunk, if they are in a
\* slab of the same height; and across a corner at least none that is solid is missed.
OcclusionIsExact ==
    underway = {} /\ queue = <<>> =>
        \A p \in {q \in Block : IsVisible(q)}, d \in Dirs :
            LET n == SeenFrom(p, d)
                same == n[1] = p[1]
                corner == n[1][1] # p[1][1] /\ n[1][2] # p[1][2]
                dark == shade[p][d] = "solid" IN
            /\ same => (dark <=> n \in rock)
            /\ ~same /\ ~corner /\ ~IsTop(p[4]) /\ n[1] \in Chunks /\ Within(n, slabs) => (dark <=> n \in rock)
            /\ corner /\ ~IsTop(p[4]) /\ n \in rock => dark
=============================================================================
