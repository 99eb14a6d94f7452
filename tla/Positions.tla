----------------------------- MODULE Positions ------------------------------
(***************************************************************************)
(* Where blocks are (shared/unit, shared/grid).                            *)
(*                                                                         *)
(* A block has a position in the world, one in a chunk and one in a slab   *)
(* of that chunk, an index into the slab's array of blocks, and belongs to *)
(* ranges of blocks between two corners.  A range is dragged out by its    *)
(* corners here, also across the origin, where Rust's division truncates.  *)
(***************************************************************************)
EXTENDS Integers, FiniteSets

CONSTANTS
    ChunkSide, SlabHeight,  \* CHUNK_SIZE, SLAB_SIZE
    Extent,                 \* bound: of the corners' coordinates
    GridWidth, GridDepth, GridHeight  \* dims of a DynamicGrid

ASSUME PositionsAssumption ==
    /\ ChunkSide \in Nat \ {0} /\ SlabHeight \in Nat \ {0} /\ Extent \in Nat
    /\ GridWidth \in Nat \ {0} /\ GridDepth \in Nat \ {0} /\ GridHeight \in Nat \ {0}

VARIABLES from, to          \* WorldPosition, of the corners of a range

rangevars == <<from, to>>

WorldPosition == Int \X Int \X Int

-----------------------------------------------------------------------------
(* Slices, slabs and chunks *)

RustRem(a, n) == IF a >= 0 THEN a % n ELSE -((-a) % n)

\* Mutant of ToLocal: negative slices do not flip.
ToLocalTruncated(s) == RustRem(s, SlabHeight)

ToLocal(s) ==
    LET idx == RustRem(s, SlabHeight) IN IF idx < 0 THEN idx + SlabHeight ELSE idx

SlabIndexOf(s) == s \div SlabHeight
AsSlice(slab) == slab * SlabHeight
ToGlobal(local, slab) == AsSlice(slab) + local

ChunkOf(w) == <<w[1] \div ChunkSide, w[2] \div ChunkSide>>
BlockOf(w) == <<w[1] % ChunkSide, w[2] % ChunkSide, w[3]>>
BlockToWorld(b, chunk) == <<b[1] + chunk[1] * ChunkSide, b[2] + chunk[2] * ChunkSide, b[3]>>

SlabLocationOf(w) == [chunk |-> ChunkOf(w), slab |-> SlabIndexOf(w[3])]
SlabPositionOf(w) == <<BlockOf(w)[1], BlockOf(w)[2], ToLocal(w[3])>>
SlabToBlock(p, slab) == <<p[1], p[2], ToGlobal(p[3], slab)>>
SlabToWorld(p, location) == BlockToWorld(SlabToBlock(p, location.slab), location.chunk)

\* BlockPosition::try_add_xy, SliceBlock::try_add: a set of one, or of none.
TryAdd(b, dx, dy) ==
    {<<c, d, b[3]>> : c \in {b[1] + dx} \cap 0 .. ChunkSide - 1,
                      d \in {b[2] + dy} \cap 0 .. ChunkSide - 1}

IsEdge(b) == b[1] \in {0, ChunkSide - 1} \/ b[2] \in {0, ChunkSide - 1}

Moved(w, dx, dy) == <<w[1] + dx, w[2] + dy, w[3]>>

-----------------------------------------------------------------------------
(* Ranges *)

Lower(a, b, i) == IF a[i] < b[i] THEN a[i] ELSE b[i]
Upper(a, b, i) == IF a[i] < b[i] THEN b[i] ELSE a[i]
Corner(a, b) == <<Lower(a, b, 1), Lower(a, b, 2), Lower(a, b, 3)>>
FarCorner(a, b) == <<Upper(a, b, 1), Upper(a, b, 2), Upper(a, b, 3)>>

Along(a, b, i) == Lower(a, b, i) .. Upper(a, b, i)
IterBlocks(a, b) == Along(a, b, 1) \X Along(a, b, 2) \X Along(a, b, 3)
Length(a, b, i) == Upper(a, b, i) - Lower(a, b, i) + 1
Count(a, b) == Length(a, b, 1) * Length(a, b, 2) * Length(a, b, 3)

\* with_exclusive_range: the far corner is one less, but not less than the near one.
ExclusiveCorner(a, b) ==
    [i \in 1 .. 3 |-> IF Upper(a, b, i) - 1 < Lower(a, b, i) THEN Lower(a, b, i)
                      ELSE Upper(a, b, i) - 1]

\* iter_outline: the four sides of a range that is not too narrow, by their corners.
Outline(a, b) ==
    LET p == Corner(a, b)
        q == FarCorner(a, b)
    IN IF q[1] - p[1] < 2 \/ q[2] - p[2] < 2 THEN {}
       ELSE {<<p, <<q[1], p[2], q[3]>>>>,
             <<<<p[1], p[2] + 1, p[3]>>, <<p[1], q[2], q[3]>>>>,
             <<<<q[1], p[2] + 1, p[3]>>, q>>,
             <<<<p[1] + 1, q[2], p[3]>>, <<q[1] - 1, q[2], q[3]>>>>}

\* all_slabs_in_range, and the number that it says they are.
AllSlabsInRange(s, t) ==
    [chunk : (s.chunk[1] .. t.chunk[1]) \X (s.chunk[2] .. t.chunk[2]), slab : s.slab .. t.slab]
SlabCount(s, t) ==
    (t.slab - s.slab + 1) * ((t.chunk[1] - s.chunk[1] + 1) * (t.chunk[2] - s.chunk[2] + 1))

-----------------------------------------------------------------------------
(* Grids *)

Flatten(c) == c[1] + GridWidth * (c[2] + GridDepth * c[3])
Unflatten(n) == <<n % GridWidth, (n \div GridWidth) % GridDepth, n \div (GridDepth * GridWidth)>>

Indices == 0 .. GridWidth * GridDepth * GridHeight - 1

\* wrap_coord: z is clamped, not wrapped.
WrapCoord(c) ==
    <<c[1] % GridWidth, c[2] % GridDepth,
      IF c[3] < 0 THEN 0 ELSE IF c[3] > GridHeight - 1 THEN GridHeight - 1 ELSE c[3]>>

Around == {-1, 0, 1} \X {-1, 0, 1} \ {<<0, 0>>}

\* What is around a coordinate; the layer is dropped, all are in the lowest one.
Beside(c) == {<<c[1] + d[1], c[2] + d[2], 0>> : d \in Around}
InGrid(c) == c[1] \in 0 .. GridWidth - 1 /\ c[2] \in 0 .. GridDepth - 1

GridNeighbours ==
    [n \in Indices |-> {Flatten(c) : c \in {d \in Beside(Unflatten(n)) : InGrid(d)}}]
WrappingNeighbours ==
    [n \in Indices |-> {Flatten(WrapCoord(c)) : c \in Beside(Unflatten(n))}]

\* slice_range_multiple: the indices of some layers.
SliceRange(low, high) ==
    GridWidth * GridDepth * low .. GridWidth * GridDepth * high - 1

-----------------------------------------------------------------------------
(* A corner is dragged *)

Corners == (-Extent .. Extent) \X (-Extent .. Extent) \X (-Extent .. Extent)

PositionsInit == from = <<0, 0, 0>> /\ to = <<0, 0, 0>>

Drag(i, step) ==
    \/ /\ from' = [from EXCEPT ![i] = @ + step] /\ from' \in Corners
       /\ UNCHANGED to
    \/ /\ to' = [to EXCEPT ![i] = @ + step] /\ to' \in Corners
       /\ UNCHANGED from

PositionsNext == \E i \in 1 .. 3, step \in {-1, 1} : Drag(i, step)

PositionsSpec == PositionsInit /\ [][PositionsNext]_rangevars

-----------------------------------------------------------------------------
(* Properties *)

\* A block's slab and its position there lead back to it, on either side of the origin; the
\* slice in a slab is one of its slices (slice_index.rs:84, "negative slices flip").
SlabsPartition ==
    /\ SlabPositionOf(from) \in
          (0 .. ChunkSide - 1) \X (0 .. ChunkSide - 1) \X (0 .. SlabHeight - 1)
    /\ SlabToWorld(SlabPositionOf(from), SlabLocationOf(from)) = from

\* A step within a chunk is the step in the world, and one that leaves the chunk is from its
\* edge and has no result.
StepsAgree ==
    \A d \in Around :
       LET there == Moved(from, d[1], d[2]) IN
       /\ TryAdd(BlockOf(from), d[1], d[2]) =
             IF ChunkOf(there) = ChunkOf(from) THEN {BlockOf(there)} ELSE {}
       /\ TryAdd(BlockOf(from), d[1], d[2]) = {} => IsEdge(BlockOf(from))

\* A range has as many blocks as it says, its slabs are those of its blocks and as many as are
\* expected (slab_location.rs:71), and its outline is every block on its four sides once.
RangesCover ==
    /\ Cardinality(IterBlocks(from, to)) = Count(from, to)
    /\ IterBlocks(from, ExclusiveCorner(from, to)) # {}
    /\ LET s == SlabLocationOf(Corner(from, to))
           t == SlabLocationOf(FarCorner(from, to))
       IN /\ AllSlabsInRange(s, t) = {SlabLocationOf(w) : w \in IterBlocks(from, to)}
          /\ Cardinality(AllSlabsInRange(s, t)) = SlabCount(s, t)
    /\ Outline(from, to) # {} =>
          LET sides == {IterBlocks(r[1], r[2]) : r \in Outline(from, to)}
              p == Corner(from, to)
              q == FarCorner(from, to)
          IN /\ UNION sides = {w \in IterBlocks(from, to) :
                                 w[1] \in {p[1], q[1]} \/ w[2] \in {p[2], q[2]}}
             /\ \A a, b \in sides : a # b => a \cap b = {}
             /\ Cardinality(sides) = 4

\* Every coordinate of a grid has an index of its own, in its layer's range, and whoever is a
\* neighbour, around the edge or not, has the other as one.
GridsUnfold ==
    LET c == WrapCoord(from)
        n == Flatten(c)
        m == Flatten(<<c[1], c[2], 0>>)
    IN /\ InGrid(c) /\ c[3] \in 0 .. GridHeight - 1 /\ Unflatten(n) = c
       /\ n \in SliceRange(c[3], c[3] + 1)
       /\ \A k \in WrappingNeighbours[n] : m \in WrappingNeighbours[k]
       /\ \A k \in GridNeighbours[n] : m \in GridNeighbours[k] /\ k \in WrappingNeighbours[n]

PositionsAgree == SlabsPartition /\ StepsAgree /\ RangesCover /\ GridsUnfold
=============================================================================
