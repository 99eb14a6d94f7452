------------------------------ MODULE RegionScan ------------------------------
(***************************************************************************)
(* How a region finds its forest (procgen/src/region/row_scanning.rs,      *)
(* region.rs, unit.rs, feature.rs): the rows of forest among the blocks of *)
(* its chunks, the neighbours that the forest may go on in, the points of  *)
(* its boundary and its range of heights, and how a boundary is simplified *)
(* and expanded.                                                           *)
(*                                                                         *)
(* These are functions of the terrain.  The state is what they are applied *)
(* to: blocks become forest one after the other, and so does a line become *)
(* longer.  A point on the planet is given in blocks, not in regions.      *)
(***************************************************************************)
EXTENDS PlanetParams, Sequences, FiniteSets, FiniteSetsExt, SequencesExt

CONSTANTS
    Heights,        \* maps of the ground that a region may have
    Corners,        \* the points that lines are made of
    MaxWood, MaxLine, \* bounds on the blocks of a forest and the points of a line
    expansion       \* region_feature_expansion, in blocks

Side == SIZE * CHUNK_SIZE
Surface == (0 .. Side - 1) \X (0 .. Side - 1)

VARIABLES
    wood,           \* the blocks of the region whose biome is forest
    ground,         \* height of its blocks
    line            \* points of a boundary

scanvars == <<wood, ground, line>>

-----------------------------------------------------------------------------
(* Regions, chunks and blocks: RegionLocation, PlanetPoint *)

ChunkIndex(chunk) == (chunk[1] % SIZE) + (chunk[2] % SIZE) * SIZE
ChunkBounds(r) == <<<<r[1] * SIZE, r[2] * SIZE>>, <<r[1] * SIZE + SIZE - 1, r[2] * SIZE + SIZE - 1>>>>
LocalChunkToGlobal(r, chunk) == <<r[1] * SIZE + chunk[1], r[2] * SIZE + chunk[2]>>

\* The point of a block, of which its chunk's index and the block in it are known.
WithPrecalculated(r, chunk_idx, block) ==
    <<r[1] * Side + (chunk_idx % SIZE) * CHUNK_SIZE + block[1],
      r[2] * Side + (chunk_idx \div SIZE) * CHUNK_SIZE + block[2]>>
FromBlock(b) ==
    LET chunk == <<b[1] \div CHUNK_SIZE, b[2] \div CHUNK_SIZE>>
    IN  WithPrecalculated(RegionOf(chunk), ChunkIndex(chunk), <<b[1] % CHUNK_SIZE, b[2] % CHUNK_SIZE>>)

\* The blocks of a region as they lie in memory: chunk by chunk, each row by row.
InMemory(chunk, i) ==
    WithPrecalculated(<<0, 0>>, chunk, <<i % CHUNK_SIZE, i \div CHUNK_SIZE>>)

\* Mutant of BlockRows: the rows of a chunk come one after the other.
BlockRowsOfChunks(k) == InMemory(k \div (CHUNK_SIZE * CHUNK_SIZE), k % (CHUNK_SIZE * CHUNK_SIZE))

\* The k-th block of the iterator over rows through all the chunks of the region.
BlockRows(k) ==
    LET row_of_chunks == k \div (Side * CHUNK_SIZE)
        by == (k \div Side) % CHUNK_SIZE
        cx == (k % Side) \div CHUNK_SIZE
        bx == k % CHUNK_SIZE
    IN  InMemory(row_of_chunks * SIZE + cx, by * CHUNK_SIZE + bx)

-----------------------------------------------------------------------------
(* Scanning: scan, calculate_regional_diagonals *)

\* Of a row's blocks from the i-th on: where forest starts, and where it ends.  A row that
\* starts with the region's first block, or ends with its last, is Continued (-1).
Continued == -1
RowOf(col) == [i \in 0 .. Side - 1 |-> BlockRows(col * Side + i)]

RowsFrom(col) ==
    LET row == RowOf(col)
        from[i \in 0 .. Side] ==
            LET starts == {j \in i .. Side - 1 : row[j] \in wood} IN
            IF starts = {} THEN {}
            ELSE LET start == Min(starts)
                     ends == {j \in start .. Side - 1 : row[j] \notin wood}
                     last == IF ends = {} THEN Side - 1 ELSE Min(ends)
                 IN  {[col |-> col,
                       start |-> IF start = 0 THEN Continued ELSE start,
                       end |-> IF ends = {} THEN Continued ELSE last - 1,
                       low |-> ground[row[start]],
                       high |-> Max({ground[row[j]] : j \in start .. last})]}
                     \cup from[last + 1]
    IN  from[0]

Rows == UNION {RowsFrom(col) : col \in 0 .. Side - 1}

Offset == [Up |-> <<0, 1>>, Down |-> <<0, -1>>, Left |-> <<-1, 0>>, Right |-> <<1, 0>>,
           UpLeft |-> <<-1, 1>>, UpRight |-> <<1, 1>>, DownRight |-> <<1, -1>>, DownLeft |-> <<-1, -1>>]
OppositeOf == [Up |-> "Down", Down |-> "Up", Left |-> "Right", Right |-> "Left",
             UpLeft |-> "DownRight", UpRight |-> "DownLeft", DownRight |-> "UpLeft", DownLeft |-> "UpRight"]

AlignedOverflows ==
    {d \in {"Up", "Down", "Left", "Right"} : \E row \in Rows :
        \/ d = "Left" /\ row.start = Continued
        \/ d = "Right" /\ row.end = Continued
        \/ d = "Down" /\ row.col = 0
        \/ d = "Up" /\ row.col = Side - 1}

\* Diagonal neighbours are derived from two aligned ones.
Diagonals(aligned) ==
    {d \in DOMAIN Offset \ {"Up", "Down", "Left", "Right"} :
        \A e \in {"Up", "Down", "Left", "Right"} :
            Offset[e][1] * Offset[d][1] + Offset[e][2] * Offset[d][2] = 1 => e \in aligned}

Overflows == AlignedOverflows \cup Diagonals(AlignedOverflows)

\* The ends of a row, moved apart; a row of one block has one point.
RowStart(row) == IF row.start = Continued THEN 0 ELSE row.start
RowEnd(row) == IF row.end = Continued THEN Side - 1 ELSE row.end
IntoPoints(row, r, e) ==
    LET at(x, d) == <<r[1] * Side + x + d, r[2] * Side + row.col + d>>
    IN  {at(RowStart(row), -e)} \cup (IF RowEnd(row) = RowStart(row) THEN {} ELSE {at(RowEnd(row), e)})

\* FeatureZRange::max_of over all rows.
ZRange == <<Min({row.low : row \in Rows}), Max({row.high : row \in Rows})>>

-----------------------------------------------------------------------------
(* Boundaries: RegionalFeatureBoundary *)

Delta(p, q) == <<q[1] - p[1], q[2] - p[2]>>
\* Whether two differences have the same direction; that of a point to itself has none (NaN).
SameDirection(d, e) ==
    /\ d[1] * e[2] = d[2] * e[1]
    /\ d[1] * e[1] + d[2] * e[2] > 0

\* The points where a line has a new direction; the delta that is compared with is that of
\* the segment before.
Turns(points) ==
    {i \in 1 .. Len(points) - 1 :
        i = 1 \/ ~SameDirection(Delta(points[i - 1], points[i]), Delta(points[i], points[i + 1]))}

SimplifyBoundary(points) ==
    LET kept == [i \in 1 .. Cardinality(Turns(points)) |->
                    points[CHOOSE k \in Turns(points) : Cardinality({t \in Turns(points) : t <= k}) = i]]
    IN  IF kept # <<>> /\ kept[Len(kept)] # points[Len(points)]
        THEN Append(kept, points[Len(points)]) ELSE kept

\* Points within a part of the height, 1 / Threshold, are moved down or up.
Threshold == 2
Expanded(points, low, high) ==
    LET moved(p) == IF (p[2] - low) * Threshold < high - low THEN <<p[1], p[2] - expansion>>
                    ELSE IF (high - p[2]) * Threshold < high - low THEN <<p[1], p[2] + expansion>>
                    ELSE p
    IN  [i \in DOMAIN points |-> moved(points[i])]

-----------------------------------------------------------------------------
ScanInit == wood = {} /\ ground \in Heights /\ line = <<>>

\* Another block's biome is forest: init_region_chunks.
Grow == /\ line = <<>> /\ Cardinality(wood) < MaxWood
        /\ \E b \in Surface \ wood : wood' = wood \cup {b}
        /\ UNCHANGED <<ground, line>>

\* A line of a boundary goes on.
Draw == /\ wood = {} /\ Len(line) < MaxLine
        /\ \E p \in Corners : line' = Append(line, p)
        /\ UNCHANGED <<wood, ground>>

ScanNext == Grow \/ Draw

-----------------------------------------------------------------------------
(* Properties *)

InRow(b, row) == b[2] = row.col /\ b[1] \in RowStart(row) .. RowEnd(row)

\* Whatever the chunks in memory, a block is forest if and only if it is in one of the rows
\* that are found, in one alone, and no row could be longer; the points of a row enclose it
\* and its height is within the range (row_scanning.rs, "collect points that form a concave
\* hull around blocks of the same biome").
RowsAreExact ==
    /\ \A b \in Surface : Cardinality({row \in Rows : InRow(b, row)}) = (IF b \in wood THEN 1 ELSE 0)
    /\ \A row \in Rows : <<RowStart(row) - 1, row.col>> \notin wood /\ <<RowEnd(row) + 1, row.col>> \notin wood
    /\ \A b \in wood : \E row \in Rows :
          LET ps == IntoPoints(row, <<0, 0>>, 0) IN
          \E p, q \in ps : p[2] = b[2] /\ q[2] = b[2] /\ p[1] <= b[1] /\ b[1] <= q[1]
    /\ \A b \in wood : ground[b] <= ZRange[2]

Touches(b, d) ==
    \E x, y \in -1 .. 1 : <<(b[1] + x) \div Side, (b[2] + y) \div Side>> = Offset[d]

\* A neighbour that may have forest next to the region's is told of it, in whichever of the
\* eight directions it lies, and finds it in the opposite one.
NeighboursAreTold ==
    /\ \A d \in DOMAIN Offset : (\E b \in wood : Touches(b, d)) => d \in Overflows
    /\ \A d \in DOMAIN Offset : <<-Offset[d][1], -Offset[d][2]>> = Offset[OppositeOf[d]]

Between(p, q, x) == /\ (q[1] - p[1]) * (x[2] - p[2]) = (q[2] - p[2]) * (x[1] - p[1])
                    /\ x[1] \in Min({p[1], q[1]}) .. Max({p[1], q[1]})
                    /\ x[2] \in Min({p[2], q[2]}) .. Max({p[2], q[2]})

\* A simplified line is the same line: every point of the old is on it, in the same order, and
\* its ends are the same; what is left of it has no point too many.
SimplifiedIsTheSame ==
    LET kept == SimplifyBoundary(line) IN
    Len(line) > 1 =>
        /\ kept[1] = line[1]
        /\ kept[Len(kept)] = line[Len(line)]
        /\ \E f \in [DOMAIN line -> 1 .. Len(kept)] :
              /\ \A i \in DOMAIN line :
                    \/ line[i] = kept[f[i]]
                    \/ f[i] < Len(kept) /\ Between(kept[f[i]], kept[f[i] + 1], line[i])
              /\ \A i \in DOMAIN line : i > 1 => f[i - 1] <= f[i]
        /\ \A i \in 2 .. Len(kept) - 1 : ~SameDirection(Delta(kept[i - 1], kept[i]), Delta(kept[i], kept[i + 1]))

\* A boundary that has a height at all still encloses what it did.
ExpandedEncloses ==
    LET ys == {line[i][2] : i \in DOMAIN line}
        es == Expanded(line, Min(ys), Max(ys))
    IN  ys # {} /\ Min(ys) < Max(ys) =>
            /\ Min({es[i][2] : i \in DOMAIN es}) = Min(ys) - expansion
            /\ Max({es[i][2] : i \in DOMAIN es}) = Max(ys) + expansion

\* Every chunk lies in one region, and its index finds it there again; a block and its point
\* are the same, whichever way it is calculated.
PlacesAgree ==
    \A x, y \in -SIZE .. SIZE * planet_size :
        LET chunk == <<x, y>>
            r == RegionOf(chunk)
            local == <<ChunkIndex(chunk) % SIZE, ChunkIndex(chunk) \div SIZE>>
        IN  /\ LocalChunkToGlobal(r, local) = chunk
            /\ x \in ChunkBounds(r)[1][1] .. ChunkBounds(r)[2][1]
            /\ y \in ChunkBounds(r)[1][2] .. ChunkBounds(r)[2][2]
            /\ IsRegionInRange(r) <=> x \in 0 .. SIZE * planet_size - 1 /\ y \in 0 .. SIZE * planet_size - 1
            /\ FromBlock(<<x, y>>) = <<x, y>>

\* What a region finds of its forest is what there is.
DiscoveryIsSound ==
    IF line = <<>> THEN wood # {} => RowsAreExact /\ NeighboursAreTold
    ELSE SimplifiedIsTheSame /\ ExpandedEncloses /\ (Len(line) = 1 => PlacesAgree)
=============================================================================
