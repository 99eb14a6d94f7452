------------------------------ MODULE Continents ------------------------------
(***************************************************************************)
(* How continents are placed on a planet (procgen/src/continent.rs,        *)
(* mr_blobby): a continent is a chain of round blobs, each of them on the  *)
(* edge of an earlier one and smaller as the chain goes on, until there is *)
(* no room or the blobs are too small.  Radii and what they shrink by are  *)
(* given in halves of a region.                                            *)
(***************************************************************************)
EXTENDS PlanetParams, Sequences, FiniteSets

CONSTANTS
    continent_start_radius, continent_dec_min, continent_dec_max,
    max_continents, continent_min_distance,
    Spots,          \* bound on the points a continent may be tried at
    MaxBlobs        \* bound on the blobs there are

VARIABLES
    land_blobs, continent_range, radius, decrement, parent_start_idx, current_continent,
    placed          \* place_blobs has returned

cvars == <<land_blobs, continent_range, radius, decrement, parent_start_idx, current_continent, placed>>

MIN_RADIUS == 2
Decrements == continent_dec_min .. continent_dec_max - 1

ContinentsInit ==
    /\ land_blobs = <<>> /\ continent_range = <<>>
    /\ radius = continent_start_radius /\ decrement \in Decrements
    /\ parent_start_idx = 0 /\ current_continent = 1
    /\ placed = FALSE

BlobDistance2(p, q) == Squared(p[1] - q[1]) + Squared(p[2] - q[2])
Ceil(halves) == -((-halves) \div 2)

\* Mutant of CheckValidBlob: a blob that is within another is not told from one that has
\* nothing to do with it.
CheckNoOverlap(pos, r, blob_start_idx) ==
    \A i \in DOMAIN land_blobs : LET other == land_blobs[i] IN
        BlobDistance2(other.pos, pos) > Squared(other.radius + r) \/ i > blob_start_idx

CheckValidBlob(pos, r, blob_start_idx) ==
    \A i \in DOMAIN land_blobs :
        LET other == land_blobs[i]
            d == BlobDistance2(other.pos, pos)
        IN  \/ d > Squared(other.radius + r)
            \/ d > Squared(r - other.radius) /\ i > blob_start_idx

FarFromOthers(pos) ==
    \A i \in DOMAIN land_blobs : BlobDistance2(land_blobs[i].pos, pos) > Squared(continent_min_distance)

\* The first blob of a continent lies within the planet, away from the others.
Origins(r) ==
    LET max == IF planet_size - r > r + 1 THEN planet_size - r ELSE r + 1
    IN  Spots \cap ((r .. max - 1) \X (r .. max - 1))

\* The others lie where a circle of three quarters of their parent's radius goes through,
\* rounded up: a cell's corners are compared with the circle, in quarters.
Circumference(parent) ==
    LET r2 == Squared(3 * parent.radius)
        reach == (-parent.radius) .. parent.radius
        nearest(i) == IF i > 0 THEN 4 * (i - 1) ELSE 4 * i
        farthest(i) == IF i > 0 THEN 4 * i ELSE 4 * (i - 1)
    IN  {<<parent.pos[1] + x, parent.pos[2] + y>> : <<x, y>> \in
            {c \in reach \X reach :
                /\ Squared(nearest(c[1])) + Squared(nearest(c[2])) < r2
                /\ r2 <= Squared(farthest(c[1])) + Squared(farthest(c[2]))}}

\* Whichever parents and points are tried; some of them are good.
IsFirst == Len(land_blobs) = parent_start_idx
Attempts(r) ==
    IF IsFirst THEN Origins(r)
    ELSE UNION {Circumference(land_blobs[i]) : i \in parent_start_idx + 1 .. Len(land_blobs)}
PlaceNewContinent(r) ==
    {p \in Attempts(r) : (IsFirst => FarFromOthers(p)) /\ CheckValidBlob(p, r, parent_start_idx)}

PlaceBlob ==
    /\ ~placed /\ Ceil(radius) > MIN_RADIUS
    /\ Len(land_blobs) < MaxBlobs
    /\ \E p \in PlaceNewContinent(Ceil(radius)) :
          land_blobs' = Append(land_blobs, [pos |-> p, radius |-> Ceil(radius)])
    /\ radius' \in {radius, radius - decrement}
    /\ UNCHANGED <<continent_range, decrement, parent_start_idx, current_continent, placed>>

\* The blobs have become too small, or none of the points that were tried was any good.
\* What an empty continent ends is the whole placement.
NextContinent ==
    /\ ~placed
    /\ Ceil(radius) <= MIN_RADIUS \/ PlaceNewContinent(Ceil(radius)) # Attempts(Ceil(radius))
    /\ IF IsFirst
       THEN /\ placed' = TRUE
            /\ UNCHANGED <<continent_range, radius, decrement, parent_start_idx, current_continent>>
       ELSE /\ continent_range' = Append(continent_range,
                                         <<current_continent, parent_start_idx, Len(land_blobs)>>)
            /\ current_continent' = current_continent + 1
            /\ IF current_continent + 1 >= max_continents
               THEN placed' = TRUE /\ UNCHANGED <<radius, decrement, parent_start_idx>>
               ELSE /\ parent_start_idx' = Len(land_blobs)
                    /\ radius' = continent_start_radius /\ decrement' \in Decrements
                    /\ UNCHANGED placed
    /\ UNCHANGED land_blobs

ContinentsNext == PlaceBlob \/ NextContinent

-----------------------------------------------------------------------------
(* Properties *)

\* Which continent a blob belongs to: BlobPlacement::iter; that in the making is the last.
OfContinent(i) ==
    IF \E k \in DOMAIN continent_range : continent_range[k][2] < i /\ i <= continent_range[k][3]
    THEN CHOOSE c \in 1 .. Len(continent_range) :
            \E k \in DOMAIN continent_range :
                continent_range[k][1] = c /\ continent_range[k][2] < i /\ i <= continent_range[k][3]
    ELSE current_continent

Overlap(b, c) == BlobDistance2(b.pos, c.pos) <= Squared(b.radius + c.radius)
Inland(p) == {i \in DOMAIN land_blobs : BlobDistance2(land_blobs[i].pos, p) <= Squared(land_blobs[i].radius)}

\* Continents are apart: a place is never on two of them ("TODO intersecting polygons!!"),
\* while each is of one piece, however its blobs have been put together one after the
\* other ("polygon union produced {count} polygons instead of 1"); no blob of it is to no
\* effect, and each begins on the planet.  When all is done every blob has its continent,
\* the continents are as many as are counted, and none is empty.
ContinentsAreSound ==
    LET D == DOMAIN land_blobs IN
    /\ \A i, j \in D : i < j =>
          /\ OfContinent(i) # OfContinent(j) => ~Overlap(land_blobs[i], land_blobs[j])
          /\ BlobDistance2(land_blobs[i].pos, land_blobs[j].pos)
                > Squared(land_blobs[i].radius - land_blobs[j].radius)
    /\ \A j \in D :
          \/ \E i \in 1 .. j - 1 : OfContinent(i) = OfContinent(j) /\ Overlap(land_blobs[i], land_blobs[j])
          \/ /\ \A i \in 1 .. j - 1 : OfContinent(i) # OfContinent(j)
             /\ \A k \in 1 .. 2 : land_blobs[j].pos[k] - land_blobs[j].radius >= 0
    /\ \A p \in Spots : \A i, j \in Inland(p) : OfContinent(i) = OfContinent(j)
    /\ placed => /\ \A i \in D : OfContinent(i) < current_continent
                 /\ Len(continent_range) = current_continent - 1
                 /\ \A k \in DOMAIN continent_range : continent_range[k][2] < continent_range[k][3]
                 /\ D # {} /\ Len(continent_range) < max_continents
=============================================================================
