----------------------------- MODULE PlanetParams -----------------------------
(***************************************************************************)
(* What the parts of planet generation have in common (procgen/src/        *)
(* params.rs, region/unit.rs): the size of the planet, regions and chunks, *)
(* and which of them there are.                                            *)
(***************************************************************************)
EXTENDS Integers

CONSTANTS
    planet_size,    \* regions per side of the planet
    SIZE,           \* chunks per side of a region
    CHUNK_SIZE      \* blocks per side of a chunk

ASSUME ParamsAssumption == planet_size \in Nat \ {0} /\ SIZE \in Nat \ {0} /\ CHUNK_SIZE \in Nat \ {0}

IsRegionInRange(r) == r[1] \in 0 .. planet_size - 1 /\ r[2] \in 0 .. planet_size - 1

RegionOf(chunk) == <<chunk[1] \div SIZE, chunk[2] \div SIZE>>
IsChunkInRange(chunk) == IsRegionInRange(RegionOf(chunk))

Squared(n) == n * n
=============================================================================
