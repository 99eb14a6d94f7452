------------------------------ MODULE MCPlanet ------------------------------
(* The generation of a planet, each component in a part of its own: they share  *)
(* no state.  A behaviour is one of one part.                                   *)
EXTENDS SlabGeneration, RegionScan, Continents, Biomes

VARIABLE part

-----------------------------------------------------------------------------
\* The first two chunks of a planet, of two slabs, two blocks wide and high, one of which is
\* never asked for; a tree of one
\* chunk has leaves over the other, and in the slab above.
MCColumns == (0 .. 3) \X (0 .. 1)
MCRequested == {<<0, 0, 0>>, <<0, 0, 1>>, <<1, 0, 0>>}
MCGroundLevel == [c \in MCColumns |-> IF c \in {<<0, 0>>, <<1, 0>>} THEN 1 ELSE 0]
MCBoundary == {<<0, 0>>, <<1, 0>>, <<2, 1>>, <<3, 1>>}
MCWoods == {<<1, 0>>, <<2, 1>>}
MCGrass == {<<3, 0>>}
MCTrees == {<<1, 1, 1>>}

\* A region of two by two chunks.
MCHeights == {[b \in (0 .. 3) \X (0 .. 3) |-> (b[1] + 2 * b[2]) % 3]}
MCCorners == (0 .. 2) \X (0 .. 2)

\* Two of the three places are too close to each other for two continents.
MCSpots == {<<4, 4>>, <<11, 11>>, <<11, 4>>}

MCCoasts == {-20, -12, -5, -4, -2, -1, 0, 1, 2, 4, 5, 7, 10, 15, 20}
MCNoise == {0, 2, 4}

-----------------------------------------------------------------------------
planetvars == <<sgvars, scanvars, cvars, bvars>>

\* A part that is not the behaviour's stays in an initial state.
PlanetInit ==
    /\ GenerationInit /\ ScanInit /\ ContinentsInit /\ BiomesInit
    /\ part # "biomes" => coast = 0

OneSlabs == part = "slabs" /\ GenerationNext /\ UNCHANGED <<part, scanvars, cvars, bvars>>
OneRegion == part = "region" /\ ScanNext /\ UNCHANGED <<part, sgvars, cvars, bvars>>
OneContinents == part = "continents" /\ ContinentsNext /\ UNCHANGED <<part, sgvars, scanvars, bvars>>
OneBiomes == part = "biomes" /\ Elsewhere /\ UNCHANGED <<part, sgvars, scanvars, cvars>>
OnePlanet == OneSlabs \/ OneRegion \/ OneContinents \/ OneBiomes

-----------------------------------------------------------------------------
\* What has been planted is where it belongs, once, and apart from the rest (SlabGeneration);
\* discovery finds all and only the forest's ground (RegionScan); continents keep apart and
\* grow out of each other, and biomes agree with them (Continents, Biomes).
PlanetIsRight ==
    /\ part = "slabs" => PlantingIsSound
    /\ part = "region" => DiscoveryIsSound
    /\ part = "continents" => ContinentsAreSound
    /\ part = "biomes" => MapFitsContinents
=============================================================================
