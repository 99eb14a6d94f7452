-------------------------------- MODULE Biomes --------------------------------
(***************************************************************************)
(* Which biome a block of the surface has and how high its ground is       *)
(* (procgen/src/biome.rs and RegionChunk::new, with resources/worldgen/    *)
(* biomes.ron).  These are functions of how near the coast is, the noise   *)
(* there and the latitude: the state is one such sample.  Values between 0 *)
(* and 1 are given in parts of One, distances squared in those of its      *)
(* square, the noise and the latitude in quarters.                         *)
(***************************************************************************)
EXTENDS PlanetParams, Sequences, FiniteSets, FiniteSetsExt, SequencesExt

CONSTANTS
    Coasts,         \* how near the coast is, from -20 (sea) to 20 (land): twentieths
    Noise           \* values of the noise, in quarters

VARIABLES
    coast, height, wet, warm,   \* the coastline's proximity, and noise
    latitude        \* 0 at the poles, 4 at the equator

bvars == <<coast, height, wet, warm, latitude>>

One == 400

\* The configuration, in twentieths.  A range may be given the wrong way round.
Full == <<0, 20>>
Biome == {"IcyOcean", "Ocean", "CoastOcean", "Beach", "Plains", "Forest", "Desert", "Tundra"}
Sampled(coastal, moisture, temperature, elevation) ==
    [coastal |-> coastal, moisture |-> moisture, temperature |-> temperature, elevation |-> elevation]
Sampling ==
    [IcyOcean   |-> Sampled(<<-20, -4>>, Full, <<0, 8>>, <<0, 1>>),
     Ocean      |-> Sampled(<<-20, -4>>, Full, <<8, 20>>, <<2, 1>>),
     CoastOcean |-> Sampled(<<-5, 0>>, Full, <<9, 20>>, <<0, 1>>),
     Beach      |-> Sampled(<<0, 4>>, Full, <<8, 20>>, <<1, 2>>),
     Plains     |-> Sampled(<<4, 20>>, <<4, 13>>, <<6, 14>>, <<2, 10>>),
     Forest     |-> Sampled(<<4, 20>>, <<8, 16>>, <<8, 14>>, <<2, 10>>),
     Desert     |-> Sampled(<<4, 20>>, <<0, 6>>, <<18, 20>>, <<2, 10>>),
     Tundra     |-> Sampled(<<-20, 20>>, <<0, 14>>, <<0, 6>>, <<2, 16>>)]
ElevationRange ==
    [IcyOcean |-> <<-20, -5>>, Ocean |-> <<-20, -5>>, CoastOcean |-> <<-5, 0>>, Beach |-> <<0, 6>>,
     Plains |-> <<10, 18>>, Forest |-> <<10, 16>>, Desert |-> <<10, 20>>, Tundra |-> <<10, 20>>]

BiomesInit ==
    /\ coast \in Coasts /\ height = 0 /\ wet = 0 /\ warm = 0 /\ latitude = 0

\* Another place's noise and latitude.
Elsewhere ==
    /\ height = 0 /\ wet = 0 /\ warm = 0 /\ latitude = 0
    /\ height' \in 0 .. 4 /\ wet' \in Noise /\ warm' \in Noise /\ latitude' \in 0 .. 4
    /\ UNCHANGED coast

-----------------------------------------------------------------------------
(* BiomeSampler::sample *)

BaseElevation == IF coast >= 0 THEN (height * coast * One) \div 80 ELSE 0

\* Moister near the sea and towards the poles; it is very wet in the sea.
Moisture ==
    LET mul == 80 + 2 * (20 - coast)
        lat == Min({100, 80 + 10 * (4 - latitude)})
    IN  IF coast < 0 THEN One ELSE (wet * mul * lat) \div 100

Temperature == (25 * warm) + (((One - BaseElevation) * 15) \div 100) + (60 * latitude)

-----------------------------------------------------------------------------
(* BiomeSampler::choose_biomes *)

QueryPoint == <<(coast * One) \div 20, Moisture, Temperature, BaseElevation>>

BoxOf(b) == <<Sampling[b].coastal, Sampling[b].moisture, Sampling[b].temperature, Sampling[b].elevation>>
Low(range) == Min(ToSet(range)) * (One \div 20)
High(range) == Max(ToSet(range)) * (One \div 20)

\* The squares of the distances from the boxes of the biomes.
Distances ==
    LET q == QueryPoint
        side(b, k) ==
            LET low == Low(BoxOf(b)[k])
                high == High(BoxOf(b)[k])
            IN  IF q[k] < low THEN low - q[k] ELSE IF q[k] > high THEN q[k] - high ELSE 0
    IN  [b \in Biome |-> Squared(side(b, 1)) + Squared(side(b, 2)) + Squared(side(b, 3)) + Squared(side(b, 4))]

CHOICE_COUNT == 3

\* The nearest ones, in some order if they are as near as each other.
Nearest(d) ==
    LET near == {b \in Biome : Cardinality({c \in Biome : d[c] < d[b]}) < CHOICE_COUNT}
    IN  {cs \in [1 .. CHOICE_COUNT -> near] :
            /\ \A i, j \in DOMAIN cs : i < j => cs[i] # cs[j] /\ d[cs[i]] <= d[cs[j]]
            /\ \A b \in near : (\A i \in DOMAIN cs : b # cs[i]) => d[cs[CHOICE_COUNT]] <= d[b]}

\* A hundredth is added to a distance, so that it is not 0; the closer ones count much more.
Weight(d2) ==
    LET inverted == (d2 + ((One * One) \div 100)) \div 40
    IN  32000000 \div (inverted * inverted)

\* The ground of a place: RegionChunk::new.
GroundHeight(cs, d) ==
    LET w == [i \in DOMAIN cs |-> Weight(d[cs[i]])]
        min(i) == w[i] * ElevationRange[cs[i]][1]
        range(i) == w[i] * (ElevationRange[cs[i]][2] - ElevationRange[cs[i]][1])
        at == min(1) + min(2) + min(3)
                + (((range(1) + range(2) + range(3)) \div 40) * BaseElevation) \div 10
        sum == w[1] + w[2] + w[3]
    IN  IF at >= 0 THEN at \div sum ELSE -((-at) \div sum)

-----------------------------------------------------------------------------
(* Properties *)

\* A biome is made for the values within its ranges.
Fits(b) ==
    LET in(v, range) == v \in Low(range) .. High(range) IN
    /\ in((coast * One) \div 20, Sampling[b].coastal) /\ in(BaseElevation, Sampling[b].elevation)
    /\ in(Temperature, Sampling[b].temperature) /\ in(Moisture, Sampling[b].moisture)

Seas == {"IcyOcean", "Ocean", "CoastOcean"}

\* The map agrees with the continents ("-1.0: sea far away from coastline", "+1.0: land far
\* away from coastline"), though neither the biomes' ranges nor the noise is bound to: no
\* sea is above the water, no land away from the coast below it, and either has a biome of
\* its own; a place whose values one biome alone is made for has that one.
MapFitsContinents ==
    LET d == Distances IN
    \A cs \in Nearest(d) :
        /\ coast < 0 => GroundHeight(cs, d) <= 0
        /\ coast <= -4 => cs[1] \in Seas
        /\ coast >= 5 => cs[1] \notin Seas /\ GroundHeight(cs, d) >= (IF coast >= 10 THEN 1 ELSE 0)
        /\ \A b \in Biome : Fits(b) /\ (\A c \in Biome \ {b} : ~Fits(c)) => cs[1] = b
=============================================================================
