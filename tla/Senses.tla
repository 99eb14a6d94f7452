------------------------------- MODULE Senses -------------------------------
(***************************************************************************)
(* Who is found near a place, and remembered (spatial.rs, senses/).        *)
(*                                                                         *)
(* Spatial keeps the position of every entity that has one, and rebuilds   *)
(* them every few ticks.  What has been created since is taken in by the   *)
(* next query of anyone: by the senses at the start of a tick, by the AI   *)
(* and the player during it, and by the names near the mouse at its end.   *)
(* In between bodies move, and the updates at the end of a tick create,    *)
(* pick up, put down and kill.  Whoever has senses remembers what it has   *)
(* sensed for a number of ticks.                                           *)
(***************************************************************************)
EXTENDS Integers, FiniteSets

CONSTANTS
    Being,          \* entities; one that is gone never comes back
    Body,           \* those with a PhysicalComponent
    Senser,         \* those with a SensesComponent
    Spot, Close,    \* places, and the pairs of them that are within the radius
    Nowhere,
    SpatialPeriod,  \* SpatialSystem works every so many ticks
    SENSE_DECAY

ASSUME SensesAssumption ==
    /\ Body \subseteq Being /\ Senser \subseteq Being
    /\ Nowhere \notin Spot
    /\ SpatialPeriod \in Nat \ {0} /\ SENSE_DECAY \in Nat \ {0}

VARIABLES
    moment_of_tick, \* senses, systems, text or updates
    beat,           \* Tick modulo SpatialPeriod
    born, extant,   \* entities that were ever created, and that still are
    where,          \* TransformComponent.position, Nowhere without the component
    newly_created,  \* Spatial.newly_created_entities
    positions,      \* Spatial.positions, whose entities are those that are not Nowhere
    sensed,         \* SensesComponent.sensed: decay, 0 for what is not remembered
    lag,            \* history: for how many ticks the cached position has been wrong
    lifted,         \* history: who was ever without a transform while it lived
    unseen          \* history: for how many ticks an entity has not been sensed

spatialvars == <<newly_created, positions>>
livesvars == <<born, extant, where>>
sensesvars == <<moment_of_tick, beat, livesvars, spatialvars, sensed, lag, lifted, unseen>>

SensesInit ==
    /\ moment_of_tick = "senses" /\ beat = 1 % SpatialPeriod
    /\ born = {} /\ extant = {} /\ where = [e \in Being |-> Nowhere]
    /\ newly_created = {} /\ positions = [e \in Being |-> Nowhere]
    /\ sensed = [s \in Senser |-> [e \in Being |-> 0]]
    /\ lag = [e \in Being |-> 0] /\ lifted = {}
    /\ unseen = [s \in Senser |-> [e \in Being |-> SENSE_DECAY]]

-----------------------------------------------------------------------------
\* A query takes in the new entities that have a transform and are physical; an entity
\* that has neither yet waits for the next update.
TakesIn(e) == e \in newly_created \cap Body /\ positions[e] = Nowhere
TakenIn == [e \in Being |-> IF TakesIn(e) THEN where[e] ELSE positions[e]]

\* Those within the radius of a place, by their cached positions, that still have a transform.
Found(index, p) == {e \in Being : index[e] # Nowhere /\ <<index[e], p>> \in Close /\ where[e] # Nowhere}

Perceiving == {s \in Senser : where[s] # Nowhere}

Query ==
    /\ moment_of_tick \in {"senses", "systems"}
    /\ newly_created # {}
    /\ positions' = TakenIn /\ newly_created' = {}
    /\ UNCHANGED <<moment_of_tick, beat, livesvars, sensed, lag, lifted, unseen>>

-----------------------------------------------------------------------------
Less(n) == IF n > 0 THEN n - 1 ELSE 0

\* decay_sensed_entities: expired entries are sorted to the front, and everything from the
\* first of them on is dropped: when one memory expires, all are forgotten.
Remembered(s) ==
    IF \E e \in Being : sensed[s][e] = 1
    THEN [e \in Being |-> 0]
    ELSE [e \in Being |-> Less(sensed[s][e])]

Sense(s, seen) == [e \in Being |-> IF e \in seen THEN SENSE_DECAY ELSE Remembered(s)[e]]

\* Vision is a cone, of any angle and direction: any of those that are near enough.
SensesSystem ==
    /\ moment_of_tick = "senses" /\ moment_of_tick' = "systems"
    /\ IF Perceiving = {} THEN UNCHANGED spatialvars
       ELSE positions' = TakenIn /\ newly_created' = {}
    /\ \E seen \in [Senser -> SUBSET Being] :
          /\ \A s \in Senser :
                seen[s] \subseteq IF s \in Perceiving THEN Found(TakenIn, where[s]) \ {s} ELSE {}
          /\ sensed' = [s \in Senser |-> IF s \in Perceiving THEN Sense(s, seen[s]) ELSE sensed[s]]
          /\ unseen' = [s \in Senser |->
                          IF s \notin Perceiving THEN unseen[s]
                          ELSE [e \in Being |-> IF e \in seen[s] THEN 0
                                                ELSE IF unseen[s][e] < SENSE_DECAY THEN unseen[s][e] + 1
                                                ELSE SENSE_DECAY]]
    /\ UNCHANGED <<beat, livesvars, lag, lifted>>

\* PhysicsSystem, HaulSystem.
MoveBody(e, p) ==
    /\ moment_of_tick = "systems" /\ where[e] # Nowhere
    /\ where' = [where EXCEPT ![e] = p]
    /\ UNCHANGED <<moment_of_tick, beat, born, extant, spatialvars, sensed, lag, lifted, unseen>>

\* Mutant of Rebuilt: entities that are cached already are kept as they are.
RebuiltOnly == [e \in Being |-> IF positions[e] = Nowhere /\ e \in Body THEN where[e] ELSE positions[e]]

Rebuilt == [e \in Being |-> IF e \in Body THEN where[e] ELSE Nowhere]

Right(e, p) == e \notin Body \/ p = where[e]

SpatialSystem ==
    /\ moment_of_tick = "systems" /\ moment_of_tick' = "text"
    /\ IF beat = 0 THEN positions' = Rebuilt /\ newly_created' = {} ELSE UNCHANGED spatialvars
    /\ lag' = [e \in Being |-> IF Right(e, positions'[e]) THEN 0 ELSE lag[e]]
    /\ UNCHANGED <<beat, livesvars, sensed, lifted, unseen>>

\* DisplayTextSystem: one query, for what is near the mouse.
DisplayTextSystem ==
    /\ moment_of_tick = "text" /\ moment_of_tick' = "updates"
    /\ positions' = TakenIn /\ newly_created' = {}
    /\ UNCHANGED <<beat, livesvars, sensed, lag, lifted, unseen>>

-----------------------------------------------------------------------------
\* Queued updates, and the deletion of entities.
Appear(e, p) ==
    /\ moment_of_tick = "updates" /\ e \in Being \ born
    /\ born' = born \cup {e} /\ extant' = extant \cup {e}
    /\ where' = [where EXCEPT ![e] = p]
    /\ newly_created' = newly_created \cup {e}
    /\ lifted' = IF p = Nowhere THEN lifted \cup {e} ELSE lifted
    /\ UNCHANGED <<moment_of_tick, beat, positions, sensed, lag, unseen>>

LoseTransform(e) ==
    /\ moment_of_tick = "updates" /\ where[e] # Nowhere
    /\ where' = [where EXCEPT ![e] = Nowhere] /\ lifted' = lifted \cup {e}
    /\ UNCHANGED <<moment_of_tick, beat, born, extant, spatialvars, sensed, lag, unseen>>

GainTransform(e, p) ==
    /\ moment_of_tick = "updates" /\ e \in extant /\ where[e] = Nowhere
    /\ where' = [where EXCEPT ![e] = p]
    /\ UNCHANGED <<moment_of_tick, beat, born, extant, spatialvars, sensed, lag, lifted, unseen>>

Vanish(e) ==
    /\ moment_of_tick = "updates" /\ e \in extant
    /\ extant' = extant \ {e} /\ where' = [where EXCEPT ![e] = Nowhere]
    /\ UNCHANGED <<moment_of_tick, beat, born, spatialvars, sensed, lag, lifted, unseen>>

NextTick ==
    /\ moment_of_tick = "updates" /\ moment_of_tick' = "senses"
    /\ beat' = (beat + 1) % SpatialPeriod
    /\ lag' = [e \in Being |-> IF Right(e, TakenIn[e]) THEN 0 ELSE lag[e] + 1]
    /\ UNCHANGED <<livesvars, spatialvars, sensed, lifted, unseen>>

SensesNext ==
    \/ Query \/ SensesSystem \/ SpatialSystem \/ DisplayTextSystem \/ NextTick
    \/ \E e \in Being, p \in Spot : MoveBody(e, p) \/ GainTransform(e, p)
    \/ \E e \in Being, p \in Spot \cup {Nowhere} : Appear(e, p)
    \/ \E e \in Being : LoseTransform(e) \/ Vanish(e)

SensesSpec == SensesInit /\ [][SensesNext]_sensesvars

-----------------------------------------------------------------------------
(* Properties *)

\* What a query believes of an entity was so in one of the last ticks, though it may have
\* moved, been picked up, put down or killed since (spatial.rs:135, "positions are cached").
IndexIsRecent == \A e \in Being : lag[e] <= SpatialPeriod

\* "Will appear in queries immediately, even before system runs" (spatial.rs:72): an entity
\* that has had a transform since it was created is known, or taken in by the next query.
NobodyIsMissed ==
    \A e \in Body \cap extant :
       e \notin lifted => positions[e] # Nowhere \/ e \in newly_created

\* The update finds nobody new that it would not take in, if anybody perceives anything (the
\* assertion of spatial.rs:58).
UpdateMissesNobody ==
    moment_of_tick = "systems" /\ Perceiving # {} => newly_created = {}

\* Whatever is remembered was sensed within the decay, and is remembered for the rest of it
\* (senses/system.rs:14): nobody remembers for ever what has died or gone.
MemoriesFade ==
    \A s \in Senser, e \in Being : sensed[s][e] > 0 => sensed[s][e] + unseen[s][e] = SENSE_DECAY

SensesAreKept == IndexIsRecent /\ NobodyIsMissed /\ UpdateMissesNobody /\ MemoriesFade
=============================================================================
