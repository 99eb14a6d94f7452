------------------------------- MODULE Motion -------------------------------
(***************************************************************************)
(* How a body moves (steer/, movement.rs, physics/).                       *)
(*                                                                         *)
(* The steering writes where the body wants to go and where it sees a wall *)
(* into a map of eight directions; one of them becomes an acceleration;    *)
(* and the physics lets the body step up out of blocks, fall, and drift    *)
(* on.  Between ticks blocks are placed and removed, also where it is.     *)
(*                                                                         *)
(* The world is a strip of columns that looks the same all along y, so     *)
(* only x and z of a position are kept, x by halves of a block: a body is  *)
(* in one column, or in two.                                               *)
(***************************************************************************)
EXTENDS Integers, FiniteSets

CONSTANTS
    Wide, High,     \* loaded columns and levels; the level on top is air
    Rows,           \* y of the body's block
    Ground,         \* the blocks that are solid at first
    Goals, Speeds,  \* of Seek: half columns, and percents
    MaxEdits,       \* bound: blocks changed
    SettleTicks     \* bound: of the history of calm ticks

ASSUME MotionAssumption ==
    /\ Wide \in Nat \ {0} /\ High \in Nat \ {0, 1} /\ MaxEdits \in Nat
    /\ SettleTicks \in Nat /\ SettleTicks >= High
    /\ Rows \subseteq Int /\ Goals \subseteq 0 .. 2 * (Wide - 1) /\ Speeds \subseteq 1 .. 100
    /\ Ground \subseteq (0 .. Wide - 1) \X (0 .. High - 2)

VARIABLES
    system,         \* the system that runs: steering, movement, physics or updates
    solid,          \* the blocks that are
    edits_made,
    x, z,           \* TransformComponent.position, at the bottom of the body
    velocity,       \* TransformComponent.velocity along x, only its sign
    accessible,     \* accessible_position, NoPosition if there is none
    fallen,         \* PhysicsComponent.fallen
    behaviour,      \* SteeringBehaviour: Halt for Stop, or the goal of Seek with its speed
    interest, danger, \* the ContextMap
    heading, speed, \* what it is resolved to
    calm            \* history: ticks since a block changed or the body moved along x

mapvars == <<interest, danger, heading, speed>>
placevars == <<x, z, velocity, accessible, fallen>>
motionvars == <<system, solid, edits_made, placevars, behaviour, mapvars, calm>>

Halt == [goal |-> -1, speed |-> 0]
NoPosition == <<-1, -1>>
Directions == 0 .. 7
NoDesires == [d \in Directions |-> 0]

MotionInit ==
    /\ system = "steering" /\ solid = Ground /\ edits_made = 0
    /\ x \in 0 .. 2 * (Wide - 1) /\ z \in 0 .. High - 1
    /\ velocity = 0 /\ accessible = NoPosition /\ fallen = 0
    /\ behaviour = Halt /\ interest = NoDesires /\ danger = NoDesires
    /\ heading = 0 /\ speed = 0 /\ calm = 0

-----------------------------------------------------------------------------
(* Bounds *)

Footprint(h) == {h \div 2, (h + 1) \div 2}
Loaded(l) == l \in 0 .. High - 1

\* The blocks of a range that exist are all air; with none, the check says they are not.
AllAir(h, l) == Loaded(l) /\ \A c \in Footprint(h) : <<c, l>> \notin solid

\* resolve_vertical_collision: down if that is free, or else up, whatever is there.
Resolved(h, l) ==
    IF AllAir(h, l) THEN l
    ELSE IF AllAir(h, l - 1) THEN l - 1 ELSE l + 1

-----------------------------------------------------------------------------
(* The context map *)

\* The octant, from 0, of the angle that atan2(s, c) is.
Octant(s, c) ==
    IF s >= 0 /\ c > 0 THEN IF s < c THEN 0 ELSE 1
    ELSE IF s > 0 /\ c <= 0 THEN IF s > -c THEN 2 ELSE 3
    ELSE IF s <= 0 /\ c < 0 THEN IF -s < -c THEN 4 ELSE 5
    ELSE IF s < 0 THEN IF -s > c THEN 6 ELSE 7
    ELSE 0

Neighbours(d) == {(d + 1) % 8, (d + 7) % 8}

\* Desire::from_float of a percentage, and what its neighbours get of it.
Desire(percent) == (percent * 255 + 99) \div 100
Falloff(percent) == (4 * Desire(percent)) \div 5

Interested(d, percent) ==
    [e \in Directions |-> IF e = d THEN Desire(percent)
                          ELSE IF e \in Neighbours(d) THEN Falloff(percent) ELSE 0]

\* The angle is that of the block as seen from the origin of the world, not from the body, and
\* it grows the other way around than those of the interests do.
Endangered(blocks) ==
    [e \in Directions |-> IF \E b \in blocks : Octant(-b[1], b[2]) = e THEN Desire(5) ELSE 0]

Least(values) == CHOOSE m \in {values[d] : d \in Directions} : \A d \in Directions : m <= values[d]

\* Mutant of Masked: no direction is too dangerous.
MaskedNone == interest

Masked == [d \in Directions |-> IF danger[d] > Least(danger) THEN 0 ELSE interest[d]]

\* position_max: the last of the highest.
Best(values) ==
    CHOOSE d \in Directions :
        \A e \in Directions : values[e] <= values[d] /\ (values[e] = values[d] => e <= d)

-----------------------------------------------------------------------------
(* The systems *)

\* Stop brakes against a velocity that is not too small; Seek is done near its goal, or else
\* heads for it.  Where along y it goes is any of the directions.
Wants ==
    IF behaviour = Halt
    THEN {NoDesires} \cup {Interested(Octant(-velocity, dy), 20) :
                             dy \in IF velocity = 0 THEN {-1, 1} ELSE {-1, 0, 1}}
    ELSE {Interested(Octant(behaviour.goal - x, dy), behaviour.speed) :
             dy \in IF behaviour.goal = x THEN {-1, 1} ELSE {-1, 0, 1}}

\* find_solids of feelers_bounds: what the body is going to touch at its own level.
Feels(y) == {<<c, y>> : c \in {f \in Footprint(x + velocity) : <<f, z>> \in solid}}

SteeringSystem ==
    /\ system = "steering" /\ system' = "movement"
    /\ \/ /\ interest' \in Wants
          /\ UNCHANGED behaviour
       \/ /\ behaviour # Halt /\ interest' = NoDesires    \* finished
          /\ behaviour' = Halt
    /\ \E y \in Rows : danger' = Endangered(Feels(y))
    /\ UNCHANGED <<solid, edits_made, placevars, heading, speed, calm>>

MovementFulfilmentSystem ==
    /\ system = "movement" /\ system' = "physics"
    /\ heading' = Best(Masked) /\ speed' = Masked[Best(Masked)]
    /\ UNCHANGED <<solid, edits_made, placevars, behaviour, interest, danger, calm>>

\* The acceleration along x.
Pull == IF speed = 0 \/ heading \in {0, 4} THEN 0 ELSE IF heading < 4 THEN 1 ELSE -1

\* Friction slows the velocity, and stops it when it is small.
Velocities ==
    IF Pull = 0 THEN {velocity, 0}
    ELSE IF velocity = -Pull THEN {velocity, 0, Pull} ELSE {Pull}

\* WorldRef.area: the block that the body is in is one to stand in.
Here == <<(x + 1) \div 2, z>>
InArea == AllAir(2 * Here[1], z) /\ <<Here[1], z - 1>> \in solid

\* Whether the body falls is decided below where it was before it was moved out of blocks.
PhysicsSystem ==
    /\ system = "physics" /\ system' = "updates"
    /\ LET falls == AllAir(x, z - 1)
           known == IF InArea THEN Here ELSE accessible
       IN /\ z' = IF falls THEN Resolved(x, z) - 1 ELSE Resolved(x, z)
          /\ fallen' = IF falls THEN fallen + 1 ELSE 0
          /\ accessible' = IF falls /\ fallen + 1 > 2 THEN NoPosition ELSE known
    /\ velocity' \in Velocities
    /\ x' \in {x, x + velocity'} \cap 0 .. 2 * (Wide - 1)
    /\ calm' = IF x' # x THEN 0 ELSE IF calm < SettleTicks THEN calm + 1 ELSE calm
    /\ interest' = NoDesires /\ danger' = NoDesires /\ heading' = 0 /\ speed' = 0
    /\ UNCHANGED <<solid, edits_made, behaviour>>

-----------------------------------------------------------------------------
(* What else happens in a tick: terrain updates, and the path system that seeks waypoints. *)

Change(c, l) ==
    /\ system = "updates" /\ edits_made < MaxEdits
    /\ solid' = IF <<c, l>> \in solid THEN solid \ {<<c, l>>} ELSE solid \cup {<<c, l>>}
    /\ edits_made' = edits_made + 1 /\ calm' = 0
    /\ UNCHANGED <<system, placevars, behaviour, mapvars>>

NextSystems ==
    /\ system = "updates" /\ system' = "steering"
    /\ \/ behaviour = Halt /\ behaviour' \in [goal : Goals, speed : Speeds]
       \/ UNCHANGED behaviour
    /\ UNCHANGED <<solid, edits_made, placevars, mapvars, calm>>

MotionNext ==
    \/ SteeringSystem \/ MovementFulfilmentSystem \/ PhysicsSystem \/ NextSystems
    \/ \E c \in 0 .. Wide - 1, l \in 0 .. High - 2 : Change(c, l)

MotionSpec == MotionInit /\ [][MotionNext]_motionvars

-----------------------------------------------------------------------------
(* Properties *)

Settled == AllAir(x, z) /\ ~AllAir(x, z - 1)

\* Whatever is built where a body is, or dug away under it, it comes to stand in air and on
\* something, if nothing changes for a while; "move upwards regardless" (bounds.rs:100) does
\* not carry it away.  Bodies fall by two blocks in a tick, and through floors of one, when
\* they are stuck with air below.
BodiesSettle == calm >= SettleTicks => Settled

\* It is lifted out of the world by no pile of blocks, and falls out of it by a block at most.
StaysInWorld == z \in -1 .. High - 1

\* The body heads for where it wants to, or next to it, but never for where it has
\* seen more danger than elsewhere (context.rs:221, "mask out higher dangers").
HeadsForSafety ==
    system = "physics" =>
        /\ \A d \in Directions : speed > 0 => danger[heading] <= danger[d]
        /\ speed > 0 <=> \E d \in Directions : interest[d] > 0 /\ danger[d] = Least(danger)
        /\ \A d \in Directions : danger[d] = Least(danger) => interest[d] <= speed

MotionIsSound == BodiesSettle /\ StaysInWorld /\ HeadsForSafety
=============================================================================
