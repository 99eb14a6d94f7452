---------------------------- MODULE SlabGeneration ----------------------------
(***************************************************************************)
(* How the slabs of a planet are generated side by side, and how what is   *)
(* planted in one of them gets into the others that it reaches into        *)
(* (procgen/src/planet.rs, region/subfeature.rs, features/forest.rs).      *)
(*                                                                         *)
(* A slab's generation spreads trees over its chunk, in a forest that is   *)
(* shared with the slabs around it, and a task of its own places them as   *)
(* they come.  Blocks beyond the slab are left with the slab they are in,  *)
(* if that has not been generated so far, and else go to the game, which   *)
(* puts them into the world when that slab has got there.                  *)
(***************************************************************************)
EXTENDS PlanetParams, Sequences, FiniteSets, SequencesExt

CONSTANTS
    SLAB_SIZE,    \* slices of a slab
    Requested,        \* the slabs that the loader asks for: <<chunk x, chunk y, slab>>
    GroundLevel,       \* of each column <<x, y>> of the planet: the height of its ground
    Boundary,     \* the columns within the boundary of the forest
    Woods,        \* the columns whose biome is forest
    Grass,        \* the columns where flora grows
    Radius,       \* of a tree, in blocks
    Trees,        \* heights and canopies of trees: <<height, width, depth>>
    MaxTrees      \* bound on the trees of a slab

VARIABLES
    at,             \* of each slab: where generate_slab is
    terrain,        \* of each slab: the blocks that features have placed there
    subfeatures,    \* the channel from its features to the task that places them
    task,           \* what that task is at: a subfeature, and where it has yet to go
    extra,          \* old_continuations
    spawned,        \* entities of the slab
    slab_continuations,
    trees,          \* ForestFeature.trees
    completed,      \* SubfeatureInner.completed
    world_updates,
    terrain_changes,\* what the game has taken from there
    stealing        \* the game waits for the planet's lock

sgvars == <<at, terrain, subfeatures, task, extra, spawned, slab_continuations, trees,
            completed, world_updates, terrain_changes, stealing>>

NoTask == [of |-> {}, to |-> {}]

GenerationInit ==
    /\ at = [s \in Requested |-> "requested"]
    /\ terrain = [s \in Requested |-> {}]
    /\ subfeatures = [s \in Requested |-> {}]
    /\ task = [s \in Requested |-> NoTask]
    /\ extra = [s \in Requested |-> <<>>]
    /\ spawned = [s \in Requested |-> {}]
    /\ slab_continuations = <<>>
    /\ trees = {} /\ completed = {}
    /\ world_updates = {} /\ terrain_changes = {}
    /\ stealing = FALSE

-----------------------------------------------------------------------------
(* Places, and what is planted *)

SlabAt(p) == <<p[1] \div CHUNK_SIZE, p[2] \div CHUNK_SIZE, p[3] \div SLAB_SIZE>>
ChunkOf(s) == <<s[1], s[2]>>

\* A tree is a trunk and leaves on top of it; flora is an entity and has no blocks.
Rasterize(f) ==
    IF f.kind = "flora" THEN {}
    ELSE LET h == f.shape[1]
             r == f.root
         IN  {<<<<r[1], r[2], r[3] + z>>, "trunk">> : z \in 0 .. h - 1}
             \cup {<<<<r[1] + x, r[2] + y, r[3] + h>>, "leaves">> :
                       x \in -f.shape[2] .. f.shape[2] - 1, y \in -f.shape[3] .. f.shape[3] - 1}

InternalBlocks(f, s) == {b \in Rasterize(f) : SlabAt(b[1]) = s}

\* The slabs that it reaches into from s.  What is off the planet is dropped.
Reaches(f, s) == {SlabAt(b[1]) : b \in Rasterize(f)} \ {s}
TouchedNeighbours(f, s) == {n \in Reaches(f, s) : IsChunkInRange(ChunkOf(n))}

Place(blocks, more) == {b \in blocks : \A m \in more : m[1] # b[1]} \cup more

\* The terrain a slab starts from: what is on the surface, just below it, and deep down.
Depth == 2
BaseBlock(p) ==
    LET d == GroundLevel[<<p[1], p[2]>>] - p[3]
    IN  CASE d = 0 -> "surface" [] d < 0 -> "air" [] d > 0 /\ d < Depth -> "shallow" [] d >= Depth -> "deep"

-----------------------------------------------------------------------------
(* A slab's generation: Planet::generate_slab *)

GoTo(s, where) == at' = [at EXCEPT ![s] = where]
\* Whoever generates a slab holds the planet for reading, until it is marked.
Reading == {s \in Requested : at[s] \in {"features", "flora", "marking"}}

\* A writer that waits for the planet keeps new readers out.
Begin(s) ==
    /\ at[s] = "requested" /\ ~stealing
    /\ GoTo(s, "features")
    /\ UNCHANGED <<terrain, subfeatures, task, extra, spawned, slab_continuations, trees,
                   completed, world_updates, terrain_changes, stealing>>

ColumnsOf(s) == {c \in DOMAIN GroundLevel : SlabAt(<<c[1], c[2], 0>>) = <<s[1], s[2], 0>>}

\* The forest's range of heights is that of its ground; a slab's range includes the first
\* slice above it.
ForestRange == {GroundLevel[c] : c \in Boundary}
AppliesTo(s) ==
    /\ \E z \in ForestRange : z >= s[3] * SLAB_SIZE
    /\ \E z \in ForestRange : z <= (s[3] + 1) * SLAB_SIZE
    /\ ColumnsOf(s) \cap Boundary # {}

Near(p, q) == /\ p[1] - q[1] \in -Radius .. Radius
              /\ p[2] - q[2] \in -Radius .. Radius
Spaced(roots) == \A p, q \in roots : p = q \/ ~Near(p, q)
Roots(ts) == {t.root : t \in ts}
Tree(c, shape) == [kind |-> "tree", root |-> <<c[1], c[2], GroundLevel[c] + 1>>, shape |-> shape]

\* Trees are spread at random over the columns of a slab's chunk, whether the ground is in
\* this slab or not, apart from each other and from all trees of the forest so far.
Spread(s) ==
    {ts \in SUBSET {Tree(c, shape) : c \in ColumnsOf(s) \cap Boundary \cap Woods, shape \in Trees} :
        /\ Cardinality(ts) <= MaxTrees /\ Cardinality(Roots(ts)) = Cardinality(ts)
        /\ Spaced(Roots(ts \cup trees))
        /\ Roots(ts) \cap Roots(trees) = {}}

\* One slab at a time: the feature has a lock.
ApplyFeatures(s) ==
    /\ at[s] = "features"
    /\ IF AppliesTo(s)
       THEN \E ts \in Spread(s) :
               trees' = trees \cup ts /\ subfeatures' = [subfeatures EXCEPT ![s] = @ \cup ts]
       ELSE UNCHANGED <<trees, subfeatures>>
    /\ GoTo(s, "flora")
    /\ UNCHANGED <<terrain, task, extra, spawned, slab_continuations, completed, world_updates,
                   terrain_changes, stealing>>

\* Some of the ground within the slab is skipped.
GenerateLooseSubfeatures(s) ==
    /\ at[s] = "flora"
    /\ \E cs \in SUBSET {c \in ColumnsOf(s) \cap Grass : GroundLevel[c] \div SLAB_SIZE = s[3]} :
          subfeatures' = [subfeatures EXCEPT ![s] = @ \cup
              {[kind |-> "flora", root |-> <<c[1], c[2], GroundLevel[c]>>, shape |-> <<>>] : c \in cs}]
    /\ GoTo(s, "marking")
    /\ UNCHANGED <<terrain, task, extra, spawned, slab_continuations, trees, completed,
                   world_updates, terrain_changes, stealing>>

\* A slab without an entry is Unloaded(<<>>).
Loaded(s) == s \in DOMAIN slab_continuations /\ slab_continuations[s].loaded
Left(s) == IF s \in DOMAIN slab_continuations THEN slab_continuations[s].left ELSE <<>>
Unloaded(fs) == [loaded |-> FALSE, left |-> fs]
SetContinuation(s, v) == [n \in DOMAIN slab_continuations \cup {s} |->
                             IF n = s THEN v ELSE slab_continuations[n]]

\* Mutant of MarkLoaded: what had been left for the slab is overwritten.
MarkLoadedForgetting(s) ==
    /\ at[s] = "marking"
    /\ slab_continuations' = SetContinuation(s, [loaded |-> TRUE, left |-> <<>>])
    /\ GoTo(s, "joining")
    /\ UNCHANGED <<terrain, subfeatures, task, extra, spawned, trees, completed, world_updates,
                   terrain_changes, stealing>>

\* From here on others send their blocks to the game.  The planet is let go, and the end of
\* the channel dropped.
MarkLoaded(s) ==
    /\ at[s] = "marking"
    /\ slab_continuations' = SetContinuation(s, [loaded |-> TRUE, left |-> <<>>])
    /\ extra' = [extra EXCEPT ![s] = Left(s)]
    /\ GoTo(s, "joining")
    /\ UNCHANGED <<terrain, subfeatures, task, spawned, trees, completed, world_updates,
                   terrain_changes, stealing>>

PlaceAll(blocks, fs, s) == FoldLeft(LAMBDA bs, f : Place(bs, InternalBlocks(f, s)), blocks, fs)

\* The task has ended; what others have left for this slab is placed on top.  Entities of
\* theirs have been spawned by the slab they come from.
JoinTask(s) ==
    /\ at[s] = "joining" /\ subfeatures[s] = {} /\ task[s] = NoTask
    /\ terrain' = [terrain EXCEPT ![s] = PlaceAll(@, extra[s], s)]
    /\ completed' = completed \cup {<<extra[s][i], s>> : i \in DOMAIN extra[s]}
    /\ extra' = [extra EXCEPT ![s] = <<>>]
    /\ GoTo(s, "generated")
    /\ UNCHANGED <<subfeatures, task, spawned, slab_continuations, trees, world_updates,
                   terrain_changes, stealing>>

\* The loader puts the slab into the world.
Finalize(s) ==
    /\ at[s] = "generated"
    /\ GoTo(s, "world")
    /\ UNCHANGED <<terrain, subfeatures, task, extra, spawned, slab_continuations, trees,
                   completed, world_updates, terrain_changes, stealing>>

-----------------------------------------------------------------------------
(* The task that places its subfeatures: SharedSubfeature::apply *)

\* Blocks within the slab are placed at once, ...
ApplySubfeature(s) ==
    /\ task[s] = NoTask
    /\ \E f \in subfeatures[s] :
          /\ subfeatures' = [subfeatures EXCEPT ![s] = @ \ {f}]
          /\ terrain' = [terrain EXCEPT ![s] = Place(@, InternalBlocks(f, s))]
          /\ completed' = completed \cup {<<f, s>>}
          /\ spawned' = IF f.kind = "flora" THEN [spawned EXCEPT ![s] = @ \cup {f.root}] ELSE spawned
          /\ task' = IF TouchedNeighbours(f, s) = {} THEN task
                     ELSE [task EXCEPT ![s] = [of |-> {f}, to |-> TouchedNeighbours(f, s)]]
    /\ UNCHANGED <<at, extra, slab_continuations, trees, world_updates, terrain_changes, stealing>>

\* ... and then each neighbour that it touches is seen to, under the lock of all
\* continuations.
Propagate(s) ==
    /\ \E f \in task[s].of, n \in task[s].to :
          /\ IF Loaded(n)
             THEN /\ world_updates' = world_updates \cup InternalBlocks(f, n)
                  /\ UNCHANGED slab_continuations
             ELSE /\ slab_continuations' = SetContinuation(n, Unloaded(Append(Left(n), f)))
                  /\ UNCHANGED world_updates
          /\ task' = [task EXCEPT ![s] =
                         IF task[s].to = {n} THEN NoTask ELSE [@ EXCEPT !.to = @ \ {n}]]
    /\ UNCHANGED <<at, terrain, subfeatures, extra, spawned, trees, completed, terrain_changes,
                   stealing>>

-----------------------------------------------------------------------------
(* The game: Planet::steal_world_updates, in Simulation::tick *)

WantUpdates ==
    /\ ~stealing
    /\ stealing' = TRUE
    /\ UNCHANGED <<at, terrain, subfeatures, task, extra, spawned, slab_continuations, trees,
                   completed, world_updates, terrain_changes>>

Applied(changes) == {u \in changes : SlabAt(u[1]) \in Requested /\ at[SlabAt(u[1])] = "world"}

\* The planet's lock is held for writing.  Updates of slabs in the world are applied, in any
\* order, and the others are kept for another tick.
StealWorldUpdates ==
    LET changes == terrain_changes \cup world_updates
        now == Applied(changes)
    IN
    /\ stealing /\ Reading = {}
    /\ stealing' = FALSE
    /\ world_updates' = {}
    /\ terrain_changes' = changes \ now
    /\ \E last \in SUBSET now :
          /\ \A u \in now : Cardinality({v \in last : v[1] = u[1]}) = 1
          /\ terrain' = [s \in Requested |-> IF at[s] = "world"
                                         THEN Place(terrain[s], {u \in last : SlabAt(u[1]) = s})
                                         ELSE terrain[s]]
    /\ UNCHANGED <<at, subfeatures, task, extra, spawned, slab_continuations, trees, completed>>

GenerationStep(s) ==
    \/ Begin(s) \/ ApplyFeatures(s) \/ GenerateLooseSubfeatures(s) \/ MarkLoaded(s)
    \/ JoinTask(s) \/ Finalize(s) \/ ApplySubfeature(s) \/ Propagate(s)

GenerationNext == (\E s \in Requested : GenerationStep(s)) \/ WantUpdates \/ StealWorldUpdates

-----------------------------------------------------------------------------
(* Properties *)

Covers(s, b) == \E t \in trees : b \in InternalBlocks(t, s)

\* Where a tree's blocks in slab n are, once the task that places the tree has seen to n:
\* with the slab, on their way to it, or in it, unless another tree's have replaced them.
Accounted(t, n) ==
    \/ t \in ToSet(Left(n)) \cup (IF n \in Requested THEN ToSet(extra[n]) ELSE {})
    \/ /\ n \in Requested
       /\ \A b \in InternalBlocks(t, n) :
             \/ b \in world_updates \cup terrain_changes
             \/ \E o \in terrain[n] : o[1] = b[1] /\ Covers(n, o)
Underway(t, n) ==
    \/ \E s \in Requested : t \in subfeatures[s]
    \/ \E s \in Requested : t \in task[s].of /\ n \in task[s].to

\* However slabs are generated side by side, no block of a tree gets lost: whichever slab
\* is generated first, in the middle of another's generation or in between a block's way to
\* the game and the slab's to the world (subfeature.rs, "the neighbour slab could already
\* be loaded!!").
NothingIsCutOff ==
    \A t \in trees : \A b \in Rasterize(t) :
        LET n == SlabAt(b[1]) IN IsChunkInRange(ChunkOf(n)) => Underway(t, n) \/ Accounted(t, n)

\* A subfeature that has been applied to a slab is not left for it again, and not left for
\* it twice (the assertion in apply, and the warning in register_applied_slab).
NothingTwice ==
    /\ \A s \in Requested : \A f \in task[s].of : \A n \in task[s].to : <<f, n>> \notin completed
    /\ \A s \in Requested : IsInjective(Left(s)) /\ IsInjective(extra[s])
    /\ \A s \in Requested : \A i \in DOMAIN Left(s) : <<Left(s)[i], s>> \notin completed
    /\ \A s \in Requested : \A i \in DOMAIN extra[s] : <<extra[s][i], s>> \notin completed

\* Trees keep their distance, also those that slabs of different chunks, or one above the
\* other, have planted at the same time; they stand on the ground, and so does the flora,
\* in the slab that spawns it.
TreesKeepApart ==
    /\ Spaced(Roots(trees))
    /\ \A t \in trees : BaseBlock([t.root EXCEPT ![3] = @ - 1]) = "surface"
    /\ \A s \in Requested : \A p \in spawned[s] : SlabAt(p) = s /\ BaseBlock(p) = "surface"

\* What has been planted is where it belongs, once, and apart from the rest.
PlantingIsSound == NothingIsCutOff /\ NothingTwice /\ TreesKeepApart
=============================================================================
