------------------------------- MODULE Viewer -------------------------------
(***************************************************************************)
(* What is drawn of the world (world/viewer.rs, world/mesh.rs and the      *)
(* backend): the slices and chunks in view, the meshes that are kept of    *)
(* the chunks, and the slabs that are asked for because they came into     *)
(* view.  Every frame the camera's chunks are set and the meshes of dirty  *)
(* chunks are made anew; every tick the world hands over the slabs that    *)
(* have changed and the loader is sent what is missing.                    *)
(*                                                                         *)
(* Chunks stand in a row and have one column of blocks <<chunk, slice>>.   *)
(***************************************************************************)
EXTENDS Integers, FiniteSets

CONSTANTS
    Height,        \* SLAB_SIZE
    Chunks, Slices,  \* the world's extent
    StartView,     \* SliceRange of the viewer at first: <<bottom, top>>, both shown
    StartChunks, StartSlabs,   \* where the viewer is put, and the slabs loaded by then
    Bounds,        \* what Camera::bounds may be: <<first chunk, last chunk>>
    Ground,        \* the solid blocks
    MaxMoves, MaxChanges   \* bounds

VARIABLES
    view_range, chunk_range,
    clean_slabs, requested_slabs,
    meshes,      \* chunk |-> the tiles of its mesh, or NoMesh
    loaded,      \* slabs <<chunk, slab>> of the world
    sent,        \* slabs that the loader has been sent for and has not loaded
    opaque,      \* solid blocks
    finalizing,  \* slabs that have changed and whose finalization is to come
    dirty_slabs, \* of the world
    fresh,       \* nothing has happened since the last frame
    moves, changes

viewvars == <<view_range, chunk_range, clean_slabs, requested_slabs, meshes, loaded, sent, opaque,
              finalizing, dirty_slabs, fresh, moves, changes>>

SlabIndex(z) == z \div Height
NoMesh == {<<"none">>}
VisibleSlabs(chunks, range) ==
    {<<c, l>> : c \in chunks[1] .. chunks[2], l \in SlabIndex(range[1]) .. SlabIndex(range[2])}
InSlice(c, z) == <<c, SlabIndex(z)>> \in loaded
IsSolid(c, z) == InSlice(c, z) /\ <<c, z>> \in opaque

\* with_world: the range is cut to the slices of the world.
ViewerInit ==
    /\ view_range = StartView /\ chunk_range = StartChunks
    /\ clean_slabs = {} /\ requested_slabs = {}
    /\ meshes = [c \in Chunks |-> NoMesh]
    /\ loaded = StartSlabs /\ sent = {}
    /\ opaque = Ground
    /\ finalizing = {} /\ dirty_slabs = {} /\ fresh = FALSE /\ moves = 0 /\ changes = 0

----------------------------------------------------------------------------
\* make_simple_render_mesh: the slices from the first that is there to the first gap; a
\* tile is grey if the block above is solid; and the shadows of what is just below.
ShownSlices(c) ==
    {z \in view_range[1] .. view_range[2] :
        /\ InSlice(c, z)
        /\ \A y \in view_range[1] .. z : ~InSlice(c, y)
                => \A x \in view_range[1] .. y : ~InSlice(c, x)}
Tiles(c) == {<<IF IsSolid(c, z + 1) THEN "blocked" ELSE "block", z - view_range[1]>> :
                z \in {y \in ShownSlices(c) : IsSolid(c, y)}}
Shadows(c) ==
    {<<"shadow", 0>> : z \in {y \in {view_range[1]} : InSlice(c, y) /\ ~IsSolid(c, y) /\ IsSolid(c, y - 1)}}
MakeMesh(c) == Tiles(c) \cup Shadows(c)

\* update_range: everything is dirty, and whatever is in view is asked for.
UpdateRange(range) ==
    /\ view_range' = range
    /\ clean_slabs' = {}
    /\ requested_slabs' = requested_slabs \cup VisibleSlabs(chunk_range, range)
    /\ moves < MaxMoves /\ moves' = moves + 1
    /\ fresh' = FALSE
    /\ UNCHANGED <<chunk_range, meshes, loaded, sent, opaque, finalizing, dirty_slabs, changes>>

MoveBy(delta) == UpdateRange(<<view_range[1] + delta, view_range[2] + delta>>)
MoveByMultiple(delta) == MoveBy(delta * (view_range[2] - view_range[1]))
StretchBy(delta) ==
    /\ view_range[1] < view_range[2] + delta
    /\ UpdateRange(<<view_range[1], view_range[2] + delta>>)

\* Mutant of MarkDirty: what is out of view is not remembered.
MarkDirtyInView(slabs) == clean_slabs \ (slabs \cap VisibleSlabs(chunk_range, view_range))

MarkDirty(slabs) == clean_slabs \ slabs

\* set_chunk_bounds: all that is in view is asked for if the camera has moved.
Entered(bounds) == IF bounds = chunk_range THEN {} ELSE VisibleSlabs(bounds, view_range)

\* regenerate_dirty_chunk_meshes: chunks of the world with a slab in view that is not clean.
DirtyChunks(visible) == {s[1] : s \in visible \ clean_slabs} \cap {s[1] : s \in loaded}

\* The backend's tick.
Frame(bounds) ==
    LET visible == VisibleSlabs(bounds, view_range) IN
    /\ chunk_range' = bounds
    /\ requested_slabs' = requested_slabs \cup Entered(bounds)
    /\ meshes' = [c \in Chunks |-> IF c \in DirtyChunks(visible) THEN MakeMesh(c) ELSE meshes[c]]
    /\ clean_slabs' = clean_slabs \cup visible
    /\ fresh' = TRUE
    /\ UNCHANGED <<view_range, loaded, sent, opaque, finalizing, dirty_slabs, moves, changes>>

\* retain_slabs_to_load: those of chunks or slabs that are not loaded.
NotLoaded(slabs) == slabs \ loaded

\* The simulation's tick.
Tick ==
    /\ sent' = sent \cup NotLoaded(requested_slabs)
    /\ requested_slabs' = {}
    /\ clean_slabs' = MarkDirty(dirty_slabs) /\ dirty_slabs' = {}
    /\ fresh' = FALSE
    /\ UNCHANGED <<view_range, chunk_range, meshes, loaded, opaque, finalizing, moves, changes>>

----------------------------------------------------------------------------
\* The loader.  A slab's terrain is there before its batch is finalized; a block is edited
\* before the slab (and those whose shading it changes) is.
Load(s) ==
    /\ s \in sent /\ changes < MaxChanges /\ changes' = changes + 1
    /\ loaded' = loaded \cup {s} /\ sent' = sent \ {s}
    /\ finalizing' = finalizing \cup {s}
    /\ fresh' = FALSE
    /\ UNCHANGED <<view_range, chunk_range, clean_slabs, requested_slabs, meshes, opaque, dirty_slabs, moves>>

EditBlock(c, z) ==
    /\ InSlice(c, z) /\ changes < MaxChanges /\ changes' = changes + 1
    /\ opaque' = IF <<c, z>> \in opaque THEN opaque \ {<<c, z>>} ELSE opaque \cup {<<c, z>>}
    /\ finalizing' = finalizing \cup {<<c, SlabIndex(z)>>}
    /\ fresh' = FALSE
    /\ UNCHANGED <<view_range, chunk_range, clean_slabs, requested_slabs, meshes, loaded, sent, dirty_slabs, moves>>

Finalize(s) ==
    /\ s \in finalizing /\ finalizing' = finalizing \ {s}
    /\ dirty_slabs' = dirty_slabs \cup {s}
    /\ UNCHANGED <<view_range, chunk_range, clean_slabs, requested_slabs, meshes, loaded, sent, opaque,
                   fresh, moves, changes>>

ViewerNext ==
    \/ \E delta \in {-1, 1} : MoveBy(delta) \/ MoveByMultiple(delta) \/ StretchBy(delta)
    \/ \E bounds \in Bounds : Frame(bounds)
    \/ Tick
    \/ \E s \in sent : Load(s)
    \/ \E c \in Chunks, z \in Slices : EditBlock(c, z)
    \/ \E s \in finalizing : Finalize(s)

----------------------------------------------------------------------------
\* Once a change has reached the viewer, the next frame shows the terrain as it is, in the
\* slices that are in view then, however the view and the camera moved meanwhile and
\* wherever the change was.  Tiles that depend on a slab just above or below those in view
\* are left out: its changes are not looked at (see README).
Shown(c, tiles) ==
    {t \in tiles :
        /\ t[1] = "shadow" => SlabIndex(view_range[1] - 1) = SlabIndex(view_range[1])
        /\ t[1] # "shadow" /\ t[2] = view_range[2] - view_range[1]
                => SlabIndex(view_range[2] + 1) = SlabIndex(view_range[2])}
ViewIsCurrent ==
    fresh /\ finalizing \cup dirty_slabs = {} =>
        \A c \in chunk_range[1] .. chunk_range[2] :
            meshes[c] # NoMesh => Shown(c, meshes[c]) = Shown(c, MakeMesh(c))

\* Whatever is in view is loaded, or the loader has been or will be sent for it; and a
\* chunk of the world that is in view has a mesh.
ViewIsRequested ==
    fresh => /\ VisibleSlabs(chunk_range, view_range) \subseteq loaded \cup sent \cup requested_slabs
             /\ \A c \in chunk_range[1] .. chunk_range[2] :
                    VisibleSlabs(<<c, c>>, view_range) \cap loaded # {} /\ finalizing \cup dirty_slabs = {}
                        => meshes[c] # NoMesh

ViewIsKept == ViewIsCurrent /\ ViewIsRequested
=============================================================================
