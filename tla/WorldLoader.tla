----------------------------- MODULE WorldLoader -----------------------------
(***************************************************************************)
(* Loading of the voxel world (src/game/world/src/loader): the game thread *)
(* requests slabs and applies terrain updates, worker tasks load and       *)
(* process one slab each and wait for the slab below, and one finalizer    *)
(* thread puts complete batches of slabs into the world, chunk by chunk.   *)
(*                                                                         *)
(* Chunks stand in a row: chunk c has the neighbours c - 1 and c + 1.      *)
(* Blocks are abstracted to the kind of a slab's terrain and the terrain   *)
(* updates applied to it; a slab's areas to their presence.                *)
(***************************************************************************)
EXTENDS Integers, Sequences, FiniteSets, SequencesExt, FiniteSetsExt

CONSTANTS
  NChunks,   \* chunks 1..NChunks, a bound on the world
  Top,       \* slabs 0..Top of each chunk, a bound on the world
  Views,     \* the slabs the viewer asks for, a set of sets of slabs
  MaxMoves,  \* bound on the movements of the viewer
  Covers,    \* update |-> the slabs it touches (into_slab_updates)
  Broken,    \* slabs the terrain source fails to load
  Outside,   \* slabs the terrain source says are out of the world's bounds
  Threads,   \* worker threads of the pool
  BatchIds   \* batch ids wrap here (u16)

ASSUME LoaderAssumption ==
  /\ NChunks \in Nat \ {0} /\ Top \in Nat /\ Threads \in Nat \ {0}
  /\ BatchIds \in Nat \ {0} /\ MaxMoves \in Nat

Chunks == 1 .. NChunks
Levels == 0 .. Top
Slabs == Chunks \X Levels
Updates == DOMAIN Covers
Below(l) == <<l[1], l[2] - 1>>
Neighbours(c) == {c - 1, c + 1} \cap Chunks

VARIABLES
  chunks,    \* chunks that exist in the world
  status,    \* Chunk::slab_progress of every slab
  terrain,   \* every slab's terrain: its kind and the updates applied to it
  graphs,    \* Chunk::areas: the slabs with block graphs, and the updates these know
  nodes,     \* slabs whose areas are in World::area_graph
  links,     \* edges of the area graph between chunks: pairs of slabs
  tasks,     \* worker tasks, one for each slab of each batch in flight
  channel,   \* results on their way to the finalizer
  batcher,   \* UpdateBatcher::batches: batch |-> slabs received
  fin,       \* what the finalizer thread is at
  failed,    \* history: batches of which a slab failed to load
  nextBatch, \* UpdateBatchUniqueId
  wanted,    \* WorldViewer::requested_slabs
  moves,     \* movements of the viewer so far
  updates,   \* terrain updates not applied yet
  issued     \* history: updates ever issued

world == <<chunks, status, terrain, graphs, nodes, links>>
game == <<nextBatch, wanted, moves, updates, issued>>
finalizer == <<batcher, fin, failed>>
vars == <<world, tasks, channel, finalizer, game>>

Idle == [at |-> "idle", items |-> {}, range |-> {}, todo |-> {}, edges |-> {}]

Init ==
  /\ chunks = {} /\ graphs = {} /\ nodes = {} /\ links = {}
  /\ status = [l \in Slabs |-> "unloaded"]
  /\ terrain = [l \in Slabs |-> [kind |-> "none", edits |-> {}]]
  /\ tasks = {} /\ channel = <<>>
  /\ batcher = << >> /\ fin = Idle /\ failed = {}
  /\ nextBatch = 0 /\ wanted = {} /\ moves = 0 /\ updates = {} /\ issued = {}

-----------------------------------------------------------------------------
(* Chunk and terrain *)

\* Mutant of ShouldBeLoaded: loaded slabs are requested again.
ShouldBeLoadedAgain(l) == status[l] \in {"unloaded", "done"}

\* A slab is asked for again only while it is a placeholder.
ShouldBeLoaded(l) ==
  \/ status[l] = "unloaded"
  \/ status[l] = "done" /\ terrain[l].kind = "placeholder"

\* Mutant of NeighboursReady: only a finished slab below will do.
NeighboursDone(st, l) == l[2] = 0 \/ st[Below(l)] \notin {"requested", "inprogress"}

\* The slab below is mandatory: wait for it while it is only requested.
NeighboursReady(st, l) == l[2] = 0 \/ st[Below(l)] # "requested"

\* A new chunk has one placeholder, its slab 0.
WithChunks(tr, new) ==
  [l \in Slabs |-> IF l[1] \in new /\ l[2] = 0
                   THEN [kind |-> "placeholder", edits |-> {}] ELSE tr[l]]

\* Every slab between those a chunk has and the ends of a range exists.
CreateUntil(tr, c, range) ==
  [l \in Slabs |-> IF l[1] = c /\ l[2] <= Max(range) /\ tr[l].kind = "none"
                   THEN [kind |-> "placeholder", edits |-> {}] ELSE tr[l]]

\* A mutable reference to a slab makes a placeholder a normal slab.
Promoted(kind) == IF kind = "placeholder" THEN "air" ELSE kind

\* Mutant of Notify: nobody is told.
NotifyNobody(ts, slabs) == ts

\* A notification is sent only if somebody waits; it reaches all that
\* subscribed before, each of which cares for the slab below its own.
Notify(ts, slabs) ==
  IF \E t \in ts : t.at = "waiting"
  THEN {IF t.at \in {"recheck", "unheard", "waiting"}
        THEN [t EXCEPT !.heard = @ + Cardinality({l \in slabs : l = Below(t.slab)})]
        ELSE t : t \in ts}
  ELSE ts

-----------------------------------------------------------------------------
(* Game thread *)

Task(l, size, kind) ==
  [slab |-> l, batch |-> nextBatch, size |-> size, kind |-> kind,
   at |-> "queued", heard |-> 0, sees |-> {}]

\* The viewer moves and asks for all it sees.
MoveView ==
  /\ moves < MaxMoves
  /\ \E v \in Views : wanted' = wanted \cup v
  /\ moves' = moves + 1
  /\ UNCHANGED <<world, tasks, channel, finalizer, nextBatch, updates, issued>>

\* The slab above the highest of each chunk, if the chunk lacks it.
ExtraSlabs(slabs, tr) ==
  {l \in Slabs : /\ tr[l].kind = "none"
                 /\ l[1] \in {s[1] : s \in slabs}
                 /\ l[2] = 1 + Max({s[2] : s \in {s \in slabs : s[1] = l[1]}})}

\* Slabs to load are marked as requested and become one batch of tasks,
\* with an empty slab on top of each chunk.
RequestSlabs ==
  LET slabs == {l \in wanted : ShouldBeLoaded(l)}
      new == {l[1] : l \in slabs} \ chunks
      tr == WithChunks(terrain, new)
      extra == ExtraSlabs(slabs, tr)
      size == Cardinality(slabs \cup extra)
  IN /\ wanted # {}
     /\ wanted' = {}
     /\ chunks' = chunks \cup new
     /\ terrain' = tr
     /\ status' = [l \in Slabs |-> IF l \in slabs \cup extra THEN "requested" ELSE status[l]]
     /\ tasks' = tasks \cup {Task(l, size, "terrain") : l \in slabs}
                       \cup {Task(l, size, "air") : l \in extra}
     /\ nextBatch' = IF slabs = {} THEN nextBatch ELSE (nextBatch + 1) % BatchIds
     /\ UNCHANGED <<graphs, nodes, links, channel, finalizer, moves, updates, issued>>

IssueUpdate ==
  /\ \E u \in Updates \ issued : updates' = updates \cup {u} /\ issued' = issued \cup {u}
  /\ UNCHANGED <<world, tasks, channel, finalizer, nextBatch, wanted, moves>>

UpdateBatchSize(touched, applied) == Cardinality(applied)

\* Slabs that are loaded are changed at once, and their areas are found by
\* one batch of tasks; others defer; updates outside any chunk are dropped.
ApplyUpdates ==
  LET touched == UNION {Covers[u] : u \in updates}
      applied == {l \in touched : l[1] \in chunks /\ status[l] = "done"}
      dropped == {l \in touched : l[1] \notin chunks}
      gone == {u \in updates : Covers[u] \cap (applied \cup dropped) # {}}
      On(l) == {u \in updates : l \in Covers[u]}
  IN /\ gone # {}
     /\ updates' = updates \ gone
     /\ terrain' = [l \in Slabs |->
          IF l \in applied
          THEN [kind |-> Promoted(terrain[l].kind), edits |-> terrain[l].edits \cup On(l)]
          ELSE terrain[l]]
     /\ tasks' = tasks \cup {Task(l, UpdateBatchSize(touched, applied), "update") : l \in applied}
     /\ nextBatch' = IF applied = {} THEN nextBatch ELSE (nextBatch + 1) % BatchIds
     /\ UNCHANGED <<chunks, status, graphs, nodes, links, channel, finalizer,
                    wanted, moves, issued>>

-----------------------------------------------------------------------------
(* Worker tasks *)

\* A task holds its thread where the code has no await that may suspend it:
\* from its check to its wait, and from its result to the channel unless it
\* joined another task for it. (Every sender has a slot of the channel.)
Holding == {t \in tasks : t.at \in {"unheard", "ready"}}
ThreadFree(t) == t \in Holding \/ Cardinality(Holding) < Threads

\* process_terrain finds the areas of the blocks as they are now.
Processed(t, at) ==
  [t EXCEPT !.at = at, !.sees = IF t.kind = "update" THEN terrain[t.slab].edits ELSE {}]

LoadFails(t) ==
  /\ t.at = "queued" /\ t.kind = "terrain" /\ t.slab \in Broken /\ ThreadFree(t)
  /\ tasks' = tasks \ {t}
  /\ channel' = Append(channel, [t EXCEPT !.kind = "error"])
  /\ UNCHANGED <<world, finalizer, game>>

\* SlabProcessingFuture: publish the slices that neighbours need, wake those
\* that wait for them, and look for the slab below.
Begin(t) ==
  LET kind == IF t.slab \in Outside /\ t.kind = "terrain" THEN "air" ELSE t.kind
      st == [status EXCEPT ![t.slab] = "inprogress"]
      begun == [t EXCEPT !.kind = kind]
  IN /\ t.at = "queued" /\ ThreadFree(t)
     /\ ~ (t.kind = "terrain" /\ t.slab \in Broken)
     /\ status' = st
     /\ tasks' = Notify(tasks \ {t}, {t.slab}) \cup
          {IF NeighboursReady(st, t.slab) THEN Processed(begun, "ready")
                                          ELSE [begun EXCEPT !.at = "recheck"]}
     /\ UNCHANGED <<chunks, terrain, graphs, nodes, links, channel, finalizer, game>>

\* Look again before waiting.
Recheck(t) ==
  /\ t.at = "recheck" /\ ThreadFree(t)
  /\ tasks' = (tasks \ {t}) \cup
       {IF NeighboursReady(status, t.slab) THEN Processed(t, "joined")
                                           ELSE [t EXCEPT !.at = "unheard"]}
  /\ UNCHANGED <<world, channel, finalizer, game>>

\* LoadNotifier::wait_for_slab counts a waiter, then receives.
Wait(t) ==
  /\ t.at = "unheard"
  /\ tasks' = (tasks \ {t}) \cup {[t EXCEPT !.at = "waiting"]}
  /\ UNCHANGED <<world, channel, finalizer, game>>

Hear(t) ==
  /\ t.at = "waiting" /\ t.heard > 0 /\ ThreadFree(t)
  /\ tasks' = (tasks \ {t}) \cup {[t EXCEPT !.at = "recheck", !.heard = @ - 1]}
  /\ UNCHANGED <<world, channel, finalizer, game>>

Deliver(t) ==
  /\ t.at \in {"ready", "joined"} /\ ThreadFree(t)
  /\ tasks' = tasks \ {t}
  /\ channel' = Append(channel, [t EXCEPT !.at = "done", !.heard = 0])
  /\ UNCHANGED <<world, finalizer, game>>

Work(t) ==
  LoadFails(t) \/ Begin(t) \/ Recheck(t) \/ Wait(t) \/ Hear(t) \/ Deliver(t)

-----------------------------------------------------------------------------
(* Finalizer thread *)

Received(b) == IF b \in DOMAIN batcher THEN batcher[b] ELSE {}

\* A batch is complete when it has as many slabs as it was made for.
IsComplete(items, t) == Cardinality(items) = t.size

\* The batch covers the slabs between its lowest and its highest, in each of
\* its chunks.
SlabRange(items) ==
  LET zs == {t.slab[2] : t \in items} IN Min(zs) .. Max(zs)

Receive ==
  /\ fin.at = "idle" /\ channel # <<>>
  /\ channel' = Tail(channel)
  /\ LET t == Head(channel)
         items == Received(t.batch) \cup {t}
         batches == DOMAIN batcher
     IN \/ /\ t.kind = "error"
           /\ failed' = failed \cup {t.batch}
           /\ UNCHANGED <<batcher, fin>>
        \/ /\ t.kind # "error" /\ ~ IsComplete(items, t)
           /\ batcher' = [b \in batches \cup {t.batch} |->
                            IF b = t.batch THEN items ELSE batcher[b]]
           /\ UNCHANGED <<fin, failed>>
        \/ /\ t.kind # "error" /\ IsComplete(items, t)
           /\ batcher' = [b \in batches \ {t.batch} |-> batcher[b]]
           /\ fin' = [at |-> "populate", items |-> items, range |-> SlabRange(items),
                      todo |-> {i.slab[1] : i \in items}, edges |-> {}]
           /\ UNCHANGED failed
  /\ UNCHANGED <<world, tasks, game>>

InRange(c) == {l \in Slabs : l[1] = c /\ l[2] \in fin.range}
NextChunk == Min(fin.todo)
GraphSlabs == {g[1] : g \in graphs}
FinChunks == {t.slab[1] : t \in fin.items}

KeptGraphs(c) == {g \in graphs : g[1] \notin InRange(c)}

\* One chunk's slabs are put in place: the terrain of loaded ones replaces
\* what is there, and the areas of all replace those of the whole range.
Populate ==
  LET c == NextChunk
      mine == {t \in fin.items : t.slab[1] = c}
      loaded == {t.slab : t \in {t \in mine : t.kind # "update"}}
      KindOf(l) == IF \E t \in mine : t.slab = l /\ t.kind = "terrain" THEN "real" ELSE "air"
      made == CreateUntil(terrain, c, fin.range)
      left == fin.todo \ {c}
  IN /\ fin.at = "populate"
     /\ terrain' = [l \in Slabs |-> IF l \in loaded
                                    THEN [kind |-> KindOf(l), edits |-> {}] ELSE made[l]]
     /\ graphs' = KeptGraphs(c) \cup {<<t.slab, t.sees>> : t \in mine}
     /\ fin' = IF left = {} THEN [fin EXCEPT !.at = "mark", !.todo = FinChunks]
                            ELSE [fin EXCEPT !.todo = left]
     /\ UNCHANGED <<chunks, status, nodes, links, tasks, channel, batcher, failed, game>>

\* The slabs of the range are done, and whoever waits for them is told.
MarkComplete ==
  LET range == InRange(NextChunk)
  IN /\ fin.at = "mark"
     /\ status' = [l \in Slabs |-> IF l \in range THEN "done" ELSE status[l]]
     /\ tasks' = Notify(tasks, range)
     /\ fin' = [fin EXCEPT !.at = "link"]
     /\ UNCHANGED <<chunks, terrain, graphs, nodes, links, channel, batcher, failed, game>>

\* Blocks of a processed slab know their areas.
HasAreas(l) == terrain[l].kind \in {"real", "air"}

\* Edges to the chunks around, found from the areas of the blocks at the
\* boundary while others may read the world too.
FindLinks ==
  /\ fin.at = "link"
  /\ fin' = [fin EXCEPT !.at = "finish", !.edges =
       {e \in {{l, <<n, l[2]>>} : l \in InRange(NextChunk),
                                 n \in Neighbours(NextChunk) \cap chunks} :
          \A l \in e : HasAreas(l)}]
  /\ UNCHANGED <<world, tasks, channel, batcher, failed, game>>

\* Mutant of Forgotten: the areas of the whole chunk are removed.
ForgottenChunk(c) == {l \in Slabs : l[1] = c}

\* The areas of the range make room for those the chunk has now.
Forgotten(c) == InRange(c)

\* The chunk's areas and edges go into the area graph.
FinishChunk ==
  LET c == NextChunk
      left == fin.todo \ {c}
  IN /\ fin.at = "finish"
     /\ nodes' = (nodes \ Forgotten(c)) \cup {l \in GraphSlabs : l[1] = c} \cup UNION fin.edges
     /\ links' = {e \in links : e \cap Forgotten(c) = {}} \cup fin.edges
     /\ fin' = IF left = {} THEN Idle ELSE [fin EXCEPT !.at = "mark", !.todo = left, !.edges = {}]
     /\ UNCHANGED <<chunks, status, terrain, graphs, tasks, channel, batcher, failed, game>>

Finalize == Receive \/ Populate \/ MarkComplete \/ FindLinks \/ FinishChunk
Game == MoveView \/ RequestSlabs \/ IssueUpdate \/ ApplyUpdates

Next == Game \/ (\E t \in tasks : Work(t)) \/ Finalize

\* The runtime polls every task that can run, the finalizer thread never
\* stops, and every tick of the game requests slabs and applies updates.
Fairness ==
  /\ WF_vars(RequestSlabs) /\ WF_vars(ApplyUpdates) /\ WF_vars(Finalize)
  /\ \A l \in Slabs : WF_vars(\E t \in tasks : t.slab = l /\ Work(t))

Spec == Init /\ [][Next]_vars /\ Fairness

-----------------------------------------------------------------------------
(* Properties *)

Items == UNION Range(batcher) \cup (IF fin.at = "populate" THEN fin.items ELSE {})
InFlight == tasks \cup {t \in Range(channel) : t.kind # "error"} \cup Items

LoaderTypeOK ==
  /\ chunks \subseteq Chunks /\ graphs \subseteq Slabs \X SUBSET Updates /\ nodes \subseteq Slabs
  /\ status \in [Slabs -> {"unloaded", "requested", "inprogress", "done"}]
  /\ \A l \in Slabs : /\ terrain[l].kind \in {"none", "placeholder", "air", "real"}
                       /\ terrain[l].edits \subseteq Updates
  /\ \A t \in InFlight : t.slab \in Slabs /\ t.kind \in {"terrain", "air", "update"}
  /\ fin.at \in {"idle", "populate", "mark", "link", "finish"}
  /\ (fin.at = "idle") <=> (fin.todo = {})

\* A slab being loaded is in the hands of one task, from its request until it is
\* put into the world: no second load and no update of it is underway, whose
\* blocks the load would replace.
OneLoaderPerSlab ==
  LoaderTypeOK /\ \A t, o \in InFlight : t.slab = o.slab /\ t.kind # "update" => t = o

\* Whoever waits for the slab below without a notification underway waits
\* for one that is still to start: no wakeup is missed between the check
\* and the wait (world.rs promises so).
WaitIsHeard ==
  \A t \in tasks : t.at = "waiting" /\ t.heard = 0 => status[Below(t.slab)] = "requested"

\* Between two batches every loaded slab has its areas in the chunk and in the
\* area graph, and edges to the loaded slabs beside it; the graph has no area
\* that no chunk knows.  And once nothing of a slab is underway, its block graphs
\* are those of its blocks: of two updates the later one's areas stay.
GraphsAgree ==
  fin.at = "idle" =>
    /\ nodes = GraphSlabs
    /\ {l \in Slabs : status[l] = "done"} \subseteq nodes
    /\ \A l, n \in nodes : n[2] = l[2] /\ n[1] = l[1] + 1 => {l, n} \in links
    /\ \A g \in graphs :
          (~ \E t \in InFlight : t.slab = g[1]) => g[2] = terrain[g[1]].edits

\* Both: batches do not disturb each other, in the blocks or in what is found of them.
LoadsDontInterfere == OneLoaderPerSlab /\ GraphsAgree

\* A slab that never comes: its load failed, it waits for one that failed,
\* or its batch lacks one that failed.
Stuck(l) ==
  \/ l \in Broken
  \/ \E t \in tasks : t.slab = l /\ t.at = "waiting" /\ t.batch \in failed
  \/ \E b \in failed : \E t \in Received(b) : t.slab = l

\* Every slab that is requested is loaded in the end, unless its batch fails.
RequestsEnd ==
  \A l \in Slabs : (status[l] = "requested") ~> (status[l] = "done" \/ Stuck(l))

\* Every update is taken in the end, unless it waits for a slab that failed.
UpdatesEnd ==
  \A u \in Updates : (u \in updates) ~> (u \notin updates \/ \E l \in Covers[u] : Stuck(l))

\* What the world promises (WorldStore): a slab is loaded once, as generated,
\* and from then on keeps every update ever made to it.
StoreSlab(l) ==
  IF HasAreas(l) THEN "loaded" ELSE IF status[l] = "unloaded" THEN "absent" ELSE "wanted"
Store == INSTANCE WorldStore WITH
           slab <- [l \in Slabs |-> StoreSlab(l)],
           edits <- [l \in Slabs |-> terrain[l].edits]
StoreSpec == Store!Spec
=============================================================================
