----------------------------- MODULE BuildWork ------------------------------
(***************************************************************************)
(* One build job, from its first material to its block (jobs/build.rs,     *)
(* subactivity/haul.rs, subactivity/build_block.rs, build/world_helper.rs, *)
(* ecs/world_ext.rs).                                                      *)
(*                                                                         *)
(* The workers of the society haul items to the site, each is reserved for *)
(* the job, and when nothing is outstanding one worker builds.  Strangers, *)
(* of another society or under a command, haul any item anywhere.  Nobody  *)
(* changes the world itself: activities queue updates, which run in order  *)
(* at the end of the tick; the events they post are delivered in the next  *)
(* tick and heard in the one after.  In between an activity may be         *)
(* replaced, and the player may cancel the job, or kill.                   *)
(*                                                                         *)
(* One tick is player, (refresh of the job), activity, poll, deliver, end. *)
(* Items are not stacks.  How a task is offered and reserved is SocietyWork *)
(* and how a poll comes about is TaskRuntime; here a worker may take what  *)
(* is offered at any time, and is polled in every tick.                    *)
(***************************************************************************)
EXTENDS Integers, Sequences, FiniteSets, SequencesExt

CONSTANTS
    Worker, Stranger,   \* entities of the job's society, and others
    Item,               \* entities that are the job's kind of material
    Mortal,             \* entities and items that the player may kill
    Needed,             \* required_materials
    Steps,              \* total_steps_needed
    NoOne, Nothing

ASSUME BuildAssumption ==
    /\ Needed \in Nat \ {0} /\ Steps \in Nat \ {0}
    /\ IsFiniteSet(Item)
    /\ NoOne \notin Worker \cup Stranger /\ Nothing \notin Item
    /\ Worker \cap Stranger = {}

Entity == Worker \cup Stranger

VARIABLES
    phase, todo,    \* the part of the tick, and who is still to be visited in it
    alive,          \* entities and items that still have their components
    dying,          \* EntitiesToKill
    loc,            \* TransformComponent of an item: at the site, away, or none
    hauler,         \* HauledItemComponent, with its ContainedInComponent
    hands,          \* InventoryComponent: what is in an entity's equip slots
    reserved_for,   \* items with a ReservedMaterialComponent
    consumed,       \* items with a ConsumedMaterialForJobComponent
    listed,         \* the job is in its society's list
    reserved_materials, materials_remaining, progress,  \* BuildThingJob
    completion,     \* the job has been notified of the result of a Build task
    builder,        \* who reserves the Build task
    block,          \* the block in the world
    terrain_updates,\* how often TerrainUpdatesRes holds the update that sets it
    act,            \* each entity's activity
    updates,        \* QueuedUpdates
    events, sink,   \* posted events; delivered, per entity, not yet heard
    ghosts,         \* items that a dead entity is still subscribed to
    strayed         \* history: items a stranger was after, or a worker missed an event of

clock == <<phase, todo>>
itemvars == <<loc, hauler, hands, reserved_for, consumed>>
jobvars == <<listed, reserved_materials, materials_remaining, progress>>
taskvars == <<completion, builder>>
worldvars == <<block, terrain_updates>>
eventvars == <<events, sink, ghosts, strayed>>
lifevars == <<alive, dying>>
bwvars == <<clock, lifevars, itemvars, jobvars, taskvars, worldvars, act, updates, eventvars>>

Place == {"site", "away"}

\* "new" until the first poll, "done" until the result is collected.  While it
\* waits for its pickup, carries, or builds, an activity holds a subactivity.
Activity ==
    [kind : {"idle", "haul", "build"}, thing : Item \cup {Nothing},
     stage : {"none", "new", "walk", "wait", "carry", "step", "done"},
     materials : SUBSET Item]

Idle == [kind |-> "idle", thing |-> Nothing, stage |-> "none", materials |-> {}]
Hauling(i) == [Idle EXCEPT !.kind = "haul", !.thing = i, !.stage = "new"]
Building == [Idle EXCEPT !.kind = "build", !.stage = "new"]

\* EntityEvents about items: Hauled(by, Ok or Err), and Died.
Hauled(i, e, ok) == [thing |-> i, by |-> e, ok |-> ok]
Died(i) == [thing |-> i, by |-> NoOne, ok |-> TRUE]
IsDestructiveFor(event, e) == event.ok /\ event.by # e

\* Queued updates.  Only a drop has a place to go to, its hauler's feet perhaps.
Queued(op, is, e) == [op |-> op, things |-> is, who |-> e, to |-> "none"]
Pickup(i, e) == Queued("haul item", {i}, e)
Stop(i, e) == Queued("stop hauling item", {i}, e)
Drop(i, e, to) == [op |-> "drop hauled item", things |-> {i}, who |-> e, to |-> to]
Reserve(i, e) == Queued("reserve material", {i}, e)
Consume(is, e) == Queued("start wip build", is, e)
Destroy(is, e) == Queued("destroy materials", is, e)

BuildTypeOK ==
    /\ phase \in {"player", "activity", "poll", "deliver", "end"}
    /\ todo \subseteq Entity
    /\ alive \subseteq Entity \cup Item /\ dying \subseteq Entity \cup Item
    /\ loc \in [Item -> Place \cup {"none"}]
    /\ hauler \in [Item -> Entity \cup {NoOne}]
    /\ hands \in [Entity -> SUBSET Item]
    /\ reserved_for \subseteq Item \cap alive /\ consumed \subseteq Item \cap alive
    /\ listed \in BOOLEAN /\ completion \in BOOLEAN
    /\ reserved_materials \subseteq Item
    /\ materials_remaining \in 0 .. Needed
    /\ progress \in 0 .. Steps
    /\ builder \in Worker \cup {NoOne}
    /\ block \in {"Air", "Built"} /\ terrain_updates \in Nat
    /\ act \in [Entity -> Activity]
    /\ phase \notin {"activity", "poll", "deliver", "end"} => updates = <<>>
    /\ \A e \in Entity : \A n \in DOMAIN sink[e] : sink[e][n].thing = act[e].thing
    /\ ghosts \subseteq Item /\ strayed \subseteq Item

BuildInit ==
    /\ phase = "player" /\ todo = {}
    /\ alive = Entity \cup Item /\ dying = {}
    /\ loc = [i \in Item |-> "away"]
    /\ hauler = [i \in Item |-> NoOne]
    /\ hands = [e \in Entity |-> {}]
    /\ reserved_for = {} /\ consumed = {}
    /\ listed = TRUE
    /\ reserved_materials = {} /\ materials_remaining = 0 /\ progress = 0
    /\ completion = FALSE /\ builder = NoOne
    /\ block = "Air" /\ terrain_updates = 0
    /\ act = [e \in Entity |-> Idle]
    /\ updates = <<>>
    /\ events = <<>> /\ sink = [e \in Entity |-> <<>>] /\ ghosts = {}
    /\ strayed = {}

-----------------------------------------------------------------------------
(* The player, and the job *)

CancelJob ==
    /\ phase = "player" /\ listed
    /\ listed' = FALSE
    /\ UNCHANGED <<clock, lifevars, itemvars, reserved_materials, materials_remaining, progress,
                   taskvars, worldvars, act, updates, eventvars>>

\* UiRequest::Kill
Kill(x) ==
    /\ phase = "player" /\ x \in (Mortal \cap alive) \ dying
    /\ dying' = dying \cup {x}
    /\ UNCHANGED <<clock, alive, itemvars, jobvars, taskvars, worldvars, act, updates, eventvars>>

\* check_materials: these reservations are still valid.
ValidMaterials ==
    {i \in reserved_materials \cap reserved_for :
        \/ loc[i] = "site" /\ i \notin consumed
        \/ loc[i] = "none" /\ i \in consumed}

\* refresh_tasks: the result of a Build task, whatever it is, ends the job.
\* The tasks are to gather what remains, or to build.
RefreshJob ==
    /\ phase = "player"
    /\ phase' = "activity" /\ todo' = Entity \cap alive
    /\ \/ /\ listed /\ completion
          /\ listed' = FALSE
          /\ UNCHANGED <<reserved_materials, materials_remaining, progress>>
       \/ /\ listed /\ ~completion
          /\ reserved_materials' = ValidMaterials
          /\ materials_remaining' = Needed - Cardinality(ValidMaterials)
          /\ UNCHANGED <<listed, progress>>
       \/ ~listed /\ UNCHANGED jobvars
    /\ UNCHANGED <<lifevars, itemvars, taskvars, worldvars, act, updates, eventvars>>

-----------------------------------------------------------------------------
(* The activity system, after the decisions of the AI *)

Visit(e) ==
    /\ phase = "activity" /\ e \in todo
    /\ todo' = todo \ {e}
    /\ UNCHANGED <<phase, lifevars, itemvars, jobvars, worldvars, events, ghosts>>

\* Mutant of Abandon: nothing to undo before the pickup is confirmed.
AbandonCarried(e) ==
    IF act[e].kind = "haul" /\ act[e].stage = "carry"
    THEN <<Stop(act[e].thing, e), Drop(act[e].thing, e, "feet")>>
    ELSE <<>>

\* Drop for HaulSubactivity: put the item down where the hauler stands.
Abandon(e) ==
    IF act[e].kind = "haul" /\ act[e].stage \in {"wait", "carry"}
    THEN <<Stop(act[e].thing, e), Drop(act[e].thing, e, "feet")>>
    ELSE <<>>

\* Whatever the entity did is cancelled, a result that nobody has collected is
\* lost, and so is what it subscribed to.
Begin(e, activity) ==
    /\ act' = [act EXCEPT ![e] = activity]
    /\ updates' = updates \o Abandon(e)
    /\ sink' = [sink EXCEPT ![e] = <<>>]
    /\ builder' = IF activity.kind = "build" THEN e ELSE IF builder = e THEN NoOne ELSE builder
    /\ UNCHANGED completion

\* Mutant of Offered: reserved items are offered as well.
OfferedReserved(e, i) ==
    /\ i \in alive /\ loc[i] # "none" /\ hauler[i] = NoOne
    /\ e \in Worker => listed

\* search_local_entities: in the world, not held, nor reserved by the society.
Offered(e, i) ==
    /\ i \in alive /\ loc[i] # "none" /\ hauler[i] = NoOne
    /\ e \in Worker => listed /\ materials_remaining > 0 /\ i \notin reserved_for

StartHaul(e, i) ==
    /\ Visit(e)
    /\ Offered(e, i)
    /\ Begin(e, Hauling(i))
    /\ strayed' = IF e \in Stranger THEN strayed \cup {i} ELSE strayed

\* Mutants of StartBuild: the task is offered before the materials are there, or
\* to several.
StartBuildEarly(e) ==
    /\ Visit(e)
    /\ e \in Worker /\ listed /\ builder \in {NoOne, e}
    /\ act[e].kind = "build" => act[e].stage = "done"
    /\ Begin(e, Building)
    /\ UNCHANGED strayed

StartBuildShared(e) ==
    /\ Visit(e)
    /\ e \in Worker /\ listed /\ materials_remaining = 0
    /\ act[e].kind = "build" => act[e].stage = "done"
    /\ Begin(e, Building)
    /\ UNCHANGED strayed

StartBuild(e) ==
    /\ Visit(e)
    /\ e \in Worker /\ listed /\ materials_remaining = 0 /\ builder \in {NoOne, e}
    /\ act[e].kind = "build" => act[e].stage = "done"
    /\ Begin(e, Building)
    /\ UNCHANGED strayed

Interrupt(e) ==
    /\ Visit(e)
    /\ act[e].kind # "idle"
    /\ Begin(e, Idle)
    /\ UNCHANGED strayed

Continue(e) ==
    /\ Visit(e)
    /\ act[e].stage # "done"
    /\ UNCHANGED <<taskvars, act, updates, sink, strayed>>

\* A finished activity: the job hears of the result.  The entity is idle, and
\* still subscribed to what it hauled.
Collect(e) ==
    /\ Visit(e)
    /\ act[e].stage = "done"
    /\ act' = [act EXCEPT ![e] = [Idle EXCEPT !.thing = act[e].thing]]
    /\ completion' = (completion \/ (act[e].kind = "build" /\ builder = e /\ listed))
    /\ builder' = IF builder = e THEN NoOne ELSE builder
    /\ sink' = [sink EXCEPT ![e] = <<>>]
    /\ UNCHANGED <<updates, strayed>>

EndActivity ==
    /\ phase = "activity" /\ todo = {}
    /\ phase' = "poll"
    /\ todo' = {e \in Entity : act[e].stage \notin {"none", "done"}}
    /\ UNCHANGED <<lifevars, itemvars, jobvars, taskvars, worldvars, act, updates, eventvars>>

-----------------------------------------------------------------------------
(* The runtime polls each activity once *)

Polled(e) ==
    /\ phase = "poll" /\ e \in todo
    /\ todo' = todo \ {e}
    /\ UNCHANGED <<phase, lifevars, itemvars, listed, reserved_materials, materials_remaining,
                   taskvars, block, events, ghosts, strayed>>

\* Events are heard in order; whatever else the activity waits for, a
\* destructive one cancels it.
Cancelled(e) == \E n \in DOMAIN sink[e] : IsDestructiveFor(sink[e][n], e)

Proceed(e, stage, queued) ==
    /\ act' = [act EXCEPT ![e].stage = stage]
    /\ updates' = updates \o queued
    /\ sink' = [sink EXCEPT ![e] = <<>>]
    /\ UNCHANGED <<progress, terrain_updates>>

KeepWalking(e) ==
    /\ Polled(e)
    /\ act[e].stage \in {"new", "walk", "carry"} /\ ~Cancelled(e)
    /\ (act[e].stage = "new" /\ act[e].kind = "haul") => loc[act[e].thing] # "none"
    /\ Proceed(e, IF act[e].stage = "carry" THEN "carry" ELSE "walk", <<>>)

\* No path, too far after all, the thing is gone, or the job is.
Fail(e) ==
    /\ Polled(e)
    /\ act[e].stage \in {"new", "walk", "carry"}
    /\ Proceed(e, "done", Abandon(e))

\* start_hauling.  Events about the thing were posted at the end of a tick, and the
\* arrival in the next one, so they are heard first.
ArriveAtItem(e) ==
    /\ Polled(e)
    /\ act[e].kind = "haul" /\ act[e].stage = "walk" /\ ~Cancelled(e)
    /\ loc[act[e].thing] # "none"
    /\ Proceed(e, "wait", <<Pickup(act[e].thing, e)>>)

\* The first event that is the answer to its own pickup, or cancels.
Answers(e) ==
    {n \in DOMAIN sink[e] : sink[e][n].by = e \/ IsDestructiveFor(sink[e][n], e)}

HearPickup(e) ==
    /\ Polled(e)
    /\ act[e].stage = "wait"
    /\ \/ Answers(e) = {} /\ Proceed(e, "wait", <<>>)
       \/ \E n \in Answers(e) :
             /\ \A m \in Answers(e) : n <= m
             /\ \/ /\ sink[e][n] = Hauled(act[e].thing, e, TRUE)
                   /\ act' = [act EXCEPT ![e].stage = "carry"]
                   /\ sink' = [sink EXCEPT ![e] = SubSeq(@, n + 1, Len(@))]
                   /\ UNCHANGED <<updates, progress, terrain_updates>>
                \/ /\ sink[e][n] # Hauled(act[e].thing, e, TRUE)
                   /\ Proceed(e, "done", Abandon(e))

\* end_haul
PutDown(e) ==
    /\ Polled(e)
    /\ act[e].stage = "carry" /\ ~Cancelled(e)
    /\ LET i == act[e].thing
       IN  Proceed(e, "done",
              IF e \in Worker THEN <<Stop(i, e), Drop(i, e, "site"), Reserve(i, e)>>
              ELSE <<Stop(i, e), Drop(i, e, "away")>>)

\* build_block, start_build
ReachBlock(e) ==
    /\ Polled(e)
    /\ act[e].kind = "build" /\ act[e].stage = "walk" /\ listed
    /\ act' = [act EXCEPT ![e] = [@ EXCEPT !.stage = "step", !.materials = reserved_materials]]
    /\ updates' = Append(updates, Consume(reserved_materials, e))
    /\ UNCHANGED <<progress, terrain_updates, sink>>

WaitToStep(e) ==
    /\ Polled(e)
    /\ act[e].stage = "step"
    /\ UNCHANGED <<progress, terrain_updates, act, updates, sink>>

\* Nobody collects the result of a dead entity.
FinishBuild(e) ==
    act' = [act EXCEPT ![e] = IF e \in alive THEN [@ EXCEPT !.stage = "done"] ELSE Idle]

\* make_progress, complete_build.  (Progress beyond the total makes no
\* difference, and is not counted.)
BuildStep(e) ==
    /\ Polled(e)
    /\ act[e].stage = "step"
    /\ progress' = IF listed /\ progress < Steps THEN progress + 1 ELSE progress
    /\ \/ /\ listed /\ progress' < Steps
          /\ UNCHANGED <<terrain_updates, act, updates>>
       \/ /\ listed /\ progress' = Steps /\ block = "Air"
          /\ terrain_updates' = terrain_updates + 1
          /\ updates' = Append(updates, Destroy(act[e].materials, e))
          /\ FinishBuild(e)
       \/ /\ ~listed \/ (progress' = Steps /\ block # "Air")
          /\ FinishBuild(e)
          /\ UNCHANGED <<terrain_updates, updates>>
    /\ UNCHANGED sink

EndPoll ==
    /\ phase = "poll" /\ todo = {}
    /\ phase' = "deliver"
    /\ UNCHANGED <<todo, lifevars, itemvars, jobvars, taskvars, worldvars, act, updates, eventvars>>

-----------------------------------------------------------------------------
(* RuntimeSystem and HaulSystem *)

\* Waiting for the pickup has ended the subscription to that kind of event.
Hears(e, event) ==
    /\ act[e].kind = "haul" /\ act[e].thing = event.thing
    /\ act[e].stage \in {"walk", "wait"} \/ (act[e].stage = "carry" /\ event = Died(event.thing))

\* The first event that finds a dead subscriber reaches only those before it.
DeliverEvent ==
    /\ phase = "deliver" /\ events # <<>>
    /\ LET event == Head(events)
           all == {e \in alive \cap Entity : Hears(e, event)}
       IN  /\ \E told \in IF event.thing \in ghosts THEN SUBSET all ELSE {all} :
                /\ sink' = [e \in Entity |-> IF e \in told THEN Append(sink[e], event) ELSE sink[e]]
                /\ strayed' = IF told = all THEN strayed ELSE strayed \cup {event.thing}
           /\ ghosts' = ghosts \ {event.thing}
    /\ events' = Tail(events)
    /\ UNCHANGED <<clock, lifevars, itemvars, jobvars, taskvars, worldvars, act, updates>>

Misplaced ==
    \E i \in Item : hauler[i] # NoOne /\ (hauler[i] \notin alive \/ loc[i] = "none")

\* Hauled items go where their haulers have walked.  The system asserts that a hauler
\* lives and that what it hauls is in the world: else the game ends.
MoveHauled ==
    /\ phase = "deliver" /\ events = <<>>
    /\ IF Misplaced THEN UNCHANGED bwvars
       ELSE /\ phase' = "end"
            /\ loc' \in {l \in [Item -> Place \cup {"none"}] :
                          \A i \in Item : IF hauler[i] # NoOne THEN l[i] # "none" ELSE l[i] = loc[i]}
            /\ UNCHANGED <<todo, lifevars, hauler, hands, reserved_for, consumed, jobvars, taskvars,
                           worldvars, act, updates, eventvars>>

-----------------------------------------------------------------------------
(* QueuedUpdates::execute, one update after the other *)

Execute(op) ==
    /\ phase = "end" /\ updates # <<>> /\ Head(updates).op = op
    /\ updates' = Tail(updates)
    /\ UNCHANGED <<clock, alive, listed, progress, taskvars, worldvars, act, sink, ghosts, strayed>>

Who == Head(updates).who
Things == Head(updates).things
TheThing == CHOOSE i \in Things : TRUE

\* An item without a transform is given its hauler's.
ExecutePickup ==
    /\ Execute("haul item")
    /\ LET i == TheThing
           ok == i \in alive /\ hauler[i] = NoOne /\ Who \in alive /\ hands[Who] = {}
       IN  /\ events' = Append(events, Hauled(i, Who, ok))
           /\ \/ ~ok /\ UNCHANGED <<loc, hauler, hands>>
              \/ /\ ok
                 /\ hauler' = [hauler EXCEPT ![i] = Who]
                 /\ hands' = [hands EXCEPT ![Who] = {i}]
                 /\ loc' \in {[loc EXCEPT ![i] = p] :
                                 p \in IF loc[i] = "none" THEN Place ELSE {loc[i]}}
    /\ UNCHANGED <<dying, reserved_for, consumed, reserved_materials, materials_remaining>>

\* end_haul, unless another entity hauls the item now.
ExecuteStop ==
    /\ Execute("stop hauling item")
    /\ LET i == TheThing
       IN  IF hauler[i] \in {Who, NoOne}
           THEN /\ hauler' = [hauler EXCEPT ![i] = NoOne]
                /\ hands' = [hands EXCEPT ![Who] = @ \ {i}]
           ELSE UNCHANGED <<hauler, hands>>
    /\ UNCHANGED <<dying, loc, reserved_for, consumed, reserved_materials, materials_remaining, events>>

ExecuteDrop ==
    /\ Execute("drop hauled item")
    /\ LET i == TheThing
       IN  IF hauler[i] = NoOne /\ loc[i] # "none"
           THEN loc' \in {[loc EXCEPT ![i] = p] :
                            p \in IF Head(updates).to = "feet" THEN Place ELSE {Head(updates).to}}
           ELSE UNCHANGED loc
    /\ UNCHANGED <<dying, hauler, hands, reserved_for, consumed, reserved_materials,
                   materials_remaining, events>>

\* Mutants of ExecuteReserve: less than is required, a
\* requirement that is not reduced, and a component that is there although the
\* reservation failed.
ExecuteReserveShort ==
    /\ Execute("reserve material")
    /\ IF listed /\ materials_remaining > 1 /\ Things \subseteq alive
       THEN /\ reserved_materials' = reserved_materials \cup Things
            /\ materials_remaining' = materials_remaining - 1
            /\ reserved_for' = reserved_for \cup Things
       ELSE UNCHANGED <<reserved_materials, materials_remaining, reserved_for>>
    /\ UNCHANGED <<dying, loc, hauler, hands, consumed, events>>

ExecuteReserveAnyway ==
    /\ Execute("reserve material")
    /\ reserved_for' = reserved_for \cup (Things \cap alive)
    /\ IF listed /\ materials_remaining > 0 /\ Things \subseteq alive
       THEN /\ reserved_materials' = reserved_materials \cup Things
            /\ materials_remaining' = materials_remaining - 1
       ELSE UNCHANGED <<reserved_materials, materials_remaining>>
    /\ UNCHANGED <<dying, loc, hauler, hands, consumed, events>>

\* reserve_material_for_job, add_reservation
ExecuteReserve ==
    /\ Execute("reserve material")
    /\ IF listed /\ materials_remaining > 0 /\ Things \subseteq alive
       THEN /\ reserved_materials' = reserved_materials \cup Things
            /\ materials_remaining' = materials_remaining - 1
            /\ reserved_for' = reserved_for \cup Things
       ELSE UNCHANGED <<reserved_materials, materials_remaining, reserved_for>>
    /\ UNCHANGED <<dying, loc, hauler, hands, consumed, events>>

\* consume_materials_for_job
ExecuteConsume ==
    /\ Execute("start wip build")
    /\ loc' = [i \in Item |-> IF i \in Things THEN "none" ELSE loc[i]]
    /\ consumed' = consumed \cup (Things \cap alive)
    /\ UNCHANGED <<dying, hauler, hands, reserved_for, reserved_materials, materials_remaining, events>>

ExecuteDestroy ==
    /\ Execute("destroy materials")
    /\ dying' = dying \cup (Things \cap alive)
    /\ UNCHANGED <<itemvars, reserved_materials, materials_remaining, events>>

\* delete_queued_entities, and the terrain updates of the next tick.  A dead
\* entity's future lives on: it goes on building, by its timers, while the events
\* that the others wait for never come.
EndTick ==
    /\ phase = "end" /\ updates = <<>>
    /\ phase' = "player"
    /\ alive' = alive \ dying /\ dying' = {}
    /\ loc' = [i \in Item |-> IF i \in dying THEN "none" ELSE loc[i]]
    /\ hauler' = [i \in Item |-> IF i \in dying THEN NoOne ELSE hauler[i]]
    /\ hands' = [e \in Entity |-> IF e \in dying THEN {} ELSE hands[e]]
    /\ reserved_for' = reserved_for \ dying /\ consumed' = consumed \ dying
    /\ events' = events \o SetToSeq({Died(i) : i \in dying \cap Item})
    /\ act' = [e \in Entity |-> IF e \in dying /\ act[e].stage # "step" THEN Idle ELSE act[e]]
    /\ sink' = [e \in Entity |-> IF e \in dying THEN <<>> ELSE sink[e]]
    /\ ghosts' = ghosts \cup {act[e].thing : e \in {d \in dying \cap Entity :
                                  act[d].thing # Nothing /\ act[d].stage # "carry"}}
    /\ block' = IF terrain_updates > 0 THEN "Built" ELSE block
    /\ terrain_updates' = 0
    /\ UNCHANGED <<todo, jobvars, taskvars, updates, strayed>>

-----------------------------------------------------------------------------
ActivitySystem ==
    \E e \in Entity :
        \/ StartBuild(e) \/ Interrupt(e) \/ Continue(e) \/ Collect(e)
        \/ \E i \in Item : StartHaul(e, i)

Runtime ==
    \E e \in Entity :
        \/ KeepWalking(e) \/ Fail(e) \/ ArriveAtItem(e) \/ HearPickup(e) \/ PutDown(e)
        \/ ReachBlock(e) \/ WaitToStep(e) \/ BuildStep(e)

QueuedUpdates ==
    \/ ExecutePickup \/ ExecuteStop \/ ExecuteDrop
    \/ ExecuteReserve \/ ExecuteConsume \/ ExecuteDestroy

BuildNext ==
    \/ CancelJob \/ RefreshJob
    \/ \E x \in Mortal : Kill(x)
    \/ ActivitySystem \/ EndActivity
    \/ Runtime \/ EndPoll
    \/ DeliverEvent \/ MoveHauled
    \/ QueuedUpdates \/ EndTick

BuildSpec == BuildInit /\ [][BuildNext]_bwvars

Tick ==
    \/ RefreshJob \/ ActivitySystem \/ EndActivity \/ Runtime \/ EndPoll
    \/ DeliverEvent \/ MoveHauled \/ QueuedUpdates \/ EndTick

Takes(e) ==
    /\ act[e].kind = "idle"
    /\ StartBuild(e) \/ \E i \in Item : StartHaul(e, i)

Arrives(e) == ArriveAtItem(e) \/ PutDown(e) \/ ReachBlock(e)

-----------------------------------------------------------------------------
(* Properties *)

\* The reservations that are still valid are never more than the job needs, over
\* two deliveries in one tick, items that are moved, and interrupted builds
\* (check_materials calls it unreachable!(), build.rs:173); and an item that the
\* society leaves alone because it is reserved for the job counts as such
\* (build.rs:119, "clear out now-invalid reserved materials").  Except an item that
\* strayed: nothing keeps a stranger from a reserved item, and an event that queue.rs:175
\* does not deliver leaves a worker with one that another has put down.
ReservationsAddUp ==
    /\ BuildTypeOK
    /\ phase = "player" /\ listed /\ ~completion => Cardinality(ValidMaterials) <= Needed
    /\ phase = "activity" /\ listed => reserved_for \ strayed \subseteq reserved_materials

\* HaulSystem's assertion "hauled has no transform" (item/haul.rs:73), but for items
\* that strayed.
HauledHasTransform ==
    phase = "deliver" => \A i \in Item \ strayed : hauler[i] # NoOne => loc[i] # "none"

\* Between ticks an item is hauled, and in somebody's hands, only as long as that
\* entity's activity hauls it, and what an activity carries is hauled by its
\* entity, through every interruption, failure and lost race for an item.
HaulsMatchActivities ==
    phase = "player" =>
        /\ \A e \in Entity \cap alive : \A i \in Item :
              hauler[i] = e \/ i \in hands[e] =>
                  act[e].kind = "haul" /\ act[e].thing = i /\ act[e].stage \in {"wait", "carry"}
        /\ \A e \in Entity \cap alive :
              act[e].stage = "carry" /\ act[e].thing \in alive => hauler[act[e].thing] = e

\* The block is placed once, although the block that complete_build looks at is
\* only there in the next tick, and a job may be built again when the result of
\* its build was lost.
PlacedOnce == terrain_updates <= 1 /\ (terrain_updates = 1 => block = "Air")

\* build.rs:383, "all gather requirements are satisfied, do the build": a block
\* costs all the materials it needs.
BuildsArePaid ==
    [][\A e \in Entity :
          terrain_updates' > terrain_updates /\ act'[e] # act[e] =>
              /\ Cardinality(act[e].materials) = Needed
              /\ act[e].materials \subseteq consumed]_bwvars

\* What the job cannot be held responsible for: a worker turns to something else
\* or fails, other than by losing its item to another.
Disturbed(e) ==
    \/ Fail(e) /\ ~Cancelled(e) /\ (act[e].kind = "haul" => loc[act[e].thing] # "none")
    \/ act[e].kind # "idle" /\
          (Interrupt(e) \/ StartBuild(e) \/ \E i \in Item : StartHaul(e, i))

\* The block is built, or the job is cancelled, whatever races for its materials the
\* workers lose to each other and wherever they were disturbed before, unless they
\* are disturbed for ever.
BlockGetsBuilt ==
    <>(block = "Built") \/ <>~listed \/ []<><<\E e \in Worker : Disturbed(e)>>_bwvars

=============================================================================
