------------------------------ MODULE Containers ------------------------------
(***************************************************************************)
(* Chests and what is hauled into and out of them (item/containers.rs,     *)
(* item/inventory/container.rs, subactivity/haul.rs, jobs/haul.rs).        *)
(*                                                                         *)
(* A chest is a block with an entity for its contents: the entity is made  *)
(* when the change of the block is applied, and killed by a queued update  *)
(* once the block is gone, which scatters its contents.  A thing is where  *)
(* its components say: out in the world it has a transform, in a container *)
(* a ContainedInComponent, in somebody's hands both.  All that a hauler    *)
(* does to a thing is a queued update whose outcome is an event it hears   *)
(* in a later tick: each acts on what may have changed since it was asked. *)
(*                                                                         *)
(* One tick is apply, commands, ai, act, deliver, end.  A tick changes a   *)
(* block once, haulers and things do not die, and jobs are not cancelled.  *)
(***************************************************************************)
EXTENDS Queues, Integers, Sequences, FiniteSets, SequencesExt, Functions

CONSTANTS
    Hauler, Thing,           \* who can haul, and what
    Place,                   \* blocks that may become chests
    Size, BoxLimit,          \* volume of a thing, and the volume_limit of a container
    First, Stored,           \* the block that is a chest already, and what is in it
    MaxHaulJobs, MaxEdits,   \* the bounds: jobs submitted, blocks changed
    Nobody

\* Things have a volume (PhysicalComponent), First is a place and Stored fits in it, and
\* haulers, containers and nobody can be told from each other.
ASSUME ContainersAssumption ==
    /\ IsFiniteSet(Thing) /\ Size \in [Thing -> Nat] /\ BoxLimit \in Nat
    /\ First \in Place /\ Stored \subseteq Thing
    /\ SumFunction([i \in Thing |-> IF i \in Stored THEN Size[i] ELSE 0]) <= BoxLimit
    /\ Nobody \notin Hauler /\ \A h \in Hauler \cup {Nobody} : h \notin Nat

VARIABLES
    moment, visits,      \* the part of the tick, and who is still to be visited in it
    voxel,               \* blocks that are chests
    edits, edited,       \* blocks to be changed, and how many were
    associated,          \* AssociatedBlockData: the container of a block
    boxes,               \* Container, of each container ever made, in that order
    standing, falling,   \* containers that live; of them, those to be deleted
    kept_in,             \* ContainedInComponent: a container, or a hauler's inventory
    hauled_by,           \* HauledItemComponent
    lying,               \* things with a TransformComponent
    misled,              \* things that an update took for what they no longer were
    haul_jobs,           \* every HaulJob submitted
    open, done,          \* jobs in the list; those whose task succeeded
    work,                \* each hauler's activity: the job, and how far it is
    queue,               \* QueuedUpdates
    told, mail           \* events: posted; delivered and not yet heard

places == <<voxel, edits, edited, associated>>
store == <<boxes, standing, falling>>
things == <<kept_in, hauled_by, lying, misled>>
tasks == <<haul_jobs, open, done>>
letters == <<told, mail>>
cvars == <<moment, visits, places, store, things, tasks, work, queue, letters>>

Ground == 0     \* HaulSource::PickUp, HaulTarget::Drop; containers are 1, 2, ...

-----------------------------------------------------------------------------
FitsIn(b, i) == boxes[b].volume + Size[i] <= BoxLimit
\* SortedContents may list a thing more than once.
Added(c, i) == [contents |-> [c.contents EXCEPT ![i] = @ + 1], volume |-> c.volume + Size[i]]
Removed(c, i) == [contents |-> [c.contents EXCEPT ![i] = @ - 1], volume |-> c.volume - Size[i]]
Contents(b) == {i \in Thing : boxes[b].contents[i] > 0}
Container(held) ==
    [contents |-> [i \in Thing |-> IF i \in held THEN 1 ELSE 0],
     volume |-> SumFunction([i \in Thing |-> IF i \in held THEN Size[i] ELSE 0])]

HaulJob(i, from, to) == [thing |-> i, source |-> from, target |-> to]
Unemployed == [job |-> 0, at |-> "idle"]
At(k, stage) == [job |-> k, at |-> stage]
Job(h) == haul_jobs[work[h].job]

\* The transform is not given back before the hauler has it in hand.
NeedsTransform(h) == Job(h).source # Ground /\ work[h].at \in {"exit", "pickup"}
HaulUpdate(op, h) ==
    [op |-> op, who |-> h, thing |-> Job(h).thing,
     box |-> IF op = "remove" THEN Job(h).source ELSE Job(h).target,
     needs |-> NeedsTransform(h)]
HaulEvent(what, h, i, ok) == [what |-> what, who |-> h, thing |-> i, ok |-> ok]

\* What a hauler waits for: whoever's removal or entry it is, but its own pickup.
AwaitsEvent(h, e) ==
    \/ work[h].at = "exit" /\ e.what = "exited"
    \/ work[h].at = "pickup" /\ e.what = "hauled" /\ e.who = h
    \/ work[h].at = "enter" /\ e.what = "entered"
\* is_destructive_for
DestructiveFor(h, e) == e.ok /\ (e.what = "hauled" => e.who # h)

ContainersInit ==
    /\ moment = "commands" /\ visits = {}
    /\ voxel = {First} /\ edits = {} /\ edited = 0
    /\ associated = [p \in Place |-> IF p = First THEN 1 ELSE Ground]
    /\ boxes = <<Container(Stored)>> /\ standing = {1} /\ falling = {}
    /\ kept_in = [i \in Thing |-> IF i \in Stored THEN 1 ELSE Nobody]
    /\ hauled_by = [i \in Thing |-> Nobody]
    /\ lying = Thing \ Stored /\ misled = {}
    /\ haul_jobs = <<>> /\ open = {} /\ done = {}
    /\ work = [h \in Hauler |-> Unemployed]
    /\ queue = <<>> /\ told = <<>> /\ mail = [h \in Hauler |-> <<>>]

-----------------------------------------------------------------------------
(* The start of the tick: changed blocks, and then the player's commands. *)

\* on_world_changes: a new chest has its container at once, that of a chest that
\* is gone dies with the updates of this tick.
ApplyChange(p) ==
    /\ moment = "apply" /\ p \in edits
    /\ edits' = edits \ {p}
    /\ \/ /\ p \notin voxel
          /\ voxel' = voxel \cup {p}
          /\ boxes' = Append(boxes, Container({}))
          /\ associated' = [associated EXCEPT ![p] = Len(boxes')]
          /\ standing' = standing \cup {Len(boxes')}
          /\ UNCHANGED queue
       \/ /\ p \in voxel
          /\ voxel' = voxel \ {p}
          /\ queue' = Append(queue, [op |-> "destroy", place |-> p])
          /\ UNCHANGED <<boxes, associated, standing>>
    /\ UNCHANGED <<moment, visits, edited, falling, things, tasks, work, letters>>

EndChanges ==
    /\ moment = "apply" /\ edits = {}
    /\ moment' = "commands"
    /\ UNCHANGED <<visits, places, store, things, tasks, work, queue, letters>>

Edit(p) ==
    /\ moment = "commands" /\ edited < MaxEdits /\ p \notin edits
    /\ edits' = edits \cup {p} /\ edited' = edited + 1
    /\ UNCHANGED <<moment, visits, voxel, associated, store, things, tasks, work, queue, letters>>

\* HaulSource::with_entity: where the thing is when the job is made.
SourcesOf(i) ==
    IF kept_in[i] \in DOMAIN boxes THEN {kept_in[i]} ELSE IF i \in lying THEN {Ground} ELSE {}

Submit(i, to) ==
    /\ moment = "commands" /\ Len(haul_jobs) < MaxHaulJobs
    /\ \E from \in SourcesOf(i) : haul_jobs' = Append(haul_jobs, HaulJob(i, from, to))
    /\ open' = open \cup {Len(haul_jobs')}
    /\ UNCHANGED <<moment, visits, places, store, things, done, work, queue, letters>>

-----------------------------------------------------------------------------
(* The jobs of the society, and who takes them. *)

\* HaulJob::refresh_tasks: unless it is being hauled, a thing must be out in the
\* world to be brought somewhere in it, and fit in the container it is meant for.
Ends(k, arrived) ==
    LET j == haul_jobs[k] IN
    \/ k \in done
    \/ /\ hauled_by[j.thing] = Nobody
       /\ IF j.target = Ground THEN j.thing \notin lying \/ k \in arrived
          ELSE \/ kept_in[j.thing] = j.target
               \/ j.target \notin standing \/ ~FitsIn(j.target, j.thing)

\* The ai runs in some ticks only.
RunAi ==
    /\ moment = "commands"
    /\ \/ /\ \E arrived \in SUBSET {k \in open : haul_jobs[k].target = Ground} :
                open' = {k \in open : ~Ends(k, arrived)}
          /\ done' = {}
          /\ moment' = "ai" /\ visits' = Hauler
       \/ /\ moment' = "act" /\ visits' = {h \in Hauler : work[h] # Unemployed}
          /\ UNCHANGED <<open, done>>
    /\ UNCHANGED <<places, store, things, haul_jobs, work, queue, letters>>

\* Mutant of Abandon: what was taken out of a container gets no transform.
AbandonBare(h) ==
    IF work[h].at \in {"exit", "pickup", "carry"}
    THEN <<HaulUpdate("abort", h), [HaulUpdate("drop", h) EXCEPT !.needs = FALSE]>> ELSE <<>>
\* Drop for HaulSubactivity, unless end_haul has begun.
Abandon(h) ==
    IF work[h].at \in {"exit", "pickup", "carry"}
    THEN <<HaulUpdate("abort", h), HaulUpdate("drop", h)>> ELSE <<>>

\* h leaves what it does, and its subscriptions, for w.
TurnTo(h, w) ==
    /\ work' = [work EXCEPT ![h] = w]
    /\ mail' = [mail EXCEPT ![h] = <<>>]
    /\ queue' = queue \o Abandon(h)

\* One hauler for a job, whose destination must have a position.
Takes(h, k) ==
    /\ k \in open /\ \A g \in Hauler : work[g].job # k
    /\ haul_jobs[k].target \in standing \cup {Ground}

DecideJob(h) ==
    /\ moment = "ai" /\ h \in visits
    /\ visits' = visits \ {h}
    /\ \/ work[h].job \in open \cup {0} /\ UNCHANGED <<work, mail, queue>>
       \/ work[h] # Unemployed /\ TurnTo(h, Unemployed)
       \/ \E k \in open : Takes(h, k) /\ TurnTo(h, At(k, "new"))
    /\ UNCHANGED <<moment, places, store, things, tasks, told>>

AllJobsDecided ==
    /\ moment = "ai" /\ visits = {}
    /\ moment' = "act" /\ visits' = {h \in Hauler : work[h] # Unemployed}
    /\ UNCHANGED <<places, store, things, tasks, work, queue, letters>>

-----------------------------------------------------------------------------
(* GoHaulActivity *)

HaulerActs(h, stages) == moment = "act" /\ h \in visits /\ work[h].at \in stages

ProceedTo(h, stage, ops) ==
    /\ work' = [work EXCEPT ![h].at = stage]
    /\ queue' = queue \o [n \in DOMAIN ops |-> HaulUpdate(ops[n], h)]
Fail(h) == TurnTo(h, Unemployed) /\ UNCHANGED done

Unhandled(h) == \E n \in DOMAIN mail[h] : DestructiveFor(h, mail[h][n])
HeardAll(h) == mail' = [mail EXCEPT ![h] = <<>>]

\* HaulSource::location: what is to be walked to has a transform.
BeginHaul(h) ==
    /\ HaulerActs(h, {"new"})
    /\ visits' = visits \ {h}
    /\ IF IF Job(h).source = Ground THEN Job(h).thing \in lying ELSE Job(h).source \in standing
       THEN ProceedTo(h, "walk", <<>>) /\ UNCHANGED <<mail, done>>
       ELSE Fail(h)
    /\ UNCHANGED <<moment, places, store, things, haul_jobs, open, told>>

\* A thing out in the world may have gone too far; a container is asked for what
\* it was to contain.
WalkToThing(h) ==
    /\ HaulerActs(h, {"walk"})
    /\ visits' = visits \ {h}
    /\ \/ Unhandled(h) /\ Fail(h)
       \/ /\ ~Unhandled(h) /\ HeardAll(h) /\ UNCHANGED done
          /\ \/ UNCHANGED <<work, queue>>
             \/ Job(h).source # Ground /\ ProceedTo(h, "exit", <<"remove">>)
             \/ Job(h).source = Ground /\ Job(h).thing \in lying /\ ProceedTo(h, "pickup", <<"pickup">>)
       \/ ~Unhandled(h) /\ Job(h).source = Ground /\ Fail(h)
    /\ UNCHANGED <<moment, places, store, things, haul_jobs, open, told>>

\* h hears up to the first event that it waits for, or that ends its activity.
Heeds(h, e) == AwaitsEvent(h, e) \/ DestructiveFor(h, e)
HearHaul(h) ==
    LET reachable == Job(h).target \in standing \cup {Ground} IN
    /\ HaulerActs(h, {"exit", "pickup", "enter"})
    /\ \/ /\ \A n \in DOMAIN mail[h] : ~Heeds(h, mail[h][n])
          /\ visits' = visits \ {h} /\ HeardAll(h)
          /\ UNCHANGED <<work, queue, done>>
       \/ \E n \in DOMAIN mail[h] :
             LET e == mail[h][n]
                 well == AwaitsEvent(h, e) /\ e.ok
             IN
             /\ Heeds(h, e) /\ \A m \in 1 .. n - 1 : ~Heeds(h, mail[h][m])
             /\ \/ /\ well /\ mail' = [mail EXCEPT ![h] = SubSeq(@, n + 1, Len(@))]
                   /\ \/ work[h].at = "exit" /\ ProceedTo(h, "pickup", <<"pickup">>)
                      \/ work[h].at = "pickup" /\ reachable /\ ProceedTo(h, "carry", <<>>)
                   /\ UNCHANGED <<visits, done>>
                \/ /\ well /\ work[h].at = "enter"
                   /\ visits' = visits \ {h}
                   /\ TurnTo(h, Unemployed) /\ done' = done \cup ({work[h].job} \cap open)
                \/ /\ ~well \/ (work[h].at = "pickup" /\ ~reachable)
                   /\ visits' = visits \ {h} /\ Fail(h)
    /\ UNCHANGED <<moment, places, store, things, haul_jobs, open, told>>

\* end_haul: put down where it was to be dropped, or into the container.
Carry(h) ==
    /\ HaulerActs(h, {"carry"})
    /\ visits' = visits \ {h}
    /\ \/ Unhandled(h) /\ Fail(h)
       \/ ~Unhandled(h) /\ HeardAll(h) /\ UNCHANGED <<work, queue, done>>
       \/ /\ ~Unhandled(h) /\ Job(h).target # Ground
          /\ HeardAll(h) /\ ProceedTo(h, "enter", <<"stop", "put">>) /\ UNCHANGED done
       \/ /\ ~Unhandled(h) /\ Job(h).target = Ground /\ HeardAll(h)
          /\ queue' = queue \o <<HaulUpdate("stop", h), HaulUpdate("drop", h)>>
          /\ work' = [work EXCEPT ![h] = Unemployed]
          /\ done' = done \cup ({work[h].job} \cap open)
    /\ UNCHANGED <<moment, places, store, things, haul_jobs, open, told>>

\* Whoever has begun hears all that happens to its thing.
Concerns(h, e) == work[h].at \notin {"idle", "new"} /\ Job(h).thing = e.thing

DeliverMail ==
    /\ moment = "act" /\ visits = {}
    /\ moment' = "end"
    /\ mail' = [h \in Hauler |-> mail[h] \o Kept(told, {e \in ToSet(told) : Concerns(h, e)})]
    /\ told' = <<>>
    /\ UNCHANGED <<visits, places, store, things, tasks, work, queue>>

-----------------------------------------------------------------------------
(* Queued updates, in order, and the deaths. *)

NextIs(op) == moment = "end" /\ queue # <<>> /\ Head(queue).op = op
Next1 == queue' = Tail(queue) /\ UNCHANGED <<moment, visits, tasks, work, mail>>
Who == Head(queue).who
What == Head(queue).thing
Where == Head(queue).box
PostEvent(what, ok) == told' = Append(told, HaulEvent(what, Who, What, ok))
\* An update that is wrong about What.
Misled(wrong) == misled' = IF wrong THEN misled \cup {What} ELSE misled

\* destroy_container and kill_entity: the contents are scattered, not taken out.
DestroyContainer ==
    LET p == Head(queue).place
        scattered == Contents(associated[p])
    IN
    /\ NextIs("destroy")
    /\ falling' = falling \cup {associated[p]}
    /\ kept_in' = [i \in Thing |-> IF i \in scattered THEN Nobody ELSE kept_in[i]]
    /\ lying' = lying \cup scattered
    /\ associated' = [associated EXCEPT ![p] = Ground]
    /\ Next1
    /\ UNCHANGED <<voxel, edits, edited, boxes, standing, hauled_by, misled, told>>

ContainerRemoval ==
    LET ok == Where \in standing /\ What \in Contents(Where) IN
    /\ NextIs("remove")
    /\ PostEvent("exited", ok)
    /\ \/ /\ ok
          /\ boxes' = [boxes EXCEPT ![Where] = Removed(@, What)]
          /\ kept_in' = [kept_in EXCEPT ![What] = Nobody]
          /\ Misled(kept_in[What] \notin {Where, Nobody})
       \/ ~ok /\ UNCHANGED <<boxes, kept_in, misled>>
    /\ Next1
    /\ UNCHANGED <<places, standing, falling, hauled_by, lying>>

\* Only a thing that somebody hauls is refused, one in a container is not; the
\* transform that it may lack is added.
HaulPickup ==
    LET free == hauled_by[What] = Nobody /\ \A i \in Thing : hauled_by[i] # Who IN
    /\ NextIs("pickup")
    /\ PostEvent("hauled", free)
    /\ \/ /\ free
          /\ hauled_by' = [hauled_by EXCEPT ![What] = Who]
          /\ kept_in' = [kept_in EXCEPT ![What] = Who]
          /\ lying' = lying \cup {What}
          /\ Misled(kept_in[What] # Nobody)
       \/ ~free /\ UNCHANGED <<hauled_by, kept_in, lying, misled>>
    /\ Next1
    /\ UNCHANGED <<places, store>>

\* end_haul: whoever has it, if it is not hauled by another.
StopHauling ==
    LET mine == hauled_by[What] \in {Who, Nobody} IN
    /\ NextIs("stop") \/ NextIs("abort")
    /\ \/ /\ mine
          /\ hauled_by' = [hauled_by EXCEPT ![What] = Nobody]
          /\ kept_in' = [kept_in EXCEPT ![What] = Nobody]
          /\ Misled(kept_in[What] \notin {Who, Nobody})
       \/ ~mine /\ UNCHANGED <<hauled_by, kept_in, misled>>
    /\ Next1
    /\ UNCHANGED <<places, store, lying, told>>

DropHauled ==
    /\ NextIs("drop")
    /\ lying' = IF kept_in[What] = Nobody /\ Head(queue).needs THEN lying \cup {What} ELSE lying
    /\ Next1
    /\ UNCHANGED <<places, store, kept_in, hauled_by, misled, told>>

\* add_with and add_to_container; a container that is to be deleted is still there.
PutIntoContainer ==
    LET ok == Where \in standing /\ FitsIn(Where, What) IN
    /\ NextIs("put")
    /\ PostEvent("entered", ok)
    /\ \/ /\ ok
          /\ boxes' = [boxes EXCEPT ![Where] = Added(@, What)]
          /\ kept_in' = [kept_in EXCEPT ![What] = Where]
          /\ lying' = lying \ {What}
          /\ Misled(Where \in falling)
       \/ ~ok /\ UNCHANGED <<boxes, kept_in, lying, misled>>
    /\ Next1
    /\ UNCHANGED <<places, standing, falling, hauled_by>>

DeleteQueued ==
    /\ moment = "end" /\ queue = <<>>
    /\ moment' = "apply"
    /\ standing' = standing \ falling /\ falling' = {}
    /\ UNCHANGED <<visits, places, boxes, things, tasks, work, queue, letters>>

-----------------------------------------------------------------------------
PlayerCommands ==
    \/ \E p \in Place : Edit(p)
    \/ \E i \in Thing, to \in standing \cup {Ground} : Submit(i, to)
GoHaul == \E h \in Hauler : BeginHaul(h) \/ WalkToThing(h) \/ HearHaul(h) \/ Carry(h)
Execute ==
    \/ DestroyContainer \/ ContainerRemoval \/ HaulPickup
    \/ StopHauling \/ DropHauled \/ PutIntoContainer

ContainersNext ==
    \/ \E p \in Place : ApplyChange(p)
    \/ EndChanges \/ PlayerCommands
    \/ RunAi \/ \E h \in Hauler : DecideJob(h)
    \/ AllJobsDecided
    \/ GoHaul \/ DeliverMail
    \/ Execute \/ DeleteQueued

ContainersSpec == ContainersInit /\ [][ContainersNext]_cvars

-----------------------------------------------------------------------------
(* Properties *)

InBoxes(i) == {b \in standing \ falling : i \in Contents(b)}

\* Taken out of a container, and not yet in anybody's hands: somebody who took it
\* is about to, or has asked for it to be dropped.
InTransit(i) ==
    /\ i \notin lying /\ kept_in[i] = Nobody /\ hauled_by[i] = Nobody
    /\ \/ \E h \in Hauler : /\ work[h].job # 0 /\ Job(h).thing = i /\ NeedsTransform(h)
       \/ \E n \in DOMAIN queue : queue[n].op = "drop" /\ queue[n].thing = i /\ queue[n].needs

\* A hauler who has it in hand carries it, is about to hear that it does, or has
\* asked to put it down.
InHands(i) ==
    LET h == hauled_by[i] IN
    /\ h \in Hauler /\ kept_in[i] = h /\ i \in lying
    /\ \/ work[h].job # 0 /\ Job(h).thing = i /\ work[h].at \in {"pickup", "carry"}
       \/ \E n \in DOMAIN queue : /\ queue[n].op \in {"stop", "abort"}
                                  /\ queue[n].thing = i /\ queue[n].who = h

\* Every thing that no update was wrong about is in one place: out in the world,
\* in one container that stands, in the hands of one who knows, or on its way
\* between them with somebody who will see to it.  (ContainerComponent::validate
\* and HaulSystem assert parts of this; that nothing is lost on the way is the
\* promise of Drop for HaulSubactivity, "fixing up components on abort".)
\* Containers hold what their volume says and no more than they may, and a block
\* that is a chest has one that stands.
ContainersAreKept ==
    /\ \A i \in Thing \ misled :
          \/ /\ i \in lying /\ kept_in[i] = Nobody /\ hauled_by[i] = Nobody /\ InBoxes(i) = {}
          \/ /\ i \notin lying /\ hauled_by[i] = Nobody /\ InBoxes(i) = {kept_in[i]}
          \/ InBoxes(i) = {} /\ InTransit(i)
          \/ InBoxes(i) = {} /\ InHands(i)
    /\ \A b \in standing :
          /\ boxes[b].volume = SumFunction([i \in Thing |-> Size[i] * boxes[b].contents[i]])
          /\ boxes[b].volume <= BoxLimit
    /\ moment = "apply" =>
          \A p \in Place : IF p \in voxel THEN associated[p] \in standing
                           ELSE associated[p] = Ground \/
                                \E n \in DOMAIN queue : queue[n].place = p
=============================================================================
