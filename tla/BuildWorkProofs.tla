-------------------------- MODULE BuildWorkProofs ---------------------------
(***************************************************************************)
(* That what is hauled agrees with who hauls it, that a block is placed    *)
(* once; in the second part, that the items reserved for it are its        *)
(* materials; and in the third, that it costs all of them.                 *)
(*                                                                         *)
(* An item changes hands only when queued updates run, at the end of a     *)
(* tick; what an activity believes changes when it is replaced or polled,  *)
(* before.  The invariant says how far the two may be apart: whoever hauls *)
(* without meaning to has a "stop hauling" queued (HaulersHaul), which no  *)
(* pickup of the same entity can follow (PickupsAwaited, StopsAreOver);    *)
(* a pickup that succeeded is undone by nobody else, so that it is still   *)
(* true when it is heard (PostedPickups, HeardPickups).                    *)
(***************************************************************************)
EXTENDS BuildWork, QueueLemmas

\* What is queued, posted, and delivered to an entity, whatever the order.
Queue == Elements(updates)
Posted == Elements(events)
Delivered(e) == Elements(sink[e])

ItemOps == {"haul item", "stop hauling item", "drop hauled item", "reserve material"}

\* The updates that activities queue, and the events about items.
Update ==
    {u \in [op : ItemOps \cup {"start wip build", "destroy materials"}, things : SUBSET Item,
            who : Entity, to : Place \cup {"feet", "none"}] :
        /\ u.op \in ItemOps => \E i \in Item : u.things = {i}
        /\ u.op = "drop hauled item" <=> u.to # "none"}

Event == [thing : Item, by : Entity \cup {NoOne}, ok : BOOLEAN]

\* An activity is at a stage of its kind, and hauls an item or nothing.
StagesOK ==
    \A e \in Entity :
        \/ act[e].kind = "idle" /\ act[e].stage = "none"
        \/ act[e].kind = "haul" /\ act[e].thing \in Item
              /\ act[e].stage \in {"new", "walk", "wait", "carry", "done"}
        \/ act[e].kind = "build" /\ act[e].thing = Nothing
              /\ act[e].stage \in {"new", "walk", "step", "done"}

LifeTypes ==
    /\ phase \in {"player", "activity", "poll", "deliver", "end"} /\ todo \subseteq Entity
    /\ alive \subseteq Entity \cup Item /\ dying \subseteq alive
    /\ ghosts \subseteq Item /\ strayed \subseteq Item

ItemTypes ==
    /\ loc \in [Item -> Place \cup {"none"}]
    /\ hauler \in [Item -> Entity \cup {NoOne}]
    /\ hands \in [Entity -> SUBSET Item]
    /\ reserved_for \subseteq Item \cap alive /\ consumed \subseteq Item \cap alive

\* While the job is listed, what is reserved and what remains are no more than is needed.
JobTypes ==
    /\ listed \in BOOLEAN /\ completion \in BOOLEAN
    /\ reserved_materials \subseteq Item
    /\ materials_remaining \in 0 .. Needed /\ progress \in 0 .. Steps
    /\ builder \in Worker \cup {NoOne}
    /\ block \in {"Air", "Built"} /\ terrain_updates \in Nat
    /\ listed => Cardinality(reserved_materials) + materials_remaining <= Needed

ActivityTypes == act \in [Entity -> Activity] /\ StagesOK

\* What is delivered to an entity is about what it hauls.
QueueTypes ==
    /\ updates \in Seq(Update) /\ events \in Seq(Event) /\ sink \in [Entity -> Seq(Event)]
    /\ phase = "player" => updates = <<>>
    /\ \A e \in Entity : \A n \in DOMAIN sink[e] : sink[e][n].thing = act[e].thing

BuildTypes == LifeTypes /\ ItemTypes /\ JobTypes /\ ActivityTypes /\ QueueTypes

\* Whoever builds has reserved the task.
BuildersReserve == \A e \in Entity : act[e].kind = "build" => builder = e

\* The update that places the block is there only until the end of the tick, and
\* nobody who is still to be polled in it is building.
PlacesOnce ==
    \/ terrain_updates = 0
    \/ /\ terrain_updates = 1 /\ block = "Air"
       /\ phase \in {"poll", "deliver", "end"}
       /\ phase = "poll" => \A e \in todo : act[e].kind # "build"

Hauls(e, i, stages) == act[e].kind = "haul" /\ act[e].thing = i /\ act[e].stage \in stages

\* An entity is about to pick an item up, or to put it down; its success is posted, or
\* delivered to it.
PicksUp(e, i) == Pickup(i, e) \in Queue
StopsHauling(e, i) == Stop(i, e) \in Queue
PickupPosted(e, i) == Hauled(i, e, TRUE) \in Posted
PickupHeard(e, i) == Hauled(i, e, TRUE) \in Delivered(e)

\* A queued pickup is that of an activity that waits for it.
PickupsAwaited ==
    \A e \in Entity, i \in Item : PicksUp(e, i) =>
        /\ Hauls(e, i, {"wait"})
        /\ phase \in {"poll", "deliver", "end"} /\ (phase = "poll" => e \notin todo)

\* Whoever has put something down in this tick hauls nothing else before the next one.
StopsAreOver ==
    \A e \in Entity, i \in Item : StopsHauling(e, i) =>
        /\ act[e].stage \in {"none", "new", "walk", "done"}
        /\ phase = "activity" => e \notin todo
        /\ phase = "activity" \/ (phase = "poll" /\ e \in todo) => act[e].stage \in {"none", "new"}

\* An item is in the hands of its hauler only, and a dead one has none.
HandsMatchHaulers ==
    \A i \in Item :
        /\ i \in alive => \A e \in Entity : i \in hands[e] => hauler[i] = e
        /\ i \notin alive => hauler[i] = NoOne

\* An entity hauls what its activity does, unless that is about to be undone.
HaulersHaul ==
    \A e \in Entity \cap alive, i \in Item : hauler[i] = e \/ i \in hands[e] =>
        Hauls(e, i, {"wait", "carry"}) \/ StopsHauling(e, i)

\* What an activity carries is hauled by its entity.
CarriedIsHauled ==
    \A e \in Entity, i \in Item : Hauls(e, i, {"carry"}) /\ i \in alive => hauler[i] = e

\* A pickup that succeeded is still good when it is posted, and when it is heard.
PostedPickups ==
    \A e \in Entity, i \in Item : PickupPosted(e, i) =>
        /\ i \in alive => hauler[i] = e
        /\ ~ Hauls(e, i, {"new", "walk"})
        /\ phase = "end" => ~ StopsHauling(e, i)

HeardPickups ==
    \A e \in Entity, i \in Item : PickupHeard(e, i) =>
        /\ Hauls(e, i, {"wait", "carry"})
        /\ i \in alive => hauler[i] = e

HaulInv ==
    /\ PickupsAwaited
    /\ StopsAreOver
    /\ HandsMatchHaulers
    /\ HaulersHaul
    /\ CarriedIsHauled
    /\ PostedPickups
    /\ HeardPickups

-----------------------------------------------------------------------------
(* Types *)

LEMMA UpdateTypes ==
    ASSUME NEW i \in Item, NEW e \in Entity
    PROVE  /\ Pickup(i, e) \in Update /\ Stop(i, e) \in Update /\ Reserve(i, e) \in Update
           /\ \A to \in Place \cup {"feet"} : Drop(i, e, to) \in Update
BY DEF Update, ItemOps, Pickup, Stop, Reserve, Drop, Queued, Place

LEMMA JobUpdateTypes ==
    ASSUME NEW is \in SUBSET Item, NEW e \in Entity
    PROVE  Consume(is, e) \in Update /\ Destroy(is, e) \in Update
BY DEF Update, ItemOps, Consume, Destroy, Queued

LEMMA UpdateOps ==
    ASSUME NEW i, NEW e, NEW is
    PROVE  /\ Pickup(i, e).op = "haul item" /\ Stop(i, e).op = "stop hauling item"
           /\ \A to : Drop(i, e, to).op = "drop hauled item"
           /\ Reserve(i, e).op = "reserve material"
           /\ Consume(is, e).op = "start wip build" /\ Destroy(is, e).op = "destroy materials"
BY DEF Pickup, Stop, Drop, Reserve, Consume, Destroy, Queued

LEMMA NewActivities ==
    ASSUME NEW i \in Item
    PROVE  Idle \in Activity /\ Hauling(i) \in Activity /\ Building \in Activity
BY DEF Activity, Idle, Hauling, Building

\* A dropped subactivity queues well formed updates.
LEMMA AbandonTypes ==
    ASSUME ActivityTypes, NEW e \in Entity
    PROVE  /\ Abandon(e) \in Seq(Update)
           /\ Hauls(e, act[e].thing, {"wait", "carry"}) =>
                /\ act[e].thing \in Item
                /\ Elements(Abandon(e)) = {Stop(act[e].thing, e), Drop(act[e].thing, e, "feet")}
           /\ ~ Hauls(e, act[e].thing, {"wait", "carry"}) => Abandon(e) = <<>>
<1>1. CASE Hauls(e, act[e].thing, {"wait", "carry"})
  <2> DEFINE stop == Stop(act[e].thing, e)
             drop == Drop(act[e].thing, e, "feet")
  <2>1. act[e].thing \in Item
    BY <1>1 DEF ActivityTypes, StagesOK, Hauls
  <2>2. stop \in Update /\ drop \in Update
    BY <2>1, UpdateTypes
  <2>3. Abandon(e) = <<stop, drop>>
    BY <1>1 DEF Abandon, Hauls
  <2> HIDE DEF stop, drop
  <2>4. <<stop, drop>> \in Seq(Update) /\ Elements(<<stop, drop>>) = {stop, drop}
    BY <2>2 DEF Elements
  <2> QED
    BY <1>1, <2>1, <2>3, <2>4 DEF stop, drop
<1>2. CASE ~ Hauls(e, act[e].thing, {"wait", "carry"})
  BY <1>2 DEF Abandon, Hauls
<1> QED
  BY <1>1, <1>2

LEMMA TypesInit == BuildInit => BuildTypes
<1> SUFFICES ASSUME BuildInit PROVE BuildTypes
  OBVIOUS
<1> USE BuildAssumption DEF BuildInit
<1>1. LifeTypes
  BY DEF LifeTypes
<1>2. ItemTypes
  BY DEF ItemTypes, Place
<1>3. JobTypes
  <2>1. Cardinality(reserved_materials) = 0
    BY FS_EmptySet
  <2>2. /\ materials_remaining \in 0 .. Needed /\ progress \in 0 .. Steps
        /\ Cardinality(reserved_materials) + materials_remaining <= Needed
    BY <2>1
  <2>3. terrain_updates \in Nat /\ block \in {"Air", "Built"} /\ builder \in Worker \cup {NoOne}
    OBVIOUS
  <2>4. listed \in BOOLEAN /\ completion \in BOOLEAN /\ reserved_materials \subseteq Item
    OBVIOUS
  <2> QED
    BY <2>2, <2>3, <2>4 DEF JobTypes
<1>4. ActivityTypes
  BY DEF ActivityTypes, StagesOK, Activity, Idle
<1>5. QueueTypes
  BY DEF QueueTypes
<1> QED
  BY <1>1, <1>2, <1>3, <1>4, <1>5 DEF BuildTypes

\* It includes the type invariant.
LEMMA TypesOK == BuildTypes => BuildTypeOK
BY DEF BuildTypes, BuildTypeOK, LifeTypes, ItemTypes, JobTypes, ActivityTypes, QueueTypes

\* The polls other than a step of a build.
PollsActivity(e) ==
    \/ KeepWalking(e) \/ Fail(e) \/ ArriveAtItem(e) \/ HearPickup(e) \/ PutDown(e)
    \/ ReachBlock(e) \/ WaitToStep(e)

\* The actions, in the groups in which the parts of the state change.
LEMMA Actions ==
    ASSUME BuildNext
    PROVE  \/ CancelJob \/ RefreshJob \/ \E x \in Mortal : Kill(x)
           \/ \E e \in Entity : \/ Interrupt(e) \/ Collect(e) \/ StartBuild(e)
                                \/ Continue(e) \/ \E i \in Item : StartHaul(e, i)
           \/ EndActivity
           \/ \E e \in Entity : PollsActivity(e) \/ BuildStep(e)
           \/ EndPoll \/ DeliverEvent \/ MoveHauled
           \/ ExecutePickup \/ ExecuteStop \/ ExecuteDrop \/ ExecuteReserve
           \/ ExecuteConsume \/ ExecuteDestroy \/ EndTick
BY DEF BuildNext, ActivitySystem, Runtime, QueuedUpdates, PollsActivity

\* The update that is executed next.
LEMMA HeadTypes ==
    ASSUME QueueTypes, NEW op, Execute(op)
    PROVE  /\ Head(updates) \in Update /\ Head(updates) \in Elements(updates)
           /\ Who \in Entity /\ Things \subseteq Item /\ Head(updates).op = op
           /\ op \in ItemOps => TheThing \in Item /\ Things = {TheThing}
           /\ updates' \in Seq(Update)
           /\ Elements(updates) = {Head(updates)} \cup Elements(updates')
<1>1. /\ Head(updates) \in Elements(updates) /\ updates' \in Seq(Update)
      /\ Elements(updates) = {Head(updates)} \cup Elements(updates')
  BY ElementsOfTail DEF QueueTypes, Execute
<1>2. Head(updates) \in Update
  BY <1>1, ElementsType DEF QueueTypes
<1>3. Who \in Entity /\ Things \subseteq Item /\ Head(updates).op = op
  BY <1>2 DEF Who, Things, Update, Execute
<1>4. ASSUME op \in ItemOps PROVE TheThing \in Item /\ Things = {TheThing}
  <2>1. \E i \in Item : Things = {i}
    BY <1>2, <1>3, <1>4 DEF Update, Things
  <2> QED
    BY <2>1 DEF TheThing
<1> QED
  BY <1>1, <1>2, <1>3, <1>4

LEMMA HeadIs ==
    ASSUME QueueTypes, NEW op, Execute(op)
    PROVE  /\ op = "haul item" => Head(updates) = Pickup(TheThing, Who)
           /\ op = "stop hauling item" => Head(updates) = Stop(TheThing, Who)
           /\ op = "reserve material" => Head(updates) = Reserve(TheThing, Who)
<1> DEFINE u == Head(updates)
           i == TheThing
           w == Who
<1>1. u \in Update /\ u.op = op /\ w = u.who /\ Things = u.things /\ (op \in ItemOps => Things = {i})
  BY HeadTypes DEF Who, Things
<1> HIDE DEF u, i, w
<1>2. op # "drop hauled item" => u.to = "none"
  BY <1>1 DEF Update
<1>3. u = [op |-> u.op, things |-> u.things, who |-> u.who, to |-> u.to]
  BY <1>1 DEF Update
<1>4. op \in ItemOps \ {"drop hauled item"} => u = Queued(op, {i}, w)
  BY <1>1, <1>2, <1>3 DEF Queued
<1> QED
  BY <1>4 DEF Pickup, Stop, Reserve, ItemOps, u, i, w

\* What polls do to activities.
KeepsActivity(e) ==
    /\ \A f \in Entity : act'[f].kind = act[f].kind /\ act'[f].thing = act[f].thing
    /\ \A f \in Entity \ {e} : act'[f] = act[f]

LEMMA StageChanged ==
    ASSUME ActivityTypes, NEW e \in Entity, NEW stage, act' = [act EXCEPT ![e].stage = stage]
    PROVE  KeepsActivity(e) /\ act'[e].stage = stage
BY DEF ActivityTypes, Activity, KeepsActivity

LEMMA PollKeeps ==
    ASSUME ActivityTypes, NEW e \in Entity,
           PollsActivity(e)
    PROVE  Polled(e) /\ UNCHANGED terrain_updates /\ KeepsActivity(e)
<1>1. Polled(e) /\ UNCHANGED terrain_updates
  BY DEF PollsActivity, KeepWalking, Fail, ArriveAtItem, HearPickup, PutDown, ReachBlock, WaitToStep, Proceed
<1>2. CASE UNCHANGED act
  BY <1>1, <1>2 DEF KeepsActivity
<1>3. CASE \E stage : act' = [act EXCEPT ![e].stage = stage]
  BY <1>1, <1>3, StageChanged
<1>4. CASE ReachBlock(e)
  <2>1. act' = [act EXCEPT ![e] = [@ EXCEPT !.stage = "step", !.materials = reserved_materials]]
    BY <1>4 DEF ReachBlock
  <2> QED
    BY <1>1, <2>1 DEF ActivityTypes, Activity, KeepsActivity
<1>5. CASE KeepWalking(e) \/ Fail(e) \/ ArriveAtItem(e) \/ HearPickup(e) \/ PutDown(e)
  <2>1. \E stage : act' = [act EXCEPT ![e].stage = stage]
    BY <1>5 DEF KeepWalking, Fail, ArriveAtItem, HearPickup, PutDown, Proceed
  <2> QED
    BY <2>1, <1>3
<1> QED
  BY <1>2, <1>4, <1>5 DEF PollsActivity, WaitToStep

LEMMA BuildKeeps ==
    ASSUME ActivityTypes, NEW e \in Entity, BuildStep(e)
    PROVE  /\ Polled(e) /\ act[e].kind = "build"
           /\ \A f \in Entity : /\ act'[f].thing = act[f].thing /\ (f # e => act'[f] = act[f])
                               /\ act'[f].kind \in {act[f].kind, "idle"}
<1>1. Polled(e) /\ act[e].kind = "build" /\ act[e].thing = Nothing
  BY DEF BuildStep, ActivityTypes, StagesOK
<1>2. CASE UNCHANGED act
  BY <1>1, <1>2
<1>3. CASE act' = [act EXCEPT ![e] = [@ EXCEPT !.stage = "done"]]
  BY <1>1, <1>3 DEF ActivityTypes, Activity
<1>4. CASE act' = [act EXCEPT ![e] = Idle]
  BY <1>1, <1>4 DEF ActivityTypes, Idle
<1> QED
  BY <1>2, <1>3, <1>4 DEF BuildStep, FinishBuild

LEMMA LifeTypesStep ==
    ASSUME BuildTypes, BuildNext
    PROVE  LifeTypes'
<1> USE DEF BuildTypes, LifeTypes
<1>1. CASE CancelJob \/ RefreshJob \/ \E x \in Mortal : Kill(x)
  BY <1>1 DEF CancelJob, RefreshJob, Kill, clock, lifevars, eventvars
<1>2. CASE \E e \in Entity : \/ Interrupt(e) \/ Collect(e) \/ StartBuild(e)
                            \/ Continue(e) \/ \E i \in Item : StartHaul(e, i)
  BY <1>2 DEF Interrupt, Collect, StartBuild, Continue, StartHaul, Visit, lifevars
<1>3. CASE EndActivity
  BY <1>3 DEF EndActivity, lifevars, eventvars
<1>4. CASE \E e \in Entity : PollsActivity(e) \/ BuildStep(e)
  BY <1>4 DEF PollsActivity, KeepWalking, Fail, ArriveAtItem, HearPickup, PutDown, ReachBlock,
              WaitToStep, BuildStep,
              Polled, lifevars
<1>5. CASE EndPoll \/ MoveHauled
  BY <1>5 DEF EndPoll, MoveHauled, clock, lifevars, eventvars, bwvars
<1>9. CASE DeliverEvent
  <2> DEFINE thing == Head(events).thing
  <2>1. /\ strayed' = strayed \/ strayed' = strayed \cup {thing}
        /\ ghosts' = ghosts \ {thing}
        /\ UNCHANGED <<phase, todo, alive, dying>>
    BY <1>9 DEF DeliverEvent, clock, lifevars
  <2>2. events \in Seq(Event) /\ events # <<>>
    BY <1>9 DEF DeliverEvent, QueueTypes
  <2>3. Head(events) \in Event
    BY <2>2
  <2>4. thing \in Item
    BY <2>3 DEF Event
  <2> HIDE DEF thing
  <2> QED
    BY <2>1, <2>4
<1>6. CASE ExecutePickup \/ ExecuteStop \/ ExecuteDrop \/ ExecuteReserve \/ ExecuteConsume
  BY <1>6 DEF ExecutePickup, ExecuteStop, ExecuteDrop, ExecuteReserve, ExecuteConsume, Execute,
              clock, lifevars, eventvars
<1>7. CASE ExecuteDestroy
  BY <1>7 DEF ExecuteDestroy, Execute, clock, eventvars
<1>8. CASE EndTick
  BY <1>8 DEF EndTick, ActivityTypes, Activity
<1> QED
  BY Actions, <1>1, <1>2, <1>3, <1>4, <1>5, <1>6, <1>7, <1>8, <1>9

LEMMA ItemTypesStep ==
    ASSUME BuildTypes, BuildNext
    PROVE  ItemTypes'
<1> USE DEF BuildTypes, ItemTypes
<1>1. CASE UNCHANGED <<itemvars, alive>>
  BY <1>1 DEF itemvars
<1>2. CASE CancelJob \/ RefreshJob \/ \E x \in Mortal : Kill(x)
  BY <1>2, <1>1 DEF CancelJob, RefreshJob, Kill, lifevars
<1>3. CASE \E e \in Entity : \/ Interrupt(e) \/ Collect(e) \/ StartBuild(e)
                            \/ Continue(e) \/ \E i \in Item : StartHaul(e, i)
  BY <1>3, <1>1 DEF Interrupt, Collect, StartBuild, Continue, StartHaul, Visit, lifevars
<1>4. CASE EndActivity \/ EndPoll \/ DeliverEvent \/ ExecuteDestroy
  BY <1>4, <1>1 DEF EndActivity, EndPoll, DeliverEvent, ExecuteDestroy, Execute, lifevars
<1>5. CASE \E e \in Entity : PollsActivity(e) \/ BuildStep(e)
  BY <1>5, <1>1 DEF PollsActivity, KeepWalking, Fail, ArriveAtItem, HearPickup, PutDown, ReachBlock,
                    WaitToStep, BuildStep, Polled, lifevars
<1>6. CASE MoveHauled
  BY <1>6, <1>1 DEF MoveHauled, lifevars, bwvars
<1>7. CASE ExecutePickup
  <2>1. TheThing \in Item /\ Who \in Entity
    BY <1>7, HeadTypes DEF ExecutePickup, ItemOps
  <2>2. hauler' \in [Item -> Entity \cup {NoOne}]
    BY <1>7, <2>1 DEF ExecutePickup
  <2>3. hands' \in [Entity -> SUBSET Item]
    <3>1. CASE UNCHANGED hands
      BY <3>1
    <3>2. CASE hands' = [hands EXCEPT ![Who] = {TheThing}]
      BY <2>1, <3>2
    <3> QED
      BY <1>7, <3>1, <3>2 DEF ExecutePickup
  <2>4. loc' \in [Item -> Place \cup {"none"}]
    BY <1>7, <2>1 DEF ExecutePickup, Place
  <2> QED
    BY <1>7, <2>2, <2>3, <2>4 DEF ExecutePickup, Execute
<1>8. CASE ExecuteStop
  <2>1. TheThing \in Item /\ Who \in Entity
    BY <1>8, HeadTypes DEF ExecuteStop, ItemOps
  <2>2. hauler' \in [Item -> Entity \cup {NoOne}]
    BY <1>8, <2>1 DEF ExecuteStop
  <2>3. hands' \in [Entity -> SUBSET Item]
    <3>1. CASE UNCHANGED hands
      BY <3>1
    <3>2. CASE hands' = [hands EXCEPT ![Who] = @ \ {TheThing}]
      <4>1. hands[Who] \ {TheThing} \in SUBSET Item
        BY <2>1
      <4> QED
        BY <2>1, <3>2, <4>1
    <3> QED
      BY <1>8, <3>1, <3>2 DEF ExecuteStop
  <2> QED
    BY <1>8, <2>2, <2>3 DEF ExecuteStop, Execute
<1>9. CASE ExecuteDrop
  <2>1. TheThing \in Item /\ Head(updates) \in Update /\ Head(updates).op = "drop hauled item"
    BY <1>9, HeadTypes DEF ExecuteDrop, ItemOps
  <2>2. Head(updates).to \in Place \cup {"feet"}
    BY <2>1 DEF Update
  <2> QED
    BY <1>9, <2>1, <2>2 DEF ExecuteDrop, Execute, Place
<1>10. CASE ExecuteReserve \/ ExecuteConsume
  <2>1. Things \subseteq Item
    BY <1>10, HeadTypes DEF ExecuteReserve, ExecuteConsume
  <2> QED
    BY <1>10, <2>1 DEF ExecuteReserve, ExecuteConsume, Execute
<1>11. CASE EndTick
  BY <1>11 DEF EndTick
<1> QED
  BY Actions, <1>2, <1>3, <1>4, <1>5, <1>6, <1>7, <1>8, <1>9, <1>10, <1>11

LEMMA ListedEnds ==
    ASSUME RefreshJob, listed \in BOOLEAN
    PROVE  listed' \in BOOLEAN /\ (listed' => listed)
<1>1. CASE listed' = FALSE
  BY <1>1
<1>2. CASE listed' = listed
  BY <1>2
<1> QED
  BY <1>1, <1>2 DEF RefreshJob, jobvars

LEMMA JobTypesStep ==
    ASSUME BuildTypes, BuildNext
    PROVE  JobTypes'
<1> USE BuildAssumption DEF BuildTypes, JobTypes
<1>1. CASE UNCHANGED <<jobvars, taskvars, worldvars>>
  BY <1>1 DEF jobvars, taskvars, worldvars
<1>2. CASE CancelJob \/ \E x \in Mortal : Kill(x)
  BY <1>2, <1>1 DEF CancelJob, Kill, jobvars, taskvars, worldvars
<1>3. CASE RefreshJob
  <2>1. UNCHANGED <<taskvars, worldvars, progress>>
    BY <1>3 DEF RefreshJob, jobvars
  <2>2. CASE UNCHANGED <<reserved_materials, materials_remaining>>
    <3>1. listed' \in BOOLEAN /\ (listed' => listed)
      BY <1>3, ListedEnds
    <3> QED
      BY <2>1, <2>2, <3>1 DEF taskvars, worldvars
  <2>3. CASE /\ reserved_materials' = ValidMaterials /\ UNCHANGED listed /\ listed
             /\ materials_remaining' = Needed - Cardinality(ValidMaterials)
    <3>1. IsFiniteSet(reserved_materials)
      BY FS_Subset
    <3>2. ValidMaterials \in SUBSET reserved_materials
      BY DEF ValidMaterials
    <3>3. /\ Cardinality(ValidMaterials) \in Nat
          /\ Cardinality(ValidMaterials) <= Cardinality(reserved_materials)
          /\ Cardinality(reserved_materials) \in Nat
      BY <3>1, <3>2, FS_Subset, FS_CardinalityType
    <3>4. /\ materials_remaining' \in 0 .. Needed
          /\ Cardinality(reserved_materials') + materials_remaining' <= Needed
      BY <2>3, <3>3
    <3> QED
      BY <2>1, <2>3, <3>2, <3>4 DEF taskvars, worldvars
  <2> QED
    BY <1>3, <2>2, <2>3 DEF RefreshJob, jobvars
<1>4. CASE \E e \in Entity : \/ Interrupt(e) \/ Collect(e) \/ StartBuild(e)
                            \/ Continue(e) \/ \E i \in Item : StartHaul(e, i)
  <2>1. UNCHANGED <<jobvars, worldvars>>
    BY <1>4 DEF Interrupt, Collect, StartBuild, Continue, StartHaul, Visit
  <2>2. completion' \in BOOLEAN /\ builder' \in Worker \cup {NoOne}
    BY <1>4 DEF Interrupt, Collect, StartBuild, Continue, StartHaul, Begin, taskvars, Building, Hauling,
                Idle
  <2> QED
    BY <2>1, <2>2 DEF jobvars, worldvars
<1>5. CASE EndActivity \/ EndPoll \/ DeliverEvent \/ ExecuteDestroy \/ ExecutePickup \/ ExecuteStop
           \/ ExecuteDrop \/ ExecuteConsume
  BY <1>5, <1>1 DEF EndActivity, EndPoll, DeliverEvent, Execute, ExecuteDestroy, ExecutePickup,
                    ExecuteStop, ExecuteDrop, ExecuteConsume, jobvars, taskvars, worldvars
<1>6. CASE \E e \in Entity : PollsActivity(e)
  BY <1>6, <1>1 DEF PollsActivity, KeepWalking, Fail, ArriveAtItem, HearPickup, PutDown, ReachBlock, WaitToStep,
                    Proceed, Polled, jobvars, taskvars, worldvars
<1>7. CASE \E e \in Entity : BuildStep(e)
  <2>1. UNCHANGED <<taskvars, listed, reserved_materials, materials_remaining, block>>
    BY <1>7 DEF BuildStep, Polled
  <2>2. progress' \in 0 .. Steps /\ terrain_updates' \in Nat
    BY <1>7 DEF BuildStep
  <2> QED
    BY <2>1, <2>2 DEF taskvars
<1>8. CASE MoveHauled
  BY <1>8, <1>1 DEF MoveHauled, bwvars, jobvars, taskvars, worldvars
<1>9. CASE ExecuteReserve
  <2>1. UNCHANGED <<taskvars, worldvars, listed, progress>>
    BY <1>9 DEF ExecuteReserve, Execute
  <2>2. CASE UNCHANGED <<reserved_materials, materials_remaining>>
    BY <2>1, <2>2 DEF taskvars, worldvars
  <2>3. CASE ~ UNCHANGED <<reserved_materials, materials_remaining>>
    <3>1. /\ reserved_materials' = reserved_materials \cup {TheThing} /\ TheThing \in Item
          /\ materials_remaining' = materials_remaining - 1 /\ materials_remaining > 0
      BY <1>9, <2>3, HeadTypes DEF ExecuteReserve, ItemOps
    <3>2. /\ Cardinality(reserved_materials) \in Nat
          /\ Cardinality(reserved_materials') \in Nat
          /\ Cardinality(reserved_materials') <= Cardinality(reserved_materials) + 1
      BY <3>1, FS_Subset, FS_CardinalityType, FS_AddElement
    <3>3. materials_remaining' \in 0 .. Needed
      BY <3>1
    <3>4. listed => Cardinality(reserved_materials') + materials_remaining' <= Needed
      BY <3>1, <3>2
    <3> QED
      BY <2>1, <3>1, <3>3, <3>4 DEF taskvars, worldvars
  <2> QED
    BY <2>2, <2>3
<1>10. CASE EndTick
  BY <1>10 DEF EndTick, jobvars, taskvars
<1> QED
  BY Actions, <1>2, <1>3, <1>4, <1>5, <1>6, <1>7, <1>8, <1>9, <1>10

LEMMA ActivityTypesStep ==
    ASSUME BuildTypes, BuildNext
    PROVE  ActivityTypes'
<1> USE BuildAssumption DEF BuildTypes, ActivityTypes
<1>1. CASE UNCHANGED act
  BY <1>1 DEF StagesOK
<1>2. ASSUME NEW e \in Entity, NEW a \in Activity, act' = [act EXCEPT ![e] = a],
             \/ a.kind = "idle" /\ a.stage = "none"
             \/ a.kind = "haul" /\ a.thing \in Item
                   /\ a.stage \in {"new", "walk", "wait", "carry", "done"}
             \/ a.kind = "build" /\ a.thing = Nothing
                   /\ a.stage \in {"new", "walk", "step", "done"}
      PROVE  ActivityTypes'
  BY <1>2 DEF StagesOK
<1>3. ASSUME NEW e \in Entity,
             \/ Interrupt(e) \/ Collect(e) \/ StartBuild(e) \/ \E i \in Item : StartHaul(e, i)
      PROVE  ActivityTypes'
  <2>1. CASE Interrupt(e)
    BY <2>1, <1>2 DEF Interrupt, Begin, Idle, Activity
  <2>2. CASE Collect(e)
    BY <2>2, <1>2 DEF Collect, Idle, Activity
  <2>3. CASE StartBuild(e)
    BY <2>3, <1>2 DEF StartBuild, Begin, Building, Idle, Activity
  <2>4. ASSUME NEW i \in Item, StartHaul(e, i) PROVE ActivityTypes'
    BY <2>4, <1>2 DEF StartHaul, Begin, Hauling, Idle, Activity
  <2> QED
    BY <1>3, <2>1, <2>2, <2>3, <2>4
<1>4. ASSUME NEW e \in Entity, NEW stage, act' = [act EXCEPT ![e].stage = stage],
             \/ stage \in {"walk", "done"} /\ act[e].kind # "idle"
             \/ stage \in {"wait", "carry"} /\ act[e].kind = "haul"
             \/ stage = "step" /\ act[e].kind = "build"
      PROVE  ActivityTypes'
  BY <1>4 DEF StagesOK, Activity
<1>5. ASSUME NEW e \in Entity,
             \/ KeepWalking(e) \/ Fail(e) \/ ArriveAtItem(e) \/ HearPickup(e) \/ PutDown(e)
      PROVE  ActivityTypes'
  <2>1. act[e].kind # "idle" /\ (act[e].stage \in {"wait", "carry"} => act[e].kind = "haul")
    BY <1>5 DEF StagesOK, KeepWalking, Fail, ArriveAtItem, HearPickup, PutDown
  <2>2. \E stage \in {"walk", "wait", "carry", "done"} :
            /\ act' = [act EXCEPT ![e].stage = stage]
            /\ stage \in {"wait", "carry"} => act[e].kind = "haul"
    <3>1. CASE KeepWalking(e)
      BY <2>1, <3>1 DEF KeepWalking, Proceed
    <3>2. CASE Fail(e) \/ PutDown(e)
      BY <3>2 DEF Fail, PutDown, Proceed
    <3>3. CASE ArriveAtItem(e)
      BY <3>3 DEF ArriveAtItem, Proceed
    <3>4. CASE HearPickup(e)
      BY <2>1, <3>4 DEF HearPickup, Proceed
    <3> QED
      BY <1>5, <3>1, <3>2, <3>3, <3>4
  <2> QED
    BY <1>4, <2>1, <2>2
<1>6. ASSUME NEW e \in Entity, ReachBlock(e) PROVE ActivityTypes'
  <2>1. /\ act' = [act EXCEPT ![e] = [@ EXCEPT !.stage = "step", !.materials = reserved_materials]]
        /\ act[e].kind = "build" /\ act[e].thing = Nothing
    BY <1>6 DEF ReachBlock, StagesOK
  <2>2. reserved_materials \in SUBSET Item
    BY DEF JobTypes
  <2> DEFINE a == [act[e] EXCEPT !.stage = "step", !.materials = reserved_materials]
  <2>3. a \in Activity /\ a.kind = "build" /\ a.thing = Nothing /\ a.stage = "step"
    BY <2>1, <2>2 DEF Activity
  <2>4. act' = [act EXCEPT ![e] = a]
    BY <2>1
  <2> HIDE DEF a
  <2> QED
    BY <2>3, <2>4, <1>2
<1>7. ASSUME NEW e \in Entity, BuildStep(e) PROVE ActivityTypes'
  <2>1. act[e].kind = "build"
    BY <1>7 DEF BuildStep, StagesOK
  <2>2. CASE FinishBuild(e) /\ e \in alive
    BY <2>1, <2>2, <1>4 DEF FinishBuild
  <2>3. CASE FinishBuild(e) /\ e \notin alive
    BY <2>3, <1>2 DEF FinishBuild, Idle, Activity
  <2> QED
    BY <1>1, <1>7, <2>2, <2>3 DEF BuildStep
<1>8. CASE EndTick
  BY <1>8 DEF EndTick, Idle, Activity, StagesOK
<1>9. CASE \/ CancelJob \/ RefreshJob \/ (\E x \in Mortal : Kill(x)) \/ EndActivity \/ EndPoll
           \/ (\E e \in Entity : Continue(e) \/ WaitToStep(e)) \/ DeliverEvent \/ MoveHauled
  BY <1>9, <1>1 DEF CancelJob, RefreshJob, Kill, Continue, EndActivity, WaitToStep, EndPoll,
                    DeliverEvent, MoveHauled, bwvars
<1>10. CASE \/ ExecutePickup \/ ExecuteStop \/ ExecuteDrop \/ ExecuteReserve
            \/ ExecuteConsume \/ ExecuteDestroy
  BY <1>10, <1>1 DEF ExecutePickup, ExecuteStop, ExecuteDrop, ExecuteReserve, ExecuteConsume,
                     ExecuteDestroy, Execute
<1> QED
  BY Actions, <1>3, <1>5, <1>6, <1>7, <1>8, <1>9, <1>10 DEF PollsActivity

\* What is queued in the activity and poll phases.
LEMMA AddedUpdates ==
    ASSUME BuildTypes, NEW q \in Seq(Update), updates' = updates \o q
    PROVE  updates' \in Seq(Update) /\ Elements(updates') = Elements(updates) \cup Elements(q)
BY ElementsOfConcat DEF BuildTypes, QueueTypes

LEMMA NoUpdates == <<>> \in Seq(Update) /\ Elements(<<>>) = {}
BY DEF Elements

\* The deaths of the tick are posted last.
LEMMA EndTickEvents ==
    ASSUME BuildTypes, EndTick
    PROVE  /\ events' \in Seq(Event)
           /\ Elements(events) \subseteq Elements(events')
           /\ Elements(events') \subseteq Elements(events) \cup {Died(i) : i \in dying \cap Item}
<1> USE BuildAssumption DEF BuildTypes, QueueTypes
<1> DEFINE dead == {Died(i) : i \in dying \cap Item}
<1>1. dead \subseteq Event
  <2>1. \A i \in Item : Died(i) \in Event
    BY DEF Died, Event
  <2> QED
    BY <2>1
<1>2. IsFiniteSet(dead)
  <2>1. IsFiniteSet(dying \cap Item)
    BY FS_Subset
  <2> DEFINE f == [i \in dying \cap Item |-> Died(i)]
  <2>2. f \in Surjection(dying \cap Item, dead)
    BY DEF Surjection
  <2> QED
    BY <2>1, <2>2, FS_Surjection
<1>3. SetToSeq(dead) \in Seq(dead)
  BY <1>2, ElementsOfSetToSeq
<1>4. SetToSeq(dead) \in Seq(Event)
  BY <1>1, <1>3, SeqMonotonic
<1> DEFINE deaths == SetToSeq(dead)
<1> HIDE DEF dead, deaths
<1>5. /\ events \o deaths \in Seq(Event)
      /\ Elements(events \o deaths) = Elements(events) \cup Elements(deaths)
  <2>1. deaths \in Seq(Event) /\ events \in Seq(Event)
    BY <1>4 DEF deaths
  <2> QED
    BY <2>1, ElementsOfConcat
<1>6. Elements(deaths) \subseteq dead
  BY <1>2, ElementsOfSetToSeq DEF deaths
<1> QED
  BY <1>5, <1>6 DEF EndTick, dead, deaths

LEMMA QueueTypesStep ==
    ASSUME BuildTypes, BuildNext
    PROVE  QueueTypes'
<1> USE BuildAssumption DEF BuildTypes, QueueTypes
<1>1. CASE UNCHANGED <<updates, events, sink, act>> /\ phase' # "player"
  BY <1>1
<1>2. CASE CancelJob \/ \E x \in Mortal : Kill(x)
  BY <1>2 DEF CancelJob, Kill, eventvars, clock
<1>3. CASE RefreshJob \/ EndActivity \/ EndPoll
  BY <1>3, <1>1 DEF RefreshJob, EndActivity, EndPoll, eventvars
<1>4. CASE MoveHauled
  BY <1>4, <1>1 DEF MoveHauled, bwvars, clock, eventvars
<1>5. CASE \E e \in Entity : Continue(e) \/ WaitToStep(e)
  BY <1>5, <1>1 DEF Continue, Visit, WaitToStep, Polled
\* An activity that is replaced or ends hears nothing more.
<1>6. ASSUME NEW e \in Entity, updates' \in Seq(Update), UNCHANGED events, phase' # "player",
             sink' = [sink EXCEPT ![e] = <<>>], \A f \in Entity \ {e} : act'[f] = act[f]
      PROVE  QueueTypes'
  <2>1. sink' \in [Entity -> Seq(Event)]
    BY <1>6
  <2>2. \A f \in Entity : \A n \in DOMAIN sink'[f] : sink'[f][n].thing = act'[f].thing
    <3>1. sink'[e] = <<>>
      BY <1>6
    <3>2. DOMAIN sink'[e] = {}
      BY <3>1
    <3>3. \A f \in Entity \ {e} : sink'[f] = sink[f] /\ act'[f] = act[f]
      BY <1>6
    <3> QED
      BY <3>2, <3>3
  <2> QED
    BY <1>6, <2>1, <2>2
<1>7. ASSUME NEW e \in Entity, NEW a, Begin(e, a), UNCHANGED <<events, phase>>, phase = "activity"
      PROVE  QueueTypes'
  <2>1. updates' \in Seq(Update)
    BY <1>7, AbandonTypes, AddedUpdates DEF Begin
  <2> QED
    BY <1>7, <2>1, <1>6 DEF Begin, ActivityTypes
<1>8. CASE \E e \in Entity : Interrupt(e) \/ StartBuild(e) \/ \E i \in Item : StartHaul(e, i)
  BY <1>8, <1>7 DEF Interrupt, StartBuild, StartHaul, Visit
<1>9. ASSUME NEW e \in Entity, Collect(e) PROVE QueueTypes'
  BY <1>9, <1>6 DEF Collect, Visit, ActivityTypes
<1>10. ASSUME NEW e \in Entity, NEW stage, NEW q \in Seq(Update), Proceed(e, stage, q), Polled(e)
       PROVE  QueueTypes'
  <2>1. updates' \in Seq(Update)
    BY <1>10, AddedUpdates DEF Proceed
  <2> QED
    BY <1>10, <2>1, <1>6 DEF Proceed, Polled, ActivityTypes
<1>11. ASSUME NEW e \in Entity, KeepWalking(e) \/ Fail(e) PROVE QueueTypes'
  BY <1>11, <1>10, AbandonTypes, NoUpdates DEF KeepWalking, Fail
<1>12. ASSUME NEW e \in Entity, ArriveAtItem(e) \/ PutDown(e) PROVE QueueTypes'
  <2> DEFINE i == act[e].thing
  <2>1. i \in Item /\ i = act[e].thing
    BY <1>12 DEF ArriveAtItem, PutDown, ActivityTypes, StagesOK
  <2> HIDE DEF i
  <2>2. Pickup(i, e) \in Update /\ Stop(i, e) \in Update /\ Reserve(i, e) \in Update
        /\ Drop(i, e, "site") \in Update /\ Drop(i, e, "away") \in Update
    BY <2>1, UpdateTypes DEF Place
  <2>3. CASE ArriveAtItem(e)
    <3>1. <<Pickup(i, e)>> \in Seq(Update) /\ Proceed(e, "wait", <<Pickup(i, e)>>) /\ Polled(e)
      BY <2>1, <2>2, <2>3 DEF ArriveAtItem
    <3> QED
      BY <3>1, <1>10
  <2>4. CASE PutDown(e)
    <3> DEFINE reserved == <<Stop(i, e), Drop(i, e, "site"), Reserve(i, e)>>
               moved == <<Stop(i, e), Drop(i, e, "away")>>
    <3>1. reserved \in Seq(Update) /\ moved \in Seq(Update)
      BY <2>2
    <3>2. Polled(e) /\ Proceed(e, "done", IF e \in Worker THEN reserved ELSE moved)
      BY <2>1, <2>4 DEF PutDown
    <3> HIDE DEF reserved, moved
    <3>3. (IF e \in Worker THEN reserved ELSE moved) \in Seq(Update)
      BY <3>1
    <3> QED
      BY <3>2, <3>3, <1>10
  <2> QED
    BY <1>12, <2>3, <2>4
<1>13. ASSUME NEW e \in Entity, HearPickup(e) PROVE QueueTypes'
  <2>1. CASE \E stage : \E q \in Seq(Update) : Proceed(e, stage, q)
    BY <1>13, <2>1, <1>10 DEF HearPickup
  <2>2. ASSUME NEW n \in Answers(e), act' = [act EXCEPT ![e].stage = "carry"], UNCHANGED updates,
               sink' = [sink EXCEPT ![e] = SubSeq(@, n + 1, Len(@))]
        PROVE  QueueTypes'
    <3> DEFINE rest == SubSeq(sink[e], n + 1, Len(sink[e]))
    <3>1. sink[e] \in Seq(Event) /\ n \in 1 .. Len(sink[e])
      BY DEF Answers
    <3>2. rest \in Seq(Event) /\ Elements(rest) \subseteq Elements(sink[e])
      BY <3>1, ElementsOfRest
    <3>3. \A x \in Elements(sink[e]) : x.thing = act[e].thing
      BY DEF Elements
    <3>4. \A m \in DOMAIN rest : rest[m] \in Elements(rest)
      BY DEF Elements
    <3>5. \A m \in DOMAIN rest : rest[m].thing = act[e].thing
      BY <3>2, <3>3, <3>4
    <3> HIDE DEF rest
    <3>6. sink' = [sink EXCEPT ![e] = rest]
      BY <2>2 DEF rest
    <3>7. \A f \in Entity : act'[f].thing = act[f].thing
      BY <2>2 DEF ActivityTypes, Activity
    <3>8. UNCHANGED <<phase, events>> /\ phase # "player"
      BY <1>13 DEF HearPickup, Polled
    <3>9. \A f \in Entity : sink'[f] = IF f = e THEN rest ELSE sink[f]
      BY <3>6
    <3>10. \A f \in Entity : \A m \in DOMAIN sink'[f] : sink'[f][m].thing = act'[f].thing
      BY <3>5, <3>7, <3>9
    <3>11. sink' \in [Entity -> Seq(Event)]
      BY <3>2, <3>6
    <3> QED
      BY <2>2, <3>8, <3>10, <3>11
  <2>3. <<>> \in Seq(Update) /\ Abandon(e) \in Seq(Update)
    BY NoUpdates, AbandonTypes
  <2> QED
    BY <1>13, <2>1, <2>2, <2>3 DEF HearPickup
<1>14. ASSUME NEW e \in Entity, ReachBlock(e) PROVE QueueTypes'
  <2>1. Consume(reserved_materials, e) \in Update
    BY DEF JobTypes, Consume, Update, Queued, ItemOps
  <2>2. updates' \in Seq(Update)
    BY <1>14, <2>1, ElementsOfAppend DEF ReachBlock
  <2>3. \A f \in Entity : act'[f].thing = act[f].thing
    BY <1>14 DEF ReachBlock, ActivityTypes, Activity
  <2> QED
    BY <1>14, <2>2, <2>3 DEF ReachBlock, Polled
<1>15. ASSUME NEW e \in Entity, BuildStep(e) PROVE QueueTypes'
  <2>1. Destroy(act[e].materials, e) \in Update
    <3>1. act[e].materials \in SUBSET Item
      BY DEF ActivityTypes, Activity
    <3> QED
      BY <3>1, UpdateTypes DEF Destroy, Update, Queued, ItemOps
  <2>2. updates' \in Seq(Update)
    <3>1. CASE UNCHANGED updates
      BY <3>1
    <3>2. CASE updates' = Append(updates, Destroy(act[e].materials, e))
      BY <2>1, <3>2, ElementsOfAppend
    <3> QED
      BY <1>15, <3>1, <3>2 DEF BuildStep
  <2>3. act[e].thing = Nothing
    BY <1>15 DEF BuildStep, ActivityTypes, StagesOK
  <2>4. \A f \in Entity : act'[f].thing = act[f].thing
    <3>1. CASE UNCHANGED act
      BY <3>1
    <3>2. CASE act' = [act EXCEPT ![e] = [@ EXCEPT !.stage = "done"]]
      BY <3>2 DEF ActivityTypes, Activity
    <3>3. CASE act' = [act EXCEPT ![e] = Idle]
      BY <2>3, <3>3 DEF ActivityTypes, Idle
    <3> QED
      BY <1>15, <3>1, <3>2, <3>3 DEF BuildStep, FinishBuild
  <2> QED
    BY <1>15, <2>2, <2>4 DEF BuildStep, Polled
<1>16. CASE DeliverEvent
  <2> DEFINE event == Head(events)
  <2>1. event \in Event /\ events' \in Seq(Event)
    BY <1>16, ElementsOfTail, ElementsType DEF DeliverEvent
  <2>2. PICK told \in SUBSET {e \in alive \cap Entity : Hears(e, event)} :
            sink' = [e \in Entity |-> IF e \in told THEN Append(sink[e], event) ELSE sink[e]]
    BY <1>16 DEF DeliverEvent
  <2>3. UNCHANGED <<act, updates, phase>>
    BY <1>16 DEF DeliverEvent, clock
  <2> HIDE DEF event
  <2>4. \A e \in Entity : sink'[e] \in Seq(Event)
    BY <2>1, <2>2
  <2>5. sink' \in [Entity -> Seq(Event)]
    BY <2>2, <2>4
  <2>6. \A e \in told : event.thing = act[e].thing
    BY <2>2 DEF Hears
  <2>7. ASSUME NEW e \in told PROVE \A n \in DOMAIN sink'[e] : sink'[e][n].thing = act[e].thing
    <3>1. sink'[e] = Append(sink[e], event) /\ sink[e] \in Seq(Event)
      BY <2>2
    <3>2. \A n \in DOMAIN sink'[e] : sink'[e][n] \in Elements(sink'[e])
      BY DEF Elements
    <3>3. Elements(sink'[e]) = Elements(sink[e]) \cup {event}
      BY <2>1, <3>1, ElementsOfAppend
    <3>4. \A x \in Elements(sink[e]) : x.thing = act[e].thing
      BY <3>1 DEF Elements
    <3> QED
      BY <2>6, <3>2, <3>3, <3>4
  <2>8. \A e \in Entity : \A n \in DOMAIN sink'[e] : sink'[e][n].thing = act'[e].thing
    BY <2>2, <2>3, <2>7
  <2> QED
    BY <2>1, <2>3, <2>5, <2>8
<1>17. CASE ExecutePickup
  <2>1. TheThing \in Item /\ Who \in Entity /\ updates' \in Seq(Update)
    BY <1>17, HeadTypes DEF ExecutePickup, ItemOps
  <2>2. \A ok \in BOOLEAN : Hauled(TheThing, Who, ok) \in Event
    BY <2>1 DEF Hauled, Event
  <2>3. events' \in Seq(Event)
    BY <1>17, <2>2, ElementsOfAppend DEF ExecutePickup
  <2> QED
    BY <1>17, <2>1, <2>3 DEF ExecutePickup, Execute, clock
<1>18. CASE ExecuteStop \/ ExecuteDrop \/ ExecuteReserve \/ ExecuteConsume \/ ExecuteDestroy
  <2>1. updates' \in Seq(Update)
    BY <1>18, HeadTypes DEF ExecuteStop, ExecuteDrop, ExecuteReserve, ExecuteConsume, ExecuteDestroy
  <2>2. CASE ExecuteStop \/ ExecuteDrop
    BY <2>1, <2>2 DEF ExecuteStop, ExecuteDrop, Execute, clock
  <2>3. CASE ExecuteReserve
    BY <2>1, <2>3 DEF ExecuteReserve, Execute, clock
  <2>4. CASE ExecuteConsume \/ ExecuteDestroy
    BY <2>1, <2>4 DEF ExecuteConsume, ExecuteDestroy, Execute, clock
  <2> QED
    BY <1>18, <2>2, <2>3, <2>4
<1>19. CASE EndTick
  <2>5. events' \in Seq(Event)
    BY <1>19, EndTickEvents DEF BuildTypes, QueueTypes
  <2>6. sink' \in [Entity -> Seq(Event)]
    BY <1>19 DEF EndTick
  <2>7. \A e \in Entity : \A n \in DOMAIN sink'[e] : sink'[e][n].thing = act'[e].thing
    BY <1>19 DEF EndTick
  <2> QED
    BY <1>19, <2>5, <2>6, <2>7 DEF EndTick
<1> QED
  BY Actions, <1>2, <1>3, <1>4, <1>5, <1>8, <1>9, <1>11, <1>12, <1>13, <1>14, <1>15, <1>16, <1>17,
     <1>18, <1>19 DEF PollsActivity

LEMMA TypesStep == BuildTypes /\ [BuildNext]_bwvars => BuildTypes'
<1>1. ASSUME BuildTypes, BuildNext PROVE BuildTypes'
  BY <1>1, LifeTypesStep, ItemTypesStep, JobTypesStep, ActivityTypesStep, QueueTypesStep DEF BuildTypes
<1>2. ASSUME BuildTypes, UNCHANGED bwvars PROVE BuildTypes'
  BY <1>2 DEF BuildTypes, LifeTypes, ItemTypes, JobTypes, ActivityTypes, StagesOK, QueueTypes, bwvars, clock,
              lifevars, itemvars, jobvars, taskvars, worldvars, eventvars
<1> QED
  BY <1>1, <1>2

-----------------------------------------------------------------------------
(* A block is placed once *)

\* Only the activity system gives or takes the Build task, and with it the activity.
LEMMA BuildersStep ==
    ASSUME BuildTypes, BuildersReserve, BuildNext
    PROVE  BuildersReserve'
<1> USE BuildAssumption DEF BuildersReserve
<1>1. CASE builder' = builder /\ \A e \in Entity : act'[e].kind \in {act[e].kind, "idle"}
  BY <1>1
<1>2. ASSUME NEW e \in Entity, NEW a \in Activity, Begin(e, a), a.kind = "build" => builder \in {NoOne, e}
      PROVE  BuildersReserve'
  <2>1. act' = [act EXCEPT ![e] = a] /\ act \in [Entity -> Activity] /\ e # NoOne
    BY <1>2 DEF Begin, BuildTypes, ActivityTypes, Entity
  <2>2. CASE a.kind = "build"
    <3>1. builder' = e
      BY <1>2, <2>2 DEF Begin
    <3>2. \A f \in Entity : act[f].kind = "build" => f = e
      BY <1>2, <2>1, <2>2 DEF Entity
    <3> QED
      BY <2>1, <3>1, <3>2
  <2>3. CASE a.kind # "build"
    <3>1. builder' = IF builder = e THEN NoOne ELSE builder
      BY <1>2, <2>3 DEF Begin
    <3> QED
      BY <2>1, <2>3, <3>1
  <2> QED
    BY <2>2, <2>3
<1>3. ASSUME NEW e \in Entity, Interrupt(e) \/ StartBuild(e) \/ \E i \in Item : StartHaul(e, i)
      PROVE  BuildersReserve'
  <2>1. CASE Interrupt(e)
    <3>1. Idle \in Activity /\ Idle.kind # "build"
      BY DEF Activity, Idle
    <3> QED
      BY <2>1, <3>1, <1>2 DEF Interrupt
  <2>2. CASE StartBuild(e)
    <3>1. Building \in Activity
      BY DEF Activity, Building, Idle
    <3> QED
      BY <2>2, <3>1, <1>2 DEF StartBuild
  <2>3. ASSUME NEW i \in Item, StartHaul(e, i) PROVE BuildersReserve'
    <3>1. Hauling(i) \in Activity /\ Hauling(i).kind # "build"
      BY NewActivities DEF Hauling, Idle
    <3> QED
      BY <2>3, <3>1, <1>2 DEF StartHaul
  <2> QED
    BY <1>3, <2>1, <2>2, <2>3
<1>4. ASSUME NEW e \in Entity, Collect(e) PROVE BuildersReserve'
  BY <1>4 DEF Collect, Idle, BuildTypes, ActivityTypes
<1>5. ASSUME NEW e \in Entity, PollsActivity(e) PROVE BuildersReserve'
  <2>1. ActivityTypes
    BY DEF BuildTypes
  <2>2. Polled(e) /\ \A f \in Entity : act'[f].kind = act[f].kind
    BY <1>5, <2>1, PollKeeps DEF KeepsActivity
  <2> QED
    BY <2>2, <1>1 DEF Polled, taskvars
<1>6. ASSUME NEW e \in Entity, BuildStep(e) PROVE BuildersReserve'
  BY <1>6, BuildKeeps DEF Polled, taskvars, BuildTypes
<1>7. CASE EndTick
  BY <1>7, <1>1 DEF EndTick, Idle, taskvars
<1>8. CASE \/ CancelJob \/ RefreshJob \/ (\E x \in Mortal : Kill(x)) \/ EndActivity \/ EndPoll
           \/ (\E e \in Entity : Continue(e)) \/ DeliverEvent \/ MoveHauled
  BY <1>8 DEF CancelJob, RefreshJob, Kill, Continue, EndActivity, WaitToStep, Polled, EndPoll,
                    DeliverEvent, MoveHauled, bwvars, taskvars
<1>9. CASE \/ ExecutePickup \/ ExecuteStop \/ ExecuteDrop \/ ExecuteReserve
            \/ ExecuteConsume \/ ExecuteDestroy
  BY <1>9 DEF ExecutePickup, ExecuteStop, ExecuteDrop, ExecuteReserve, ExecuteConsume,
                     ExecuteDestroy, Execute, taskvars
<1> QED
  BY Actions, <1>3, <1>4, <1>5, <1>6, <1>7, <1>8, <1>9

LEMMA PlacesStep ==
    ASSUME BuildTypes, BuildersReserve, PlacesOnce, BuildNext
    PROVE  PlacesOnce'
<1> USE BuildAssumption DEF PlacesOnce
<1>1. CASE /\ UNCHANGED worldvars /\ phase' \in {phase, "deliver", "end"}
           /\ phase \in {"poll", "deliver", "end"} /\ (phase' = "poll" => todo' = todo /\ act' = act)
  BY <1>1 DEF worldvars
<1>2. CASE UNCHANGED worldvars /\ phase \in {"player", "activity"}
  BY <1>2 DEF worldvars
<1>3. CASE CancelJob \/ RefreshJob \/ EndActivity \/ \E x \in Mortal : Kill(x)
  BY <1>3, <1>2 DEF CancelJob, RefreshJob, EndActivity, Kill
<1>4. CASE \E e \in Entity : \/ Interrupt(e) \/ Collect(e) \/ StartBuild(e)
                            \/ Continue(e) \/ \E i \in Item : StartHaul(e, i)
  BY <1>4, <1>2 DEF Interrupt, Collect, StartBuild, Continue, StartHaul, Visit
<1>5. ASSUME NEW e \in Entity, Polled(e), UNCHANGED terrain_updates,
             \A f \in Entity : act'[f].kind \in {act[f].kind, "idle"}
      PROVE  PlacesOnce'
  BY <1>5 DEF Polled, BuildTypes, LifeTypes
<1>6. ASSUME NEW e \in Entity, PollsActivity(e) PROVE PlacesOnce'
  <2>1. ActivityTypes
    BY DEF BuildTypes
  <2>2. Polled(e) /\ UNCHANGED terrain_updates /\ \A f \in Entity : act'[f].kind = act[f].kind
    BY <1>6, <2>1, PollKeeps DEF KeepsActivity
  <2> QED
    BY <2>2, <1>5
\* Nobody else builds, so nobody who is still to be polled does.
<1>7. ASSUME NEW e \in Entity, BuildStep(e) PROVE PlacesOnce'
  <2>1. act[e].kind = "build" /\ e \in todo /\ phase = "poll" /\ terrain_updates \in Nat
    BY <1>7 DEF BuildStep, Polled, BuildTypes, ActivityTypes, StagesOK, JobTypes
  <2>2. terrain_updates = 0
    BY <2>1
  <2>3. phase' = "poll" /\ todo' = todo \ {e} /\ block' = block /\ todo \subseteq Entity
    BY <1>7, <2>1 DEF BuildStep, Polled, BuildTypes, LifeTypes
  <2>4. \A f \in todo' : act'[f] = act[f] /\ act[f].kind # "build"
    <3>1. \A f \in todo' : act'[f] = act[f]
      BY <1>7, <2>3 DEF BuildStep, FinishBuild, BuildTypes, ActivityTypes
    <3>2. \A f \in todo' : f # e /\ f \in Entity
      BY <2>3
    <3> QED
      BY <2>1, <3>1, <3>2 DEF BuildersReserve
  <2>5. terrain_updates' = 0 \/ (terrain_updates' = 1 /\ block = "Air")
    BY <1>7, <2>2 DEF BuildStep
  <2> QED
    BY <2>3, <2>4, <2>5
<1>8. CASE EndPoll \/ DeliverEvent
  BY <1>8, <1>1 DEF EndPoll, DeliverEvent, clock
<1>9. CASE MoveHauled
  BY <1>9 DEF MoveHauled, bwvars, clock, worldvars
<1>10. CASE \/ ExecutePickup \/ ExecuteStop \/ ExecuteDrop \/ ExecuteReserve
            \/ ExecuteConsume \/ ExecuteDestroy
  BY <1>10, <1>1 DEF ExecutePickup, ExecuteStop, ExecuteDrop, ExecuteReserve, ExecuteConsume,
                     ExecuteDestroy, Execute, clock
<1>11. CASE EndTick
  BY <1>11 DEF EndTick
<1> QED
  BY Actions, <1>3, <1>4, <1>6, <1>7, <1>8, <1>9, <1>10, <1>11

PlacingInv == BuildTypes /\ BuildersReserve /\ PlacesOnce

LEMMA PlacingInvariant == BuildSpec => []PlacingInv
<1>1. BuildInit => PlacingInv
  <2>1. BuildInit => BuildersReserve /\ PlacesOnce
    BY DEF BuildInit, BuildersReserve, PlacesOnce, Idle
  <2> QED
    BY <2>1, TypesInit DEF PlacingInv
<1>2. PlacingInv /\ [BuildNext]_bwvars => PlacingInv'
  <2>1. ASSUME PlacingInv, BuildNext PROVE BuildersReserve' /\ PlacesOnce'
    BY <2>1, BuildersStep, PlacesStep DEF PlacingInv
  <2>2. ASSUME PlacingInv, UNCHANGED bwvars PROVE BuildersReserve' /\ PlacesOnce'
    BY <2>2 DEF PlacingInv, BuildersReserve, PlacesOnce, bwvars, clock, worldvars, taskvars
  <2> QED
    BY <2>1, <2>2, TypesStep DEF PlacingInv
<1> QED
  BY <1>1, <1>2, PTL DEF BuildSpec

\* The state of a build, its items, activities and queues is well formed, and what is
\* reserved and what remains are never more than is needed, so that refresh_tasks' unreachable!()
\* is (build.rs:173), whatever is moved, killed or interrupted.
THEOREM BuildWellFormed == BuildSpec => []BuildTypeOK
<1>1. PlacingInv => BuildTypeOK
  BY TypesOK DEF PlacingInv
<1> QED
  BY <1>1, PlacingInvariant, PTL

\* A block is placed by one update at most, and never where there is one already, although
\* what complete_build looks at is the world of the tick before.
THEOREM BlockPlacedOnce == BuildSpec => []PlacedOnce
<1>1. PlacingInv => PlacedOnce
  BY DEF PlacingInv, PlacesOnce, PlacedOnce
<1> QED
  BY <1>1, PlacingInvariant, PTL

-----------------------------------------------------------------------------
(* What is hauled agrees with who hauls it *)

\* What may be queued in the activity and poll phases, about the entity that is visited.
LEMMA QueuedThere ==
    ASSUME BuildTypes, NEW q \in Seq(Update), updates' = updates \o q
    PROVE  \A f \in Entity, j \in Item :
              /\ PicksUp(f, j)' <=> PicksUp(f, j) \/ Pickup(j, f) \in Elements(q)
              /\ StopsHauling(f, j)' <=> StopsHauling(f, j) \/ Stop(j, f) \in Elements(q)
<1>1. Elements(updates') = Elements(updates) \cup Elements(q)
  BY AddedUpdates
<1> QED
  BY <1>1 DEF PicksUp, StopsHauling, Queue

LEMMA QueuedOne ==
    ASSUME BuildTypes, NEW u \in Update, updates' = Append(updates, u)
    PROVE  \A f \in Entity, j \in Item :
              /\ PicksUp(f, j)' <=> PicksUp(f, j) \/ Pickup(j, f) = u
              /\ StopsHauling(f, j)' <=> StopsHauling(f, j) \/ Stop(j, f) = u
<1>1. Elements(updates') = Elements(updates) \cup {u}
  BY ElementsOfAppend DEF BuildTypes, QueueTypes
<1> QED
  BY <1>1 DEF PicksUp, StopsHauling, Queue

LEMMA QueuedSame ==
    ASSUME UNCHANGED updates
    PROVE  \A f \in Entity, j \in Item :
              (PicksUp(f, j)' <=> PicksUp(f, j)) /\ (StopsHauling(f, j)' <=> StopsHauling(f, j))
BY DEF PicksUp, StopsHauling, Queue

\* Whoever holds an item, or is about to, stops.
LEMMA QueuedAbandon ==
    ASSUME BuildTypes, NEW e \in Entity, updates' = updates \o Abandon(e)
    PROVE  \A f \in Entity, j \in Item :
              /\ PicksUp(f, j)' <=> PicksUp(f, j)
              /\ StopsHauling(f, j)' <=> StopsHauling(f, j) \/ (f = e /\ Hauls(e, j, {"wait", "carry"}))
<1> DEFINE i == act[e].thing
           q == Abandon(e)
<1>1. /\ q \in Seq(Update)
      /\ Hauls(e, i, {"wait", "carry"}) =>
            i \in Item /\ Elements(q) = {Stop(i, e), Drop(i, e, "feet")}
      /\ ~ Hauls(e, i, {"wait", "carry"}) => q = <<>>
  BY AbandonTypes DEF BuildTypes
<1>2. \A f \in Entity, j \in Item :
         /\ PicksUp(f, j)' <=> PicksUp(f, j) \/ Pickup(j, f) \in Elements(q)
         /\ StopsHauling(f, j)' <=> StopsHauling(f, j) \/ Stop(j, f) \in Elements(q)
  BY <1>1, QueuedThere
<1>3. \A j : Hauls(e, j, {"wait", "carry"}) <=> j = i /\ Hauls(e, i, {"wait", "carry"})
  BY DEF Hauls
<1> HIDE DEF i, q
<1>4. \A f \in Entity, j \in Item :
         /\ Pickup(j, f) \notin Elements(q)
         /\ Stop(j, f) \in Elements(q) <=> f = e /\ Hauls(e, j, {"wait", "carry"})
  <2>1. ASSUME Hauls(e, i, {"wait", "carry"}), NEW f \in Entity, NEW j \in Item
        PROVE  Pickup(j, f) \notin Elements(q) /\ (Stop(j, f) \in Elements(q) <=> f = e /\ j = i)
    <3>1. i \in Item /\ Elements(q) = {Stop(i, e), Drop(i, e, "feet")}
      BY <1>1, <2>1
    <3>2. Pickup(j, f) # Stop(i, e) /\ Pickup(j, f) # Drop(i, e, "feet") /\ Stop(j, f) # Drop(i, e, "feet")
      BY DEF Pickup, Stop, Drop, Queued
    <3>3. Stop(j, f) = Stop(i, e) <=> j = i /\ f = e
      BY DEF Stop, Queued
    <3> QED
      BY <3>1, <3>2, <3>3
  <2>2. CASE ~ Hauls(e, i, {"wait", "carry"})
    BY <1>1, <1>3, <2>2, NoUpdates
  <2> QED
    BY <1>3, <2>1, <2>2
<1> QED
  BY <1>2, <1>4

\* Only the visited or polled entity's activity, updates and events change.
OnlyFor(e) ==
    /\ UNCHANGED <<phase, alive, hauler, hands, events>> /\ todo' = todo \ {e}
    /\ \A f \in Entity \ {e} : act'[f] = act[f]
    /\ \A f \in Entity \ {e}, j \in Item :
          /\ PicksUp(f, j)' <=> PicksUp(f, j)
          /\ StopsHauling(f, j)' <=> StopsHauling(f, j)
          /\ PickupHeard(f, j)' <=> PickupHeard(f, j)

\* How the activity system or a poll may change what its entity hauls.
VisitEffect(e) ==
    /\ phase \in {"activity", "poll"} /\ e \in todo /\ OnlyFor(e)
    /\ \A j \in Item :
          /\ StopsHauling(e, j) => StopsHauling(e, j)'
          /\ PicksUp(e, j)' => PicksUp(e, j) \/ (phase = "poll" /\ Hauls(e, j, {"wait"})')
          /\ StopsHauling(e, j)' =>
                act'[e].stage \in IF phase = "poll" THEN {"none", "new", "walk", "done"} ELSE {"none", "new"}
          /\ Hauls(e, j, {"wait", "carry"}) => Hauls(e, j, {"wait", "carry"})' \/ StopsHauling(e, j)'
          /\ Hauls(e, j, {"carry"})' => Hauls(e, j, {"carry"}) \/ PickupHeard(e, j)
          /\ Hauls(e, j, {"new", "walk"})' =>
                Hauls(e, j, {"new", "walk"}) \/ (j \in alive /\ hauler[j] = NoOne)
          /\ PickupHeard(e, j)' => PickupHeard(e, j) /\ Hauls(e, j, {"wait", "carry"})'

\* Such a visit leaves the invariant as it was.
LEMMA VisitEffectInv ==
    ASSUME BuildTypes, HaulInv, NEW e \in Entity, VisitEffect(e)
    PROVE  HaulInv'
<1> USE DEF HaulInv, VisitEffect, OnlyFor
<1>0. \A f \in Entity \ {e} : \A j, stages : Hauls(f, j, stages)' <=> Hauls(f, j, stages)
  BY DEF Hauls
<1>1. PickupsAwaited'
  BY <1>0 DEF PickupsAwaited
<1>2. StopsAreOver'
  BY DEF StopsAreOver
<1>3. HandsMatchHaulers'
  BY DEF HandsMatchHaulers
<1>4. HaulersHaul'
  BY <1>0 DEF HaulersHaul
<1>5. CarriedIsHauled'
  <2> SUFFICES ASSUME NEW f \in Entity, NEW j \in Item, Hauls(f, j, {"carry"})', j \in alive
               PROVE  hauler[j] = f
    BY DEF CarriedIsHauled
  <2>1. CASE f = e
    <3>1. Hauls(e, j, {"carry"}) \/ PickupHeard(e, j)
      BY <2>1
    <3> QED
      BY <2>1, <3>1 DEF CarriedIsHauled, HeardPickups
  <2>2. CASE f # e
    <3>1. Hauls(f, j, {"carry"})
      BY <1>0, <2>2
    <3> QED
      BY <3>1 DEF CarriedIsHauled
  <2> QED
    BY <2>1, <2>2
<1>6. PostedPickups'
  <2> SUFFICES ASSUME NEW f \in Entity, NEW j \in Item, PickupPosted(f, j)'
               PROVE  (j \in alive => hauler[j] = f) /\ ~ Hauls(f, j, {"new", "walk"})'
    BY DEF PostedPickups
  <2>1. (j \in alive => hauler[j] = f) /\ ~ Hauls(f, j, {"new", "walk"})
    BY DEF PostedPickups, PickupPosted, Posted
  <2>2. f # NoOne
    BY BuildAssumption DEF Entity
  <2> QED
    BY <1>0, <2>1, <2>2
<1>7. HeardPickups'
  BY <1>0 DEF HeardPickups
<1> QED
  BY <1>1, <1>2, <1>3, <1>4, <1>5, <1>6, <1>7

\* A poll touches its own entity only.
LEMMA PollFrame ==
    ASSUME BuildTypes, NEW e \in Entity, Polled(e),
           \A f \in Entity \ {e} : act'[f] = act[f] /\ sink'[f] = sink[f],
           \A f \in Entity \ {e}, j \in Item :
              (PicksUp(f, j)' <=> PicksUp(f, j)) /\ (StopsHauling(f, j)' <=> StopsHauling(f, j))
    PROVE  phase = "poll" /\ e \in todo /\ OnlyFor(e)
<1>1. phase = "poll" /\ e \in todo /\ todo' = todo \ {e}
      /\ UNCHANGED <<phase, alive, hauler, hands, events>>
  BY DEF Polled, lifevars, itemvars
<1>2. \A f \in Entity \ {e}, j \in Item : PickupHeard(f, j)' <=> PickupHeard(f, j)
  BY DEF PickupHeard, Delivered
<1> QED
  BY <1>1, <1>2 DEF OnlyFor

\* A poll that brings its activity to a stage, and queues something.
LEMMA ProceedEffect ==
    ASSUME BuildTypes, NEW e \in Entity, NEW stage, Polled(e),
           act' = [act EXCEPT ![e].stage = stage], sink' = [sink EXCEPT ![e] = <<>>],
           \A f \in Entity \ {e}, j \in Item :
              (PicksUp(f, j)' <=> PicksUp(f, j)) /\ (StopsHauling(f, j)' <=> StopsHauling(f, j)),
           \A j \in Item :
              /\ StopsHauling(e, j) => StopsHauling(e, j)'
              /\ PicksUp(e, j)' => PicksUp(e, j) \/ (Hauls(e, j, {"walk"}) /\ stage = "wait")
              /\ StopsHauling(e, j)' => stage \in {"walk", "done"}
              /\ Hauls(e, j, {"wait", "carry"}) => stage \in {"wait", "carry"} \/ StopsHauling(e, j)',
           stage = "carry" => act[e].stage = "carry",
           stage \in {"new", "walk"} => act[e].stage \in {"new", "walk"}
    PROVE  VisitEffect(e)
<1>0. ActivityTypes /\ sink \in [Entity -> Seq(Event)]
  BY DEF BuildTypes, QueueTypes
<1>1. KeepsActivity(e) /\ act'[e].stage = stage
  BY <1>0, StageChanged
<1>2. sink'[e] = <<>> /\ \A f \in Entity \ {e} : sink'[f] = sink[f]
  BY <1>0
<1>3. \A j \in Item : ~ PickupHeard(e, j)'
  BY <1>2, NoUpdates DEF PickupHeard, Delivered
<1>4. phase = "poll" /\ e \in todo /\ OnlyFor(e)
  BY <1>1, <1>2, PollFrame DEF KeepsActivity
<1>5. \A j, stages : Hauls(e, j, stages)' <=> act[e].kind = "haul" /\ act[e].thing = j /\ stage \in stages
  BY <1>1 DEF Hauls, KeepsActivity
<1>6. \A j, stages : Hauls(e, j, stages) <=> act[e].kind = "haul" /\ act[e].thing = j /\ act[e].stage \in stages
  BY DEF Hauls
<1> QED
  BY <1>1, <1>3, <1>4, <1>5, <1>6 DEF VisitEffect

\* Who is still to be polled and stops hauling something has begun something new.
LEMMA PolledStops ==
    ASSUME HaulInv, NEW e \in Entity, Polled(e)
    PROVE  \A j \in Item : ~ PicksUp(e, j) /\ (StopsHauling(e, j) => act[e].stage \in {"none", "new"})
BY DEF HaulInv, StopsAreOver, PickupsAwaited, Polled

LEMMA KeepWalkingEffect ==
    ASSUME BuildTypes, HaulInv, NEW e \in Entity, KeepWalking(e)
    PROVE  VisitEffect(e)
<1> DEFINE stage == IF act[e].stage = "carry" THEN "carry" ELSE "walk"
<1>1. Polled(e) /\ act[e].stage \in {"new", "walk", "carry"}
  BY DEF KeepWalking
<1>2. /\ act' = [act EXCEPT ![e].stage = stage] /\ sink' = [sink EXCEPT ![e] = <<>>]
      /\ updates' = updates \o <<>>
  BY DEF KeepWalking, Proceed
<1>3. UNCHANGED updates
  BY <1>2 DEF BuildTypes, QueueTypes
<1>4. \A f \in Entity, j \in Item :
         (PicksUp(f, j)' <=> PicksUp(f, j)) /\ (StopsHauling(f, j)' <=> StopsHauling(f, j))
  BY <1>3, QueuedSame
<1>5. /\ stage = "carry" => act[e].stage = "carry"
      /\ stage \in {"new", "walk"} => act[e].stage \in {"new", "walk"}
      /\ act[e].stage \in {"none", "new"} => stage \in {"walk", "done"}
      /\ \A j \in Item : Hauls(e, j, {"wait", "carry"}) => stage \in {"wait", "carry"}
  BY <1>1 DEF Hauls
<1> HIDE DEF stage
<1> QED
  BY <1>1, <1>2, <1>4, <1>5, PolledStops, ProceedEffect

LEMMA FailEffect ==
    ASSUME BuildTypes, HaulInv, NEW e \in Entity, Polled(e), Proceed(e, "done", Abandon(e))
    PROVE  VisitEffect(e)
<1>1. /\ act' = [act EXCEPT ![e].stage = "done"] /\ sink' = [sink EXCEPT ![e] = <<>>]
      /\ updates' = updates \o Abandon(e)
  BY DEF Proceed
<1>2. \A f \in Entity, j \in Item :
         /\ PicksUp(f, j)' <=> PicksUp(f, j)
         /\ StopsHauling(f, j)' <=> StopsHauling(f, j) \/ (f = e /\ Hauls(e, j, {"wait", "carry"}))
  BY <1>1, QueuedAbandon
<1> QED
  BY <1>1, <1>2, ProceedEffect

LEMMA ArriveEffect ==
    ASSUME BuildTypes, HaulInv, NEW e \in Entity, ArriveAtItem(e)
    PROVE  VisitEffect(e)
<1> DEFINE i == act[e].thing
<1>1. Polled(e) /\ act[e].kind = "haul" /\ act[e].stage = "walk" /\ i \in Item
  BY DEF ArriveAtItem, BuildTypes, ActivityTypes, StagesOK
<1>2. /\ act' = [act EXCEPT ![e].stage = "wait"] /\ sink' = [sink EXCEPT ![e] = <<>>]
      /\ updates' = updates \o <<Pickup(i, e)>>
  BY DEF ArriveAtItem, Proceed
<1>3. Pickup(i, e) \in Update
  BY <1>1, UpdateTypes
<1>4. <<Pickup(i, e)>> \in Seq(Update) /\ Elements(<<Pickup(i, e)>>) = {Pickup(i, e)}
  BY <1>3 DEF Elements
<1>5. \A f \in Entity, j \in Item :
         /\ PicksUp(f, j)' <=> PicksUp(f, j) \/ Pickup(j, f) = Pickup(i, e)
         /\ StopsHauling(f, j)' <=> StopsHauling(f, j) \/ Stop(j, f) = Pickup(i, e)
  BY <1>2, <1>4, QueuedThere
<1>6. \A f \in Entity, j \in Item :
         /\ Pickup(j, f) = Pickup(i, e) => f = e /\ Hauls(e, j, {"walk"})
         /\ Stop(j, f) # Pickup(i, e)
  BY <1>1 DEF Hauls, Pickup, Stop, Queued
<1>7. \A j \in Item : ~ StopsHauling(e, j)
  BY <1>1, PolledStops
<1> QED
  BY <1>1, <1>2, <1>5, <1>6, <1>7, ProceedEffect

LEMMA PutDownEffect ==
    ASSUME BuildTypes, HaulInv, NEW e \in Entity, PutDown(e)
    PROVE  VisitEffect(e)
<1> DEFINE i == act[e].thing
           to == IF e \in Worker THEN "site" ELSE "away"
           q == IF e \in Worker THEN <<Stop(i, e), Drop(i, e, "site"), Reserve(i, e)>>
                ELSE <<Stop(i, e), Drop(i, e, "away")>>
<1>1. Polled(e) /\ act[e].kind = "haul" /\ act[e].stage = "carry" /\ i \in Item
  BY DEF PutDown, BuildTypes, ActivityTypes, StagesOK
<1>2. /\ act' = [act EXCEPT ![e].stage = "done"] /\ sink' = [sink EXCEPT ![e] = <<>>]
      /\ updates' = updates \o q
  BY DEF PutDown, Proceed
<1>3. Stop(i, e) \in Update /\ Drop(i, e, to) \in Update /\ Reserve(i, e) \in Update
  BY <1>1, UpdateTypes DEF Place
<1>4. /\ q \in Seq(Update) /\ Stop(i, e) \in Elements(q)
      /\ Elements(q) \subseteq {Stop(i, e), Drop(i, e, to), Reserve(i, e)}
  <2>1. CASE e \in Worker
    <3>1. q = <<Stop(i, e), Drop(i, e, to), Reserve(i, e)>>
      BY <2>1
    <3> HIDE DEF q, to, i
    <3> QED
      BY <1>3, <3>1 DEF Elements
  <2>2. CASE e \notin Worker
    <3>1. q = <<Stop(i, e), Drop(i, e, to)>>
      BY <2>2
    <3> HIDE DEF q, to, i
    <3> QED
      BY <1>3, <3>1 DEF Elements
  <2> QED
    BY <2>1, <2>2
<1>5. \A f \in Entity, j \in Item :
         /\ PicksUp(f, j)' <=> PicksUp(f, j) \/ Pickup(j, f) \in Elements(q)
         /\ StopsHauling(f, j)' <=> StopsHauling(f, j) \/ Stop(j, f) \in Elements(q)
  BY <1>2, <1>4, QueuedThere
<1>6. \A f \in Entity, j \in Item :
         Pickup(j, f) \notin Elements(q) /\ (Stop(j, f) \in Elements(q) => f = e)
  <2> SUFFICES ASSUME NEW f \in Entity, NEW j \in Item
               PROVE  Pickup(j, f) \notin Elements(q) /\ (Stop(j, f) \in Elements(q) => f = e)
    OBVIOUS
  <2>1. /\ Pickup(j, f) # Stop(i, e) /\ Pickup(j, f) # Drop(i, e, to) /\ Pickup(j, f) # Reserve(i, e)
        /\ Stop(j, f) # Drop(i, e, to) /\ Stop(j, f) # Reserve(i, e)
    BY DEF Pickup, Stop, Drop, Reserve, Queued
  <2>2. Stop(j, f) = Stop(i, e) => f = e
    BY DEF Stop, Queued
  <2> QED
    BY <1>4, <2>1, <2>2
<1>7. \A j \in Item : Hauls(e, j, {"wait", "carry"}) => Stop(j, e) \in Elements(q)
  BY <1>4 DEF Hauls
<1> HIDE DEF q, i, to
<1> QED
  BY <1>1, <1>2, <1>5, <1>6, <1>7, ProceedEffect

\* A poll of a build: nothing changes about items.
LEMMA BuildEffect ==
    ASSUME BuildTypes, HaulInv, NEW e \in Entity, Polled(e), UNCHANGED sink,
           act[e].kind = "build", act[e].stage \in {"walk", "step"}, act'[e].kind # "haul",
           \A f \in Entity \ {e} : act'[f] = act[f],
           UNCHANGED updates \/ \E u \in Update : u.op \notin ItemOps /\ updates' = Append(updates, u)
    PROVE  VisitEffect(e)
<1>1. \A f \in Entity, j \in Item :
         (PicksUp(f, j)' <=> PicksUp(f, j)) /\ (StopsHauling(f, j)' <=> StopsHauling(f, j))
  <2>1. CASE UNCHANGED updates
    BY <2>1, QueuedSame
  <2>2. ASSUME NEW u \in Update, u.op \notin ItemOps, updates' = Append(updates, u)
        PROVE  \A f \in Entity, j \in Item :
                  (PicksUp(f, j)' <=> PicksUp(f, j)) /\ (StopsHauling(f, j)' <=> StopsHauling(f, j))
    <3>1. \A f \in Entity, j \in Item : Pickup(j, f) # u /\ Stop(j, f) # u
      BY <2>2, UpdateOps DEF ItemOps
    <3> QED
      BY <2>2, <3>1, QueuedOne
  <2> QED
    BY <2>1, <2>2
<1>2. phase = "poll" /\ e \in todo /\ OnlyFor(e)
  BY <1>1, PollFrame
<1>3. \A j \in Item : ~ PicksUp(e, j) /\ ~ StopsHauling(e, j)
  BY PolledStops
<1>4. \A j \in Item : ~ PickupHeard(e, j)
  BY DEF HaulInv, HeardPickups, Hauls
<1>5. \A j \in Item : ~ PickupHeard(e, j)'
  BY <1>4 DEF PickupHeard, Delivered
<1>6. \A j, stages : ~ Hauls(e, j, stages) /\ ~ Hauls(e, j, stages)'
  BY DEF Hauls
<1> QED
  BY <1>1, <1>2, <1>3, <1>5, <1>6 DEF VisitEffect

\* What confirms a pickup is an event that is still true.
LEMMA HearEffect ==
    ASSUME BuildTypes, HaulInv, NEW e \in Entity, Polled(e), act[e].stage = "wait", UNCHANGED updates,
           act' = [act EXCEPT ![e].stage = "carry"],
           NEW n \in DOMAIN sink[e], sink[e][n] = Hauled(act[e].thing, e, TRUE),
           sink' = [sink EXCEPT ![e] = SubSeq(@, n + 1, Len(@))]
    PROVE  VisitEffect(e)
<1>0. ActivityTypes /\ sink \in [Entity -> Seq(Event)]
  BY DEF BuildTypes, QueueTypes
<1>1. KeepsActivity(e) /\ act'[e].stage = "carry"
  BY <1>0, StageChanged
<1>2. sink'[e] = SubSeq(sink[e], n + 1, Len(sink[e])) /\ \A f \in Entity \ {e} : sink'[f] = sink[f]
  BY <1>0
<1>3. n \in 1 .. Len(sink[e]) /\ sink[e] \in Seq(Event)
  BY <1>0
<1>4. \A f \in Entity, j \in Item :
         (PicksUp(f, j)' <=> PicksUp(f, j)) /\ (StopsHauling(f, j)' <=> StopsHauling(f, j))
  BY QueuedSame
<1>5. phase = "poll" /\ e \in todo /\ OnlyFor(e)
  BY <1>1, <1>2, <1>4, PollFrame DEF KeepsActivity
<1>6. \A j \in Item : ~ StopsHauling(e, j)
  BY PolledStops
<1>7. PickupHeard(e, act[e].thing)
  BY <1>3, ElementsOfSeq DEF PickupHeard, Delivered
<1>8. Elements(sink'[e]) \subseteq Elements(sink[e])
  BY <1>2, <1>3, ElementsOfRest
<1>9. \A j \in Item : PickupHeard(e, j)' => PickupHeard(e, j) /\ Hauls(e, j, {"wait", "carry"})
  BY <1>8 DEF PickupHeard, Delivered, HaulInv, HeardPickups
<1>10. \A j : Hauls(e, j, {"wait", "carry"})' <=> act[e].kind = "haul" /\ act[e].thing = j
  BY <1>1 DEF Hauls, KeepsActivity
<1>11. \A j : Hauls(e, j, {"wait", "carry"}) <=> act[e].kind = "haul" /\ act[e].thing = j
  BY DEF Hauls
<1>12. \A j : ~ Hauls(e, j, {"new", "walk"})'
  BY <1>1 DEF Hauls
<1>13. \A j : Hauls(e, j, {"carry"})' => j = act[e].thing
  BY <1>1 DEF Hauls, KeepsActivity
<1> QED
  BY <1>4, <1>5, <1>6, <1>7, <1>9, <1>10, <1>11, <1>12, <1>13 DEF VisitEffect

LEMMA PollsEffect ==
    ASSUME BuildTypes, HaulInv, NEW e \in Entity, PollsActivity(e) \/ BuildStep(e)
    PROVE  VisitEffect(e)
<1>0. ActivityTypes /\ reserved_materials \in SUBSET Item
  BY DEF BuildTypes, JobTypes
<1>1. CASE KeepWalking(e)
  BY <1>1, KeepWalkingEffect
<1>2. CASE Fail(e)
  BY <1>2, FailEffect DEF Fail
<1>3. CASE ArriveAtItem(e)
  BY <1>3, ArriveEffect
<1>4. CASE HearPickup(e)
  <2>1. Polled(e) /\ act[e].stage = "wait"
    BY <1>4 DEF HearPickup
  <2>2. CASE Proceed(e, "wait", <<>>)
    <3>1. /\ act' = [act EXCEPT ![e].stage = "wait"] /\ sink' = [sink EXCEPT ![e] = <<>>]
          /\ updates' = updates \o <<>>
      BY <2>2 DEF Proceed
    <3>2. UNCHANGED updates
      BY <3>1 DEF BuildTypes, QueueTypes
    <3>3. \A f \in Entity, j \in Item :
             (PicksUp(f, j)' <=> PicksUp(f, j)) /\ (StopsHauling(f, j)' <=> StopsHauling(f, j))
      BY <3>2, QueuedSame
    <3>4. \A j \in Item : ~ StopsHauling(e, j)
      BY <2>1, PolledStops
    <3> QED
      BY <2>1, <3>1, <3>3, <3>4, ProceedEffect
  <2>3. CASE Proceed(e, "done", Abandon(e))
    BY <2>1, <2>3, FailEffect
  <2>4. ASSUME NEW n \in Answers(e), sink[e][n] = Hauled(act[e].thing, e, TRUE), UNCHANGED updates,
               act' = [act EXCEPT ![e].stage = "carry"],
               sink' = [sink EXCEPT ![e] = SubSeq(@, n + 1, Len(@))]
        PROVE  VisitEffect(e)
    <3>1. n \in DOMAIN sink[e]
      BY DEF Answers
    <3> QED
      BY <2>1, <2>4, <3>1, HearEffect
  <2> QED
    BY <1>4, <2>2, <2>3, <2>4 DEF HearPickup
<1>5. CASE PutDown(e)
  BY <1>5, PutDownEffect
<1>6. CASE ReachBlock(e)
  <2>1. Consume(reserved_materials, e) \in Update /\ Consume(reserved_materials, e).op \notin ItemOps
    <3>1. Consume(reserved_materials, e) \in Update
      BY <1>0, JobUpdateTypes
    <3>2. Consume(reserved_materials, e).op = "start wip build"
      BY UpdateOps
    <3> QED
      BY <3>1, <3>2 DEF ItemOps
  <2>2. /\ Polled(e) /\ act[e].kind = "build" /\ act[e].stage = "walk" /\ UNCHANGED sink
        /\ updates' = Append(updates, Consume(reserved_materials, e))
    BY <1>6 DEF ReachBlock
  <2>3. act'[e].kind # "haul" /\ \A f \in Entity \ {e} : act'[f] = act[f]
    BY <1>0, <1>6, <2>2, PollKeeps DEF PollsActivity, KeepsActivity
  <2> QED
    BY <2>1, <2>2, <2>3, BuildEffect
<1>7. CASE WaitToStep(e)
  <2>1. Polled(e) /\ act[e].kind = "build" /\ act[e].stage = "step" /\ UNCHANGED <<act, updates, sink>>
    BY <1>0, <1>7 DEF WaitToStep, ActivityTypes, StagesOK
  <2> QED
    BY <2>1, BuildEffect
<1>8. CASE BuildStep(e)
  <2>1. /\ Polled(e) /\ act[e].kind = "build" /\ act'[e].kind # "haul"
        /\ \A f \in Entity \ {e} : act'[f] = act[f]
    BY <1>0, <1>8, BuildKeeps
  <2>2. act[e].stage = "step" /\ UNCHANGED sink
    BY <1>8 DEF BuildStep
  <2>3. UNCHANGED updates \/ updates' = Append(updates, Destroy(act[e].materials, e))
    BY <1>8 DEF BuildStep
  <2>4. Destroy(act[e].materials, e) \in Update /\ Destroy(act[e].materials, e).op \notin ItemOps
    <3>1. act[e].materials \in SUBSET Item
      BY <1>0 DEF ActivityTypes, Activity
    <3>2. Destroy(act[e].materials, e) \in Update
      BY <3>1, JobUpdateTypes
    <3>3. Destroy(act[e].materials, e).op = "destroy materials"
      BY UpdateOps
    <3> QED
      BY <3>2, <3>3 DEF ItemOps
  <2> QED
    BY <2>1, <2>2, <2>3, <2>4, BuildEffect
<1> QED
  BY <1>1, <1>2, <1>3, <1>4, <1>5, <1>6, <1>7, <1>8 DEF PollsActivity

\* What an entity did is cancelled, for something that nobody hauls.
LEMMA BeginEffect ==
    ASSUME BuildTypes, HaulInv, NEW e \in Entity, NEW activity \in Activity,
           Visit(e), Begin(e, activity), activity.stage \in {"none", "new"},
           activity.kind = "haul" => activity.thing \in alive /\ hauler[activity.thing] = NoOne
    PROVE  VisitEffect(e)
<1>1. /\ phase = "activity" /\ e \in todo /\ todo' = todo \ {e}
      /\ UNCHANGED <<phase, alive, hauler, hands, events>>
  BY DEF Visit, lifevars, itemvars
<1>2. act'[e] = activity /\ \A f \in Entity \ {e} : act'[f] = act[f]
  BY DEF Begin, BuildTypes, ActivityTypes
<1>3. sink'[e] = <<>> /\ \A f \in Entity \ {e} : sink'[f] = sink[f]
  BY DEF Begin, BuildTypes, QueueTypes
<1>4. updates' = updates \o Abandon(e)
  BY DEF Begin
<1>5. \A f \in Entity, j \in Item :
         /\ PicksUp(f, j)' <=> PicksUp(f, j)
         /\ StopsHauling(f, j)' <=> StopsHauling(f, j) \/ (f = e /\ Hauls(e, j, {"wait", "carry"}))
  BY <1>4, QueuedAbandon
<1>6. OnlyFor(e)
  <2>1. \A f \in Entity \ {e}, j \in Item : PickupHeard(f, j)' <=> PickupHeard(f, j)
    BY <1>3 DEF PickupHeard, Delivered
  <2> QED
    BY <1>1, <1>2, <1>5, <2>1 DEF OnlyFor
<1>7. \A j \in Item : ~ PickupHeard(e, j)'
  BY <1>3, NoUpdates DEF PickupHeard, Delivered
<1>8. \A j : ~ Hauls(e, j, {"carry"})'
  BY <1>2 DEF Hauls
<1>9. \A j : Hauls(e, j, {"new", "walk"})' => j \in alive /\ hauler[j] = NoOne
  BY <1>2 DEF Hauls
<1> QED
  BY <1>1, <1>2, <1>5, <1>6, <1>7, <1>8, <1>9 DEF VisitEffect

LEMMA VisitsEffect ==
    ASSUME BuildTypes, HaulInv, NEW e \in Entity,
           \/ Interrupt(e) \/ Collect(e) \/ StartBuild(e) \/ Continue(e) \/ \E i \in Item : StartHaul(e, i)
    PROVE  VisitEffect(e)
<1>0. ActivityTypes /\ sink \in [Entity -> Seq(Event)]
  BY DEF BuildTypes, QueueTypes
<1>1. ASSUME NEW i \in Item, StartHaul(e, i) PROVE VisitEffect(e)
  <2>1. Visit(e) /\ Begin(e, Hauling(i)) /\ i \in alive /\ hauler[i] = NoOne
    BY <1>1 DEF StartHaul, Offered
  <2>2. Hauling(i) \in Activity /\ Hauling(i).thing = i /\ Hauling(i).stage = "new"
    BY NewActivities DEF Hauling, Idle
  <2> QED
    BY <2>1, <2>2, BeginEffect
<1>2. CASE StartBuild(e)
  <2>1. Building \in Activity /\ Building.kind = "build" /\ Building.stage = "new"
    BY DEF Building, Idle, Activity
  <2> QED
    BY <1>2, <2>1, BeginEffect DEF StartBuild
<1>3. CASE Interrupt(e)
  <2>1. Idle \in Activity /\ Idle.kind = "idle" /\ Idle.stage = "none"
    BY DEF Idle, Activity
  <2> QED
    BY <1>3, <2>1, BeginEffect DEF Interrupt
<1>4. ASSUME Visit(e), UNCHANGED updates, \A f \in Entity \ {e} : act'[f] = act[f] /\ sink'[f] = sink[f]
      PROVE  phase = "activity" /\ e \in todo /\ OnlyFor(e)
  <2>1. /\ phase = "activity" /\ e \in todo /\ todo' = todo \ {e}
        /\ UNCHANGED <<phase, alive, hauler, hands, events>>
    BY <1>4 DEF Visit, lifevars, itemvars
  <2>2. \A f \in Entity \ {e}, j \in Item : PickupHeard(f, j)' <=> PickupHeard(f, j)
    BY <1>4 DEF PickupHeard, Delivered
  <2>3. \A f \in Entity, j \in Item :
           (PicksUp(f, j)' <=> PicksUp(f, j)) /\ (StopsHauling(f, j)' <=> StopsHauling(f, j))
    BY <1>4, QueuedSame
  <2> QED
    BY <1>4, <2>1, <2>2, <2>3 DEF OnlyFor
<1>5. ASSUME Visit(e) PROVE \A j \in Item : ~ PicksUp(e, j) /\ ~ StopsHauling(e, j)
  BY <1>5 DEF Visit, HaulInv, PickupsAwaited, StopsAreOver
<1>6. CASE Continue(e)
  <2>1. Visit(e) /\ UNCHANGED <<act, updates, sink>>
    BY <1>6 DEF Continue
  <2>2. \A j \in Item : PickupHeard(e, j)' => PickupHeard(e, j) /\ Hauls(e, j, {"wait", "carry"})
    BY <2>1 DEF PickupHeard, Delivered, HaulInv, HeardPickups
  <2>3. \A j, stages : Hauls(e, j, stages)' <=> Hauls(e, j, stages)
    BY <2>1 DEF Hauls
  <2>4. \A j \in Item : ~ PicksUp(e, j)' /\ ~ StopsHauling(e, j)'
    BY <1>5, <2>1, QueuedSame
  <2> QED
    BY <1>4, <1>5, <2>1, <2>2, <2>3, <2>4 DEF VisitEffect
\* Nothing was hauled by an activity that is done.
<1>7. CASE Collect(e)
  <2>1. Visit(e) /\ act[e].stage = "done" /\ UNCHANGED updates
    BY <1>7 DEF Collect
  <2>2. /\ act'[e].kind = "idle" /\ act'[e].stage = "none"
        /\ \A f \in Entity \ {e} : act'[f] = act[f]
    BY <1>0, <1>7 DEF Collect, ActivityTypes, Idle
  <2>3. sink'[e] = <<>> /\ \A f \in Entity \ {e} : sink'[f] = sink[f]
    BY <1>0, <1>7 DEF Collect
  <2>4. \A j \in Item : ~ PickupHeard(e, j)'
    BY <2>3, NoUpdates DEF PickupHeard, Delivered
  <2>5. \A j, stages : ~ Hauls(e, j, stages)'
    BY <2>2 DEF Hauls
  <2>6. \A j : ~ Hauls(e, j, {"wait", "carry"})
    BY <2>1 DEF Hauls
  <2>7. \A j \in Item : ~ PicksUp(e, j)' /\ ~ StopsHauling(e, j)'
    BY <1>5, <2>1, QueuedSame
  <2> QED
    BY <1>4, <1>5, <2>1, <2>2, <2>3, <2>4, <2>5, <2>6, <2>7 DEF VisitEffect
<1> QED
  BY <1>1, <1>2, <1>3, <1>6, <1>7

\* The phase changes, and nothing about items.
LEMMA PhaseStep ==
    ASSUME BuildTypes, HaulInv, UNCHANGED <<alive, hauler, hands, act, updates, events, sink>>,
           \A e \in Entity, i \in Item : PicksUp(e, i) =>
              phase' \in {"poll", "deliver", "end"} /\ (phase' = "poll" => e \notin todo'),
           \A e \in Entity, i \in Item : StopsHauling(e, i) =>
              /\ phase' = "activity" => e \notin todo'
              /\ phase' = "activity" \/ (phase' = "poll" /\ e \in todo') => act[e].stage \in {"none", "new"},
           phase' = "end" => phase = "end" \/ events = <<>>
    PROVE  HaulInv'
<1> USE DEF HaulInv
<1>1. \A e \in Entity, i \in Item :
         /\ PicksUp(e, i)' <=> PicksUp(e, i)
         /\ StopsHauling(e, i)' <=> StopsHauling(e, i)
         /\ PickupPosted(e, i)' <=> PickupPosted(e, i)
         /\ PickupHeard(e, i)' <=> PickupHeard(e, i)
  BY DEF PicksUp, StopsHauling, Queue, PickupPosted, Posted, PickupHeard, Delivered
<1>2. \A e, i, stages : Hauls(e, i, stages)' <=> Hauls(e, i, stages)
  BY DEF Hauls
<1>3. PickupsAwaited'
  BY <1>1, <1>2 DEF PickupsAwaited
<1>4. StopsAreOver'
  BY <1>1 DEF StopsAreOver
<1>5. HandsMatchHaulers'
  BY DEF HandsMatchHaulers
<1>6. HaulersHaul'
  BY <1>1, <1>2 DEF HaulersHaul
<1>7. CarriedIsHauled'
  BY <1>2 DEF CarriedIsHauled
<1>8. PostedPickups'
  <2>1. events = <<>> => \A e \in Entity, i \in Item : ~ PickupPosted(e, i)
    BY NoUpdates DEF PickupPosted, Posted
  <2> QED
    BY <1>1, <1>2, <2>1 DEF PostedPickups
<1>9. HeardPickups'
  BY <1>1, <1>2 DEF HeardPickups
<1> QED
  BY <1>3, <1>4, <1>5, <1>6, <1>7, <1>8, <1>9

LEMMA PhasesKeep ==
    ASSUME BuildTypes, HaulInv,
           \/ CancelJob \/ RefreshJob \/ (\E x \in Mortal : Kill(x)) \/ EndActivity \/ EndPoll \/ MoveHauled
    PROVE  HaulInv'
<1>1. UNCHANGED <<alive, hauler, hands, act, updates, events, sink>>
  BY DEF CancelJob, RefreshJob, Kill, EndActivity, EndPoll, MoveHauled, lifevars, itemvars, eventvars, bwvars
<1>2. /\ PickupsAwaited /\ StopsAreOver
      /\ phase = "player" => \A e \in Entity, i \in Item : ~ PicksUp(e, i) /\ ~ StopsHauling(e, i)
  BY NoUpdates DEF HaulInv, PicksUp, StopsHauling, Queue, BuildTypes, QueueTypes
<1>3. CASE CancelJob \/ RefreshJob \/ \E x \in Mortal : Kill(x)
  <2>1. phase = "player" /\ phase' \in {"player", "activity"}
    BY <1>3 DEF CancelJob, RefreshJob, Kill, clock
  <2> QED
    BY <1>1, <1>2, <2>1, PhaseStep
<1>4. CASE EndActivity
  <2>1. /\ phase = "activity" /\ phase' = "poll"
        /\ \A e \in Entity : e \in todo' <=> act[e].stage \notin {"none", "done"}
    BY <1>4 DEF EndActivity
  <2>2. \A e \in Entity, i \in Item : ~ PicksUp(e, i)
    BY <1>2, <2>1 DEF PickupsAwaited
  <2>3. \A e \in Entity, i \in Item : StopsHauling(e, i) => act[e].stage \in {"none", "new"}
    BY <1>2, <2>1 DEF StopsAreOver
  <2> QED
    BY <1>1, <2>1, <2>2, <2>3, PhaseStep
<1>5. CASE EndPoll
  <2>1. phase = "poll" /\ phase' = "deliver"
    BY <1>5 DEF EndPoll
  <2> QED
    BY <1>1, <2>1, PhaseStep
<1>6. CASE MoveHauled
  <2>1. phase = "deliver" /\ phase' \in {"deliver", "end"} /\ events = <<>>
    BY <1>6 DEF MoveHauled, bwvars, clock
  <2> QED
    BY <1>1, <2>1, PhaseStep
<1> QED
  BY <1>3, <1>4, <1>5, <1>6

\* An event that a pickup succeeded is delivered to the activity that waits for it.
LEMMA DeliverKeeps ==
    ASSUME BuildTypes, HaulInv, DeliverEvent
    PROVE  HaulInv'
<1> USE DEF HaulInv
<1>1. /\ phase = "deliver" /\ UNCHANGED <<phase, todo, alive, hauler, hands, act, updates>>
      /\ events \in Seq(Event) /\ events # <<>> /\ events' = Tail(events)
  BY DEF DeliverEvent, clock, lifevars, itemvars, BuildTypes, QueueTypes
<1>2. Head(events) \in Posted /\ \A e \in Entity, i \in Item : PickupPosted(e, i)' => PickupPosted(e, i)
  BY <1>1, ElementsOfTail DEF PickupPosted, Posted
<1>3. \A e \in Entity, i \in Item :
         (PicksUp(e, i)' <=> PicksUp(e, i)) /\ (StopsHauling(e, i)' <=> StopsHauling(e, i))
  BY <1>1, QueuedSame
<1>4. \A e, i, stages : Hauls(e, i, stages)' <=> Hauls(e, i, stages)
  BY <1>1 DEF Hauls
<1>5. ASSUME NEW e \in Entity, NEW i \in Item, PickupHeard(e, i)'
      PROVE  Hauls(e, i, {"wait", "carry"}) /\ (i \in alive => hauler[i] = e)
  <2>1. sink[e] \in Seq(Event) /\ Head(events) \in Event
    BY <1>1, <1>2, ElementsType DEF BuildTypes, QueueTypes, Posted
  <2>2. sink'[e] = sink[e] \/ (sink'[e] = Append(sink[e], Head(events)) /\ Hears(e, Head(events)))
    BY DEF DeliverEvent
  <2>3. CASE PickupHeard(e, i)
    BY <2>3 DEF HeardPickups
  <2>4. CASE ~ PickupHeard(e, i)
    <3>1. sink'[e] # sink[e]
      BY <1>5, <2>4 DEF PickupHeard, Delivered
    <3>2. Elements(sink'[e]) = Elements(sink[e]) \cup {Head(events)}
      <4>1. Elements(Append(sink[e], Head(events))) = Elements(sink[e]) \cup {Head(events)}
        BY <2>1, ElementsOfAppend
      <4> QED
        BY <2>2, <3>1, <4>1
    <3>3. Head(events) = Hauled(i, e, TRUE) /\ Hears(e, Head(events))
      BY <1>5, <2>2, <2>4, <3>1, <3>2 DEF PickupHeard, Delivered
    <3>4. e # NoOne
      BY BuildAssumption DEF Entity
    <3>5. Head(events).thing = i /\ Head(events) # Died(i)
      BY <3>3, <3>4 DEF Hauled, Died
    <3>6. Hauls(e, i, {"walk", "wait"})
      BY <3>3, <3>5 DEF Hears, Hauls
    <3>7. PickupPosted(e, i)
      BY <1>2, <3>3 DEF PickupPosted
    <3>8. (i \in alive => hauler[i] = e) /\ ~ Hauls(e, i, {"new", "walk"})
      BY <3>7 DEF PostedPickups
    <3> QED
      BY <3>6, <3>8 DEF Hauls
  <2> QED
    BY <2>3, <2>4
<1>6. PickupsAwaited' /\ StopsAreOver'
  BY <1>1, <1>3, <1>4 DEF PickupsAwaited, StopsAreOver
<1>7. HandsMatchHaulers' /\ HaulersHaul'
  BY <1>1, <1>3, <1>4 DEF HandsMatchHaulers, HaulersHaul
<1>8. CarriedIsHauled' /\ PostedPickups'
  BY <1>1, <1>2, <1>3, <1>4 DEF CarriedIsHauled, PostedPickups
<1>9. HeardPickups'
  BY <1>1, <1>4, <1>5 DEF HeardPickups
<1> QED
  BY <1>6, <1>7, <1>8, <1>9

\* An update is executed.
LEMMA ExecuteFrame ==
    ASSUME BuildTypes, HaulInv, NEW op, Execute(op)
    PROVE  /\ phase = "end" /\ UNCHANGED <<phase, todo, alive, act, sink>>
           /\ \A f \in Entity, j \in Item :
                 /\ PicksUp(f, j)' => PicksUp(f, j)
                 /\ PicksUp(f, j) => PicksUp(f, j)' \/ Head(updates) = Pickup(j, f)
                 /\ StopsHauling(f, j)' => StopsHauling(f, j)
                 /\ StopsHauling(f, j) => StopsHauling(f, j)' \/ Head(updates) = Stop(j, f)
                 /\ PickupHeard(f, j)' <=> PickupHeard(f, j)
           /\ \A f, j, stages : Hauls(f, j, stages)' <=> Hauls(f, j, stages)
           /\ PickupsAwaited' /\ StopsAreOver'
<1>1. phase = "end" /\ UNCHANGED <<phase, todo, alive, act, sink>>
  BY DEF Execute, clock
<1>2. QueueTypes
  BY DEF BuildTypes
<1>3. Elements(updates) = {Head(updates)} \cup Elements(updates')
  BY <1>2, HeadTypes
<1>4. \A f \in Entity, j \in Item :
         /\ PicksUp(f, j)' => PicksUp(f, j)
         /\ PicksUp(f, j) => PicksUp(f, j)' \/ Head(updates) = Pickup(j, f)
         /\ StopsHauling(f, j)' => StopsHauling(f, j)
         /\ StopsHauling(f, j) => StopsHauling(f, j)' \/ Head(updates) = Stop(j, f)
         /\ PickupHeard(f, j)' <=> PickupHeard(f, j)
  BY <1>1, <1>3 DEF PicksUp, StopsHauling, Queue, PickupHeard, Delivered
<1>5. \A f, j, stages : Hauls(f, j, stages)' <=> Hauls(f, j, stages)
  BY <1>1 DEF Hauls
<1>6. PickupsAwaited'
  BY <1>1, <1>4, <1>5 DEF HaulInv, PickupsAwaited
<1>7. StopsAreOver'
  BY <1>1, <1>4 DEF HaulInv, StopsAreOver
<1> QED
  BY <1>1, <1>4, <1>5, <1>6, <1>7

\* Updates that are no business of haulers.
LEMMA OtherUpdates ==
    ASSUME BuildTypes, HaulInv,
           ExecuteDrop \/ ExecuteReserve \/ ExecuteConsume \/ ExecuteDestroy
    PROVE  HaulInv'
<1> USE DEF HaulInv
<1>1. PICK op \in {"drop hauled item", "reserve material", "start wip build", "destroy materials"} :
         Execute(op) /\ UNCHANGED <<hauler, hands, events>>
  BY DEF ExecuteDrop, ExecuteReserve, ExecuteConsume, ExecuteDestroy, itemvars
<1>2. \A f, j : Head(updates) # Stop(j, f)
  <2>1. Head(updates).op = op /\ \A f, j : Stop(j, f).op = "stop hauling item"
    BY <1>1, UpdateOps DEF Execute
  <2> QED
    BY <1>1, <2>1
<1>3. /\ phase = "end" /\ UNCHANGED <<phase, todo, alive, act, sink>>
      /\ \A f \in Entity, j \in Item :
            /\ StopsHauling(f, j)' <=> StopsHauling(f, j)
            /\ PickupHeard(f, j)' <=> PickupHeard(f, j)
      /\ \A f, j, stages : Hauls(f, j, stages)' <=> Hauls(f, j, stages)
      /\ PickupsAwaited' /\ StopsAreOver'
  BY <1>1, <1>2, ExecuteFrame
<1>4. HandsMatchHaulers' /\ HaulersHaul'
  BY <1>1, <1>3 DEF HandsMatchHaulers, HaulersHaul
<1>5. CarriedIsHauled' /\ HeardPickups'
  BY <1>1, <1>3 DEF CarriedIsHauled, HeardPickups
<1>6. PostedPickups'
  BY <1>1, <1>3 DEF PostedPickups, PickupPosted, Posted
<1> QED
  BY <1>3, <1>4, <1>5, <1>6

\* Whoever stops was not carrying, and nobody's confirmation is pending.
LEMMA StopKeeps ==
    ASSUME BuildTypes, HaulInv, ExecuteStop
    PROVE  HaulInv'
<1> USE DEF HaulInv
<1> DEFINE i == TheThing
           w == Who
<1>1. Execute("stop hauling item") /\ UNCHANGED events
  BY DEF ExecuteStop
<1>2. QueueTypes /\ hauler \in [Item -> Entity \cup {NoOne}] /\ hands \in [Entity -> SUBSET Item]
  BY DEF BuildTypes, ItemTypes
<1>3. w \in Entity /\ i \in Item /\ Head(updates) \in Queue /\ Things = {i}
      /\ Head(updates) \in Update /\ Head(updates).op = "stop hauling item"
  BY <1>1, <1>2, HeadTypes DEF ItemOps, Queue
<1>4. Head(updates) = Stop(i, w)
  BY <1>1, <1>2, HeadIs
<1>5. StopsHauling(w, i) /\ act[w].stage \notin {"wait", "carry"}
  BY <1>3, <1>4 DEF StopsAreOver, StopsHauling
<1>6. /\ hauler[i] \in {w, NoOne} =>
            hauler' = [hauler EXCEPT ![i] = NoOne] /\ hands' = [hands EXCEPT ![w] = @ \ {i}]
      /\ hauler[i] \notin {w, NoOne} => UNCHANGED <<hauler, hands>>
  BY DEF ExecuteStop
<1> HIDE DEF w, i
<1>7. /\ phase = "end" /\ UNCHANGED <<phase, todo, alive, act, sink>>
      /\ \A f \in Entity, j \in Item :
            /\ StopsHauling(f, j)' => StopsHauling(f, j)
            /\ StopsHauling(f, j) => StopsHauling(f, j)' \/ Stop(i, w) = Stop(j, f)
            /\ PickupHeard(f, j)' <=> PickupHeard(f, j)
      /\ \A f, j, stages : Hauls(f, j, stages)' <=> Hauls(f, j, stages)
      /\ PickupsAwaited' /\ StopsAreOver'
  BY <1>1, <1>4, ExecuteFrame
<1>8. \A f \in Entity, j \in Item : StopsHauling(f, j) => StopsHauling(f, j)' \/ (f = w /\ j = i)
  <2>1. \A f, j : Stop(i, w) = Stop(j, f) => f = w /\ j = i
    BY DEF Stop, Queued
  <2> QED
    BY <1>7, <2>1
<1>9. \A j \in Item : (hauler'[j] = hauler[j] \/ (j = i /\ hauler[i] = w /\ hauler'[i] = NoOne))
  BY <1>2, <1>3, <1>6
<1>10. /\ \A f \in Entity, j \in Item : j \in hands'[f] => j \in hands[f]
       /\ hauler[i] \in {w, NoOne} => i \notin hands'[w] /\ hauler'[i] = NoOne
  BY <1>2, <1>3, <1>6
<1>11. w # NoOne /\ \A f \in Entity : f # NoOne
  BY <1>3, BuildAssumption DEF Entity
<1>12. HandsMatchHaulers'
  <2>1. ASSUME NEW j \in Item, j \in alive, NEW f \in Entity, j \in hands'[f] PROVE hauler'[j] = f
    <3>1. hauler[j] = f
      BY <1>10, <2>1 DEF HandsMatchHaulers
    <3> QED
      BY <1>9, <1>10, <2>1, <3>1
  <2>2. ASSUME NEW j \in Item, j \notin alive PROVE hauler'[j] = NoOne
    BY <1>9, <2>2 DEF HandsMatchHaulers
  <2> QED
    BY <1>7, <2>1, <2>2 DEF HandsMatchHaulers
<1>13. HaulersHaul'
  <2> SUFFICES ASSUME NEW f \in Entity, f \in alive, NEW j \in Item, hauler'[j] = f \/ j \in hands'[f]
               PROVE  Hauls(f, j, {"wait", "carry"}) \/ StopsHauling(f, j)'
    BY <1>7 DEF HaulersHaul
  <2>1. hauler[j] = f \/ j \in hands[f]
    BY <1>9, <1>10, <1>11
  <2>2. Hauls(f, j, {"wait", "carry"}) \/ StopsHauling(f, j)
    BY <2>1 DEF HaulersHaul
  <2>3. ~ (f = w /\ j = i)
    <3> SUFFICES ASSUME f = w, j = i PROVE FALSE
      OBVIOUS
    <3>1. hauler[i] \notin {w, NoOne}
      BY <1>10, <1>11
    <3>2. hauler'[i] # w
      BY <1>6, <3>1
    <3>3. i \in hands[w]
      BY <1>10, <3>2
    <3> QED
      BY <1>3, <3>1, <3>3 DEF HandsMatchHaulers
  <2> QED
    BY <1>8, <2>2, <2>3
\* What the hauler itself does is over.
<1>14. CarriedIsHauled'
  <2> SUFFICES ASSUME NEW f \in Entity, NEW j \in Item, Hauls(f, j, {"carry"}), j \in alive
               PROVE  hauler'[j] = f
    BY <1>7 DEF CarriedIsHauled
  <2>1. hauler[j] = f /\ f # w
    BY <1>5 DEF CarriedIsHauled, Hauls
  <2> QED
    BY <1>9, <2>1
<1>15. PostedPickups'
  <2> SUFFICES ASSUME NEW f \in Entity, NEW j \in Item, PickupPosted(f, j)
               PROVE  (j \in alive => hauler'[j] = f) /\ ~ Hauls(f, j, {"new", "walk"}) /\ ~ StopsHauling(f, j)'
    BY <1>1, <1>7 DEF PostedPickups, PickupPosted, Posted
  <2>1. (j \in alive => hauler[j] = f) /\ ~ Hauls(f, j, {"new", "walk"}) /\ ~ StopsHauling(f, j)
    BY <1>7 DEF PostedPickups
  <2>2. ~ (f = w /\ j = i)
    BY <1>5, <2>1
  <2> QED
    BY <1>7, <1>9, <2>1, <2>2
<1>16. HeardPickups'
  <2> SUFFICES ASSUME NEW f \in Entity, NEW j \in Item, PickupHeard(f, j)
               PROVE  Hauls(f, j, {"wait", "carry"}) /\ (j \in alive => hauler'[j] = f)
    BY <1>7 DEF HeardPickups
  <2>1. Hauls(f, j, {"wait", "carry"}) /\ (j \in alive => hauler[j] = f)
    BY DEF HeardPickups
  <2>2. f # w
    BY <1>5, <2>1 DEF Hauls
  <2> QED
    BY <1>9, <2>1, <2>2
<1> QED
  BY <1>7, <1>12, <1>13, <1>14, <1>15, <1>16

\* An item that nobody hauls is picked up by the activity that waits for it, or it is not.
LEMMA PickupKeeps ==
    ASSUME BuildTypes, HaulInv, ExecutePickup
    PROVE  HaulInv'
<1> USE DEF HaulInv
<1> DEFINE i == TheThing
           w == Who
           ok == i \in alive /\ hauler[i] = NoOne /\ w \in alive /\ hands[w] = {}
<1>1. Execute("haul item") /\ events' = Append(events, Hauled(i, w, ok))
  BY DEF ExecutePickup
<1>2. /\ QueueTypes /\ hauler \in [Item -> Entity \cup {NoOne}] /\ hands \in [Entity -> SUBSET Item]
      /\ events \in Seq(Event)
  BY DEF BuildTypes, ItemTypes, QueueTypes
<1>3. w \in Entity /\ i \in Item /\ Head(updates) \in Queue /\ Head(updates) = Pickup(i, w)
  BY <1>1, <1>2, HeadTypes, HeadIs DEF ItemOps, Queue
<1>4. Hauls(w, i, {"wait"})
  BY <1>3 DEF PickupsAwaited, PicksUp
<1>5. /\ ok => hauler' = [hauler EXCEPT ![i] = w] /\ hands' = [hands EXCEPT ![w] = {i}]
      /\ ~ ok => UNCHANGED <<hauler, hands>>
  BY DEF ExecutePickup
<1>6. Elements(events') = Elements(events) \cup {Hauled(i, w, ok)}
  <2>1. Hauled(i, w, ok) \in Event
    BY <1>3 DEF Hauled, Event
  <2> DEFINE x == Hauled(i, w, ok)
  <2>2. events' = Append(events, x) /\ x \in Event /\ events \in Seq(Event)
    BY <1>1, <1>2, <2>1
  <2> HIDE DEF x
  <2>3. Elements(Append(events, x)) = Elements(events) \cup {x}
    BY <2>2, ElementsOfAppend
  <2> QED
    BY <2>2, <2>3 DEF x
<1>7. ok \in BOOLEAN /\ (ok => i \in alive /\ hauler[i] = NoOne /\ w \in alive /\ hands[w] = {})
  OBVIOUS
<1> HIDE DEF w, i, ok
<1>8. /\ phase = "end" /\ UNCHANGED <<phase, todo, alive, act, sink>>
      /\ \A f \in Entity, j \in Item :
            /\ StopsHauling(f, j)' => StopsHauling(f, j)
            /\ StopsHauling(f, j) => StopsHauling(f, j)' \/ Pickup(i, w) = Stop(j, f)
            /\ PickupHeard(f, j)' <=> PickupHeard(f, j)
      /\ \A f, j, stages : Hauls(f, j, stages)' <=> Hauls(f, j, stages)
      /\ PickupsAwaited' /\ StopsAreOver'
  BY <1>1, <1>3, ExecuteFrame
<1>9. \A f \in Entity, j \in Item : StopsHauling(f, j)' <=> StopsHauling(f, j)
  <2>1. \A f, j : Pickup(i, w) # Stop(j, f)
    BY DEF Pickup, Stop, Queued
  <2> QED
    BY <1>8, <2>1
<1>10. \A f \in Entity, j \in Item :
          PickupPosted(f, j)' => PickupPosted(f, j) \/ (f = w /\ j = i /\ ok)
  <2>1. \A f, j : Hauled(j, f, TRUE) = Hauled(i, w, ok) => f = w /\ j = i /\ ok
    BY <1>7 DEF Hauled
  <2> QED
    BY <1>6, <2>1 DEF PickupPosted, Posted
<1>11. \A f \in Entity : f # NoOne
  BY BuildAssumption DEF Entity
<1>12. \A j \in Item : hauler'[j] = hauler[j] \/ (ok /\ j = i /\ hauler[i] = NoOne /\ hauler'[i] = w)
  BY <1>2, <1>3, <1>5, <1>7
<1>13. \A f \in Entity, j \in Item : j \in hands'[f] => j \in hands[f] \/ (ok /\ f = w /\ j = i)
  BY <1>2, <1>3, <1>5
<1>14. ok => hauler'[i] = w
  BY <1>2, <1>3, <1>5
<1>15. HandsMatchHaulers'
  <2>1. ASSUME NEW j \in Item, j \in alive, NEW f \in Entity, j \in hands'[f] PROVE hauler'[j] = f
    BY <1>11, <1>12, <1>13, <1>14, <2>1 DEF HandsMatchHaulers
  <2>2. ASSUME NEW j \in Item, j \notin alive PROVE hauler'[j] = NoOne
    BY <1>7, <1>12, <2>2 DEF HandsMatchHaulers
  <2> QED
    BY <1>8, <2>1, <2>2 DEF HandsMatchHaulers
<1>16. HaulersHaul'
  <2> SUFFICES ASSUME NEW f \in Entity, f \in alive, NEW j \in Item, hauler'[j] = f \/ j \in hands'[f]
               PROVE  Hauls(f, j, {"wait", "carry"}) \/ StopsHauling(f, j)
    BY <1>8, <1>9 DEF HaulersHaul
  <2>1. hauler[j] = f \/ j \in hands[f] \/ (f = w /\ j = i)
    BY <1>12, <1>13
  <2> QED
    BY <1>4, <2>1 DEF HaulersHaul, Hauls
<1>17. CarriedIsHauled'
  BY <1>8, <1>11, <1>12 DEF CarriedIsHauled
<1>18. PostedPickups'
  <2> SUFFICES ASSUME NEW f \in Entity, NEW j \in Item, PickupPosted(f, j)'
               PROVE  (j \in alive => hauler'[j] = f) /\ ~ Hauls(f, j, {"new", "walk"}) /\ ~ StopsHauling(f, j)
    BY <1>8, <1>9 DEF PostedPickups
  <2>1. CASE PickupPosted(f, j)
    BY <1>8, <1>11, <1>12, <2>1 DEF PostedPickups
  <2>2. CASE f = w /\ j = i /\ ok
    BY <1>3, <1>4, <1>14, <2>2 DEF Hauls, StopsAreOver
  <2> QED
    BY <1>10, <2>1, <2>2
<1>19. HeardPickups'
  BY <1>8, <1>11, <1>12 DEF HeardPickups
<1> QED
  BY <1>8, <1>15, <1>16, <1>17, <1>18, <1>19

\* Nobody hauls the dead, and the dead haul nothing.
LEMMA EndTickKeeps ==
    ASSUME BuildTypes, HaulInv, EndTick
    PROVE  HaulInv'
<1> USE DEF HaulInv
<1>1. /\ phase' = "player" /\ updates = <<>> /\ updates' = <<>> /\ alive' = alive \ dying
      /\ \A j \in Item : hauler'[j] = IF j \in dying THEN NoOne ELSE hauler[j]
      /\ \A f \in Entity : hands'[f] = IF f \in dying THEN {} ELSE hands[f]
      /\ \A f \in Entity : act'[f] \in {act[f], Idle} /\ (f \notin dying => act'[f] = act[f])
      /\ \A f \in Entity : sink'[f] \in {sink[f], <<>>} /\ (f \in dying => sink'[f] = <<>>)
  BY DEF EndTick
<1>2. \A f \in Entity, j \in Item :
         ~ PicksUp(f, j)' /\ ~ StopsHauling(f, j)' /\ ~ PicksUp(f, j) /\ ~ StopsHauling(f, j)
  BY <1>1, NoUpdates DEF PicksUp, StopsHauling, Queue
<1>3. \A f \in Entity : f # NoOne
  BY BuildAssumption DEF Entity
<1>4. \A f \in Entity : \A j, stages :
         /\ Hauls(f, j, stages)' => Hauls(f, j, stages)
         /\ Hauls(f, j, stages) /\ f \notin dying => Hauls(f, j, stages)'
  BY <1>1 DEF Hauls, Idle
<1>5. \A f \in Entity, j \in Item : PickupPosted(f, j)' => PickupPosted(f, j)
  <2>1. Elements(events') \subseteq Elements(events) \cup {Died(i) : i \in dying \cap Item}
    BY EndTickEvents
  <2>2. \A f \in Entity, j \in Item : \A i : Hauled(j, f, TRUE) # Died(i)
    BY <1>3 DEF Hauled, Died
  <2> QED
    BY <2>1, <2>2 DEF PickupPosted, Posted
<1>6. \A f \in Entity, j \in Item : PickupHeard(f, j)' => PickupHeard(f, j) /\ f \notin dying
  BY <1>1, NoUpdates DEF PickupHeard, Delivered
<1>7. PickupsAwaited' /\ StopsAreOver'
  BY <1>2 DEF PickupsAwaited, StopsAreOver
<1>8. HandsMatchHaulers'
  BY <1>1 DEF HandsMatchHaulers
<1>9. HaulersHaul'
  <2> SUFFICES ASSUME NEW f \in Entity, f \in alive', NEW j \in Item, hauler'[j] = f \/ j \in hands'[f]
               PROVE  Hauls(f, j, {"wait", "carry"})'
    BY DEF HaulersHaul
  <2>1. f \in alive /\ f \notin dying /\ (hauler[j] = f \/ j \in hands[f])
    BY <1>1, <1>3
  <2>2. Hauls(f, j, {"wait", "carry"})
    BY <1>2, <2>1 DEF HaulersHaul
  <2> QED
    BY <1>4, <2>1, <2>2
<1>10. CarriedIsHauled'
  BY <1>1, <1>4 DEF CarriedIsHauled
<1>11. PostedPickups'
  BY <1>1, <1>4, <1>5 DEF PostedPickups
<1>12. HeardPickups'
  BY <1>1, <1>4, <1>6 DEF HeardPickups
<1> QED
  BY <1>7, <1>8, <1>9, <1>10, <1>11, <1>12

LEMMA HaulStep ==
    ASSUME BuildTypes, HaulInv, BuildNext
    PROVE  HaulInv'
<1>1. ASSUME NEW e \in Entity, \/ Interrupt(e) \/ Collect(e) \/ StartBuild(e)
                              \/ Continue(e) \/ \E i \in Item : StartHaul(e, i)
      PROVE  HaulInv'
  BY <1>1, VisitsEffect, VisitEffectInv
<1>2. ASSUME NEW e \in Entity, PollsActivity(e) \/ BuildStep(e) PROVE HaulInv'
  BY <1>2, PollsEffect, VisitEffectInv
<1> QED
  BY Actions, <1>1, <1>2, PhasesKeep, DeliverKeeps, PickupKeeps, StopKeeps, OtherUpdates, EndTickKeeps

LEMMA HaulInvariant == BuildSpec => [](BuildTypes /\ HaulInv)
<1>1. BuildInit => HaulInv
  <2> SUFFICES ASSUME BuildInit PROVE HaulInv
    OBVIOUS
  <2>1. /\ alive = Entity \cup Item /\ \A i \in Item : hauler[i] = NoOne
        /\ \A e \in Entity : hands[e] = {} /\ act[e] = Idle /\ sink[e] = <<>>
    BY DEF BuildInit
  <2>2. \A e \in Entity, i \in Item :
           ~ PicksUp(e, i) /\ ~ StopsHauling(e, i) /\ ~ PickupPosted(e, i) /\ ~ PickupHeard(e, i)
    BY <2>1, NoUpdates DEF BuildInit, PicksUp, StopsHauling, Queue, PickupPosted, Posted, PickupHeard, Delivered
  <2>3. \A e \in Entity : \A i, stages : ~ Hauls(e, i, stages)
    BY <2>1 DEF Hauls, Idle
  <2>4. \A e \in Entity : e # NoOne
    BY BuildAssumption DEF Entity
  <2>5. PickupsAwaited /\ StopsAreOver /\ PostedPickups /\ HeardPickups
    BY <2>2 DEF PickupsAwaited, StopsAreOver, PostedPickups, HeardPickups
  <2>6. HandsMatchHaulers /\ HaulersHaul /\ CarriedIsHauled
    BY <2>1, <2>3, <2>4 DEF HandsMatchHaulers, HaulersHaul, CarriedIsHauled
  <2> QED
    BY <2>5, <2>6 DEF HaulInv
<1>2. BuildTypes /\ HaulInv /\ [BuildNext]_bwvars => HaulInv'
  <2>1. ASSUME BuildTypes, HaulInv, UNCHANGED bwvars PROVE HaulInv'
    BY <2>1, PhaseStep DEF bwvars, clock, lifevars, itemvars, eventvars, HaulInv, PickupsAwaited, StopsAreOver
  <2> QED
    BY <2>1, HaulStep
<1> QED
  BY <1>1, <1>2, TypesInit, TypesStep, PTL DEF BuildSpec

\* What is hauled, and what is in somebody's hands, agrees with what their activities do,
\* for any number of workers, strangers and items, whoever is killed or interrupted.
THEOREM HaulsAgree == BuildSpec => []HaulsMatchActivities
<1>1. BuildTypes /\ HaulInv => HaulsMatchActivities
  <2> SUFFICES ASSUME BuildTypes, HaulInv, phase = "player" PROVE HaulsMatchActivities
    BY DEF HaulsMatchActivities
  <2>1. \A e \in Entity, i \in Item : ~ StopsHauling(e, i)
    BY NoUpdates DEF StopsHauling, Queue, BuildTypes, QueueTypes
  <2>2. \A e \in Entity \cap alive : \A i \in Item :
           hauler[i] = e \/ i \in hands[e] => Hauls(e, i, {"wait", "carry"})
    BY <2>1 DEF HaulInv, HaulersHaul
  <2>3. \A e \in Entity : act[e].stage = "carry" => act[e].kind = "haul" /\ act[e].thing \in Item
    BY DEF BuildTypes, ActivityTypes, StagesOK
  <2>4. \A e \in Entity \cap alive :
           act[e].stage = "carry" /\ act[e].thing \in alive => hauler[act[e].thing] = e
    BY <2>3 DEF HaulInv, CarriedIsHauled, Hauls
  <2> QED
    BY <2>2, <2>4 DEF HaulsMatchActivities, Hauls
<1> QED
  BY <1>1, HaulInvariant, PTL

-----------------------------------------------------------------------------
(***************************************************************************)
(* That the items reserved for a build are its materials, and that what is *)
(* hauled is in the world.                                                 *)
(*                                                                         *)
(* Nothing locks an item.  That it is left alone once it is reserved rests *)
(* on the events: whoever is after an item that another entity hauls has   *)
(* been told so, or will be before its next poll (ToldOrPosted), so that   *)
(* by the time it is put down nobody else is after it (CarriedAlone,       *)
(* CarriedLeftAlone), and what runs between the drop and the reservation   *)
(* cannot move it again (PutDownFirst).  All that is said of items that no *)
(* stranger was after and of which no worker missed an event.              *)
(***************************************************************************)

\* What the workers believe of such an item is true.
Tracked(i) == i \in alive /\ i \notin strayed

Active == {"new", "walk", "wait", "carry"}
NobodyHauls(i) == \A w \in Entity : ~ Hauls(w, i, Active)

\* Nothing is about to happen to an item.
IsAbout(u, i) == u.op \in ItemOps /\ u.things = {i}
Consumes(u, i) == u.op = "start wip build" /\ i \in u.things
NothingQueued(i) == \A u \in Queue : ~ IsAbout(u, i)

\* An entity has been told that another has picked an item up.
Told(w, e, i) == Hauled(i, e, TRUE) \in Delivered(w)

\* Whoever is after an item lives.
HaulersLive ==
    /\ \A w \in Entity, i \in Item : Hauls(w, i, Active) => w \in alive
    /\ phase = "activity" => todo \subseteq alive

\* A haul begins with an item that nobody hauls, and does not stay new beyond the next poll.
NewHauls ==
    \A w \in Entity, i \in Item : Tracked(i) /\ Hauls(w, i, {"new"}) =>
        /\ hauler[i] = NoOne
        /\ (phase = "activity" /\ w \notin todo) \/ (phase = "poll" /\ w \in todo)

\* Whoever is on its way to an item that another hauls is told so before its next poll.
ToldOrPosted ==
    \A w, e \in Entity, i \in Item :
        Tracked(i) /\ hauler[i] = e /\ w # e /\ Hauls(w, i, {"walk", "wait"}) =>
            PickupPosted(e, i) \/ (Told(w, e, i) /\ (phase = "poll" => w \in todo))

\* An entity hears of one successful pickup of its own at a time.
HeardOnce ==
    \A e, f \in Entity, i \in Item :
        Tracked(i) /\ phase # "deliver" /\ PickupPosted(e, i) => ~ PickupHeard(f, i)

CarriedIsHeard ==
    \A e, f \in Entity, i \in Item : Tracked(i) /\ Hauls(e, i, {"carry"}) => ~ PickupPosted(f, i)

\* Only until the end of the poll in which it heard that it carries its item is anybody
\* else after it.
CarriedAlone ==
    \A e, w \in Entity, i \in Item :
        Tracked(i) /\ Hauls(e, i, {"carry"}) /\ w # e /\ Hauls(w, i, Active) =>
            phase = "poll" /\ w \in todo /\ e \notin todo

CarriedLeftAlone ==
    \A e \in Entity, i \in Item :
        Tracked(i) /\ Hauls(e, i, {"carry"})
        /\ (phase \in {"player", "activity"} \/ (phase = "poll" /\ e \in todo)) => NothingQueued(i)

\* What is queued about an item before its reservation, at n, puts it down at the site.
InOrder(i, e, n) ==
    /\ \A m \in DOMAIN updates : IsAbout(updates[m], i) =>
          m = n \/ (m < n /\ updates[m] \in {Stop(i, e), Drop(i, e, "site")})
    /\ \/ hauler[i] = NoOne
       \/ /\ hauler[i] = e
          /\ \E m, k \in DOMAIN updates : /\ m < k /\ k < n
                                         /\ updates[m] = Stop(i, e) /\ updates[k] = Drop(i, e, "site")
    /\ loc[i] = "site" \/ \E k \in DOMAIN updates : k < n /\ updates[k] = Drop(i, e, "site")

PutDownFirst ==
    \A e \in Entity, i \in Item : \A n \in DOMAIN updates :
        Tracked(i) /\ updates[n] = Reserve(i, e) =>
            /\ phase \in {"poll", "deliver", "end"}
            /\ NobodyHauls(i) /\ i \notin reserved_for
            /\ InOrder(i, e, n)

\* A reserved item lies at the site or is built in, and is left alone.
ReservedLeftAlone ==
    \A i \in reserved_for : Tracked(i) =>
        /\ hauler[i] = NoOne /\ NobodyHauls(i) /\ NothingQueued(i)
        /\ (loc[i] = "site" /\ i \notin consumed) \/ (loc[i] = "none" /\ i \in consumed)
        /\ listed => i \in reserved_materials

\* Only reserved items are consumed.
ConsumedReserved ==
    /\ \A i \in Item : Tracked(i) /\ (i \in consumed \/ loc[i] = "none") => i \in reserved_for
    /\ \A u \in Queue : \A i \in Item : Tracked(i) /\ Consumes(u, i) => i \in reserved_for
    /\ phase # "player" /\ listed => reserved_materials \subseteq reserved_for

ReserveInv ==
    /\ HaulersLive
    /\ NewHauls
    /\ ToldOrPosted
    /\ HeardOnce
    /\ CarriedIsHeard
    /\ CarriedAlone
    /\ CarriedLeftAlone
    /\ PutDownFirst
    /\ ReservedLeftAlone
    /\ ConsumedReserved

-----------------------------------------------------------------------------
(* What the activity system and the runtime do *)

\* What a visit queues: about what the entity hauls; the reservation after what puts the
\* item down; and materials to consume that the job has.
QueuedBy(e, q) ==
    /\ \A u \in Elements(q) : \A j \in Item : IsAbout(u, j) => Hauls(e, j, {"walk", "wait", "carry"})
    /\ \A u \in Elements(q) : \A j \in Item : Consumes(u, j) =>
          phase = "poll" /\ listed /\ j \in reserved_materials
    /\ \A f \in Entity, j \in Item : Reserve(j, f) \in Elements(q) =>
          /\ phase = "poll" /\ Hauls(e, j, {"carry"}) /\ ~ Hauls(e, j, Active)'
          /\ f = e /\ q = <<Stop(j, e), Drop(j, e, "site"), Reserve(j, e)>>

\* Who is not told that somebody else hauls its item goes on.
Untold(e, j) == \A g \in Entity \ {e} : ~ Told(e, g, j)

VisitLeaves(e) ==
    /\ VisitEffect(e)
    /\ UNCHANGED <<loc, reserved_for, consumed, listed, reserved_materials>>
    /\ strayed \subseteq strayed'
    /\ \A f \in Entity \ {e} : sink'[f] = sink[f]
    /\ \E q \in Seq(Update) : updates' = updates \o q /\ QueuedBy(e, q)
    /\ \A j \in Item :
          /\ phase = "poll" /\ Hauls(e, j, Active)' => Hauls(e, j, Active)
          /\ Hauls(e, j, {"new"})' =>
                /\ phase = "activity"
                /\ \/ Hauls(e, j, {"new"})
                   \/ hauler[j] = NoOne /\ (Tracked(j)' => j \notin reserved_for)
          /\ Hauls(e, j, {"walk", "wait"})' =>
                \/ phase = "activity" /\ Hauls(e, j, {"walk", "wait"}) /\ sink'[e] = sink[e]
                \/ phase = "poll" /\ Hauls(e, j, {"new"})
                \/ phase = "poll" /\ Hauls(e, j, {"walk", "wait"}) /\ Untold(e, j)
          /\ phase = "activity" /\ Hauls(e, j, {"carry"})' => Hauls(e, j, {"carry"}) /\ UNCHANGED updates

\* What the updates are about.
LEMMA UpdatesAbout ==
    /\ \A i, e, j : IsAbout(Pickup(i, e), j) <=> i = j
    /\ \A i, e, j : IsAbout(Stop(i, e), j) <=> i = j
    /\ \A i, e, to, j : IsAbout(Drop(i, e, to), j) <=> i = j
    /\ \A i, e, j : IsAbout(Reserve(i, e), j) <=> i = j
    /\ \A is, e, j : ~ IsAbout(Consume(is, e), j) /\ ~ IsAbout(Destroy(is, e), j)
<1> USE DEF IsAbout, ItemOps
<1>1. \A i, e, j : IsAbout(Pickup(i, e), j) <=> i = j
  BY DEF Pickup, Queued
<1>2. \A i, e, j : IsAbout(Stop(i, e), j) <=> i = j
  BY DEF Stop, Queued
<1>3. \A i, e, to, j : IsAbout(Drop(i, e, to), j) <=> i = j
  BY DEF Drop, Queued
<1>4. \A i, e, j : IsAbout(Reserve(i, e), j) <=> i = j
  BY DEF Reserve, Queued
<1>5. \A is, e, j : ~ IsAbout(Consume(is, e), j) /\ ~ IsAbout(Destroy(is, e), j)
  BY DEF Consume, Destroy, Queued
<1> QED
  BY <1>1, <1>2, <1>3, <1>4, <1>5

LEMMA UpdatesConsume ==
    /\ \A i, e, j : ~ Consumes(Pickup(i, e), j) /\ ~ Consumes(Stop(i, e), j) /\ ~ Consumes(Reserve(i, e), j)
    /\ \A i, e, to, j : ~ Consumes(Drop(i, e, to), j)
    /\ \A is, e, j : (Consumes(Consume(is, e), j) <=> j \in is) /\ ~ Consumes(Destroy(is, e), j)
<1> USE DEF Consumes
<1>1. \A i, e, j : ~ Consumes(Pickup(i, e), j) /\ ~ Consumes(Stop(i, e), j) /\ ~ Consumes(Reserve(i, e), j)
  BY DEF Pickup, Stop, Reserve, Queued
<1>2. \A i, e, to, j : ~ Consumes(Drop(i, e, to), j)
  BY DEF Drop, Queued
<1>3. \A is, e, j : (Consumes(Consume(is, e), j) <=> j \in is) /\ ~ Consumes(Destroy(is, e), j)
  BY DEF Consume, Destroy, Queued
<1> QED
  BY <1>1, <1>2, <1>3

\* A reservation is none of the others.
LEMMA ReservesDiffer ==
    /\ \A i, e, j, f : Reserve(i, e) # Pickup(j, f) /\ Reserve(i, e) # Stop(j, f)
    /\ \A i, e, j, f, to : Reserve(i, e) # Drop(j, f, to)
    /\ \A i, e, is, f : Reserve(i, e) # Consume(is, f) /\ Reserve(i, e) # Destroy(is, f)
    /\ \A i, e, j, f : Reserve(i, e) = Reserve(j, f) <=> i = j /\ e = f
<1>1. \A i, e, j, f : Reserve(i, e) # Pickup(j, f) /\ Reserve(i, e) # Stop(j, f)
  BY DEF Pickup, Stop, Reserve, Queued
<1>2. \A i, e, j, f, to : Reserve(i, e) # Drop(j, f, to)
  BY DEF Drop, Reserve, Queued
<1>3. \A i, e, is, f : Reserve(i, e) # Consume(is, f) /\ Reserve(i, e) # Destroy(is, f)
  BY DEF Consume, Destroy, Reserve, Queued
<1>4. \A i, e, j, f : Reserve(i, e) = Reserve(j, f) <=> i = j /\ e = f
  BY DEF Reserve, Queued
<1> QED
  BY <1>1, <1>2, <1>3, <1>4

LEMMA NothingMore ==
    ASSUME BuildTypes, NEW e \in Entity, UNCHANGED updates
    PROVE  \E q \in Seq(Update) : updates' = updates \o q /\ QueuedBy(e, q)
<1>1. updates' = updates \o <<>>
  BY DEF BuildTypes, QueueTypes
<1>2. QueuedBy(e, <<>>)
  BY NoUpdates DEF QueuedBy
<1> QED
  BY <1>1, <1>2, NoUpdates

\* A dropped subactivity has nothing to do with the job.
LEMMA AbandonQueued ==
    ASSUME BuildTypes, NEW e \in Entity
    PROVE  Abandon(e) \in Seq(Update) /\ QueuedBy(e, Abandon(e))
<1> DEFINE i == act[e].thing
           q == Abandon(e)
<1>1. /\ q \in Seq(Update)
      /\ Hauls(e, i, {"wait", "carry"}) => i \in Item /\ Elements(q) = {Stop(i, e), Drop(i, e, "feet")}
      /\ ~ Hauls(e, i, {"wait", "carry"}) => q = <<>>
  BY AbandonTypes DEF BuildTypes
<1>2. CASE ~ Hauls(e, i, {"wait", "carry"})
  BY <1>1, <1>2, NoUpdates DEF QueuedBy
<1>3. CASE Hauls(e, i, {"wait", "carry"})
  <2>1. Elements(q) = {Stop(i, e), Drop(i, e, "feet")}
    BY <1>1, <1>3
  <2>2. \A u \in Elements(q) : \A j \in Item : IsAbout(u, j) => Hauls(e, j, {"walk", "wait", "carry"})
    BY <1>3, <2>1, UpdatesAbout DEF Hauls
  <2>3. \A u \in Elements(q) : \A j \in Item : ~ Consumes(u, j)
    BY <2>1, UpdatesConsume
  <2>4. \A f, j : Reserve(j, f) \notin Elements(q)
    BY <2>1, ReservesDiffer
  <2> HIDE DEF q
  <2>5. QueuedBy(e, q)
    BY <2>2, <2>3, <2>4 DEF QueuedBy
  <2> QED
    BY <1>1, <2>5 DEF q
<1> QED
  BY <1>2, <1>3

\* A poll that brings its activity to a stage, and queues something.
LEMMA ProceedLeaves ==
    ASSUME BuildTypes, NEW e \in Entity, VisitEffect(e), Polled(e), NEW stage, NEW q \in Seq(Update),
           act' = [act EXCEPT ![e].stage = stage], sink' = [sink EXCEPT ![e] = <<>>],
           updates' = updates \o q, QueuedBy(e, q),
           stage \in Active => act[e].stage \in Active,
           stage # "new",
           \A j \in Item : stage \in {"walk", "wait"} /\ Hauls(e, j, Active) =>
              act[e].stage = "new" \/ (act[e].stage \in {"walk", "wait"} /\ Untold(e, j))
    PROVE  VisitLeaves(e)
<1>0. ActivityTypes /\ sink \in [Entity -> Seq(Event)]
  BY DEF BuildTypes, QueueTypes
<1>1. /\ phase = "poll" /\ UNCHANGED <<loc, reserved_for, consumed, listed, reserved_materials, strayed>>
  BY DEF Polled, itemvars
<1>2. \A f \in Entity \ {e} : sink'[f] = sink[f]
  BY <1>0
<1>3. KeepsActivity(e) /\ act'[e].stage = stage
  BY <1>0, StageChanged
<1>4. \A j, stages : Hauls(e, j, stages)' <=> act[e].kind = "haul" /\ act[e].thing = j /\ stage \in stages
  BY <1>3 DEF Hauls, KeepsActivity
<1>5. \A j, stages : Hauls(e, j, stages) <=> act[e].kind = "haul" /\ act[e].thing = j /\ act[e].stage \in stages
  BY DEF Hauls
<1>6. \A j \in Item : Hauls(e, j, Active)' => Hauls(e, j, Active)
  BY <1>4, <1>5
<1>7. \A j \in Item : ~ Hauls(e, j, {"new"})'
  BY <1>4
<1>8. \A j \in Item : Hauls(e, j, {"walk", "wait"})' =>
         Hauls(e, j, {"new"}) \/ (Hauls(e, j, {"walk", "wait"}) /\ Untold(e, j))
  BY <1>4, <1>5 DEF Active
<1> QED
  BY <1>1, <1>2, <1>6, <1>7, <1>8 DEF VisitLeaves

\* Who has not been told of a pickup hears of none.
LEMMA NotCancelled ==
    ASSUME BuildTypes, NEW e \in Entity, ~ Cancelled(e), NEW j \in Item
    PROVE  Untold(e, j)
<1> SUFFICES ASSUME NEW g \in Entity \ {e}, Told(e, g, j) PROVE FALSE
  BY DEF Untold
<1>1. PICK n \in DOMAIN sink[e] : sink[e][n] = Hauled(j, g, TRUE)
  BY DEF Told, Delivered, Elements
<1>2. IsDestructiveFor(Hauled(j, g, TRUE), e)
  BY DEF IsDestructiveFor, Hauled
<1> QED
  BY <1>1, <1>2 DEF Cancelled

LEMMA WalkLeaves ==
    ASSUME BuildTypes, HaulInv, NEW e \in Entity, KeepWalking(e)
    PROVE  VisitLeaves(e)
<1> DEFINE stage == IF act[e].stage = "carry" THEN "carry" ELSE "walk"
<1>1. VisitEffect(e)
  BY KeepWalkingEffect
<1>2. Polled(e) /\ act[e].stage \in {"new", "walk", "carry"} /\ ~ Cancelled(e)
  BY DEF KeepWalking
<1>3. /\ act' = [act EXCEPT ![e].stage = stage] /\ sink' = [sink EXCEPT ![e] = <<>>]
      /\ updates' = updates \o <<>>
  BY DEF KeepWalking, Proceed
<1>4. <<>> \in Seq(Update) /\ QueuedBy(e, <<>>)
  BY NoUpdates DEF QueuedBy
<1>5. stage \in Active /\ act[e].stage \in Active /\ stage # "new"
      /\ (stage \in {"walk", "wait"} => act[e].stage \in {"new", "walk", "wait"})
  BY <1>2 DEF Active
<1>6. \A j \in Item : Untold(e, j)
  BY <1>2, NotCancelled
<1> HIDE DEF stage
<1> QED
  BY <1>1, <1>2, <1>3, <1>4, <1>5, <1>6, ProceedLeaves

LEMMA FailLeaves ==
    ASSUME BuildTypes, HaulInv, NEW e \in Entity, Polled(e), Proceed(e, "done", Abandon(e))
    PROVE  VisitLeaves(e)
<1>1. VisitEffect(e)
  BY FailEffect
<1>2. /\ act' = [act EXCEPT ![e].stage = "done"] /\ sink' = [sink EXCEPT ![e] = <<>>]
      /\ updates' = updates \o Abandon(e)
  BY DEF Proceed
<1>3. Abandon(e) \in Seq(Update) /\ QueuedBy(e, Abandon(e))
  BY AbandonQueued
<1> DEFINE q == Abandon(e)
           stage == "done"
<1>4. stage \notin Active /\ stage \notin {"walk", "wait"} /\ stage # "new"
  BY DEF Active
<1>5. /\ act' = [act EXCEPT ![e].stage = stage] /\ sink' = [sink EXCEPT ![e] = <<>>]
      /\ updates' = updates \o q /\ q \in Seq(Update) /\ QueuedBy(e, q)
  BY <1>2, <1>3
<1> HIDE DEF q, stage
<1> QED
  BY <1>1, <1>4, <1>5, ProceedLeaves

LEMMA ArriveLeaves ==
    ASSUME BuildTypes, HaulInv, NEW e \in Entity, ArriveAtItem(e)
    PROVE  VisitLeaves(e)
<1> DEFINE i == act[e].thing
           q == <<Pickup(i, e)>>
<1>1. VisitEffect(e)
  BY ArriveEffect
<1>2. Polled(e) /\ Hauls(e, i, {"walk"}) /\ i \in Item /\ ~ Cancelled(e) /\ act[e].stage = "walk"
  BY DEF ArriveAtItem, BuildTypes, ActivityTypes, StagesOK, Hauls
<1>3. /\ act' = [act EXCEPT ![e].stage = "wait"] /\ sink' = [sink EXCEPT ![e] = <<>>]
      /\ updates' = updates \o q
  BY DEF ArriveAtItem, Proceed
<1>4. \A j \in Item : Untold(e, j)
  BY <1>2, NotCancelled
<1> HIDE DEF i
<1>5. Pickup(i, e) \in Update
  BY <1>2, UpdateTypes
<1>6. q \in Seq(Update) /\ Elements(q) = {Pickup(i, e)}
  BY <1>5 DEF Elements
<1>7. QueuedBy(e, q)
  <2>1. \A u \in Elements(q) : \A j \in Item : IsAbout(u, j) => Hauls(e, j, {"walk", "wait", "carry"})
    BY <1>2, <1>6, UpdatesAbout DEF Hauls
  <2>2. \A u \in Elements(q) : \A j \in Item : ~ Consumes(u, j)
    BY <1>6, UpdatesConsume
  <2>3. \A f, j : Reserve(j, f) \notin Elements(q)
    BY <1>6, ReservesDiffer
  <2> QED
    BY <2>1, <2>2, <2>3 DEF QueuedBy
<1> HIDE DEF q
<1> QED
  BY <1>1, <1>2, <1>3, <1>4, <1>6, <1>7, ProceedLeaves DEF Active

LEMMA PutDownLeaves ==
    ASSUME BuildTypes, HaulInv, NEW e \in Entity, PutDown(e)
    PROVE  VisitLeaves(e)
<1> DEFINE i == act[e].thing
           q == IF e \in Worker THEN <<Stop(i, e), Drop(i, e, "site"), Reserve(i, e)>>
                ELSE <<Stop(i, e), Drop(i, e, "away")>>
<1>1. VisitEffect(e)
  BY PutDownEffect
<1>2. Polled(e) /\ Hauls(e, i, {"carry"}) /\ i \in Item
  BY DEF PutDown, BuildTypes, ActivityTypes, StagesOK, Hauls
<1>3. /\ act' = [act EXCEPT ![e].stage = "done"] /\ sink' = [sink EXCEPT ![e] = <<>>]
      /\ updates' = updates \o q
  BY DEF PutDown, Proceed
<1>4. phase = "poll" /\ \A j \in Item : ~ Hauls(e, j, Active)'
  <2>1. act'[e].stage = "done"
    BY <1>3, StageChanged DEF BuildTypes
  <2> QED
    BY <1>2, <2>1 DEF Polled, Hauls, Active
<1> HIDE DEF i
<1>5. /\ Stop(i, e) \in Update /\ Reserve(i, e) \in Update
      /\ Drop(i, e, "site") \in Update /\ Drop(i, e, "away") \in Update
  BY <1>2, UpdateTypes DEF Place
<1>6. \A j \in Item : i = j => Hauls(e, j, {"walk", "wait", "carry"}) /\ Hauls(e, j, {"carry"})
  BY <1>2 DEF Hauls
<1>7. q \in Seq(Update) /\ QueuedBy(e, q)
  <2>1. CASE e \in Worker
    <3>1. q = <<Stop(i, e), Drop(i, e, "site"), Reserve(i, e)>>
      BY <2>1
    <3> HIDE DEF q
    <3>2. q \in Seq(Update) /\ Elements(q) = {Stop(i, e), Drop(i, e, "site"), Reserve(i, e)}
      BY <1>5, <3>1 DEF Elements
    <3>3. \A u \in Elements(q) : \A j \in Item : IsAbout(u, j) => Hauls(e, j, {"walk", "wait", "carry"})
      BY <1>6, <3>2, UpdatesAbout
    <3>4. \A u \in Elements(q) : \A j \in Item : ~ Consumes(u, j)
      BY <3>2, UpdatesConsume
    <3>5. \A f, j : Reserve(j, f) \in Elements(q) => f = e /\ i = j
      BY <3>2, ReservesDiffer
    <3> QED
      BY <1>4, <1>6, <3>1, <3>2, <3>3, <3>4, <3>5 DEF QueuedBy
  <2>2. CASE e \notin Worker
    <3>1. q = <<Stop(i, e), Drop(i, e, "away")>>
      BY <2>2
    <3> HIDE DEF q
    <3>2. q \in Seq(Update) /\ Elements(q) = {Stop(i, e), Drop(i, e, "away")}
      BY <1>5, <3>1 DEF Elements
    <3>3. \A u \in Elements(q) : \A j \in Item : IsAbout(u, j) => Hauls(e, j, {"walk", "wait", "carry"})
      BY <1>6, <3>2, UpdatesAbout
    <3>4. \A u \in Elements(q) : \A j \in Item : ~ Consumes(u, j)
      BY <3>2, UpdatesConsume
    <3>5. \A f, j : Reserve(j, f) \notin Elements(q)
      BY <3>2, ReservesDiffer
    <3> QED
      BY <3>2, <3>3, <3>4, <3>5 DEF QueuedBy
  <2> QED
    BY <2>1, <2>2
<1> DEFINE stage == "done"
<1>8. /\ act' = [act EXCEPT ![e].stage = stage]
      /\ stage \notin Active /\ stage \notin {"walk", "wait"} /\ stage # "new"
  BY <1>3 DEF Active
<1> HIDE DEF q, stage
<1> QED
  BY <1>1, <1>2, <1>3, <1>7, <1>8, ProceedLeaves

LEMMA HearLeaves ==
    ASSUME BuildTypes, HaulInv, NEW e \in Entity, HearPickup(e)
    PROVE  VisitLeaves(e)
<1>1. VisitEffect(e)
  BY PollsEffect DEF PollsActivity
<1>2. Polled(e) /\ act[e].stage = "wait"
  BY DEF HearPickup
<1>3. CASE Answers(e) = {} /\ Proceed(e, "wait", <<>>)
  <2>1. /\ act' = [act EXCEPT ![e].stage = "wait"] /\ sink' = [sink EXCEPT ![e] = <<>>]
        /\ updates' = updates \o <<>>
    BY <1>3 DEF Proceed
  <2>2. ~ Cancelled(e)
    BY <1>3 DEF Cancelled, Answers
  <2>3. \A j \in Item : Untold(e, j)
    BY <2>2, NotCancelled
  <2>4. <<>> \in Seq(Update) /\ QueuedBy(e, <<>>)
    BY NoUpdates DEF QueuedBy
  <2> QED
    BY <1>1, <1>2, <2>1, <2>3, <2>4, ProceedLeaves DEF Active
<1>4. CASE Proceed(e, "done", Abandon(e))
  BY <1>2, <1>4, FailLeaves
<1>5. ASSUME NEW n \in DOMAIN sink[e], UNCHANGED updates,
             act' = [act EXCEPT ![e].stage = "carry"],
             sink' = [sink EXCEPT ![e] = SubSeq(@, n + 1, Len(@))]
      PROVE  VisitLeaves(e)
  <2>1. /\ phase = "poll" /\ UNCHANGED <<loc, reserved_for, consumed, listed, reserved_materials, strayed>>
    BY <1>2 DEF Polled, itemvars
  <2>2. \A f \in Entity \ {e} : sink'[f] = sink[f]
    BY <1>5 DEF BuildTypes, QueueTypes
  <2>3. KeepsActivity(e) /\ act'[e].stage = "carry"
    BY <1>5, StageChanged DEF BuildTypes
  <2>4. \E q \in Seq(Update) : updates' = updates \o q /\ QueuedBy(e, q)
    BY <1>5, NothingMore
  <2>5. \A j \in Item : /\ Hauls(e, j, Active)' => Hauls(e, j, Active)
                        /\ ~ Hauls(e, j, {"new"})' /\ ~ Hauls(e, j, {"walk", "wait"})'
    BY <1>2, <2>3 DEF Hauls, KeepsActivity, Active
  <2> QED
    BY <1>1, <2>1, <2>2, <2>4, <2>5 DEF VisitLeaves
<1>6. \A n \in Answers(e) : n \in DOMAIN sink[e]
  BY DEF Answers
<1> QED
  BY <1>3, <1>4, <1>5, <1>6 DEF HearPickup

\* A build hauls nothing.
LEMMA BuildLeaves ==
    ASSUME BuildTypes, NEW e \in Entity, VisitEffect(e), Polled(e), UNCHANGED sink,
           act[e].kind = "build", act'[e].kind # "haul",
           \E q \in Seq(Update) : updates' = updates \o q /\ QueuedBy(e, q)
    PROVE  VisitLeaves(e)
<1>1. /\ phase = "poll" /\ UNCHANGED <<loc, reserved_for, consumed, listed, reserved_materials, strayed>>
  BY DEF Polled, itemvars
<1>2. \A j, stages : ~ Hauls(e, j, stages) /\ ~ Hauls(e, j, stages)'
  BY DEF Hauls
<1> QED
  BY <1>1, <1>2 DEF VisitLeaves

LEMMA OneMore ==
    ASSUME BuildTypes, NEW e \in Entity, NEW u \in Update, updates' = Append(updates, u),
           \A j : ~ IsAbout(u, j), \A f, j : Reserve(j, f) # u,
           \A j \in Item : Consumes(u, j) => phase = "poll" /\ listed /\ j \in reserved_materials
    PROVE  \E q \in Seq(Update) : updates' = updates \o q /\ QueuedBy(e, q)
<1> DEFINE q == <<u>>
<1>1. q \in Seq(Update) /\ Elements(q) = {u}
  BY DEF Elements
<1>2. updates' = updates \o q
  BY DEF BuildTypes, QueueTypes
<1> HIDE DEF q
<1>3. QueuedBy(e, q)
  BY <1>1 DEF QueuedBy
<1> QED
  BY <1>1, <1>2, <1>3

LEMMA PollsLeave ==
    ASSUME BuildTypes, HaulInv, NEW e \in Entity, PollsActivity(e) \/ BuildStep(e)
    PROVE  VisitLeaves(e)
<1>0. ActivityTypes /\ reserved_materials \in SUBSET Item
  BY DEF BuildTypes, JobTypes
<1>1. VisitEffect(e)
  BY PollsEffect
<1>2. CASE ReachBlock(e)
  <2> DEFINE u == Consume(reserved_materials, e)
  <2>1. /\ Polled(e) /\ act[e].kind = "build" /\ listed /\ UNCHANGED sink /\ updates' = Append(updates, u)
    BY <1>2 DEF ReachBlock
  <2>2. act'[e].kind # "haul"
    BY <1>0, <1>2, <2>1, PollKeeps DEF PollsActivity, KeepsActivity
  <2>3. /\ u \in Update /\ \A j : ~ IsAbout(u, j)
        /\ \A j \in Item : Consumes(u, j) => j \in reserved_materials
    BY <1>0, JobUpdateTypes, UpdatesAbout, UpdatesConsume
  <2>4. \A f, j : Reserve(j, f) # u
    BY ReservesDiffer
  <2>5. phase = "poll"
    BY <2>1 DEF Polled
  <2> HIDE DEF u
  <2> QED
    BY <1>1, <2>1, <2>2, <2>3, <2>4, <2>5, OneMore, BuildLeaves
<1>3. CASE WaitToStep(e)
  <2>1. Polled(e) /\ act[e].kind = "build" /\ UNCHANGED <<act, updates, sink>>
    BY <1>0, <1>3 DEF WaitToStep, ActivityTypes, StagesOK
  <2>2. \E q \in Seq(Update) : updates' = updates \o q /\ QueuedBy(e, q)
    BY <2>1, NothingMore
  <2> QED
    BY <1>1, <2>1, <2>2, BuildLeaves
<1>4. CASE BuildStep(e)
  <2> DEFINE u == Destroy(act[e].materials, e)
  <2>1. Polled(e) /\ act[e].kind = "build" /\ act'[e].kind # "haul"
    BY <1>0, <1>4, BuildKeeps
  <2>2. UNCHANGED sink /\ (UNCHANGED updates \/ updates' = Append(updates, u))
    BY <1>4 DEF BuildStep
  <2>3. act[e].materials \in SUBSET Item
    BY <1>0 DEF ActivityTypes, Activity
  <2>4. /\ u \in Update /\ \A j : ~ IsAbout(u, j)
        /\ \A j : ~ Consumes(u, j)
    BY <2>3, JobUpdateTypes, UpdatesAbout, UpdatesConsume
  <2>5. \A f, j : Reserve(j, f) # u
    BY ReservesDiffer
  <2> HIDE DEF u
  <2>6. \E q \in Seq(Update) : updates' = updates \o q /\ QueuedBy(e, q)
    BY <2>2, <2>4, <2>5, OneMore, NothingMore
  <2> QED
    BY <1>1, <2>1, <2>2, <2>6, BuildLeaves
<1>5. CASE Fail(e)
  BY <1>5, FailLeaves DEF Fail
<1> QED
  BY <1>2, <1>3, <1>4, <1>5, WalkLeaves, ArriveLeaves, PutDownLeaves, HearLeaves DEF PollsActivity

\* The activity system.
LEMMA BeginLeaves ==
    ASSUME BuildTypes, NEW e \in Entity, NEW activity \in Activity, VisitEffect(e),
           Visit(e), Begin(e, activity), activity.stage \in {"none", "new"}, strayed \subseteq strayed',
           \A j \in Item : activity.kind = "haul" /\ activity.thing = j =>
              hauler[j] = NoOne /\ (Tracked(j)' => j \notin reserved_for)
    PROVE  VisitLeaves(e)
<1>1. phase = "activity" /\ UNCHANGED <<loc, reserved_for, consumed, listed, reserved_materials>>
  BY DEF Visit, itemvars, jobvars
<1>2. act'[e] = activity /\ \A f \in Entity \ {e} : sink'[f] = sink[f]
  BY DEF Begin, BuildTypes, ActivityTypes, QueueTypes
<1>3. \E q \in Seq(Update) : updates' = updates \o q /\ QueuedBy(e, q)
  <2>1. updates' = updates \o Abandon(e)
    BY DEF Begin
  <2> QED
    BY <2>1, AbandonQueued
<1>4. \A j : ~ Hauls(e, j, {"walk", "wait"})' /\ ~ Hauls(e, j, {"carry"})'
  BY <1>2 DEF Hauls
<1>5. \A j \in Item : Hauls(e, j, {"new"})' => activity.kind = "haul" /\ activity.thing = j
  BY <1>2 DEF Hauls
<1> QED
  BY <1>1, <1>2, <1>3, <1>4, <1>5 DEF VisitLeaves

LEMMA VisitsLeave ==
    ASSUME BuildTypes, HaulInv, NEW e \in Entity,
           \/ Interrupt(e) \/ Collect(e) \/ StartBuild(e) \/ Continue(e) \/ \E i \in Item : StartHaul(e, i)
    PROVE  VisitLeaves(e)
<1>0. ActivityTypes /\ sink \in [Entity -> Seq(Event)] /\ VisitEffect(e)
  BY VisitsEffect DEF BuildTypes, QueueTypes
<1>1. ASSUME NEW i \in Item, StartHaul(e, i) PROVE VisitLeaves(e)
  <2>1. Visit(e) /\ Begin(e, Hauling(i)) /\ hauler[i] = NoOne
    BY <1>1 DEF StartHaul, Offered
  <2>2. Hauling(i) \in Activity /\ Hauling(i).thing = i /\ Hauling(i).stage = "new"
    BY NewActivities DEF Hauling, Idle
  <2>3. strayed \subseteq strayed' /\ (i \notin strayed' => i \notin reserved_for)
    BY <1>1 DEF StartHaul, Offered, Entity
  <2> HIDE DEF Hauling
  <2> QED
    BY <1>0, <2>1, <2>2, <2>3, BeginLeaves DEF Tracked
<1>2. CASE StartBuild(e)
  <2>1. Building \in Activity /\ Building.kind = "build" /\ Building.stage = "new"
    BY DEF Building, Idle, Activity
  <2>2. Visit(e) /\ Begin(e, Building) /\ UNCHANGED strayed
    BY <1>2 DEF StartBuild
  <2> HIDE DEF Building
  <2> QED
    BY <1>0, <2>1, <2>2, BeginLeaves
<1>3. CASE Interrupt(e)
  <2>1. Idle \in Activity /\ Idle.kind = "idle" /\ Idle.stage = "none"
    BY DEF Idle, Activity
  <2>2. Visit(e) /\ Begin(e, Idle) /\ UNCHANGED strayed
    BY <1>3 DEF Interrupt
  <2> HIDE DEF Idle
  <2> QED
    BY <1>0, <2>1, <2>2, BeginLeaves
<1>4. ASSUME Visit(e) PROVE phase = "activity" /\ UNCHANGED <<loc, reserved_for, consumed, listed, reserved_materials>>
  BY <1>4 DEF Visit, itemvars, jobvars
<1>5. CASE Continue(e)
  <2>1. Visit(e) /\ UNCHANGED <<act, updates, sink, strayed>> /\ phase # "poll"
    BY <1>5 DEF Continue, Visit
  <2>2. \A j, stages : Hauls(e, j, stages)' <=> Hauls(e, j, stages)
    BY <2>1 DEF Hauls
  <2>3. \E q \in Seq(Update) : updates' = updates \o q /\ QueuedBy(e, q)
    BY <2>1, NothingMore
  <2> QED
    BY <1>0, <1>4, <2>1, <2>2, <2>3 DEF VisitLeaves
<1>6. CASE Collect(e)
  <2>1. Visit(e) /\ UNCHANGED <<updates, strayed>>
    BY <1>6 DEF Collect
  <2>2. act'[e].kind = "idle" /\ \A f \in Entity \ {e} : sink'[f] = sink[f]
    BY <1>0, <1>6 DEF Collect, ActivityTypes, Idle
  <2>3. \A j, stages : ~ Hauls(e, j, stages)'
    BY <2>2 DEF Hauls
  <2>4. \E q \in Seq(Update) : updates' = updates \o q /\ QueuedBy(e, q)
    BY <2>1, NothingMore
  <2> QED
    BY <1>0, <1>4, <2>1, <2>2, <2>3, <2>4 DEF VisitLeaves
<1> QED
  BY <1>1, <1>2, <1>3, <1>5, <1>6

-----------------------------------------------------------------------------
(* A visit preserves the invariant *)

\* What a visit leaves alone.
LEMMA VisitFrame ==
    ASSUME BuildTypes, NEW e \in Entity, VisitLeaves(e)
    PROVE  /\ phase \in {"activity", "poll"} /\ e \in todo /\ todo' = todo \ {e}
           /\ UNCHANGED <<phase, alive, hauler, loc, reserved_for, consumed, listed, reserved_materials>>
           /\ \A i \in Item : Tracked(i)' => Tracked(i)
           /\ \A f \in Entity \ {e} : \A j, stages : Hauls(f, j, stages)' <=> Hauls(f, j, stages)
           /\ \A f \in Entity \ {e} : \A g, j : Told(f, g, j)' <=> Told(f, g, j)
           /\ \A g, j : PickupPosted(g, j)' <=> PickupPosted(g, j)
           /\ \A f \in Entity, j \in Item : PickupHeard(f, j)' => PickupHeard(f, j)
           /\ \A f \in Entity : f # NoOne
<1> USE DEF VisitLeaves
<1>1. VisitEffect(e) /\ OnlyFor(e)
  BY DEF VisitEffect
<1>2. \A i \in Item : Tracked(i)' => Tracked(i)
  BY <1>1 DEF Tracked, OnlyFor
<1>3. \A f \in Entity \ {e} : \A j, stages : Hauls(f, j, stages)' <=> Hauls(f, j, stages)
  BY <1>1 DEF Hauls, OnlyFor
<1>4. \A f \in Entity \ {e} : \A g, j : Told(f, g, j)' <=> Told(f, g, j)
  BY DEF Told, Delivered
<1>5. \A g, j : PickupPosted(g, j)' <=> PickupPosted(g, j)
  BY <1>1 DEF PickupPosted, Posted, OnlyFor
<1>6. \A f \in Entity, j \in Item : PickupHeard(f, j)' => PickupHeard(f, j)
  BY <1>1 DEF OnlyFor, VisitEffect
<1>7. \A f \in Entity : f # NoOne
  BY BuildAssumption DEF Entity
<1>8. /\ phase \in {"activity", "poll"} /\ e \in todo /\ todo' = todo \ {e}
      /\ UNCHANGED <<phase, alive, hauler, loc, reserved_for, consumed, listed, reserved_materials>>
  BY <1>1 DEF OnlyFor, VisitEffect
<1> QED
  BY <1>2, <1>3, <1>4, <1>5, <1>6, <1>7, <1>8

\* What the visited entity is after: something it was after before, unless it has
\* just begun, or something it has just heard that it carries.
LEMMA VisitedHauls ==
    ASSUME BuildTypes, HaulInv, ReserveInv, NEW e \in Entity, VisitLeaves(e), NEW j \in Item
    PROVE  /\ phase = "poll" /\ Hauls(e, j, Active)' => Hauls(e, j, Active)
           /\ phase = "activity" /\ Tracked(j)' /\ Hauls(e, j, Active)' =>
                 \/ hauler[j] = NoOne /\ j \notin reserved_for /\ Hauls(e, j, {"new"})'
                 \/ Hauls(e, j, {"walk", "wait", "carry"})
           /\ Tracked(j)' /\ Hauls(e, j, {"new"})' => phase = "activity" /\ hauler[j] = NoOne
           /\ Tracked(j)' /\ Hauls(e, j, {"walk", "wait"})' =>
                 \/ phase = "activity" /\ Hauls(e, j, {"walk", "wait"}) /\ sink'[e] = sink[e]
                 \/ phase = "poll" /\ hauler[j] = NoOne
                 \/ phase = "poll" /\ Hauls(e, j, {"walk", "wait"}) /\ Untold(e, j)
           /\ Hauls(e, j, {"carry"})' => Hauls(e, j, {"carry"}) \/ (phase = "poll" /\ PickupHeard(e, j))
           /\ phase = "activity" /\ Hauls(e, j, {"carry"})' => UNCHANGED updates
<1>1. /\ phase \in {"activity", "poll"} /\ e \in todo
      /\ Tracked(j)' => Tracked(j)
  BY VisitFrame
<1>2. Tracked(j) /\ Hauls(e, j, {"new"}) => hauler[j] = NoOne /\ phase = "poll"
  BY <1>1 DEF ReserveInv, NewHauls
<1>3. /\ phase = "poll" /\ Hauls(e, j, Active)' => Hauls(e, j, Active)
      /\ phase = "activity" /\ Hauls(e, j, {"carry"})' => Hauls(e, j, {"carry"}) /\ UNCHANGED updates
  BY DEF VisitLeaves
<1>4. Tracked(j)' /\ Hauls(e, j, {"new"})' =>
         phase = "activity" /\ hauler[j] = NoOne /\ j \notin reserved_for
  BY <1>1, <1>2 DEF VisitLeaves
<1>5. Tracked(j)' /\ Hauls(e, j, {"walk", "wait"})' =>
         \/ phase = "activity" /\ Hauls(e, j, {"walk", "wait"}) /\ sink'[e] = sink[e]
         \/ phase = "poll" /\ hauler[j] = NoOne
         \/ phase = "poll" /\ Hauls(e, j, {"walk", "wait"}) /\ Untold(e, j)
  BY <1>1, <1>2 DEF VisitLeaves
<1>6. Hauls(e, j, {"carry"})' => Hauls(e, j, {"carry"}) \/ (phase = "poll" /\ PickupHeard(e, j))
  BY <1>1, <1>3 DEF VisitLeaves, VisitEffect
<1>7. phase = "activity" /\ Tracked(j)' /\ Hauls(e, j, Active)' =>
         \/ hauler[j] = NoOne /\ j \notin reserved_for /\ Hauls(e, j, {"new"})'
         \/ Hauls(e, j, {"walk", "wait", "carry"})
  <2> SUFFICES ASSUME phase = "activity", Tracked(j)', Hauls(e, j, Active)'
               PROVE  \/ hauler[j] = NoOne /\ j \notin reserved_for /\ Hauls(e, j, {"new"})'
                      \/ Hauls(e, j, {"walk", "wait", "carry"})
    OBVIOUS
  <2>1. Hauls(e, j, {"new"})' \/ Hauls(e, j, {"walk", "wait"})' \/ Hauls(e, j, {"carry"})'
    BY DEF Hauls, Active
  <2>2. Hauls(e, j, {"walk", "wait"})' => Hauls(e, j, {"walk", "wait", "carry"})
    BY <1>5 DEF Hauls
  <2>3. Hauls(e, j, {"carry"})' => Hauls(e, j, {"walk", "wait", "carry"})
    BY <1>3 DEF Hauls
  <2> QED
    BY <1>4, <2>1, <2>2, <2>3
<1> QED
  BY <1>3, <1>4, <1>5, <1>6, <1>7

\* A carried item is its hauler's.
LEMMA CarriedByOne ==
    ASSUME HaulInv, NEW e \in Entity, NEW i \in Item, Tracked(i),
           Hauls(e, i, {"carry"}) \/ PickupHeard(e, i)
    PROVE  hauler[i] = e
BY DEF HaulInv, CarriedIsHauled, HeardPickups, Tracked

LEMMA VisitAlone ==
    ASSUME BuildTypes, HaulInv, ReserveInv, NEW e \in Entity, VisitLeaves(e)
    PROVE  CarriedAlone'
<1> USE DEF ReserveInv
<1> SUFFICES ASSUME NEW f \in Entity, NEW w \in Entity, NEW i \in Item, Tracked(i)',
                    Hauls(f, i, {"carry"})', w # f, Hauls(w, i, Active)'
             PROVE  phase' = "poll" /\ w \in todo' /\ f \notin todo'
  BY DEF CarriedAlone
<1>1. /\ phase \in {"activity", "poll"} /\ e \in todo /\ todo' = todo \ {e} /\ Tracked(i) /\ UNCHANGED phase
      /\ \A g \in Entity \ {e} : \A stages : Hauls(g, i, stages)' <=> Hauls(g, i, stages)
      /\ f # NoOne /\ w # NoOne
  BY VisitFrame
<1>2. CASE f # e /\ w # e
  BY <1>1, <1>2 DEF CarriedAlone
<1>3. CASE w = e
  <2>1. Hauls(f, i, {"carry"}) /\ hauler[i] = f
    BY <1>1, <1>3, CarriedByOne
  <2>2. ~ Hauls(e, i, {"new"})'
    BY <1>1, <2>1, VisitedHauls
  <2>3. ~ Hauls(e, i, {"carry"})'
    <3> SUFFICES ASSUME Hauls(e, i, {"carry"})' PROVE FALSE
      OBVIOUS
    <3>1. Hauls(e, i, {"carry"}) \/ PickupHeard(e, i)
      BY VisitedHauls
    <3> QED
      BY <1>1, <1>3, <2>1, <3>1, CarriedByOne
  <2>4. Hauls(e, i, {"walk", "wait"})'
    BY <1>3, <2>2, <2>3 DEF Hauls, Active
  <2>5. Hauls(e, i, {"walk", "wait"}) /\ (phase = "activity" \/ Untold(e, i))
    BY <1>1, <2>1, <2>4, VisitedHauls
  <2>6. Hauls(e, i, Active)
    BY <2>5 DEF Hauls, Active
  <2>7. phase = "poll" /\ Untold(e, i)
    BY <1>1, <1>3, <2>1, <2>5, <2>6 DEF CarriedAlone
  <2>8. PickupPosted(f, i)
    BY <1>1, <1>3, <2>1, <2>5, <2>7 DEF ToldOrPosted, Untold
  <2> QED
    BY <1>1, <2>1, <2>8 DEF CarriedIsHeard
<1>4. CASE f = e
  <2>1. Hauls(w, i, Active)
    BY <1>1, <1>4
  <2>2. ~ Hauls(e, i, {"carry"})
    BY <1>1, <1>4, <2>1 DEF CarriedAlone
  <2>3. phase = "poll" /\ PickupHeard(e, i)
    BY <1>4, <2>2, VisitedHauls
  <2>4. hauler[i] = e
    BY <1>1, <2>3, CarriedByOne
  <2>5. ~ Hauls(w, i, {"new"})
    BY <1>1, <1>4, <2>4 DEF NewHauls
  <2>6. ~ Hauls(w, i, {"carry"})
    BY <1>1, <1>4, <2>4, CarriedByOne
  <2>7. Hauls(w, i, {"walk", "wait"})
    BY <2>1, <2>5, <2>6 DEF Hauls, Active
  <2>8. ~ PickupPosted(e, i)
    BY <1>1, <2>3 DEF HeardOnce
  <2>9. w \in todo
    BY <1>1, <1>4, <2>3, <2>4, <2>7, <2>8 DEF ToldOrPosted
  <2> QED
    BY <1>1, <1>4, <2>3, <2>9
<1> QED
  BY <1>2, <1>3, <1>4

LEMMA VisitQueues ==
    ASSUME BuildTypes, HaulInv, ReserveInv, NEW e \in Entity, VisitLeaves(e)
    PROVE  CarriedLeftAlone' /\ ConsumedReserved'
<1> USE DEF ReserveInv
<1>1. PICK q \in Seq(Update) : updates' = updates \o q /\ QueuedBy(e, q)
  BY DEF VisitLeaves
<1>2. Elements(updates') = Elements(updates) \cup Elements(q)
  BY <1>1, AddedUpdates
<1>3. /\ phase \in {"activity", "poll"} /\ e \in todo /\ todo' = todo \ {e}
      /\ UNCHANGED <<phase, loc, reserved_for, consumed, listed, reserved_materials>>
      /\ \A i \in Item : Tracked(i)' => Tracked(i)
      /\ \A f \in Entity \ {e} : \A j, stages : Hauls(f, j, stages)' <=> Hauls(f, j, stages)
  BY VisitFrame
<1>4. CarriedLeftAlone'
  <2> SUFFICES ASSUME NEW f \in Entity, NEW i \in Item, Tracked(i)', Hauls(f, i, {"carry"})',
                      phase = "activity" \/ (phase = "poll" /\ f \in todo')
               PROVE  NothingQueued(i)'
    BY <1>3 DEF CarriedLeftAlone
  <2>1. CASE f = e
    <3>1. phase = "activity" /\ Hauls(e, i, {"carry"}) /\ UNCHANGED updates
      BY <1>3, <2>1, VisitedHauls
    <3> QED
      BY <1>3, <3>1 DEF CarriedLeftAlone, NothingQueued, Queue
  <2>2. CASE f # e
    <3>1. Hauls(f, i, {"carry"}) /\ Tracked(i) /\ (phase = "poll" => f \in todo)
      BY <1>3, <2>2
    <3>2. NothingQueued(i)
      BY <1>3, <3>1 DEF CarriedLeftAlone
    <3>3. ~ Hauls(e, i, Active)
      BY <2>2, <3>1 DEF CarriedAlone
    <3>4. \A u \in Elements(q) : ~ IsAbout(u, i)
      BY <1>1, <3>3 DEF QueuedBy, Hauls, Active
    <3> QED
      BY <1>2, <3>2, <3>4 DEF NothingQueued, Queue
  <2> QED
    BY <2>1, <2>2
<1>5. ConsumedReserved'
  <2>1. \A i \in Item : Tracked(i)' /\ (i \in consumed' \/ loc'[i] = "none") => i \in reserved_for'
    BY <1>3 DEF ConsumedReserved
  <2>2. ASSUME NEW u \in Elements(updates'), NEW i \in Item, Tracked(i)', Consumes(u, i)
        PROVE  i \in reserved_for'
    <3>1. CASE u \in Elements(updates)
      BY <1>3, <2>2, <3>1 DEF ConsumedReserved, Queue
    <3>2. CASE u \in Elements(q)
      <4>1. phase = "poll" /\ listed /\ i \in reserved_materials
        BY <1>1, <2>2, <3>2 DEF QueuedBy
      <4> QED
        BY <1>3, <4>1 DEF ConsumedReserved
    <3> QED
      BY <1>2, <3>1, <3>2
  <2>3. phase' # "player" /\ listed' => reserved_materials' \subseteq reserved_for'
    BY <1>3 DEF ConsumedReserved
  <2> QED
    BY <2>1, <2>2, <2>3 DEF ConsumedReserved, Queue
<1> QED
  BY <1>4, <1>5

LEMMA VisitHaulers ==
    ASSUME BuildTypes, HaulInv, ReserveInv, NEW e \in Entity, VisitLeaves(e)
    PROVE  HaulersLive' /\ NewHauls' /\ ToldOrPosted' /\ HeardOnce' /\ CarriedIsHeard'
<1> USE DEF ReserveInv
<1>1. /\ phase \in {"activity", "poll"} /\ e \in todo /\ todo' = todo \ {e}
      /\ UNCHANGED <<phase, alive, hauler>>
      /\ \A i \in Item : Tracked(i)' => Tracked(i)
      /\ \A f \in Entity \ {e} : \A j, stages : Hauls(f, j, stages)' <=> Hauls(f, j, stages)
      /\ \A f \in Entity \ {e} : \A g, j : Told(f, g, j)' <=> Told(f, g, j)
      /\ \A g, j : PickupPosted(g, j)' <=> PickupPosted(g, j)
      /\ \A f \in Entity, j \in Item : PickupHeard(f, j)' => PickupHeard(f, j)
      /\ \A f \in Entity : f # NoOne
  BY VisitFrame
<1>2. HaulersLive'
  <2>1. ASSUME NEW w \in Entity, NEW i \in Item, Hauls(w, i, Active)' PROVE w \in alive
    <3>1. CASE w # e
      BY <1>1, <2>1, <3>1 DEF HaulersLive
    <3>2. CASE w = e /\ phase = "activity"
      BY <1>1, <3>2 DEF HaulersLive
    <3>3. CASE w = e /\ phase = "poll"
      BY <2>1, <3>3, VisitedHauls DEF HaulersLive
    <3> QED
      BY <1>1, <3>1, <3>2, <3>3
  <2> QED
    BY <1>1, <2>1 DEF HaulersLive
<1>3. NewHauls'
  <2> SUFFICES ASSUME NEW w \in Entity, NEW i \in Item, Tracked(i)', Hauls(w, i, {"new"})'
               PROVE  /\ hauler[i] = NoOne
                      /\ (phase = "activity" /\ w \notin todo') \/ (phase = "poll" /\ w \in todo')
    BY <1>1 DEF NewHauls
  <2>1. CASE w = e
    BY <1>1, <2>1, VisitedHauls
  <2>2. CASE w # e
    BY <1>1, <2>2 DEF NewHauls
  <2> QED
    BY <2>1, <2>2
<1>4. ToldOrPosted'
  <2> SUFFICES ASSUME NEW w \in Entity, NEW g \in Entity, NEW i \in Item, Tracked(i)', hauler[i] = g, w # g,
                      Hauls(w, i, {"walk", "wait"})', ~ PickupPosted(g, i)
               PROVE  Told(w, g, i)' /\ (phase = "poll" => w \in todo')
    BY <1>1 DEF ToldOrPosted
  <2>1. CASE w # e
    BY <1>1, <2>1 DEF ToldOrPosted
  <2>2. CASE w = e
    <3>1. \/ phase = "activity" /\ Hauls(e, i, {"walk", "wait"}) /\ sink'[e] = sink[e]
          \/ Hauls(e, i, {"walk", "wait"}) /\ Untold(e, i)
      BY <1>1, <2>2, VisitedHauls
    <3>2. Told(e, g, i)
      BY <1>1, <2>2, <3>1 DEF ToldOrPosted
    <3>3. phase = "activity" /\ sink'[e] = sink[e]
      BY <2>2, <3>1, <3>2 DEF Untold
    <3> QED
      BY <2>2, <3>2, <3>3 DEF Told, Delivered
  <2> QED
    BY <2>1, <2>2
<1>5. HeardOnce'
  BY <1>1 DEF HeardOnce
<1>6. CarriedIsHeard'
  <2> SUFFICES ASSUME NEW f \in Entity, NEW g \in Entity, NEW i \in Item, Tracked(i)', Hauls(f, i, {"carry"})'
               PROVE  ~ PickupPosted(g, i)
    BY <1>1 DEF CarriedIsHeard
  <2>1. Hauls(f, i, {"carry"}) \/ PickupHeard(f, i)
    BY <1>1, VisitedHauls
  <2> QED
    BY <1>1, <2>1 DEF CarriedIsHeard, HeardOnce
<1> QED
  BY <1>2, <1>3, <1>4, <1>5, <1>6

LEMMA VisitReserved ==
    ASSUME BuildTypes, HaulInv, ReserveInv, NEW e \in Entity, VisitLeaves(e)
    PROVE  ReservedLeftAlone'
<1> USE DEF ReserveInv
<1> SUFFICES ASSUME NEW i \in reserved_for', Tracked(i)'
             PROVE  /\ hauler'[i] = NoOne /\ NobodyHauls(i)' /\ NothingQueued(i)'
                    /\ (loc'[i] = "site" /\ i \notin consumed') \/ (loc'[i] = "none" /\ i \in consumed')
                    /\ listed' => i \in reserved_materials'
  BY DEF ReservedLeftAlone
<1>1. PICK q \in Seq(Update) : updates' = updates \o q /\ QueuedBy(e, q)
  BY DEF VisitLeaves
<1>2. Elements(updates') = Elements(updates) \cup Elements(q)
  BY <1>1, AddedUpdates
<1>3. i \in Item
  BY DEF BuildTypes, ItemTypes, VisitLeaves
<1>4. /\ phase \in {"activity", "poll"} /\ i \in reserved_for /\ Tracked(i)
      /\ UNCHANGED <<hauler, loc, reserved_for, consumed, listed, reserved_materials>>
      /\ \A f \in Entity \ {e} : \A j, stages : Hauls(f, j, stages)' <=> Hauls(f, j, stages)
  BY <1>3, VisitFrame
<1>5. hauler[i] = NoOne /\ NobodyHauls(i) /\ NothingQueued(i)
  BY <1>4 DEF ReservedLeftAlone
<1>6. ~ Hauls(e, i, {"walk", "wait", "carry"}) /\ ~ Hauls(e, i, Active)
  BY <1>5 DEF NobodyHauls, Hauls, Active
<1>7. ~ Hauls(e, i, Active)'
  BY <1>3, <1>4, <1>6, VisitedHauls
<1>8. NobodyHauls(i)'
  BY <1>4, <1>5, <1>7 DEF NobodyHauls
<1>9. NothingQueued(i)'
  BY <1>1, <1>2, <1>3, <1>5, <1>6 DEF NothingQueued, Queue, QueuedBy
<1> QED
  BY <1>4, <1>5, <1>8, <1>9 DEF ReservedLeftAlone

\* What is queued later is about something else.
LEMMA VisitPutsDown ==
    ASSUME BuildTypes, HaulInv, ReserveInv, NEW e \in Entity, VisitLeaves(e)
    PROVE  PutDownFirst'
<1> USE DEF ReserveInv
<1>1. PICK q \in Seq(Update) : updates' = updates \o q /\ QueuedBy(e, q)
  BY DEF VisitLeaves
<1>2. /\ phase \in {"activity", "poll"} /\ e \in todo
      /\ UNCHANGED <<phase, hauler, loc, reserved_for>>
      /\ \A j \in Item : Tracked(j)' => Tracked(j)
      /\ \A f \in Entity \ {e} : \A j, stages : Hauls(f, j, stages)' <=> Hauls(f, j, stages)
  BY VisitFrame
<1>3. updates \in Seq(Update)
  BY DEF BuildTypes, QueueTypes
<1>4. /\ \A n \in DOMAIN updates : n \in DOMAIN updates' /\ updates'[n] = updates[n]
      /\ \A n \in DOMAIN updates' \ DOMAIN updates :
            n > Len(updates) /\ n - Len(updates) \in DOMAIN q /\ updates'[n] = q[n - Len(updates)]
      /\ \A k \in DOMAIN q : Len(updates) + k \in DOMAIN updates' /\ updates'[Len(updates) + k] = q[k]
      /\ DOMAIN updates' \subseteq Nat /\ Len(updates) \in Nat
  BY <1>1, <1>3, PositionsInConcat
<1>5. \A n \in DOMAIN updates' \ DOMAIN updates : updates'[n] \in Elements(q)
  BY <1>4 DEF Elements
<1>6. SUFFICES ASSUME NEW f \in Entity, NEW i \in Item, NEW n \in DOMAIN updates', Tracked(i)',
                      updates'[n] = Reserve(i, f)
               PROVE  phase = "poll" /\ NobodyHauls(i)' /\ i \notin reserved_for /\ InOrder(i, f, n)'
  BY <1>2 DEF PutDownFirst
<1>7. CASE n \in DOMAIN updates
  <2>1. phase = "poll" /\ NobodyHauls(i) /\ i \notin reserved_for /\ InOrder(i, f, n)
    BY <1>2, <1>4, <1>6, <1>7 DEF PutDownFirst
  <2>2. ~ Hauls(e, i, Active) /\ ~ Hauls(e, i, {"walk", "wait", "carry"})
    BY <2>1 DEF NobodyHauls, Hauls, Active
  <2>3. NobodyHauls(i)'
    BY <1>2, <2>1, <2>2, VisitedHauls DEF NobodyHauls
  <2>4. \A m \in DOMAIN updates' : IsAbout(updates'[m], i) => m \in DOMAIN updates /\ updates'[m] = updates[m]
    BY <1>1, <1>4, <1>5, <2>2 DEF QueuedBy
  <2>5. InOrder(i, f, n)'
    <3>1. \A m \in DOMAIN updates' : IsAbout(updates'[m], i) =>
             m = n \/ (m < n /\ updates'[m] \in {Stop(i, f), Drop(i, f, "site")})
      BY <2>1, <2>4 DEF InOrder
    <3>2. \/ hauler'[i] = NoOne
          \/ /\ hauler'[i] = f
             /\ \E m, k \in DOMAIN updates' : /\ m < k /\ k < n
                                             /\ updates'[m] = Stop(i, f) /\ updates'[k] = Drop(i, f, "site")
      <4>1. CASE hauler[i] = NoOne
        BY <1>2, <4>1
      <4>2. CASE hauler[i] = f /\ \E m, k \in DOMAIN updates :
                    m < k /\ k < n /\ updates[m] = Stop(i, f) /\ updates[k] = Drop(i, f, "site")
        <5>1. PICK m \in DOMAIN updates, k \in DOMAIN updates :
                 m < k /\ k < n /\ updates[m] = Stop(i, f) /\ updates[k] = Drop(i, f, "site")
          BY <4>2
        <5>2. /\ m \in DOMAIN updates' /\ k \in DOMAIN updates'
              /\ updates'[m] = Stop(i, f) /\ updates'[k] = Drop(i, f, "site")
          BY <1>4, <5>1
        <5> QED
          BY <1>2, <4>2, <5>1, <5>2
      <4> QED
        BY <2>1, <4>1, <4>2 DEF InOrder
    <3>3. loc'[i] = "site" \/ \E k \in DOMAIN updates' : k < n /\ updates'[k] = Drop(i, f, "site")
      <4>1. CASE loc[i] = "site"
        BY <1>2, <4>1
      <4>2. CASE \E k \in DOMAIN updates : k < n /\ updates[k] = Drop(i, f, "site")
        BY <1>4, <4>2
      <4> QED
        BY <2>1, <4>1, <4>2 DEF InOrder
    <3> QED
      BY <3>1, <3>2, <3>3 DEF InOrder
  <2> QED
    BY <2>1, <2>3, <2>5
<1>8. CASE n \notin DOMAIN updates
  <2>1. Reserve(i, f) \in Elements(q)
    BY <1>5, <1>6, <1>8
  <2>2. /\ phase = "poll" /\ Hauls(e, i, {"carry"}) /\ ~ Hauls(e, i, Active)'
        /\ f = e /\ q = <<Stop(i, e), Drop(i, e, "site"), Reserve(i, e)>>
    BY <1>1, <2>1 DEF QueuedBy
  <2>3. Tracked(i) /\ hauler[i] = e /\ NothingQueued(i)
    <3>1. Tracked(i)
      BY <1>2, <1>6
    <3>2. hauler[i] = e
      BY <2>2, <3>1, CarriedByOne
    <3>3. NothingQueued(i)
      BY <1>2, <2>2, <3>1 DEF CarriedLeftAlone
    <3> QED
      BY <3>1, <3>2, <3>3
  <2>4. NobodyHauls(i)'
    BY <1>2, <2>2, <2>3 DEF CarriedAlone, NobodyHauls
  <2>5. i \notin reserved_for
    <3>1. Hauls(e, i, Active)
      BY <2>2 DEF Hauls, Active
    <3> QED
      BY <2>3, <3>1 DEF ReservedLeftAlone, NobodyHauls
  <2>6. DOMAIN q = {1, 2, 3} /\ q[1] = Stop(i, e) /\ q[2] = Drop(i, e, "site") /\ q[3] = Reserve(i, e)
    BY <2>2
  <2>7. n = Len(updates) + 3
    <3>1. n - Len(updates) \in {1, 2, 3} /\ q[n - Len(updates)] = Reserve(i, f)
      BY <1>4, <1>6, <1>8, <2>6
    <3>2. n - Len(updates) = 3
      BY <2>6, <3>1, ReservesDiffer
    <3> QED
      BY <1>4, <3>2
  <2>8. /\ Len(updates) + 1 \in DOMAIN updates' /\ updates'[Len(updates) + 1] = Stop(i, e)
        /\ Len(updates) + 2 \in DOMAIN updates' /\ updates'[Len(updates) + 2] = Drop(i, e, "site")
    BY <1>4, <2>6
  <2>9. \A m \in DOMAIN updates' : IsAbout(updates'[m], i) =>
           m = n \/ (m < n /\ updates'[m] \in {Stop(i, e), Drop(i, e, "site")})
    <3> SUFFICES ASSUME NEW m \in DOMAIN updates', IsAbout(updates'[m], i)
                 PROVE  m = n \/ (m < n /\ updates'[m] \in {Stop(i, e), Drop(i, e, "site")})
      OBVIOUS
    <3>1. m \notin DOMAIN updates
      BY <1>4, <2>3 DEF NothingQueued, Queue, Elements
    <3>2. m - Len(updates) \in {1, 2, 3} /\ updates'[m] = q[m - Len(updates)] /\ m \in Nat
      BY <1>4, <2>6, <3>1
    <3> QED
      BY <1>4, <2>6, <2>7, <3>2
  <2>10. Len(updates) + 1 < Len(updates) + 2 /\ Len(updates) + 2 < n
    BY <1>4, <2>7
  <2>11. InOrder(i, e, n)'
    <3> DEFINE a == Len(updates) + 1
               b == Len(updates) + 2
    <3>1. /\ a \in DOMAIN updates' /\ updates'[a] = Stop(i, e)
          /\ b \in DOMAIN updates' /\ updates'[b] = Drop(i, e, "site") /\ a < b /\ b < n
      BY <2>8, <2>10
    <3>2. hauler'[i] = e
      BY <1>2, <2>3
    <3> HIDE DEF a, b
    <3> QED
      BY <2>9, <3>1, <3>2 DEF InOrder
  <2> QED
    BY <2>2, <2>4, <2>5, <2>11
<1> QED
  BY <1>7, <1>8

LEMMA VisitReserves ==
    ASSUME BuildTypes, HaulInv, ReserveInv, NEW e \in Entity, VisitLeaves(e)
    PROVE  ReserveInv'
BY VisitHaulers, VisitAlone, VisitQueues, VisitPutsDown, VisitReserved DEF ReserveInv

-----------------------------------------------------------------------------
(* The other steps *)

\* An event that some worker misses is about an item that is tracked no more.
LEMMA DeliverReserves ==
    ASSUME BuildTypes, HaulInv, ReserveInv, DeliverEvent
    PROVE  ReserveInv'
<1> USE DEF ReserveInv
<1> DEFINE event == Head(events)
           all == {e \in alive \cap Entity : Hears(e, event)}
<1>1. /\ phase = "deliver" /\ events \in Seq(Event) /\ events # <<>> /\ events' = Tail(events)
      /\ UNCHANGED <<phase, todo, alive, hauler, loc, reserved_for, consumed, listed, reserved_materials,
                     act, updates>>
      /\ sink \in [Entity -> Seq(Event)]
  BY DEF DeliverEvent, clock, lifevars, itemvars, jobvars, BuildTypes, QueueTypes
<1>2. /\ event \in Event /\ Elements(events) = {event} \cup Elements(events')
  BY <1>1, ElementsOfTail, ElementsType
<1>3. PICK told \in SUBSET all :
         /\ sink' = [e \in Entity |-> IF e \in told THEN Append(sink[e], event) ELSE sink[e]]
         /\ strayed' = IF told = all THEN strayed ELSE strayed \cup {event.thing}
  BY DEF DeliverEvent
<1> HIDE DEF event
<1>4. \A w \in Entity : /\ Elements(sink[w]) \subseteq Elements(sink'[w])
                        /\ w \in told => event \in Elements(sink'[w])
  <2> SUFFICES ASSUME NEW w \in Entity
               PROVE  /\ Elements(sink[w]) \subseteq Elements(sink'[w])
                      /\ w \in told => event \in Elements(sink'[w])
    OBVIOUS
  <2>1. sink[w] \in Seq(Event)
    BY <1>1
  <2>2. Elements(Append(sink[w], event)) = Elements(sink[w]) \cup {event}
    BY <1>2, <2>1, ElementsOfAppend
  <2>3. sink'[w] = IF w \in told THEN Append(sink[w], event) ELSE sink[w]
    BY <1>3
  <2> QED
    BY <2>2, <2>3
<1>5. \A i : Tracked(i)' => Tracked(i) /\ (event.thing = i => told = all)
  BY <1>1, <1>3 DEF Tracked
<1>6. \A e, i, stages : Hauls(e, i, stages)' <=> Hauls(e, i, stages)
  BY <1>1 DEF Hauls
<1>7. /\ \A e, i : PickupPosted(e, i)' => PickupPosted(e, i)
      /\ \A e, i : PickupPosted(e, i) => PickupPosted(e, i)' \/ event = Hauled(i, e, TRUE)
  BY <1>2 DEF PickupPosted, Posted
<1>8. \A w \in Entity : \A e, i : Told(w, e, i) => Told(w, e, i)'
  BY <1>4 DEF Told, Delivered
<1>9. HaulersLive' /\ NewHauls' /\ HeardOnce' /\ CarriedIsHeard' /\ CarriedAlone'
  BY <1>1, <1>5, <1>6, <1>7 DEF HaulersLive, NewHauls, HeardOnce, CarriedIsHeard, CarriedAlone
<1>10. ToldOrPosted'
  <2> SUFFICES ASSUME NEW w \in Entity, NEW e \in Entity, NEW i \in Item, Tracked(i)', hauler[i] = e, w # e,
                      Hauls(w, i, {"walk", "wait"}), ~ PickupPosted(e, i)'
               PROVE  Told(w, e, i)'
    BY <1>1, <1>6 DEF ToldOrPosted
  <2>1. CASE Told(w, e, i)
    BY <1>8, <2>1
  <2>2. CASE event = Hauled(i, e, TRUE)
    <3>1. w \in alive
      <4>1. Hauls(w, i, Active)
        BY DEF Hauls, Active
      <4> QED
        BY <4>1 DEF HaulersLive
    <3>2. event.thing = i
      BY <2>2 DEF Hauled
    <3>3. Hears(w, event)
      BY <3>2 DEF Hears, Hauls
    <3>4. w \in told
      BY <1>5, <3>1, <3>2, <3>3
    <3> QED
      BY <1>4, <2>2, <3>4 DEF Told, Delivered
  <2>3. PickupPosted(e, i) \/ Told(w, e, i)
    BY <1>5 DEF ToldOrPosted
  <2> QED
    BY <1>7, <2>1, <2>2, <2>3
<1>11. /\ \A i : (NobodyHauls(i)' <=> NobodyHauls(i)) /\ (NothingQueued(i)' <=> NothingQueued(i))
       /\ \A i, e, n : InOrder(i, e, n)' <=> InOrder(i, e, n)
  BY <1>1, <1>6 DEF NobodyHauls, NothingQueued, Queue, InOrder
<1>12. CarriedLeftAlone'
  BY <1>1 DEF CarriedLeftAlone
<1>13. PutDownFirst'
  BY <1>1, <1>5, <1>11 DEF PutDownFirst
<1>14. ReservedLeftAlone'
  BY <1>1, <1>5, <1>11 DEF ReservedLeftAlone
<1>15. ConsumedReserved'
  BY <1>1, <1>5 DEF ConsumedReserved, Queue
<1> QED
  BY <1>9, <1>10, <1>12, <1>13, <1>14, <1>15

\* The phase changes; what is hauled may be somewhere else.
LEMMA PhasesReserve ==
    ASSUME BuildTypes, HaulInv, ReserveInv,
           \/ CancelJob \/ RefreshJob \/ (\E x \in Mortal : Kill(x)) \/ EndActivity \/ EndPoll \/ MoveHauled
    PROVE  ReserveInv'
<1> USE DEF ReserveInv
<1>1. UNCHANGED <<alive, hauler, act, updates, events, sink, reserved_for, consumed, strayed>>
  BY DEF CancelJob, RefreshJob, Kill, EndActivity, EndPoll, MoveHauled, lifevars, itemvars, eventvars, bwvars
<1>2. \/ phase = "player" /\ phase' = "player" /\ UNCHANGED todo
      \/ phase = "player" /\ phase' = "activity" /\ todo' \subseteq alive
      \/ phase = "activity" /\ phase' = "poll" /\ todo = {}
         /\ todo' = {e \in Entity : act[e].stage \notin {"none", "done"}}
      \/ phase = "poll" /\ phase' = "deliver" /\ todo = {}
      \/ phase = "deliver" /\ phase' \in {"deliver", "end"} /\ events = <<>>
  BY DEF CancelJob, RefreshJob, Kill, EndActivity, EndPoll, MoveHauled, clock, bwvars
<1>3. \A i \in Item : /\ hauler[i] = NoOne => loc'[i] = loc[i]
                      /\ hauler[i] # NoOne => loc'[i] = loc[i] \/ loc'[i] # "none"
  <2>1. CASE MoveHauled
    <3>1. CASE UNCHANGED bwvars
      BY <3>1 DEF bwvars, itemvars
    <3>2. CASE loc' \in {l \in [Item -> Place \cup {"none"}] :
                          \A i \in Item : IF hauler[i] # NoOne THEN l[i] # "none" ELSE l[i] = loc[i]}
      BY <3>2
    <3> QED
      BY <2>1, <3>1, <3>2 DEF MoveHauled
  <2>2. CASE UNCHANGED loc
    BY <2>2
  <2> QED
    BY <2>1, <2>2 DEF CancelJob, RefreshJob, Kill, EndActivity, EndPoll, itemvars
<1>4. /\ listed' => listed
      /\ \/ UNCHANGED reserved_materials /\ (phase = "player" => phase' = "player" \/ ~ listed')
         \/ reserved_materials' = ValidMaterials
  BY DEF CancelJob, RefreshJob, Kill, EndActivity, EndPoll, MoveHauled, jobvars, clock, bwvars
<1>5. /\ \A i : Tracked(i)' <=> Tracked(i)
      /\ \A e, i, stages : Hauls(e, i, stages)' <=> Hauls(e, i, stages)
      /\ \A w, e, i : Told(w, e, i)' <=> Told(w, e, i)
      /\ \A e, i : PickupPosted(e, i)' <=> PickupPosted(e, i)
      /\ \A e, i : PickupHeard(e, i)' <=> PickupHeard(e, i)
  BY <1>1 DEF Tracked, Hauls, Told, Delivered, PickupPosted, Posted, PickupHeard
<1>6. /\ phase = "player" => updates = <<>> /\ \A i : NothingQueued(i)
      /\ events = <<>> => \A e, i : ~ PickupPosted(e, i)
  BY NoUpdates DEF BuildTypes, QueueTypes, NothingQueued, Queue, PickupPosted, Posted
<1>7. \A w : \A i, stages : Hauls(w, i, stages) /\ stages \subseteq Active => act[w].stage \notin {"none", "done"}
  BY DEF Hauls, Active
<1>8. HaulersLive'
  BY <1>1, <1>2, <1>5 DEF HaulersLive
<1>9. NewHauls'
  <2> SUFFICES ASSUME NEW w \in Entity, NEW i \in Item, Tracked(i), Hauls(w, i, {"new"})
               PROVE  /\ hauler[i] = NoOne
                      /\ (phase' = "activity" /\ w \notin todo') \/ (phase' = "poll" /\ w \in todo')
    BY <1>1, <1>5 DEF NewHauls
  <2>1. /\ hauler[i] = NoOne
        /\ (phase = "activity" /\ w \notin todo) \/ (phase = "poll" /\ w \in todo)
    BY DEF NewHauls
  <2>2. act[w].stage = "new"
    BY DEF Hauls
  <2> QED
    BY <1>2, <2>1, <2>2
<1>10. ToldOrPosted'
  <2> SUFFICES ASSUME NEW w \in Entity, NEW e \in Entity, NEW i \in Item, Tracked(i), hauler[i] = e, w # e,
                      Hauls(w, i, {"walk", "wait"}), ~ PickupPosted(e, i)
               PROVE  Told(w, e, i) /\ (phase' = "poll" => w \in todo')
    BY <1>1, <1>5 DEF ToldOrPosted
  <2>1. Told(w, e, i)
    BY DEF ToldOrPosted
  <2>2. act[w].stage \in {"walk", "wait"}
    BY DEF Hauls
  <2> QED
    BY <1>2, <2>1, <2>2
<1>11. HeardOnce'
  BY <1>2, <1>5, <1>6 DEF HeardOnce
<1>12. CarriedIsHeard'
  BY <1>5 DEF CarriedIsHeard
<1>13. CarriedAlone'
  <2> SUFFICES ASSUME NEW e \in Entity, NEW w \in Entity, NEW i \in Item,
                      Tracked(i), Hauls(e, i, {"carry"}), w # e, Hauls(w, i, Active)
               PROVE  FALSE
    BY <1>5 DEF CarriedAlone
  <2>1. phase = "poll" /\ w \in todo
    BY DEF CarriedAlone
  <2> QED
    BY <1>2, <2>1
<1>14. /\ \A i : (NobodyHauls(i)' <=> NobodyHauls(i)) /\ (NothingQueued(i)' <=> NothingQueued(i))
  BY <1>1, <1>5 DEF NobodyHauls, NothingQueued, Queue
<1>15. CarriedLeftAlone'
  BY <1>2, <1>5, <1>6, <1>14 DEF CarriedLeftAlone
<1>16. PutDownFirst'
  <2> SUFFICES ASSUME NEW e \in Entity, NEW i \in Item, NEW n \in DOMAIN updates, Tracked(i),
                      updates[n] = Reserve(i, e)
               PROVE  /\ phase' \in {"poll", "deliver", "end"}
                      /\ NobodyHauls(i) /\ i \notin reserved_for /\ InOrder(i, e, n)'
    BY <1>1, <1>5, <1>14 DEF PutDownFirst
  <2>1. /\ phase \in {"poll", "deliver", "end"}
        /\ NobodyHauls(i) /\ i \notin reserved_for /\ InOrder(i, e, n)
    BY DEF PutDownFirst
  <2>2. loc'[i] = "site" \/ \E k \in DOMAIN updates : k < n /\ updates[k] = Drop(i, e, "site")
    <3>1. CASE hauler[i] = NoOne
      BY <1>3, <2>1, <3>1 DEF InOrder
    <3>2. CASE hauler[i] # NoOne
      BY <2>1, <3>2 DEF InOrder
    <3> QED
      BY <3>1, <3>2
  <2> QED
    BY <1>1, <1>2, <2>1, <2>2 DEF InOrder
<1>17. ReservedLeftAlone'
  <2> SUFFICES ASSUME NEW i \in reserved_for, Tracked(i)
               PROVE  /\ hauler[i] = NoOne /\ NobodyHauls(i) /\ NothingQueued(i)
                      /\ (loc'[i] = "site" /\ i \notin consumed) \/ (loc'[i] = "none" /\ i \in consumed)
                      /\ listed' => i \in reserved_materials'
    BY <1>1, <1>5, <1>14 DEF ReservedLeftAlone
  <2>1. /\ hauler[i] = NoOne /\ NobodyHauls(i) /\ NothingQueued(i)
        /\ (loc[i] = "site" /\ i \notin consumed) \/ (loc[i] = "none" /\ i \in consumed)
        /\ listed => i \in reserved_materials
    BY DEF ReservedLeftAlone
  <2>2. i \in Item
    BY DEF BuildTypes, ItemTypes
  <2>3. loc'[i] = loc[i]
    BY <1>3, <2>1, <2>2
  <2>4. listed' => i \in reserved_materials'
    BY <1>4, <2>1 DEF ValidMaterials
  <2> QED
    BY <2>1, <2>3, <2>4
<1>18. ConsumedReserved'
  <2>1. \A i \in Item : Tracked(i) /\ (i \in consumed \/ loc'[i] = "none") => i \in reserved_for
    BY <1>3 DEF ConsumedReserved
  <2>2. \A u \in Queue : \A i \in Item : Tracked(i) /\ Consumes(u, i) => i \in reserved_for
    BY DEF ConsumedReserved
  <2>3. phase' # "player" /\ listed' => reserved_materials' \subseteq reserved_for
    BY <1>2, <1>4 DEF ConsumedReserved, ValidMaterials
  <2> QED
    BY <1>1, <1>5, <2>1, <2>2, <2>3 DEF ConsumedReserved, Queue
<1> QED
  BY <1>8, <1>9, <1>10, <1>11, <1>12, <1>13, <1>15, <1>16, <1>17, <1>18

\* An update is executed.  Nobody is visited, and what is queued moves up.
LEMMA ExecuteReserves ==
    ASSUME BuildTypes, HaulInv, ReserveInv, NEW op, Execute(op)
    PROVE  /\ phase = "end" /\ phase' = "end" /\ UNCHANGED <<alive, listed>>
           /\ \A i : Tracked(i)' <=> Tracked(i)
           /\ \A e, i, stages : Hauls(e, i, stages)' <=> Hauls(e, i, stages)
           /\ \A w, e, i : Told(w, e, i)' <=> Told(w, e, i)
           /\ \A e, i : PickupHeard(e, i)' <=> PickupHeard(e, i)
           /\ \A i : (NobodyHauls(i)' <=> NobodyHauls(i)) /\ (NothingQueued(i) => NothingQueued(i)')
           /\ \A u \in Elements(updates') : u \in Elements(updates)
           /\ HaulersLive' /\ NewHauls' /\ CarriedAlone' /\ CarriedLeftAlone'
<1> USE DEF ReserveInv
<1>1. phase = "end" /\ phase' = "end" /\ UNCHANGED <<alive, listed, todo, act, sink, strayed>>
  BY DEF Execute, clock
<1>2. Elements(updates) = {Head(updates)} \cup Elements(updates')
  BY HeadTypes DEF BuildTypes
<1>3. /\ \A i : Tracked(i)' <=> Tracked(i)
      /\ \A e, i, stages : Hauls(e, i, stages)' <=> Hauls(e, i, stages)
      /\ \A w, e, i : Told(w, e, i)' <=> Told(w, e, i)
      /\ \A e, i : PickupHeard(e, i)' <=> PickupHeard(e, i)
  BY <1>1 DEF Tracked, Hauls, Told, Delivered, PickupHeard
<1>4. \A i : (NobodyHauls(i)' <=> NobodyHauls(i)) /\ (NothingQueued(i) => NothingQueued(i)')
  BY <1>2, <1>3 DEF NobodyHauls, NothingQueued, Queue
<1>5. HaulersLive'
  BY <1>1, <1>3 DEF HaulersLive
<1>6. NewHauls'
  BY <1>1, <1>3 DEF NewHauls
<1>7. CarriedAlone'
  BY <1>1, <1>3 DEF CarriedAlone
<1>8. CarriedLeftAlone'
  BY <1>1 DEF CarriedLeftAlone
<1> QED
  BY <1>1, <1>2, <1>3, <1>4, <1>5, <1>6, <1>7, <1>8

\* What was at n + 1 is at n now.
LEMMA QueueMoves ==
    ASSUME BuildTypes, NEW op, Execute(op)
    PROVE  /\ \A n \in DOMAIN updates' : n + 1 \in DOMAIN updates /\ updates'[n] = updates[n + 1]
           /\ \A n \in DOMAIN updates : n # 1 => n - 1 \in DOMAIN updates' /\ updates'[n - 1] = updates[n]
           /\ 1 \in DOMAIN updates /\ updates[1] = Head(updates)
           /\ DOMAIN updates \subseteq Nat /\ DOMAIN updates' \subseteq Nat
           /\ \A n \in DOMAIN updates : n >= 1
           /\ \A n \in DOMAIN updates' : n >= 1
<1>1. updates \in Seq(Update) /\ updates # <<>> /\ updates' = Tail(updates) /\ updates' \in Seq(Update)
  BY HeadTypes DEF BuildTypes, QueueTypes, Execute
<1> QED
  BY <1>1, PositionsInTail

\* Unless it was the next one, what puts an item down is still queued in order.
LEMMA OrderMoves ==
    ASSUME BuildTypes, NEW op, Execute(op), NEW i \in Item, NEW e \in Entity, NEW n \in DOMAIN updates',
           InOrder(i, e, n + 1),
           \/ hauler'[i] = NoOne
           \/ hauler'[i] = hauler[i] /\ Head(updates) # Stop(i, e),
           \/ loc'[i] = "site"
           \/ loc'[i] = loc[i] /\ Head(updates) # Drop(i, e, "site")
           \/ hauler'[i] # NoOne
    PROVE  InOrder(i, e, n)'
<1>1. /\ \A m \in DOMAIN updates' : m + 1 \in DOMAIN updates /\ updates'[m] = updates[m + 1]
      /\ \A m \in DOMAIN updates : m # 1 => m - 1 \in DOMAIN updates' /\ updates'[m - 1] = updates[m]
      /\ 1 \in DOMAIN updates /\ updates[1] = Head(updates)
      /\ DOMAIN updates \subseteq Nat /\ DOMAIN updates' \subseteq Nat
      /\ \A m \in DOMAIN updates : m >= 1
  BY QueueMoves
<1>2. \A m \in DOMAIN updates' : IsAbout(updates'[m], i) =>
         m = n \/ (m < n /\ updates'[m] \in {Stop(i, e), Drop(i, e, "site")})
  <2> SUFFICES ASSUME NEW m \in DOMAIN updates', IsAbout(updates'[m], i)
               PROVE  m = n \/ (m < n /\ updates'[m] \in {Stop(i, e), Drop(i, e, "site")})
    OBVIOUS
  <2>1. m + 1 \in DOMAIN updates /\ updates'[m] = updates[m + 1] /\ m \in Nat /\ n \in Nat
    BY <1>1
  <2>2. m + 1 = n + 1 \/ (m + 1 < n + 1 /\ updates[m + 1] \in {Stop(i, e), Drop(i, e, "site")})
    BY <2>1 DEF InOrder
  <2> QED
    BY <2>1, <2>2
<1>3. \/ hauler'[i] = NoOne
      \/ /\ hauler'[i] = e
         /\ \E m, k \in DOMAIN updates' : /\ m < k /\ k < n
                                         /\ updates'[m] = Stop(i, e) /\ updates'[k] = Drop(i, e, "site")
  <2> SUFFICES ASSUME hauler'[i] # NoOne
               PROVE  /\ hauler'[i] = e
                      /\ \E m, k \in DOMAIN updates' : /\ m < k /\ k < n
                                                      /\ updates'[m] = Stop(i, e) /\ updates'[k] = Drop(i, e, "site")
    OBVIOUS
  <2>1. hauler'[i] = hauler[i] /\ Head(updates) # Stop(i, e)
    OBVIOUS
  <2>2. hauler[i] = e /\ \E m, k \in DOMAIN updates :
           m < k /\ k < n + 1 /\ updates[m] = Stop(i, e) /\ updates[k] = Drop(i, e, "site")
    BY <2>1 DEF InOrder
  <2>3. PICK m \in DOMAIN updates, k \in DOMAIN updates :
           m < k /\ k < n + 1 /\ updates[m] = Stop(i, e) /\ updates[k] = Drop(i, e, "site")
    BY <2>2
  <2>4. m # 1 /\ k # 1 /\ m \in Nat /\ k \in Nat /\ n \in Nat
    BY <1>1, <2>1, <2>3
  <2>5. /\ m - 1 \in DOMAIN updates' /\ updates'[m - 1] = Stop(i, e)
        /\ k - 1 \in DOMAIN updates' /\ updates'[k - 1] = Drop(i, e, "site")
    BY <1>1, <2>3, <2>4
  <2>6. m - 1 < k - 1 /\ k - 1 < n
    BY <2>3, <2>4
  <2> DEFINE a == m - 1
             b == k - 1
  <2>7. /\ a \in DOMAIN updates' /\ updates'[a] = Stop(i, e)
        /\ b \in DOMAIN updates' /\ updates'[b] = Drop(i, e, "site") /\ a < b /\ b < n
    BY <2>5, <2>6
  <2> HIDE DEF a, b
  <2> QED
    BY <2>1, <2>2, <2>7
<1>4. loc'[i] = "site" \/ \E k \in DOMAIN updates' : k < n /\ updates'[k] = Drop(i, e, "site")
  <2> SUFFICES ASSUME loc'[i] # "site", hauler'[i] = NoOne
               PROVE  \E k \in DOMAIN updates' : k < n /\ updates'[k] = Drop(i, e, "site")
    BY <1>3
  <2>1. loc'[i] = loc[i] /\ Head(updates) # Drop(i, e, "site")
    OBVIOUS
  <2>2. PICK k \in DOMAIN updates : k < n + 1 /\ updates[k] = Drop(i, e, "site")
    BY <2>1 DEF InOrder
  <2>3. k # 1 /\ k \in Nat /\ n \in Nat
    BY <1>1, <2>1, <2>2
  <2>4. k - 1 \in DOMAIN updates' /\ updates'[k - 1] = Drop(i, e, "site") /\ k - 1 < n
    BY <1>1, <2>2, <2>3
  <2> QED
    BY <2>4
<1> QED
  BY <1>2, <1>3, <1>4 DEF InOrder

\* A queued reservation was queued before; if the next update is about its item, it is
\* one of those that put it down.
LEMMA ReservesQueued ==
    ASSUME BuildTypes, HaulInv, ReserveInv, NEW op, Execute(op),
           NEW i \in Item, NEW e \in Entity, NEW n \in DOMAIN updates', Tracked(i), updates'[n] = Reserve(i, e)
    PROVE  /\ NobodyHauls(i) /\ i \notin reserved_for /\ InOrder(i, e, n + 1)
           /\ IsAbout(Head(updates), i) => Head(updates) \in {Stop(i, e), Drop(i, e, "site")}
<1>1. /\ n + 1 \in DOMAIN updates /\ updates[n + 1] = Reserve(i, e)
      /\ 1 \in DOMAIN updates /\ updates[1] = Head(updates) /\ n \in Nat /\ n >= 1
  BY QueueMoves
<1>2. NobodyHauls(i) /\ i \notin reserved_for /\ InOrder(i, e, n + 1)
  BY <1>1 DEF ReserveInv, PutDownFirst
<1>3. IsAbout(Head(updates), i) => 1 = n + 1 \/ Head(updates) \in {Stop(i, e), Drop(i, e, "site")}
  BY <1>1, <1>2 DEF InOrder
<1> QED
  BY <1>1, <1>2, <1>3

\* What the next update is.
LEMMA NextUpdate ==
    ASSUME BuildTypes, NEW op, Execute(op)
    PROVE  /\ op = "haul item" => Head(updates) = Pickup(TheThing, Who)
           /\ op = "stop hauling item" => Head(updates) = Stop(TheThing, Who)
           /\ op = "drop hauled item" =>
                 /\ Head(updates) = Drop(TheThing, Who, Head(updates).to)
                 /\ Head(updates).to \in Place \cup {"feet"}
           /\ op = "reserve material" => Head(updates) = Reserve(TheThing, Who)
           /\ op \in ItemOps => \A j : IsAbout(Head(updates), j) <=> TheThing = j
           /\ op \notin ItemOps => \A j : ~ IsAbout(Head(updates), j)
           /\ op \in ItemOps => TheThing \in Item /\ Things = {TheThing}
           /\ op = "start wip build" => \A j : Consumes(Head(updates), j) <=> j \in Things
           /\ Who \in Entity /\ Head(updates) \in Queue
<1>1. /\ Head(updates) \in Update /\ Head(updates) \in Elements(updates) /\ Head(updates).op = op
      /\ op \in ItemOps => TheThing \in Item /\ Things = {TheThing}
      /\ Who \in Entity
  BY HeadTypes DEF BuildTypes
<1>2. op = "drop hauled item" =>
         Head(updates) = Drop(TheThing, Who, Head(updates).to) /\ Head(updates).to \in Place \cup {"feet"}
  <2> SUFFICES ASSUME op = "drop hauled item"
               PROVE  Head(updates) = Drop(TheThing, Who, Head(updates).to) /\ Head(updates).to \in Place \cup {"feet"}
    OBVIOUS
  <2> DEFINE u == Head(updates)
             i == TheThing
             w == Who
  <2>1. u \in Update /\ u.op = "drop hauled item" /\ w = u.who /\ u.things = {i}
    BY <1>1 DEF Who, Things, ItemOps
  <2> HIDE DEF u, i, w
  <2>2. u = [op |-> u.op, things |-> u.things, who |-> u.who, to |-> u.to]
    BY <2>1 DEF Update
  <2>3. u.to \in Place \cup {"feet"}
    BY <2>1 DEF Update
  <2>4. u = Drop(i, w, u.to)
    BY <2>1, <2>2 DEF Drop
  <2> QED
    BY <2>3, <2>4 DEF u, i, w
<1>3. /\ op = "haul item" => Head(updates) = Pickup(TheThing, Who)
      /\ op = "stop hauling item" => Head(updates) = Stop(TheThing, Who)
      /\ op = "reserve material" => Head(updates) = Reserve(TheThing, Who)
  BY HeadIs DEF BuildTypes
<1>4. \A j : IsAbout(Head(updates), j) <=> op \in ItemOps /\ Things = {j}
  BY <1>1 DEF IsAbout, Things
<1>5. \A j : Consumes(Head(updates), j) <=> op = "start wip build" /\ j \in Things
  BY <1>1 DEF Consumes, Things
<1> QED
  BY <1>1, <1>2, <1>3, <1>4, <1>5 DEF Queue

\* What updates change, for the items that are tracked: whose hauler or place is another,
\* or who is reserved or consumed.
LEMMA PickupReserves ==
    ASSUME BuildTypes, HaulInv, ReserveInv, ExecutePickup
    PROVE  ReserveInv'
<1> USE DEF ReserveInv
<1> DEFINE i == TheThing
           w == Who
           ok == i \in alive /\ hauler[i] = NoOne /\ w \in alive /\ hands[w] = {}
<1>1. /\ Execute("haul item") /\ events' = Append(events, Hauled(i, w, ok))
      /\ UNCHANGED <<reserved_for, consumed, reserved_materials>>
  BY DEF ExecutePickup
<1>2. /\ i \in Item /\ w \in Entity /\ Head(updates) = Pickup(i, w) /\ Head(updates) \in Queue
      /\ \A j : IsAbout(Head(updates), j) <=> i = j
  BY <1>1, NextUpdate DEF ItemOps
<1>3. /\ hauler \in [Item -> Entity \cup {NoOne}] /\ loc \in [Item -> Place \cup {"none"}]
      /\ events \in Seq(Event)
  BY DEF BuildTypes, ItemTypes, QueueTypes
<1>4. \/ ~ ok /\ UNCHANGED <<loc, hauler>>
      \/ /\ ok /\ hauler' = [hauler EXCEPT ![i] = w]
         /\ loc' \in {[loc EXCEPT ![i] = p] : p \in IF loc[i] = "none" THEN Place ELSE {loc[i]}}
  BY DEF ExecutePickup
<1>5. ok => hauler[i] = NoOne
  OBVIOUS
<1>6. Elements(events') = Elements(events) \cup {Hauled(i, w, ok)}
  <2> DEFINE x == Hauled(i, w, ok)
  <2>1. x \in Event /\ events' = Append(events, x)
    BY <1>1, <1>2 DEF Hauled, Event
  <2> HIDE DEF x
  <2>2. Elements(Append(events, x)) = Elements(events) \cup {x}
    BY <1>3, <2>1, ElementsOfAppend
  <2> QED
    BY <2>1, <2>2 DEF x
<1> HIDE DEF i, w, ok
<1>7. /\ phase = "end" /\ phase' = "end" /\ UNCHANGED <<alive, listed>>
      /\ \A j : Tracked(j)' <=> Tracked(j)
      /\ \A e, j, stages : Hauls(e, j, stages)' <=> Hauls(e, j, stages)
      /\ \A f, e, j : Told(f, e, j)' <=> Told(f, e, j)
      /\ \A e, j : PickupHeard(e, j)' <=> PickupHeard(e, j)
      /\ \A j : (NobodyHauls(j)' <=> NobodyHauls(j)) /\ (NothingQueued(j) => NothingQueued(j)')
      /\ \A u \in Elements(updates') : u \in Elements(updates)
      /\ HaulersLive' /\ NewHauls' /\ CarriedAlone' /\ CarriedLeftAlone'
  BY <1>1, ExecuteReserves
<1>8. /\ \A j \in Item : hauler'[j] = hauler[j] \/ (ok /\ j = i /\ hauler[j] = NoOne /\ hauler'[j] = w)
      /\ \A j \in Item : loc'[j] = loc[j] \/ (j = i /\ loc'[j] \in Place)
      /\ \A j \in Item : j # i => hauler'[j] = hauler[j] /\ loc'[j] = loc[j]
  <2>1. CASE ~ ok
    BY <1>4, <2>1
  <2>2. CASE ok
    <3>1. hauler' = [hauler EXCEPT ![i] = w]
      BY <1>4, <2>2
    <3>2. PICK p \in IF loc[i] = "none" THEN Place ELSE {loc[i]} : loc' = [loc EXCEPT ![i] = p]
      BY <1>4, <2>2
    <3> QED
      BY <1>2, <1>3, <1>5, <2>2, <3>1, <3>2
  <2> QED
    BY <2>1, <2>2
<1>9. /\ \A e, j : PickupPosted(e, j) => PickupPosted(e, j)'
      /\ \A e, j : PickupPosted(e, j)' => PickupPosted(e, j) \/ (ok /\ e = w /\ j = i)
      /\ \A e, j : ok /\ e = w /\ j = i => PickupPosted(e, j)'
  <2>0. ok \in BOOLEAN
    BY DEF ok
  <2>1. \A e, j : Hauled(j, e, TRUE) = Hauled(i, w, ok) => ok /\ e = w /\ j = i
    BY <2>0 DEF Hauled
  <2>2. ok => Hauled(i, w, TRUE) = Hauled(i, w, ok)
    BY <2>0
  <2>3. \A x : x \in Elements(events') <=> x \in Elements(events) \/ x = Hauled(i, w, ok)
    BY <1>6
  <2>4. \A e, j : PickupPosted(e, j) => PickupPosted(e, j)'
    BY <2>3 DEF PickupPosted, Posted
  <2>5. \A e, j : PickupPosted(e, j)' => PickupPosted(e, j) \/ (ok /\ e = w /\ j = i)
    BY <2>1, <2>3 DEF PickupPosted, Posted
  <2>6. \A e, j : ok /\ e = w /\ j = i => PickupPosted(e, j)'
    BY <2>2, <2>3 DEF PickupPosted, Posted
  <2> QED
    BY <2>4, <2>5, <2>6
<1>10. \A e \in Entity : e # NoOne
  BY BuildAssumption DEF Entity
<1>11. ToldOrPosted'
  <2> SUFFICES ASSUME NEW f \in Entity, NEW e \in Entity, NEW j \in Item, Tracked(j), hauler'[j] = e, f # e,
                      Hauls(f, j, {"walk", "wait"})
               PROVE  PickupPosted(e, j)' \/ Told(f, e, j)
    BY <1>7 DEF ToldOrPosted
  <2>1. CASE hauler[j] = e
    BY <1>9, <2>1 DEF ToldOrPosted
  <2>2. CASE ok /\ j = i /\ e = w
    BY <1>9, <2>2
  <2> QED
    BY <1>8, <2>1, <2>2
<1>12. HeardOnce'
  <2> SUFFICES ASSUME NEW e \in Entity, NEW f \in Entity, NEW j \in Item, Tracked(j), PickupPosted(e, j)',
                      PickupHeard(f, j)
               PROVE  FALSE
    BY <1>7 DEF HeardOnce
  <2>1. hauler[j] = f
    BY CarriedByOne
  <2>2. ~ PickupPosted(e, j)
    BY <1>7 DEF HeardOnce
  <2> QED
    BY <1>5, <1>9, <1>10, <2>1, <2>2
<1>13. CarriedIsHeard'
  <2> SUFFICES ASSUME NEW e \in Entity, NEW f \in Entity, NEW j \in Item, Tracked(j), Hauls(e, j, {"carry"}),
                      PickupPosted(f, j)'
               PROVE  FALSE
    BY <1>7 DEF CarriedIsHeard
  <2>1. hauler[j] = e
    BY CarriedByOne
  <2>2. ~ PickupPosted(f, j)
    BY DEF CarriedIsHeard
  <2> QED
    BY <1>5, <1>9, <1>10, <2>1, <2>2
<1>14. PutDownFirst'
  <2> SUFFICES ASSUME NEW e \in Entity, NEW j \in Item, NEW n \in DOMAIN updates', Tracked(j),
                      updates'[n] = Reserve(j, e)
               PROVE  NobodyHauls(j) /\ j \notin reserved_for /\ InOrder(j, e, n)'
    BY <1>1, <1>7 DEF PutDownFirst
  <2>1. /\ NobodyHauls(j) /\ j \notin reserved_for /\ InOrder(j, e, n + 1)
        /\ i = j => Head(updates) \in {Stop(j, e), Drop(j, e, "site")}
    BY <1>1, <1>2, ReservesQueued
  <2>2. \A to : Pickup(i, w) # Stop(j, e) /\ Pickup(i, w) # Drop(j, e, to)
    BY DEF Pickup, Stop, Drop, Queued
  <2>3. i # j
    BY <1>2, <2>1, <2>2
  <2>4. hauler'[j] = hauler[j] /\ loc'[j] = loc[j]
    BY <1>8, <2>3
  <2>5. InOrder(j, e, n)'
    BY <1>1, <1>2, <2>1, <2>2, <2>4, OrderMoves
  <2> QED
    BY <2>1, <2>5
<1>15. ReservedLeftAlone'
  <2> SUFFICES ASSUME NEW j \in reserved_for, Tracked(j)
               PROVE  /\ hauler'[j] = NoOne /\ NobodyHauls(j) /\ NothingQueued(j)
                      /\ (loc'[j] = "site" /\ j \notin consumed) \/ (loc'[j] = "none" /\ j \in consumed)
                      /\ listed => j \in reserved_materials
    BY <1>1, <1>7 DEF ReservedLeftAlone
  <2>1. /\ hauler[j] = NoOne /\ NobodyHauls(j) /\ NothingQueued(j)
        /\ (loc[j] = "site" /\ j \notin consumed) \/ (loc[j] = "none" /\ j \in consumed)
        /\ listed => j \in reserved_materials
    BY DEF ReservedLeftAlone
  <2>2. j \in Item /\ j # i
    BY <1>2, <2>1 DEF NothingQueued, BuildTypes, ItemTypes
  <2> QED
    BY <1>8, <2>1, <2>2
<1>16. ConsumedReserved'
  <2>1. \A j \in Item : loc'[j] = "none" => loc[j] = "none"
    BY <1>8 DEF Place
  <2> QED
    BY <1>1, <1>7, <2>1 DEF ConsumedReserved, Queue
<1> QED
  BY <1>7, <1>11, <1>12, <1>13, <1>14, <1>15, <1>16

\* An update that lets go of an item, or has nothing to do with haulers.
LEMMA LetsGo ==
    ASSUME BuildTypes, HaulInv, ReserveInv, NEW op, Execute(op), UNCHANGED events,
           \A j \in Item : hauler'[j] \in {hauler[j], NoOne}
    PROVE  /\ HaulersLive' /\ NewHauls' /\ ToldOrPosted' /\ HeardOnce' /\ CarriedIsHeard'
           /\ CarriedAlone' /\ CarriedLeftAlone'
<1> USE DEF ReserveInv
<1>1. /\ phase = "end" /\ phase' = "end"
      /\ \A j : Tracked(j)' <=> Tracked(j)
      /\ \A e, j, stages : Hauls(e, j, stages)' <=> Hauls(e, j, stages)
      /\ \A f, e, j : Told(f, e, j)' <=> Told(f, e, j)
      /\ \A e, j : PickupHeard(e, j)' <=> PickupHeard(e, j)
      /\ HaulersLive' /\ NewHauls' /\ CarriedAlone' /\ CarriedLeftAlone'
  BY ExecuteReserves
<1>2. \A e, j : PickupPosted(e, j)' <=> PickupPosted(e, j)
  BY DEF PickupPosted, Posted
<1>3. \A e \in Entity : e # NoOne
  BY BuildAssumption DEF Entity
<1>4. ToldOrPosted'
  BY <1>1, <1>2, <1>3 DEF ToldOrPosted
<1>5. HeardOnce'
  BY <1>1, <1>2 DEF HeardOnce
<1>6. CarriedIsHeard'
  BY <1>1, <1>2 DEF CarriedIsHeard
<1> QED
  BY <1>1, <1>4, <1>5, <1>6

\* A stop or a drop comes before its item is reserved, or has nothing to do with the job.
LEMMA StopReserves ==
    ASSUME BuildTypes, HaulInv, ReserveInv, ExecuteStop
    PROVE  ReserveInv'
<1> USE DEF ReserveInv
<1> DEFINE i == TheThing
           w == Who
<1>1. /\ Execute("stop hauling item")
      /\ UNCHANGED <<loc, reserved_for, consumed, reserved_materials, events>>
      /\ hauler[i] \in {w, NoOne} => hauler' = [hauler EXCEPT ![i] = NoOne]
      /\ hauler[i] \notin {w, NoOne} => UNCHANGED hauler
  BY DEF ExecuteStop
<1>2. /\ i \in Item /\ w \in Entity /\ Head(updates) = Stop(i, w) /\ Head(updates) \in Queue
      /\ \A j : IsAbout(Head(updates), j) <=> i = j
  BY <1>1, NextUpdate DEF ItemOps
<1>3. hauler \in [Item -> Entity \cup {NoOne}]
  BY DEF BuildTypes, ItemTypes
<1> HIDE DEF i, w
<1>4. /\ phase = "end" /\ phase' = "end" /\ UNCHANGED <<alive, listed>>
      /\ \A j : Tracked(j)' <=> Tracked(j)
      /\ \A j : (NobodyHauls(j)' <=> NobodyHauls(j)) /\ (NothingQueued(j) => NothingQueued(j)')
      /\ \A u \in Elements(updates') : u \in Elements(updates)
  BY <1>1, ExecuteReserves
<1>5. /\ \A j \in Item : hauler'[j] \in {hauler[j], NoOne}
      /\ \A j \in Item : j # i => hauler'[j] = hauler[j]
      /\ hauler[i] \in {w, NoOne} => hauler'[i] = NoOne
  BY <1>1, <1>2, <1>3
<1>6. PutDownFirst'
  <2> SUFFICES ASSUME NEW e \in Entity, NEW j \in Item, NEW n \in DOMAIN updates', Tracked(j),
                      updates'[n] = Reserve(j, e)
               PROVE  NobodyHauls(j) /\ j \notin reserved_for /\ InOrder(j, e, n)'
    BY <1>1, <1>4 DEF PutDownFirst
  <2>1. /\ NobodyHauls(j) /\ j \notin reserved_for /\ InOrder(j, e, n + 1)
        /\ i = j => Head(updates) \in {Stop(j, e), Drop(j, e, "site")}
    BY <1>1, <1>2, ReservesQueued
  <2>2. \A to : Stop(i, w) # Drop(j, e, to)
    BY DEF Stop, Drop, Queued
  <2>3. Stop(i, w) = Stop(j, e) => i = j /\ w = e
    BY DEF Stop, Queued
  <2>4. hauler'[j] = NoOne \/ (hauler'[j] = hauler[j] /\ Head(updates) # Stop(j, e))
    <3>1. CASE i = j
      <4>1. w = e
        BY <1>2, <2>1, <2>2, <2>3, <3>1
      <4>2. hauler[j] \in {NoOne, e}
        BY <2>1 DEF InOrder
      <4> QED
        BY <1>5, <3>1, <4>1, <4>2
    <3>2. CASE i # j
      BY <1>2, <1>5, <2>3, <3>2
    <3> QED
      BY <3>1, <3>2
  <2>5. loc'[j] = loc[j] /\ Head(updates) # Drop(j, e, "site")
    BY <1>1, <1>2, <2>2
  <2>6. InOrder(j, e, n)'
    BY <1>1, <2>1, <2>4, <2>5, OrderMoves
  <2> QED
    BY <2>1, <2>6
<1>7. ReservedLeftAlone'
  <2> SUFFICES ASSUME NEW j \in reserved_for, Tracked(j)
               PROVE  /\ hauler'[j] = NoOne /\ NobodyHauls(j) /\ NothingQueued(j)
                      /\ (loc[j] = "site" /\ j \notin consumed) \/ (loc[j] = "none" /\ j \in consumed)
                      /\ listed => j \in reserved_materials
    BY <1>1, <1>4 DEF ReservedLeftAlone
  <2>1. j \in Item
    BY DEF BuildTypes, ItemTypes
  <2> QED
    BY <1>5, <2>1 DEF ReservedLeftAlone
<1>8. ConsumedReserved'
  <2>1. \A u \in Elements(updates') : \A j \in Item : Tracked(j) /\ Consumes(u, j) => j \in reserved_for
    BY <1>4 DEF ConsumedReserved, Queue
  <2> QED
    BY <1>1, <1>4, <2>1 DEF ConsumedReserved, Queue
<1> QED
  BY <1>1, <1>5, <1>6, <1>7, <1>8, LetsGo

LEMMA DropReserves ==
    ASSUME BuildTypes, HaulInv, ReserveInv, ExecuteDrop
    PROVE  ReserveInv'
<1> USE DEF ReserveInv
<1> DEFINE i == TheThing
           w == Who
           dest == Head(updates).to
<1>1. /\ Execute("drop hauled item")
      /\ UNCHANGED <<hauler, reserved_for, consumed, reserved_materials, events>>
      /\ IF hauler[i] = NoOne /\ loc[i] # "none"
         THEN loc' \in {[loc EXCEPT ![i] = p] : p \in IF dest = "feet" THEN Place ELSE {dest}}
         ELSE UNCHANGED loc
  BY DEF ExecuteDrop
<1>2. /\ i \in Item /\ w \in Entity /\ Head(updates) = Drop(i, w, dest) /\ Head(updates) \in Queue
      /\ \A j : IsAbout(Head(updates), j) <=> i = j
      /\ dest \in Place \cup {"feet"}
  BY <1>1, NextUpdate DEF ItemOps
<1>3. loc \in [Item -> Place \cup {"none"}]
  BY DEF BuildTypes, ItemTypes
<1> HIDE DEF i, w, dest
<1>4. /\ phase = "end" /\ phase' = "end" /\ UNCHANGED <<alive, listed>>
      /\ \A j : Tracked(j)' <=> Tracked(j)
      /\ \A j : (NobodyHauls(j)' <=> NobodyHauls(j)) /\ (NothingQueued(j) => NothingQueued(j)')
      /\ \A u \in Elements(updates') : u \in Elements(updates)
  BY <1>1, ExecuteReserves
<1>5. /\ \A j \in Item : j # i => loc'[j] = loc[j]
      /\ loc'[i] = "none" => loc[i] = "none"
      /\ hauler[i] = NoOne /\ loc[i] # "none" /\ dest = "site" => loc'[i] = "site"
      /\ ~ (hauler[i] = NoOne /\ loc[i] # "none") => loc'[i] = loc[i]
  <2>1. CASE hauler[i] = NoOne /\ loc[i] # "none"
    <3>1. PICK p \in IF dest = "feet" THEN Place ELSE {dest} : loc' = [loc EXCEPT ![i] = p]
      BY <1>1, <2>1
    <3>2. p \in Place /\ (dest = "site" => p = "site")
      BY <1>2, <3>1
    <3> QED
      BY <1>2, <1>3, <2>1, <3>1, <3>2 DEF Place
  <2>2. CASE ~ (hauler[i] = NoOne /\ loc[i] # "none")
    BY <1>1, <2>2
  <2> QED
    BY <2>1, <2>2
<1>6. PutDownFirst'
  <2> SUFFICES ASSUME NEW e \in Entity, NEW j \in Item, NEW n \in DOMAIN updates', Tracked(j),
                      updates'[n] = Reserve(j, e)
               PROVE  NobodyHauls(j) /\ j \notin reserved_for /\ InOrder(j, e, n)'
    BY <1>1, <1>4 DEF PutDownFirst
  <2>1. /\ NobodyHauls(j) /\ j \notin reserved_for /\ InOrder(j, e, n + 1)
        /\ i = j => Head(updates) \in {Stop(j, e), Drop(j, e, "site")}
    BY <1>1, <1>2, ReservesQueued
  <2>2. Drop(i, w, dest) # Stop(j, e)
    BY DEF Stop, Drop, Queued
  <2>3. Drop(i, w, dest) = Drop(j, e, "site") => i = j /\ dest = "site"
    BY DEF Drop
  <2>4. InOrder(j, e, n)'
    <3>1. CASE i # j
      <4>1. loc'[j] = loc[j] /\ Head(updates) # Drop(j, e, "site")
        BY <1>2, <1>5, <2>3, <3>1
      <4> QED
        BY <1>1, <1>2, <2>1, <2>2, <4>1, OrderMoves
    <3>2. CASE i = j /\ hauler[j] = NoOne
      <4>1. dest = "site" /\ loc[j] # "none"
        BY <1>2, <2>1, <2>2, <2>3, <3>2 DEF ConsumedReserved
      <4>2. loc'[j] = "site"
        BY <1>5, <3>2, <4>1
      <4> QED
        BY <1>1, <1>2, <2>1, <2>2, <4>2, OrderMoves
    \* The drop of somebody who is still hauling does nothing; another follows.
    <3>3. CASE i = j /\ hauler[j] # NoOne
      BY <1>1, <1>2, <2>1, <2>2, <3>3, OrderMoves
    <3> QED
      BY <3>1, <3>2, <3>3
  <2> QED
    BY <2>1, <2>4
<1>7. ReservedLeftAlone'
  <2> SUFFICES ASSUME NEW j \in reserved_for, Tracked(j)
               PROVE  /\ hauler[j] = NoOne /\ NobodyHauls(j) /\ NothingQueued(j)
                      /\ (loc'[j] = "site" /\ j \notin consumed) \/ (loc'[j] = "none" /\ j \in consumed)
                      /\ listed => j \in reserved_materials
    BY <1>1, <1>4 DEF ReservedLeftAlone
  <2>1. NothingQueued(j) /\ j \in Item
    BY DEF ReservedLeftAlone, BuildTypes, ItemTypes
  <2>2. loc'[j] = loc[j]
    BY <1>2, <1>5, <2>1 DEF NothingQueued
  <2> QED
    BY <2>2 DEF ReservedLeftAlone
<1>8. ConsumedReserved'
  <2>1. \A j \in Item : loc'[j] = "none" => loc[j] = "none"
    BY <1>5
  <2>2. \A u \in Elements(updates') : \A j \in Item : Tracked(j) /\ Consumes(u, j) => j \in reserved_for
    BY <1>4 DEF ConsumedReserved, Queue
  <2> QED
    BY <1>1, <1>4, <2>1, <2>2 DEF ConsumedReserved, Queue
<1>9. \A j \in Item : hauler'[j] \in {hauler[j], NoOne}
  BY <1>1
<1> QED
  BY <1>1, <1>6, <1>7, <1>8, <1>9, LetsGo

\* What is reserved has just been put down, and nobody is after it.
LEMMA ReserveReserves ==
    ASSUME BuildTypes, HaulInv, ReserveInv, ExecuteReserve
    PROVE  ReserveInv'
<1> USE DEF ReserveInv
<1> DEFINE i == TheThing
           w == Who
<1>1. /\ Execute("reserve material")
      /\ UNCHANGED <<loc, hauler, consumed, events>>
  BY DEF ExecuteReserve
<1>2. /\ i \in Item /\ w \in Entity /\ Head(updates) = Reserve(i, w) /\ Head(updates) \in Queue
      /\ \A j : IsAbout(Head(updates), j) <=> i = j
      /\ Things = {i}
  BY <1>1, NextUpdate DEF ItemOps
<1>3. /\ reserved_for \subseteq reserved_for' /\ reserved_for' \subseteq reserved_for \cup {i}
      /\ reserved_materials \subseteq reserved_materials'
      /\ \A j : j \in reserved_for' => j \in reserved_for \/ (j = i /\ i \in reserved_materials')
      /\ listed => \A j : j \in reserved_materials' => j \in reserved_materials \/ j \in reserved_for'
  BY <1>2 DEF ExecuteReserve
<1> HIDE DEF i, w
<1>4. /\ phase = "end" /\ phase' = "end" /\ UNCHANGED <<alive, listed>>
      /\ \A j : Tracked(j)' <=> Tracked(j)
      /\ \A j : (NobodyHauls(j)' <=> NobodyHauls(j)) /\ (NothingQueued(j) => NothingQueued(j)')
      /\ \A u \in Elements(updates') : u \in Elements(updates)
  BY <1>1, ExecuteReserves
<1>5. /\ \A n \in DOMAIN updates' : n + 1 \in DOMAIN updates /\ updates'[n] = updates[n + 1]
      /\ 1 \in DOMAIN updates /\ updates[1] = Head(updates)
      /\ \A n \in DOMAIN updates' : n \in Nat /\ n >= 1
  BY <1>1, QueueMoves
<1>6. /\ \A j, f : Reserve(i, w) # Stop(j, f)
      /\ \A j, f, to : Reserve(i, w) # Drop(j, f, to)
  BY ReservesDiffer
<1>7. ASSUME Tracked(i)
      PROVE  /\ NobodyHauls(i) /\ i \notin reserved_for /\ hauler[i] = NoOne /\ loc[i] = "site"
             /\ i \notin consumed /\ \A j : j = i => NothingQueued(j)'
  <2>1. NobodyHauls(i) /\ i \notin reserved_for /\ InOrder(i, w, 1)
    BY <1>2, <1>5, <1>7 DEF PutDownFirst
  <2>2. DOMAIN updates \subseteq Nat /\ \A k \in DOMAIN updates : k >= 1
    BY <1>1, QueueMoves
  <2>3. \A k \in DOMAIN updates : ~ (k < 1)
    BY <2>2
  <2>4. hauler[i] = NoOne /\ loc[i] = "site"
    BY <2>1, <2>3 DEF InOrder
  <2>5. i \notin consumed
    BY <1>2, <1>7, <2>1 DEF ConsumedReserved
  <2>6. \A m \in DOMAIN updates' : ~ IsAbout(updates'[m], i)
    <3> SUFFICES ASSUME NEW m \in DOMAIN updates', IsAbout(updates'[m], i) PROVE FALSE
      OBVIOUS
    <3>1. m + 1 \in DOMAIN updates /\ IsAbout(updates[m + 1], i) /\ m \in Nat /\ m >= 1
      BY <1>5
    <3>2. m + 1 = 1
      BY <2>1, <2>3, <3>1 DEF InOrder
    <3> QED
      BY <3>1, <3>2
  <2>7. \A u \in Elements(updates') : ~ IsAbout(u, i)
    BY <2>6 DEF Elements
  <2>8. \A j : j = i => NothingQueued(j)'
    BY <2>7 DEF NothingQueued, Queue
  <2> QED
    BY <2>1, <2>4, <2>5, <2>8
<1>8. PutDownFirst'
  <2> SUFFICES ASSUME NEW e \in Entity, NEW j \in Item, NEW n \in DOMAIN updates', Tracked(j),
                      updates'[n] = Reserve(j, e)
               PROVE  NobodyHauls(j) /\ j \notin reserved_for' /\ InOrder(j, e, n)'
    BY <1>4 DEF PutDownFirst
  <2>1. /\ NobodyHauls(j) /\ j \notin reserved_for /\ InOrder(j, e, n + 1)
        /\ i = j => Head(updates) \in {Stop(j, e), Drop(j, e, "site")}
    BY <1>1, <1>2, ReservesQueued
  <2>2. i # j
    BY <1>2, <1>6, <2>1
  <2>3. InOrder(j, e, n)'
    BY <1>1, <1>2, <1>6, <2>1, OrderMoves
  <2> QED
    BY <1>3, <2>1, <2>2, <2>3
<1>9. ReservedLeftAlone'
  <2> SUFFICES ASSUME NEW j \in reserved_for', Tracked(j)
               PROVE  /\ hauler[j] = NoOne /\ NobodyHauls(j) /\ NothingQueued(j)'
                      /\ (loc[j] = "site" /\ j \notin consumed) \/ (loc[j] = "none" /\ j \in consumed)
                      /\ listed => j \in reserved_materials'
    BY <1>1, <1>4 DEF ReservedLeftAlone
  <2>1. CASE j \in reserved_for
    BY <1>3, <1>4, <2>1 DEF ReservedLeftAlone
  <2>2. CASE j = i /\ i \in reserved_materials'
    BY <1>7, <2>2
  <2> QED
    BY <1>3, <2>1, <2>2
<1>10. ConsumedReserved'
  <2>1. \A u \in Elements(updates') : \A j \in Item : Tracked(j) /\ Consumes(u, j) => j \in reserved_for'
    BY <1>3, <1>4 DEF ConsumedReserved, Queue
  <2>2. \A j \in Item : Tracked(j) /\ (j \in consumed \/ loc[j] = "none") => j \in reserved_for'
    BY <1>3 DEF ConsumedReserved
  <2>3. listed => reserved_materials' \subseteq reserved_for'
    BY <1>3, <1>4 DEF ConsumedReserved
  <2> QED
    BY <1>1, <1>4, <2>1, <2>2, <2>3 DEF ConsumedReserved, Queue
<1>11. \A j \in Item : hauler'[j] \in {hauler[j], NoOne}
  BY <1>1
<1> QED
  BY <1>1, <1>8, <1>9, <1>10, <1>11, LetsGo

\* Only what is reserved is consumed, and is gone then.
LEMMA ConsumeReserves ==
    ASSUME BuildTypes, HaulInv, ReserveInv, ExecuteConsume \/ ExecuteDestroy
    PROVE  ReserveInv'
<1> USE DEF ReserveInv
<1>1. PICK op \in {"start wip build", "destroy materials"} :
         /\ Execute(op) /\ UNCHANGED <<hauler, reserved_for, reserved_materials, events>>
         /\ op = "start wip build" => /\ loc' = [i \in Item |-> IF i \in Things THEN "none" ELSE loc[i]]
                                      /\ consumed' = consumed \cup (Things \cap alive)
         /\ op # "start wip build" => UNCHANGED <<loc, consumed>>
  BY DEF ExecuteConsume, ExecuteDestroy, itemvars
<1>2. /\ Head(updates) \in Queue /\ \A j : ~ IsAbout(Head(updates), j)
      /\ op = "start wip build" => \A j : Consumes(Head(updates), j) <=> j \in Things
  BY <1>1, NextUpdate DEF ItemOps
<1>3. loc \in [Item -> Place \cup {"none"}]
  BY DEF BuildTypes, ItemTypes
<1>4. /\ phase = "end" /\ phase' = "end" /\ UNCHANGED <<alive, listed>>
      /\ \A j : Tracked(j)' <=> Tracked(j)
      /\ \A j : (NobodyHauls(j)' <=> NobodyHauls(j)) /\ (NothingQueued(j) => NothingQueued(j)')
      /\ \A u \in Elements(updates') : u \in Elements(updates)
  BY <1>1, ExecuteReserves
<1>5. ASSUME NEW j \in Item, Tracked(j)
      PROVE  \/ loc'[j] = loc[j] /\ (j \in consumed' <=> j \in consumed)
             \/ j \in reserved_for /\ loc'[j] = "none" /\ j \in consumed'
  <2>1. CASE op = "start wip build" /\ j \in Things
    <3>1. j \in reserved_for
      BY <1>2, <1>5, <2>1 DEF ConsumedReserved
    <3> QED
      BY <1>1, <1>5, <2>1, <3>1 DEF Tracked
  <2>2. CASE ~ (op = "start wip build" /\ j \in Things)
    BY <1>1, <1>3, <2>2
  <2> QED
    BY <2>1, <2>2
<1>6. PutDownFirst'
  <2> SUFFICES ASSUME NEW e \in Entity, NEW j \in Item, NEW n \in DOMAIN updates', Tracked(j),
                      updates'[n] = Reserve(j, e)
               PROVE  NobodyHauls(j) /\ j \notin reserved_for /\ InOrder(j, e, n)'
    BY <1>1, <1>4 DEF PutDownFirst
  <2>1. NobodyHauls(j) /\ j \notin reserved_for /\ InOrder(j, e, n + 1)
    BY <1>1, ReservesQueued
  <2>2. Head(updates) # Stop(j, e) /\ Head(updates) # Drop(j, e, "site")
    <3>1. IsAbout(Stop(j, e), j) /\ IsAbout(Drop(j, e, "site"), j)
      BY UpdatesAbout
    <3> QED
      BY <1>2, <3>1
  <2>3. loc'[j] = loc[j]
    BY <1>5, <2>1
  <2>4. InOrder(j, e, n)'
    BY <1>1, <2>1, <2>2, <2>3, OrderMoves
  <2> QED
    BY <2>1, <2>4
<1>7. ReservedLeftAlone'
  <2> SUFFICES ASSUME NEW j \in reserved_for, Tracked(j)
               PROVE  /\ hauler[j] = NoOne /\ NobodyHauls(j) /\ NothingQueued(j)
                      /\ (loc'[j] = "site" /\ j \notin consumed') \/ (loc'[j] = "none" /\ j \in consumed')
                      /\ listed => j \in reserved_materials
    BY <1>1, <1>4 DEF ReservedLeftAlone
  <2>1. j \in Item
    BY DEF BuildTypes, ItemTypes
  <2> QED
    BY <1>5, <2>1 DEF ReservedLeftAlone
<1>8. ConsumedReserved'
  <2>1. \A u \in Elements(updates') : \A j \in Item : Tracked(j) /\ Consumes(u, j) => j \in reserved_for
    BY <1>4 DEF ConsumedReserved, Queue
  <2>2. \A j \in Item : Tracked(j) /\ (j \in consumed' \/ loc'[j] = "none") => j \in reserved_for
    BY <1>5 DEF ConsumedReserved
  <2> QED
    BY <1>1, <1>4, <2>1, <2>2 DEF ConsumedReserved, Queue
<1>9. \A j \in Item : hauler'[j] \in {hauler[j], NoOne}
  BY <1>1
<1> QED
  BY <1>1, <1>6, <1>7, <1>8, <1>9, LetsGo

\* What dies is tracked no more, and the dead are after nothing.
LEMMA EndTickReserves ==
    ASSUME BuildTypes, HaulInv, ReserveInv, EndTick
    PROVE  ReserveInv'
<1> USE DEF ReserveInv
<1>1. /\ phase = "end" /\ phase' = "player" /\ updates' = <<>> /\ alive' = alive \ dying
      /\ UNCHANGED <<listed, reserved_materials, strayed>>
      /\ \A j \in Item : j \notin dying => loc'[j] = loc[j] /\ hauler'[j] = hauler[j]
      /\ reserved_for' = reserved_for \ dying /\ consumed' = consumed \ dying
      /\ \A f \in Entity : /\ f \notin dying => act'[f] = act[f] /\ sink'[f] = sink[f]
                           /\ f \in dying => act'[f] = Idle \/ (act'[f] = act[f] /\ act[f].stage = "step")
                           /\ f \in dying => sink'[f] = <<>>
  BY DEF EndTick, jobvars
<1>2. \A f \in Entity : f # NoOne
  BY BuildAssumption DEF Entity
<1>3. \A j : Tracked(j)' <=> Tracked(j) /\ j \notin dying
  BY <1>1 DEF Tracked
<1>4. \A f \in Entity : \A j, stages : Hauls(f, j, stages)' => Hauls(f, j, stages) /\ (f \notin dying \/ act[f].stage = "step")
  BY <1>1 DEF Hauls, Idle
<1>5. \A f \in Entity : \A j : \A stages \in SUBSET Active : Hauls(f, j, stages)' => Hauls(f, j, stages) /\ f \notin dying
  BY <1>4 DEF Hauls, Active
<1>6. {"new"} \in SUBSET Active /\ {"carry"} \in SUBSET Active /\ {"walk", "wait"} \in SUBSET Active
      /\ Active \in SUBSET Active
  BY DEF Active
<1>7. \A f \in Entity, j \in Item : PickupPosted(f, j)' <=> PickupPosted(f, j)
  <2>1. /\ Elements(events') \subseteq Elements(events) \cup {Died(i) : i \in dying \cap Item}
        /\ Elements(events) \subseteq Elements(events')
    BY EndTickEvents
  <2>2. \A f \in Entity, j \in Item : \A i : Hauled(j, f, TRUE) # Died(i)
    BY <1>2 DEF Hauled, Died
  <2> QED
    BY <2>1, <2>2 DEF PickupPosted, Posted
<1>8. \A f \in Entity, j \in Item : PickupHeard(f, j)' => PickupHeard(f, j)
  BY <1>1, NoUpdates DEF PickupHeard, Delivered
<1>9. \A f, g \in Entity, j \in Item : f \notin dying => (Told(f, g, j)' <=> Told(f, g, j))
  BY <1>1 DEF Told, Delivered
<1>10. \A j : NothingQueued(j)' /\ (NobodyHauls(j) => NobodyHauls(j)')
  <2>1. \A j : NobodyHauls(j) => NobodyHauls(j)'
    BY <1>5, <1>6 DEF NobodyHauls
  <2> QED
    BY <1>1, <2>1, NoUpdates DEF NothingQueued, Queue
<1>11. HaulersLive'
  BY <1>1, <1>5, <1>6 DEF HaulersLive
<1>12. NewHauls'
  BY <1>1, <1>3, <1>5, <1>6 DEF NewHauls
<1>13. ToldOrPosted'
  <2> SUFFICES ASSUME NEW w \in Entity, NEW e \in Entity, NEW j \in Item, Tracked(j), j \notin dying,
                      hauler[j] = e, w # e, Hauls(w, j, {"walk", "wait"}), w \notin dying
               PROVE  PickupPosted(e, j) \/ Told(w, e, j)
    BY <1>1, <1>3, <1>5, <1>6, <1>7, <1>9 DEF ToldOrPosted
  <2> QED
    BY DEF ToldOrPosted
<1>14. HeardOnce'
  BY <1>1, <1>3, <1>7, <1>8 DEF HeardOnce
<1>15. CarriedIsHeard'
  BY <1>3, <1>5, <1>6, <1>7 DEF CarriedIsHeard
<1>16. CarriedAlone'
  BY <1>1, <1>3, <1>5, <1>6 DEF CarriedAlone
<1>17. CarriedLeftAlone'
  BY <1>10 DEF CarriedLeftAlone
<1>18. PutDownFirst'
  BY <1>1 DEF PutDownFirst
<1>19. ReservedLeftAlone'
  <2> SUFFICES ASSUME NEW j \in reserved_for, Tracked(j), j \notin dying
               PROVE  /\ hauler'[j] = NoOne /\ NobodyHauls(j)
                      /\ (loc'[j] = "site" /\ j \notin consumed') \/ (loc'[j] = "none" /\ j \in consumed')
                      /\ listed => j \in reserved_materials
    BY <1>1, <1>3, <1>10 DEF ReservedLeftAlone
  <2>1. j \in Item
    BY DEF BuildTypes, ItemTypes
  <2> QED
    BY <1>1, <2>1 DEF ReservedLeftAlone
<1>20. ConsumedReserved'
  <2>1. \A u : u \notin Elements(updates')
    BY <1>1, NoUpdates
  <2>2. \A j \in Item : Tracked(j)' /\ (j \in consumed' \/ loc'[j] = "none") => j \in reserved_for'
    BY <1>1, <1>3 DEF ConsumedReserved
  <2> QED
    BY <1>1, <2>1, <2>2 DEF ConsumedReserved, Queue
<1> QED
  BY <1>11, <1>12, <1>13, <1>14, <1>15, <1>16, <1>17, <1>18, <1>19, <1>20

LEMMA ReserveStep ==
    ASSUME BuildTypes, HaulInv, ReserveInv, BuildNext
    PROVE  ReserveInv'
<1>1. ASSUME NEW e \in Entity, \/ Interrupt(e) \/ Collect(e) \/ StartBuild(e)
                              \/ Continue(e) \/ \E i \in Item : StartHaul(e, i)
      PROVE  ReserveInv'
  BY <1>1, VisitsLeave, VisitReserves
<1>2. ASSUME NEW e \in Entity, PollsActivity(e) \/ BuildStep(e) PROVE ReserveInv'
  BY <1>2, PollsLeave, VisitReserves
<1> QED
  BY Actions, <1>1, <1>2, PhasesReserve, DeliverReserves, PickupReserves, StopReserves, DropReserves,
     ReserveReserves, ConsumeReserves, EndTickReserves

LEMMA ReserveInvariant == BuildSpec => [](BuildTypes /\ HaulInv /\ ReserveInv)
<1>1. BuildInit => ReserveInv
  <2> SUFFICES ASSUME BuildInit PROVE ReserveInv
    OBVIOUS
  <2>1. /\ phase = "player" /\ updates = <<>> /\ events = <<>>
        /\ \A i \in Item : loc[i] = "away" /\ hauler[i] = NoOne
        /\ consumed = {} /\ reserved_for = {}
    BY DEF BuildInit
  <2>2. \A e \in Entity : \A i, stages : ~ Hauls(e, i, stages)
    BY DEF BuildInit, Hauls, Idle
  <2>3. /\ \A e, i : ~ PickupPosted(e, i)
        /\ \A u : u \notin Queue
    BY <2>1, NoUpdates DEF PickupPosted, Posted, Queue
  <2>4. HaulersLive /\ NewHauls /\ ToldOrPosted /\ HeardOnce
    BY <2>1, <2>2, <2>3 DEF HaulersLive, NewHauls, ToldOrPosted, HeardOnce
  <2>5. CarriedIsHeard /\ CarriedAlone /\ CarriedLeftAlone
    BY <2>2 DEF CarriedIsHeard, CarriedAlone, CarriedLeftAlone
  <2>6. PutDownFirst /\ ReservedLeftAlone
    BY <2>1 DEF PutDownFirst, ReservedLeftAlone
  <2>7. ConsumedReserved
    BY <2>1, <2>3 DEF ConsumedReserved
  <2> QED
    BY <2>4, <2>5, <2>6, <2>7 DEF ReserveInv
<1>2. BuildTypes /\ HaulInv /\ ReserveInv /\ [BuildNext]_bwvars => ReserveInv'
  <2>1. ASSUME BuildTypes, HaulInv, ReserveInv, UNCHANGED bwvars PROVE ReserveInv'
    <3>1. /\ UNCHANGED <<phase, todo, alive, loc, hauler, reserved_for, consumed, listed, reserved_materials>>
          /\ UNCHANGED <<act, updates, events, sink, strayed>>
      BY <2>1 DEF bwvars, clock, lifevars, itemvars, jobvars, eventvars
    <3> USE <2>1, <3>1 DEF ReserveInv, Hauls, Tracked, Told, Delivered, PickupPosted, Posted, PickupHeard,
                           NobodyHauls, NothingQueued, Queue
    <3>2. HaulersLive' /\ NewHauls' /\ ToldOrPosted'
      BY DEF HaulersLive, NewHauls, ToldOrPosted
    <3>3. HeardOnce' /\ CarriedIsHeard' /\ CarriedAlone' /\ CarriedLeftAlone'
      BY DEF HeardOnce, CarriedIsHeard, CarriedAlone, CarriedLeftAlone
    <3>4. PutDownFirst'
      BY DEF PutDownFirst, InOrder
    <3>5. ReservedLeftAlone' /\ ConsumedReserved'
      BY DEF ReservedLeftAlone, ConsumedReserved
    <3> QED
      BY <3>2, <3>3, <3>4, <3>5
  <2> QED
    BY <2>1, ReserveStep
<1> QED
  BY <1>1, <1>2, HaulInvariant, PTL DEF BuildSpec

\* The reservations of a job are never more than it needs, and what its society leaves
\* alone for it counts as such, for any number of workers, strangers and items.
THEOREM ReservationsCount == BuildSpec => []ReservationsAddUp
<1>1. BuildTypes /\ HaulInv /\ ReserveInv => ReservationsAddUp
  <2> SUFFICES ASSUME BuildTypes, ReserveInv PROVE ReservationsAddUp
    OBVIOUS
  <2>1. ASSUME listed PROVE Cardinality(ValidMaterials) <= Needed
    <3>1. /\ reserved_materials \in SUBSET Item /\ materials_remaining \in Nat
          /\ Cardinality(reserved_materials) + materials_remaining <= Needed
      BY <2>1, BuildAssumption DEF BuildTypes, JobTypes
    <3>2. IsFiniteSet(reserved_materials)
      BY <3>1, BuildAssumption, FS_Subset
    <3>3. ValidMaterials \in SUBSET reserved_materials
      BY DEF ValidMaterials
    <3>4. /\ Cardinality(ValidMaterials) <= Cardinality(reserved_materials)
          /\ Cardinality(ValidMaterials) \in Nat /\ Cardinality(reserved_materials) \in Nat
      BY <3>2, <3>3, FS_Subset, FS_CardinalityType
    <3> QED
      BY <3>1, <3>4, BuildAssumption
  <2>2. ASSUME listed PROVE reserved_for \ strayed \subseteq reserved_materials
    BY <2>2 DEF ReserveInv, ReservedLeftAlone, Tracked, BuildTypes, ItemTypes
  <2> QED
    BY <2>1, <2>2, TypesOK DEF ReservationsAddUp
<1> QED
  BY <1>1, ReserveInvariant, PTL

\* An item that is hauled is in the world whenever HaulSystem moves it, whoever dies
\* or gives up, unless a stranger was after it or a worker missed an event of it.
THEOREM HauledInWorld == BuildSpec => []HauledHasTransform
<1>1. BuildTypes /\ HaulInv /\ ReserveInv => HauledHasTransform
  <2> SUFFICES ASSUME BuildTypes, HaulInv, ReserveInv, NEW i \in Item, i \notin strayed,
                      hauler[i] # NoOne, loc[i] = "none"
               PROVE  FALSE
    BY DEF HauledHasTransform
  <2>1. Tracked(i)
    BY DEF HaulInv, HandsMatchHaulers, Tracked
  <2>2. i \in reserved_for
    BY <2>1 DEF ReserveInv, ConsumedReserved
  <2> QED
    BY <2>1, <2>2 DEF ReserveInv, ReservedLeftAlone
<1> QED
  BY <1>1, ReserveInvariant, PTL

\* The exception is no wider than that: with no strangers, and as long as nobody kills a
\* worker, no item strays.
THEOREM NothingStrays ==
    ASSUME Stranger = {}, Worker \cap (Mortal \cup Item) = {}
    PROVE  BuildSpec => [](strayed = {})
<1> DEFINE Calm == strayed = {} /\ ghosts = {} /\ dying \cap Worker = {}
<1>1. BuildInit => Calm
  BY DEF BuildInit
<1>2. ASSUME BuildTypes, Calm, BuildNext PROVE Calm'
  <2> USE <1>2
  <2>1. CASE CancelJob \/ RefreshJob \/ EndActivity \/ EndPoll \/ MoveHauled
    BY <2>1 DEF CancelJob, RefreshJob, EndActivity, EndPoll, MoveHauled, lifevars, eventvars, bwvars
  <2>2. CASE \E x \in Mortal : Kill(x)
    BY <2>2 DEF Kill, eventvars
  <2>3. CASE \E e \in Entity : \/ Interrupt(e) \/ Collect(e) \/ StartBuild(e)
                              \/ Continue(e) \/ \E i \in Item : StartHaul(e, i)
    BY <2>3 DEF Interrupt, Collect, StartBuild, Continue, StartHaul, Visit, lifevars
  <2>4. CASE \E e \in Entity : PollsActivity(e) \/ BuildStep(e)
    BY <2>4 DEF PollsActivity, KeepWalking, Fail, ArriveAtItem, HearPickup, PutDown, ReachBlock,
                WaitToStep, BuildStep, Polled, lifevars
  <2>5. CASE DeliverEvent
    BY <2>5 DEF DeliverEvent, lifevars
  <2>6. CASE ExecutePickup \/ ExecuteStop \/ ExecuteDrop \/ ExecuteReserve \/ ExecuteConsume
    BY <2>6 DEF ExecutePickup, ExecuteStop, ExecuteDrop, ExecuteReserve, ExecuteConsume, Execute
  <2>7. CASE ExecuteDestroy
    <3>1. Things \subseteq Item
      BY <2>7, HeadTypes DEF ExecuteDestroy, BuildTypes
    <3> QED
      BY <2>7, <3>1 DEF ExecuteDestroy, Execute
  <2>8. CASE EndTick
    BY <2>8 DEF EndTick, Entity
  <2> QED
    BY Actions, <2>1, <2>2, <2>3, <2>4, <2>5, <2>6, <2>7, <2>8
<1>3. BuildTypes /\ Calm /\ [BuildNext]_bwvars => Calm'
  <2>1. ASSUME Calm, UNCHANGED bwvars PROVE Calm'
    BY <2>1 DEF bwvars, lifevars, eventvars
  <2> QED
    BY <1>2, <2>1
<1>4. BuildSpec => []BuildTypes
  BY HaulInvariant, PTL
<1>5. Calm => strayed = {}
  OBVIOUS
<1> HIDE DEF Calm
<1> QED
  BY <1>1, <1>3, <1>4, <1>5, PTL DEF BuildSpec

-----------------------------------------------------------------------------
(***************************************************************************)
(* That a block costs all its materials, if nobody else is after them and  *)
(* nobody is killed.                                                       *)
(*                                                                         *)
(* Nothing is lost before the block is placed: an item that is reserved    *)
(* stays so (NothingLost, with ReserveInv).  So a job that had all of its  *)
(* materials when somebody began to build has them until that is over      *)
(* (JobSupplied), and what the builder found reserved when it reached the  *)
(* block is consumed before its first step (BuildersPay).                  *)
(***************************************************************************)

Unbuilt == terrain_updates = 0 /\ block = "Air"

NothingLost ==
    /\ alive = Entity \cup Item /\ dying = {} /\ strayed = {} /\ ghosts = {}
    /\ \A u \in Queue : u.op # "destroy materials"

Builds(e) == act[e].kind = "build" /\ act[e].stage \in {"new", "walk", "step"}

JobSupplied ==
    listed =>
        /\ reserved_materials \subseteq reserved_for
        /\ phase # "player" => Cardinality(reserved_materials) + materials_remaining = Needed
        /\ \A e \in Entity : Builds(e) =>
              materials_remaining = 0 /\ Cardinality(reserved_materials) = Needed

ConsumeQueued(e) ==
    /\ Consume(act[e].materials, e) \in Queue
    /\ phase \in {"poll", "deliver", "end"} /\ (phase = "poll" => e \notin todo)

BuildersPay ==
    \A e \in Entity : act[e].stage = "step" =>
        /\ Cardinality(act[e].materials) = Needed
        /\ act[e].materials \subseteq consumed \/ ConsumeQueued(e)

PaidInv == Unbuilt => NothingLost /\ JobSupplied /\ BuildersPay

\* What else is known of the state.
WorkInv == BuildTypes /\ BuildersReserve /\ PlacesOnce /\ HaulInv /\ ReserveInv

\* Only a step of a build places a block.
LEMMA BuildStepPlaces ==
    ASSUME BuildTypes, BuildNext
    PROVE  /\ Unbuilt' => Unbuilt
           /\ terrain_updates' > terrain_updates =>
                \E e \in Entity : BuildStep(e) /\ block = "Air"
<1>1. terrain_updates \in Nat
  BY DEF BuildTypes, JobTypes
<1>2. CASE UNCHANGED worldvars
  BY <1>1, <1>2 DEF worldvars, Unbuilt
<1>3. CASE EndTick
  BY <1>1, <1>3 DEF EndTick, Unbuilt
<1>4. ASSUME NEW e \in Entity, BuildStep(e)
      PROVE  /\ Unbuilt' => Unbuilt
             /\ terrain_updates' > terrain_updates => block = "Air"
  BY <1>1, <1>4 DEF BuildStep, Polled, Unbuilt
<1>5. ASSUME NEW e \in Entity, PollsActivity(e) PROVE UNCHANGED worldvars
  <2>1. ActivityTypes
    BY DEF BuildTypes
  <2> QED
    BY <1>5, <2>1, PollKeeps DEF Polled, worldvars
<1>6. CASE \/ CancelJob \/ RefreshJob \/ (\E x \in Mortal : Kill(x)) \/ EndActivity \/ EndPoll
           \/ DeliverEvent \/ MoveHauled
  BY <1>2, <1>6 DEF CancelJob, RefreshJob, Kill, EndActivity, EndPoll, DeliverEvent, MoveHauled,
                    bwvars, worldvars
<1>7. CASE \E e \in Entity : \/ Interrupt(e) \/ Collect(e) \/ StartBuild(e)
                            \/ Continue(e) \/ \E i \in Item : StartHaul(e, i)
  BY <1>2, <1>7 DEF Interrupt, Collect, StartBuild, Continue, StartHaul, Visit
<1>8. CASE \/ ExecutePickup \/ ExecuteStop \/ ExecuteDrop \/ ExecuteReserve
           \/ ExecuteConsume \/ ExecuteDestroy
  BY <1>2, <1>8 DEF ExecutePickup, ExecuteStop, ExecuteDrop, ExecuteReserve, ExecuteConsume,
                    ExecuteDestroy, Execute
<1> QED
  BY Actions, <1>2, <1>3, <1>4, <1>5, <1>6, <1>7, <1>8

\* The refresh finds all that a builder counts on.
LEMMA RefreshPaid ==
    ASSUME WorkInv, NothingLost, JobSupplied, BuildersPay, RefreshJob
    PROVE  NothingLost' /\ JobSupplied' /\ BuildersPay'
<1>1. /\ phase = "player" /\ phase' = "activity"
      /\ UNCHANGED <<lifevars, itemvars, act, updates, strayed, ghosts>>
  BY DEF RefreshJob, eventvars
<1>2. NothingLost'
  BY <1>1 DEF NothingLost, Queue, lifevars
<1>3. BuildersPay'
  BY <1>1 DEF BuildersPay, ConsumeQueued, itemvars
<1>4. JobSupplied'
  <2>1. CASE listed' /\ listed
    <3>1. /\ reserved_materials' = ValidMaterials
          /\ materials_remaining' = Needed - Cardinality(ValidMaterials)
      BY <2>1 DEF RefreshJob
    <3>2. /\ reserved_materials \in SUBSET Item /\ IsFiniteSet(reserved_materials)
          /\ ValidMaterials \in SUBSET reserved_materials /\ ValidMaterials \subseteq reserved_for
      BY BuildAssumption, FS_Subset DEF WorkInv, BuildTypes, JobTypes, ValidMaterials
    <3>3. Cardinality(ValidMaterials) \in Nat
      BY <3>2, FS_Subset, FS_CardinalityType
    <3>4. ASSUME NEW e \in Entity, Builds(e)
          PROVE  ValidMaterials = reserved_materials
      <4>1. \A i \in reserved_materials : i \in reserved_for /\ Tracked(i)
        BY <2>1, <3>2 DEF JobSupplied, NothingLost, Tracked
      <4>2. \A i \in reserved_materials :
               (loc[i] = "site" /\ i \notin consumed) \/ (loc[i] = "none" /\ i \in consumed)
        BY <4>1 DEF WorkInv, ReserveInv, ReservedLeftAlone
      <4> QED
        BY <4>1, <4>2 DEF ValidMaterials
    <3>5. Cardinality(reserved_materials)' + materials_remaining' = Needed
      BY <3>1, <3>3, BuildAssumption
    <3>6. ASSUME NEW e \in Entity, Builds(e)'
          PROVE  materials_remaining' = 0 /\ Cardinality(reserved_materials') = Needed
      <4>1. Builds(e)
        BY <1>1, <3>6 DEF Builds
      <4>2. Cardinality(reserved_materials) = Needed
        BY <2>1, <4>1 DEF JobSupplied
      <4> QED
        BY <3>1, <3>4, <4>1, <4>2, BuildAssumption
    <3> QED
      BY <1>1, <3>1, <3>2, <3>5, <3>6 DEF JobSupplied, itemvars
  <2>2. CASE ~listed'
    BY <2>2 DEF JobSupplied
  <2> QED
    BY <2>1, <2>2 DEF RefreshJob, jobvars
<1> QED
  BY <1>2, <1>3, <1>4

\* Updates that end no item.
Harmless(s) == s \in Seq(Update) /\ \A u \in Elements(s) : u.op # "destroy materials"

LEMMA HarmlessUpdates ==
    ASSUME NEW a \in Update, NEW b \in Update, NEW c \in Update
    PROVE  a.op # "destroy materials" /\ b.op # "destroy materials" /\ c.op # "destroy materials"
             => Harmless(<<a>>) /\ Harmless(<<a, b>>) /\ Harmless(<<a, b, c>>)
<1>1. /\ <<a>> \in Seq(Update) /\ Elements(<<a>>) = {a}
      /\ <<a, b>> \in Seq(Update) /\ Elements(<<a, b>>) = {a, b}
      /\ <<a, b, c>> \in Seq(Update) /\ Elements(<<a, b, c>>) = {a, b, c}
  BY DEF Elements
<1> QED
  BY <1>1 DEF Harmless

\* Only the end of a build destroys materials.
LEMMA AbandonQueuesNoEnd ==
    ASSUME ActivityTypes, NEW e \in Entity
    PROVE  Harmless(Abandon(e))
<1>1. CASE Hauls(e, act[e].thing, {"wait", "carry"})
  <2>1. \A i : Stop(i, e).op # "destroy materials" /\ Drop(i, e, "feet").op # "destroy materials"
    BY DEF Stop, Drop, Queued
  <2> QED
    BY <1>1, <2>1, AbandonTypes DEF Harmless
<1>2. CASE ~ Hauls(e, act[e].thing, {"wait", "carry"})
  BY <1>2, AbandonTypes, NoUpdates DEF Harmless
<1> QED
  BY <1>1, <1>2

\* Whatever a visit does to what its entity did, it queues nothing but to put an item down,
\* and only with all the materials there does somebody begin to build.
LEMMA VisitPaid ==
    ASSUME WorkInv, NothingLost, JobSupplied, BuildersPay, Stranger = {}, NEW e \in Entity,
           \/ Interrupt(e) \/ Collect(e) \/ StartBuild(e)
           \/ Continue(e) \/ \E i \in Item : StartHaul(e, i)
    PROVE  NothingLost' /\ JobSupplied' /\ BuildersPay'
<1>1. /\ phase = "activity" /\ phase' = phase
      /\ UNCHANGED <<lifevars, itemvars, jobvars, ghosts>>
  BY DEF Interrupt, Collect, StartBuild, Continue, StartHaul, Visit
<1>2. strayed' = strayed
  BY DEF Interrupt, Collect, StartBuild, Continue, StartHaul
<1>3. updates' \in {updates, updates \o Abandon(e)}
  BY DEF Interrupt, Collect, StartBuild, Continue, StartHaul, Begin
<1>4. \A u \in Queue' : u.op # "destroy materials"
  <2>1. updates \in Seq(Update) /\ ActivityTypes
    BY DEF WorkInv, BuildTypes, QueueTypes
  <2>2. Abandon(e) \in Seq(Update) /\ \A u \in Elements(Abandon(e)) : u.op # "destroy materials"
    BY <2>1, AbandonQueuesNoEnd DEF Harmless
  <2>3. Queue' \subseteq Queue \cup Elements(Abandon(e))
    <3>1. CASE updates' = updates
      BY <3>1 DEF Queue
    <3>2. CASE updates' = updates \o Abandon(e)
      BY <2>2, <3>2, AddedUpdates DEF Queue, WorkInv
    <3> QED
      BY <1>3, <3>1, <3>2
  <2> QED
    BY <2>2, <2>3 DEF NothingLost
<1>5. NothingLost'
  BY <1>1, <1>2, <1>4 DEF NothingLost, lifevars
<1>6. /\ \A f \in Entity \ {e} : act'[f] = act[f]
      /\ \/ act'[e] = act[e]
         \/ act'[e].kind # "build" /\ act'[e].stage # "step"
         \/ listed /\ materials_remaining = 0 /\ act'[e].stage # "step"
  <2>1. act \in [Entity -> Activity]
    BY DEF WorkInv, BuildTypes, ActivityTypes
  <2>2. CASE Interrupt(e)
    BY <2>1, <2>2 DEF Interrupt, Begin, Idle
  <2>3. CASE Collect(e)
    BY <2>1, <2>3 DEF Collect, Idle
  <2>4. CASE StartBuild(e)
    BY <2>1, <2>4 DEF StartBuild, Begin, Building, Idle
  <2>5. CASE Continue(e)
    BY <2>1, <2>5 DEF Continue
  <2>6. ASSUME NEW i \in Item, StartHaul(e, i)
        PROVE  (\A f \in Entity \ {e} : act'[f] = act[f]) /\ act'[e].kind # "build"
               /\ act'[e].stage # "step"
    BY <2>1, <2>6 DEF StartHaul, Begin, Hauling, Idle
  <2> QED
    BY <2>2, <2>3, <2>4, <2>5, <2>6
<1>7. JobSupplied'
  <2>1. ASSUME listed, NEW f \in Entity, Builds(f)'
        PROVE  materials_remaining = 0 /\ Cardinality(reserved_materials) = Needed
    <3>1. CASE Builds(f)
      BY <2>1, <3>1 DEF JobSupplied
    <3>2. CASE listed /\ materials_remaining = 0
      <4>1. Cardinality(reserved_materials) + materials_remaining = Needed
        BY <1>1, <3>2 DEF JobSupplied
      <4>2. Cardinality(reserved_materials) \in Nat
        BY BuildAssumption, FS_Subset, FS_CardinalityType DEF WorkInv, BuildTypes, JobTypes
      <4> QED
        BY <3>2, <4>1, <4>2
    <3> QED
      BY <1>6, <2>1, <3>1, <3>2 DEF Builds
  <2> QED
    BY <1>1, <2>1 DEF JobSupplied, jobvars, itemvars
<1>8. BuildersPay'
  <2>1. ASSUME NEW f \in Entity, act'[f].stage = "step"
        PROVE  act'[f] = act[f] /\ act[f].materials \subseteq consumed
               /\ Cardinality(act[f].materials) = Needed
    BY <1>1, <1>6, <2>1 DEF BuildersPay, ConsumeQueued
  <2> QED
    BY <1>1, <2>1 DEF BuildersPay, itemvars
<1> QED
  BY <1>5, <1>7, <1>8

\* Who reaches the block has all that it needs, and queues to consume it; who takes a step has
\* consumed it.
LEMMA PollPaid ==
    ASSUME WorkInv, NothingLost, JobSupplied, BuildersPay, NEW e \in Entity, PollsActivity(e)
    PROVE  NothingLost' /\ JobSupplied' /\ BuildersPay'
<1>1. BuildTypes /\ ActivityTypes /\ act \in [Entity -> Activity] /\ updates \in Seq(Update)
  BY DEF WorkInv, BuildTypes, ActivityTypes, QueueTypes
<1>2. /\ phase = "poll" /\ phase' = phase /\ e \in todo /\ todo' = todo \ {e}
      /\ UNCHANGED <<lifevars, itemvars, listed, reserved_materials, materials_remaining, ghosts,
                     strayed>>
      /\ KeepsActivity(e)
  BY <1>1, PollKeeps DEF Polled
<1>3. \/ ReachBlock(e) /\ act'[e].stage = "step" /\ act'[e].materials = reserved_materials
         /\ updates' = Append(updates, Consume(reserved_materials, e))
      \/ act'[e].stage = act[e].stage /\ act'[e].materials = act[e].materials /\ updates' = updates
      \/ /\ act'[e].stage \in {"walk", "carry", "done", "wait"}
         /\ act'[e].stage = "walk" => act[e].stage \in {"new", "walk"}
         /\ \E q : updates' = updates \o q /\ Harmless(q)
  <2>1. ASSUME NEW stage \in {"walk", "carry", "done", "wait"}, NEW q, Harmless(q),
               act' = [act EXCEPT ![e].stage = stage], updates' = updates \o q,
               stage = "walk" => act[e].stage \in {"new", "walk"}
        PROVE  /\ act'[e].stage = stage
               /\ \E r : updates' = updates \o r /\ Harmless(r)
    BY <1>1, <2>1, StageChanged
  <2>2. Harmless(<<>>)
    BY NoUpdates DEF Harmless
  <2>3. Harmless(Abandon(e))
    BY <1>1, AbandonQueuesNoEnd
  <2>4. CASE KeepWalking(e)
    <3> DEFINE stage == IF act[e].stage = "carry" THEN "carry" ELSE "walk"
    <3>1. /\ act' = [act EXCEPT ![e].stage = stage] /\ updates' = updates \o <<>>
          /\ act[e].stage \in {"new", "walk", "carry"}
      BY <2>4 DEF KeepWalking, Proceed
    <3>2. \/ act[e].stage = "carry" /\ stage = "carry"
          \/ act[e].stage \in {"new", "walk"} /\ stage = "walk"
      BY <3>1
    <3> HIDE DEF stage
    <3> QED
      BY <2>1, <2>2, <3>1, <3>2
  <2>5. CASE Fail(e)
    BY <2>1, <2>3, <2>5 DEF Fail, Proceed
  <2>6. CASE ArriveAtItem(e)
    <3> DEFINE u == Pickup(act[e].thing, e)
               q == <<u>>
    <3>1. act[e].thing \in Item /\ Proceed(e, "wait", q)
      BY <1>1, <2>6 DEF ArriveAtItem, ActivityTypes, StagesOK
    <3>2. u \in Update /\ u.op # "destroy materials"
      BY <3>1, UpdateTypes, UpdateOps
    <3> HIDE DEF u
    <3>3. Harmless(q)
      BY <3>2, HarmlessUpdates
    <3> HIDE DEF q
    <3> QED
      BY <2>1, <3>1, <3>3 DEF Proceed
  <2>7. CASE HearPickup(e)
    <3>1. \/ Proceed(e, "wait", <<>>) \/ Proceed(e, "done", Abandon(e))
          \/ act' = [act EXCEPT ![e].stage = "carry"] /\ updates' = updates
      BY <2>7, Zenon DEF HearPickup
    <3>2. CASE act' = [act EXCEPT ![e].stage = "carry"] /\ updates' = updates
      <4>1. updates = updates \o <<>>
        BY <1>1
      <4> QED
        BY <1>1, <2>2, <3>2, <4>1, StageChanged
    <3> QED
      BY <2>1, <2>2, <2>3, <3>1, <3>2 DEF Proceed
  <2>8. CASE PutDown(e)
    <3> DEFINE i == act[e].thing
               stop == Stop(i, e)
               drop(to) == Drop(i, e, to)
               reserve == Reserve(i, e)
               worker == <<stop, drop("site"), reserve>>
               stranger == <<stop, drop("away")>>
    <3>1. i \in Item /\ (Proceed(e, "done", worker) \/ Proceed(e, "done", stranger))
      BY <1>1, <2>8 DEF PutDown, ActivityTypes, StagesOK
    <3>2. /\ stop \in Update /\ reserve \in Update
          /\ drop("site") \in Update /\ drop("away") \in Update
          /\ stop.op # "destroy materials" /\ reserve.op # "destroy materials"
          /\ drop("site").op # "destroy materials" /\ drop("away").op # "destroy materials"
      BY <3>1, UpdateTypes, UpdateOps DEF Place
    <3> HIDE DEF stop, drop, reserve
    <3>3. Harmless(worker)
      BY <3>2, HarmlessUpdates
    <3>4. Harmless(stranger)
      BY <3>2, HarmlessUpdates
    <3> HIDE DEF worker, stranger
    <3> QED
      BY <2>1, <3>1, <3>3, <3>4 DEF Proceed
  <2>9. CASE ReachBlock(e)
    BY <1>1, <2>9 DEF ReachBlock
  <2>10. CASE WaitToStep(e)
    BY <2>10 DEF WaitToStep
  <2> QED
    BY <2>4, <2>5, <2>6, <2>7, <2>8, <2>9, <2>10 DEF PollsActivity
<1>4. ASSUME updates' = Append(updates, Consume(reserved_materials, e))
      PROVE  Queue \subseteq Queue' /\ \A u \in Queue' : u.op # "destroy materials"
  <2> DEFINE v == Consume(reserved_materials, e)
  <2>1. v \in Update
    BY JobUpdateTypes DEF WorkInv, BuildTypes, JobTypes
  <2>2. Queue' = Queue \cup {v}
    <3> HIDE DEF v
    <3>1. Elements(Append(updates, v)) = Elements(updates) \cup {v}
      BY <1>1, <2>1, ElementsOfAppend
    <3> QED
      BY <1>4, <3>1 DEF Queue, v
  <2>3. v.op # "destroy materials"
    BY UpdateOps
  <2> QED
    BY <2>2, <2>3 DEF NothingLost
<1>5. Queue \subseteq Queue' /\ \A u \in Queue' : u.op # "destroy materials"
  <2>1. CASE updates' = updates
    BY <2>1 DEF Queue, NothingLost
  <2>2. CASE \E q : updates' = updates \o q /\ Harmless(q)
    BY <1>1, <2>2, AddedUpdates DEF Queue, WorkInv, NothingLost, Harmless
  <2> QED
    BY <1>3, <1>4, <2>1, <2>2
<1>6. NothingLost'
  BY <1>2, <1>5 DEF NothingLost, lifevars
<1>7. JobSupplied'
  <2>1. ASSUME NEW f \in Entity, Builds(f)' PROVE Builds(f)
    BY <1>2, <1>3, <2>1 DEF Builds, KeepsActivity, ReachBlock
  <2> QED
    BY <1>2, <2>1 DEF JobSupplied, itemvars
<1>8. BuildersPay'
  <2>1. ASSUME NEW f \in Entity, f # e, act'[f].stage = "step"
        PROVE  (Cardinality(act[f].materials) = Needed
                  /\ (act[f].materials \subseteq consumed \/ ConsumeQueued(f)))'
    <3>1. act'[f] = act[f]
      BY <1>2, <2>1 DEF KeepsActivity
    <3> QED
      BY <1>2, <1>5, <2>1, <3>1 DEF BuildersPay, ConsumeQueued, itemvars
  <2>2. ASSUME act'[e].stage = "step"
        PROVE  (Cardinality(act[e].materials) = Needed
                  /\ (act[e].materials \subseteq consumed \/ ConsumeQueued(e)))'
    <3>1. CASE act'[e].stage = act[e].stage /\ act'[e].materials = act[e].materials
      <4>1. ~ ConsumeQueued(e)
        BY <1>2 DEF ConsumeQueued
      <4> QED
        BY <1>2, <2>2, <3>1, <4>1 DEF BuildersPay, itemvars
    <3>2. CASE /\ ReachBlock(e) /\ act'[e].materials = reserved_materials
               /\ updates' = Append(updates, Consume(reserved_materials, e))
      <4>1. listed /\ Builds(e)
        BY <3>2 DEF ReachBlock, Builds
      <4>2. Cardinality(reserved_materials) = Needed
        BY <4>1 DEF JobSupplied
      <4>3. Consume(reserved_materials, e) \in Update
        BY JobUpdateTypes DEF WorkInv, BuildTypes, JobTypes
      <4>4. Consume(reserved_materials, e) \in Queue'
        BY <1>1, <3>2, <4>3, ElementsOfAppend DEF Queue
      <4> QED
        BY <1>2, <3>2, <4>2, <4>4 DEF ConsumeQueued
    <3> QED
      BY <1>3, <2>2, <3>1, <3>2
  <2> QED
    BY <2>1, <2>2 DEF BuildersPay
<1> QED
  BY <1>6, <1>7, <1>8

\* A step that does not place the block changes nothing, or ends the build.
LEMMA StepPaid ==
    ASSUME WorkInv, NothingLost, JobSupplied, BuildersPay, NEW e \in Entity, BuildStep(e), Unbuilt'
    PROVE  NothingLost' /\ JobSupplied' /\ BuildersPay'
<1>1. /\ phase' = phase /\ todo' \subseteq todo
      /\ UNCHANGED <<lifevars, itemvars, listed, reserved_materials, materials_remaining, ghosts,
                     strayed>>
  BY DEF BuildStep, Polled
<1>2. terrain_updates \in Nat /\ act \in [Entity -> Activity]
  BY DEF WorkInv, BuildTypes, JobTypes, ActivityTypes
<1>3. updates' = updates /\ (act' = act \/ FinishBuild(e))
  BY <1>2 DEF BuildStep, Unbuilt
<1>4. \A f \in Entity : act'[f] = act[f] \/ act'[f].stage \in {"none", "done"}
  <2>1. CASE FinishBuild(e)
    <3>1. CASE e \in alive
      <4>1. act' = [act EXCEPT ![e] = [act[e] EXCEPT !.stage = "done"]]
        BY <2>1, <3>1 DEF FinishBuild
      <4>2. act[e] \in Activity
        BY <1>2
      <4>3. [act[e] EXCEPT !.stage = "done"].stage = "done"
        BY <4>2 DEF Activity
      <4> QED
        BY <1>2, <4>1, <4>3
    <3>2. CASE e \notin alive
      <4>1. act' = [act EXCEPT ![e] = Idle] /\ Idle.stage = "none"
        BY <2>1, <3>2 DEF FinishBuild, Idle
      <4> QED
        BY <1>2, <4>1
    <3> QED
      BY <3>1, <3>2
  <2> QED
    BY <1>3, <2>1
<1>5. NothingLost'
  BY <1>1, <1>3 DEF NothingLost, lifevars, Queue
<1>6. JobSupplied'
  <2>1. ASSUME NEW f \in Entity, Builds(f)' PROVE Builds(f)
    BY <1>4, <2>1 DEF Builds
  <2> QED
    BY <1>1, <2>1 DEF JobSupplied, itemvars
<1>7. BuildersPay'
  <2>1. ASSUME NEW f \in Entity, act'[f].stage = "step" PROVE act'[f] = act[f]
    BY <1>4, <2>1
  <2> QED
    BY <1>1, <1>3, <2>1 DEF BuildersPay, ConsumeQueued, itemvars, Queue
<1> QED
  BY <1>5, <1>6, <1>7

\* The other parts of the tick.
LEMMA PhasesPaid ==
    ASSUME WorkInv, NothingLost, JobSupplied, BuildersPay,
           CancelJob \/ EndActivity \/ EndPoll \/ DeliverEvent \/ MoveHauled
    PROVE  NothingLost' /\ JobSupplied' /\ BuildersPay'
<1>1. /\ UNCHANGED <<lifevars, consumed, reserved_for, reserved_materials, materials_remaining, act, updates>>
      /\ listed' => listed
      /\ phase = "player" <=> phase' = "player"
  BY DEF CancelJob, EndActivity, EndPoll, DeliverEvent, MoveHauled, clock, itemvars, jobvars, bwvars
<1>2. ghosts' = {} /\ strayed' = {}
  <2>1. CASE DeliverEvent
    <3>1. ghosts = {} /\ strayed = {}
      BY DEF NothingLost
    <3>2. \A t, a : t \in {a} => t = a
      OBVIOUS
    <3> QED
      BY <2>1, <3>1 DEF DeliverEvent
  <2>2. CASE CancelJob \/ EndActivity \/ EndPoll \/ MoveHauled
    BY <2>2 DEF CancelJob, EndActivity, EndPoll, MoveHauled, eventvars, NothingLost, bwvars
  <2> QED
    BY <2>1, <2>2
<1>3. NothingLost'
  BY <1>1, <1>2 DEF NothingLost, lifevars, Queue
<1>4. JobSupplied'
  BY <1>1 DEF JobSupplied, Builds
<1>5. ASSUME NEW e \in Entity, ConsumeQueued(e) PROVE ConsumeQueued(e)'
  <2>1. Consume(act[e].materials, e) \in Queue'
    BY <1>1, <1>5 DEF ConsumeQueued, Queue
  <2>2. phase \in {"poll", "deliver", "end"} /\ (phase = "poll" => e \notin todo)
    BY <1>5 DEF ConsumeQueued
  <2>3. phase' \in {"poll", "deliver", "end"} /\ (phase' = "poll" => e \notin todo')
    BY <2>2 DEF CancelJob, EndActivity, EndPoll, DeliverEvent, MoveHauled, clock, bwvars
  <2> QED
    BY <1>1, <2>1, <2>3 DEF ConsumeQueued
<1>6. BuildersPay'
  BY <1>1, <1>5 DEF BuildersPay
<1> QED
  BY <1>3, <1>4, <1>6

\* At the end of a tick in which nobody died nothing changes.
LEMMA EndTickPaid ==
    ASSUME WorkInv, NothingLost, JobSupplied, BuildersPay, EndTick
    PROVE  NothingLost' /\ JobSupplied' /\ BuildersPay'
<1>1. /\ phase' = "player" /\ phase = "end" /\ alive' = alive /\ dying' = {} /\ updates = <<>>
      /\ reserved_for' = reserved_for /\ consumed' = consumed
      /\ UNCHANGED <<jobvars, updates, strayed>>
  BY DEF EndTick, NothingLost
<1>2. act' = act
  <2>1. act \in [Entity -> Activity]
    BY DEF WorkInv, BuildTypes, ActivityTypes
  <2>2. act' = [e \in Entity |-> act[e]]
    BY DEF EndTick, NothingLost
  <2> QED
    BY <2>1, <2>2
<1>3. ghosts' = {}
  <2>1. ghosts' = ghosts \cup {act[e].thing : e \in {d \in dying \cap Entity :
                                  act[d].thing # Nothing /\ act[d].stage # "carry"}}
    BY DEF EndTick
  <2> QED
    BY <2>1 DEF NothingLost
<1>4. NothingLost'
  BY <1>1, <1>3 DEF NothingLost, Queue
<1>5. JobSupplied'
  BY <1>1, <1>2 DEF JobSupplied, Builds, jobvars
<1>6. BuildersPay'
  <2>1. \A e \in Entity : ~ ConsumeQueued(e)
    BY <1>1, NoUpdates DEF ConsumeQueued, Queue
  <2> QED
    BY <1>1, <1>2, <2>1 DEF BuildersPay
<1> QED
  BY <1>4, <1>5, <1>6

\* The next update is none that ends an item, and what else is queued stays so.
LEMMA NextUpdatePaid ==
    ASSUME WorkInv, NothingLost, NEW op, Execute(op)
    PROVE  /\ op # "destroy materials" /\ Head(updates).op = op
           /\ Who \in Entity /\ Things \subseteq Item /\ Things \subseteq alive
           /\ \A u \in Queue : u \in Queue' \/ u = Head(updates)
           /\ Queue' \subseteq Queue
           /\ phase = "end" /\ phase' = "end" /\ todo' = todo
           /\ UNCHANGED <<alive, listed, act, ghosts, strayed>>
<1>1. /\ Head(updates) \in Queue /\ Head(updates).op = op
      /\ Who \in Entity /\ Things \subseteq Item
      /\ Queue = {Head(updates)} \cup Queue'
  BY HeadTypes DEF WorkInv, BuildTypes, Queue
<1>2. op # "destroy materials" /\ Things \subseteq alive
  BY <1>1 DEF NothingLost
<1> QED
  BY <1>1, <1>2 DEF Execute, clock

LEMMA ExecutePaid ==
    ASSUME WorkInv, NothingLost, JobSupplied, BuildersPay,
           \/ ExecutePickup \/ ExecuteStop \/ ExecuteDrop \/ ExecuteReserve
           \/ ExecuteConsume \/ ExecuteDestroy
    PROVE  NothingLost' /\ JobSupplied' /\ BuildersPay'
<1>1. ASSUME NEW op, Execute(op), UNCHANGED dying PROVE NothingLost'
  <2>1. alive' = alive /\ Queue' \subseteq Queue /\ UNCHANGED <<ghosts, strayed>>
    BY <1>1, NextUpdatePaid
  <2> QED
    BY <1>1, <2>1 DEF NothingLost
<1>2. ASSUME NEW op, op # "start wip build", Execute(op), consumed' = consumed PROVE BuildersPay'
  <2>1. /\ phase = "end" /\ phase' = "end" /\ act' = act /\ Head(updates).op = op
        /\ \A u \in Queue : u \in Queue' \/ u = Head(updates)
    BY <1>2, NextUpdatePaid
  <2>2. ASSUME NEW e \in Entity, ConsumeQueued(e) PROVE ConsumeQueued(e)'
    <3>1. Consume(act[e].materials, e).op = "start wip build"
      BY UpdateOps
    <3>2. Consume(act[e].materials, e) \in Queue'
      BY <1>2, <2>1, <2>2, <3>1 DEF ConsumeQueued
    <3> QED
      BY <2>1, <3>2 DEF ConsumeQueued
  <2> QED
    BY <1>2, <2>1, <2>2 DEF BuildersPay
<1>3. ASSUME NEW op, Execute(op), UNCHANGED <<reserved_for, reserved_materials, materials_remaining>>
      PROVE  JobSupplied'
  <2>1. phase' = phase /\ listed' = listed /\ act' = act
    BY <1>3, NextUpdatePaid
  <2> QED
    BY <1>3, <2>1 DEF JobSupplied, Builds
<1>4. CASE ExecutePickup
  BY <1>1, <1>2, <1>3, <1>4 DEF ExecutePickup
<1>5. CASE ExecuteStop
  BY <1>1, <1>2, <1>3, <1>5 DEF ExecuteStop
<1>6. CASE ExecuteDrop
  BY <1>1, <1>2, <1>3, <1>6 DEF ExecuteDrop
<1>7. CASE ExecuteDestroy
  BY <1>7, NextUpdatePaid DEF ExecuteDestroy
<1>8. CASE ExecuteReserve
  <2>1. Execute("reserve material") /\ UNCHANGED <<dying, consumed>>
    BY <1>8 DEF ExecuteReserve
  <2>2. NothingLost' /\ BuildersPay'
    BY <1>1, <1>2, <2>1
  <2>3. CASE UNCHANGED <<reserved_materials, materials_remaining, reserved_for>>
    BY <1>3, <2>1, <2>2, <2>3
  <2>4. CASE /\ listed /\ materials_remaining > 0
             /\ reserved_materials' = reserved_materials \cup Things
             /\ materials_remaining' = materials_remaining - 1
             /\ reserved_for' = reserved_for \cup Things
    <3>1. /\ phase = "end" /\ phase' = "end" /\ act' = act /\ Things \subseteq alive
          /\ Things \subseteq Item
      BY <2>1, NextUpdatePaid
    <3>2. PICK i \in Item : Things = {i} /\ i \notin reserved_for
      <4>1. TheThing \in Item /\ Things = {TheThing} /\ Who \in Entity /\ Head(updates) \in Update
            /\ Head(updates) = Reserve(TheThing, Who)
        BY <2>1, HeadTypes, HeadIs DEF WorkInv, BuildTypes, ItemOps
      <4>2. 1 \in DOMAIN updates /\ updates[1] = Head(updates)
        BY <2>1, PositionsInTail DEF WorkInv, BuildTypes, QueueTypes, Execute
      <4>3. Tracked(TheThing)
        BY <3>1, <4>1 DEF Tracked, NothingLost
      <4>4. TheThing \notin reserved_for
        BY <4>1, <4>2, <4>3 DEF WorkInv, ReserveInv, PutDownFirst
      <4> QED
        BY <4>1, <4>4
    <3>3. i \notin reserved_materials /\ reserved_materials \subseteq reserved_for
          /\ Cardinality(reserved_materials) + materials_remaining = Needed
      BY <2>4, <3>1, <3>2 DEF JobSupplied
    <3>4. IsFiniteSet(reserved_materials) /\ materials_remaining \in Nat
      BY BuildAssumption, FS_Subset DEF WorkInv, BuildTypes, JobTypes
    <3>5. /\ Cardinality(reserved_materials \cup {i}) = Cardinality(reserved_materials) + 1
          /\ Cardinality(reserved_materials) \in Nat
      BY <3>3, <3>4, FS_AddElement, FS_CardinalityType
    <3>6. Cardinality(reserved_materials') + materials_remaining' = Needed
      BY <2>4, <3>2, <3>3, <3>4, <3>5, BuildAssumption
    <3>7. \A e \in Entity : ~ Builds(e)'
      BY <2>4, <3>1, <3>4 DEF JobSupplied, Builds
    <3> QED
      BY <2>2, <2>4, <3>3, <3>6, <3>7 DEF JobSupplied
  <2> QED
    BY <1>8, <2>3, <2>4 DEF ExecuteReserve
<1>9. CASE ExecuteConsume
  <2>1. /\ Execute("start wip build") /\ consumed' = consumed \cup (Things \cap alive)
        /\ UNCHANGED <<dying, reserved_for, reserved_materials, materials_remaining>>
    BY <1>9 DEF ExecuteConsume
  <2>2. NothingLost' /\ JobSupplied'
    BY <1>1, <1>3, <2>1
  <2>3. /\ phase = "end" /\ phase' = "end" /\ act' = act /\ Things \subseteq alive
        /\ \A u \in Queue : u \in Queue' \/ u = Head(updates)
    BY <2>1, NextUpdatePaid
  <2>4. ASSUME NEW e \in Entity, ConsumeQueued(e)
        PROVE  act[e].materials \subseteq consumed' \/ ConsumeQueued(e)'
    <3>1. CASE Consume(act[e].materials, e) \in Queue'
      BY <2>3, <3>1 DEF ConsumeQueued
    <3>2. CASE Consume(act[e].materials, e) = Head(updates)
      <4>1. Things = act[e].materials
        <5>1. Consume(act[e].materials, e).things = act[e].materials
          BY DEF Consume, Queued
        <5> QED
          BY <3>2, <5>1 DEF Things
      <4> QED
        BY <2>1, <2>3, <4>1
    <3> QED
      BY <2>3, <2>4, <3>1, <3>2 DEF ConsumeQueued
  <2>5. BuildersPay'
    BY <2>1, <2>3, <2>4 DEF BuildersPay
  <2> QED
    BY <2>2, <2>5
<1> QED
  BY <1>4, <1>5, <1>6, <1>7, <1>8, <1>9

LEMMA PaidStep ==
    ASSUME Stranger = {}, Mortal = {}
    PROVE  WorkInv /\ PaidInv /\ [BuildNext]_bwvars => PaidInv'
<1> SUFFICES ASSUME WorkInv, PaidInv, [BuildNext]_bwvars, Unbuilt'
             PROVE  NothingLost' /\ JobSupplied' /\ BuildersPay'
  BY DEF PaidInv
<1>1. CASE UNCHANGED bwvars
  <2>1. Unbuilt
    BY <1>1 DEF bwvars, worldvars, Unbuilt
  <2>2. /\ UNCHANGED <<alive, dying, strayed, ghosts, Queue, listed, reserved_materials, reserved_for,
                       phase, materials_remaining, consumed, todo, act>>
    BY <1>1 DEF bwvars, clock, lifevars, itemvars, jobvars, eventvars, Queue
  <2> QED
    BY <2>1, <2>2 DEF PaidInv, NothingLost, JobSupplied, BuildersPay, Builds, ConsumeQueued
<1>2. CASE BuildNext
  <2>1. Unbuilt
    BY <1>2, BuildStepPlaces DEF WorkInv
  <2>2. NothingLost /\ JobSupplied /\ BuildersPay
    BY <2>1 DEF PaidInv
  <2>3. CASE CancelJob \/ EndActivity \/ EndPoll \/ DeliverEvent \/ MoveHauled
    BY <2>2, <2>3, PhasesPaid
  <2>4. CASE RefreshJob
    BY <2>2, <2>4, RefreshPaid
  <2>5. CASE \E e \in Entity : \/ Interrupt(e) \/ Collect(e) \/ StartBuild(e)
                              \/ Continue(e) \/ \E i \in Item : StartHaul(e, i)
    BY <2>2, <2>5, VisitPaid
  <2>6. CASE \E e \in Entity : PollsActivity(e)
    BY <2>2, <2>6, PollPaid
  <2>7. CASE \E e \in Entity : BuildStep(e)
    BY <2>2, <2>7, StepPaid
  <2>8. CASE \/ ExecutePickup \/ ExecuteStop \/ ExecuteDrop \/ ExecuteReserve
             \/ ExecuteConsume \/ ExecuteDestroy
    BY <2>2, <2>8, ExecutePaid
  <2>9. CASE EndTick
    BY <2>2, <2>9, EndTickPaid
  <2> QED
    BY <1>2, Actions, <2>3, <2>4, <2>5, <2>6, <2>7, <2>8, <2>9
<1> QED
  BY <1>1, <1>2

\* A block is placed by a builder that had all the materials and consumed them.
LEMMA PaidPlaces ==
    ASSUME WorkInv, PaidInv, BuildNext, NEW e \in Entity,
           terrain_updates' > terrain_updates, act'[e] # act[e]
    PROVE  Cardinality(act[e].materials) = Needed /\ act[e].materials \subseteq consumed
<1>1. PICK b \in Entity : BuildStep(b) /\ block = "Air"
  BY BuildStepPlaces DEF WorkInv
<1>2. Polled(b) /\ act[b].kind = "build" /\ b = e
  BY <1>1, BuildKeeps DEF WorkInv, BuildTypes
<1>3. phase = "poll" /\ e \in todo /\ act[e].stage = "step"
  BY <1>1, <1>2 DEF Polled, BuildStep
<1>4. terrain_updates = 0
  BY <1>2, <1>3 DEF WorkInv, PlacesOnce
<1>5. BuildersPay
  BY <1>1, <1>4 DEF PaidInv, Unbuilt
<1> QED
  BY <1>3, <1>5 DEF BuildersPay, ConsumeQueued

\* A block costs all its materials (build.rs:383), if nobody else is after them and the
\* player kills nothing: for any number of workers and items, however many are needed,
\* and however often the work on it is interrupted and taken up again.
THEOREM BuildsPaid ==
    ASSUME Stranger = {}, Mortal = {}
    PROVE  BuildSpec => BuildsArePaid
<1> DEFINE Paid == \A e \in Entity :
              terrain_updates' > terrain_updates /\ act'[e] # act[e] =>
                  /\ Cardinality(act[e].materials) = Needed
                  /\ act[e].materials \subseteq consumed
<1>1. BuildInit => PaidInv
  <2> SUFFICES ASSUME BuildInit PROVE NothingLost /\ JobSupplied /\ BuildersPay
    BY DEF PaidInv
  <2>1. NothingLost
    BY NoUpdates DEF BuildInit, NothingLost, Queue
  <2>2. \A e \in Entity : act[e].stage = "none"
    BY DEF BuildInit, Idle
  <2>3. JobSupplied
    BY <2>2 DEF BuildInit, JobSupplied, Builds
  <2> QED
    BY <2>1, <2>2, <2>3 DEF BuildersPay
<1>2. BuildSpec => []WorkInv
  <2>1. PlacingInv /\ BuildTypes /\ HaulInv /\ ReserveInv => WorkInv
    BY DEF PlacingInv, WorkInv
  <2> QED
    BY <2>1, PlacingInvariant, ReserveInvariant, PTL
<1>3. WorkInv /\ PaidInv /\ [BuildNext]_bwvars => PaidInv'
  BY PaidStep
<1>4. WorkInv /\ PaidInv /\ [BuildNext]_bwvars => [Paid]_bwvars
  BY PaidPlaces
<1> QED
  BY <1>1, <1>2, <1>3, <1>4, PTL DEF BuildSpec, BuildsArePaid

=============================================================================
