-------------------------------- MODULE Items --------------------------------
(***************************************************************************)
(* Who holds what (item/inventory/*.rs, subactivity/equip.rs) and who eats *)
(* it (subactivity/eat.rs, needs/food/system.rs).                          *)
(*                                                                         *)
(* An inventory is a row of equip slots and a list of containers.  Picking *)
(* up and equipping are queued updates: they make room in the slots by     *)
(* pushing what is held into the containers.  Food is eaten by a system at *)
(* the start of each tick for as long as it has a BeingEatenComponent,     *)
(* which one queued update adds and the end of the eater's activity        *)
(* removes.  What happened to an item is an event that its subscribers     *)
(* hear in the next tick, or the one after.                                *)
(*                                                                         *)
(* One tick is eat, ai, act, deliver, end.  Hauling is BuildWork's.        *)
(***************************************************************************)
EXTENDS Queues, Integers, Sequences, FiniteSets, SequencesExt, FiniteSetsExt

CONSTANTS
    Folk, Item, Bag,     \* entities with an inventory, items, containers
    Haulable, Edible,    \* items with a HaulableItemComponent, an EdibleItemComponent
    Grazes,              \* the items that each of Folk may decide to graze
    BagsOf,              \* the containers of each inventory, in order
    Slots,               \* equip slots of each inventory
    Hands,               \* 1 + extra_hands of each item
    Volume, VolumeLimit, \* of an item, and of a container
    Bites,               \* ticks it takes to eat an item
    NoOne, Nothing

ASSUME ItemsAssumption ==
    /\ Slots \in Nat /\ Bites \in Nat \ {0} /\ VolumeLimit \in Nat
    /\ Hands \in [Item -> Nat \ {0}] /\ Volume \in [Item -> Nat]
    /\ Haulable \subseteq Item /\ Edible \subseteq Item /\ Grazes \in [Folk -> SUBSET Item]
    /\ BagsOf \in [Folk -> Seq(Bag)]
    /\ \A f, g \in Folk : f # g => ToSet(BagsOf[f]) \cap ToSet(BagsOf[g]) = {}
    /\ NoOne \notin Folk \cup Bag /\ Folk \cap Bag = {} /\ Nothing \notin Item

VARIABLES
    phase, todo,     \* the part of the tick, and who is still to be visited in it
    slots,           \* InventoryComponent::equip_slots
    bag,             \* ContainerComponent
    contained,       \* ContainedInComponent: an inventory, a container, or no one
    placed,          \* items with a TransformComponent
    eaten,           \* BeingEatenComponent
    bites,           \* ConditionComponent, in ticks of eating that are left
    alive, doomed,   \* items that live; those to be deleted at the end of the tick
    act,             \* each entity's activity
    updates,         \* QueuedUpdates
    posted, inbox    \* events; delivered to an entity and not yet heard

clock == <<phase, todo>>
held == <<slots, bag, contained, placed>>
food == <<eaten, bites, alive, doomed>>
talk == <<posted, inbox>>
itvars == <<clock, held, food, act, updates, talk>>

----------------------------------------------------------------------------
(* Equip slots: the first of an item's slots is Occupied, the rest Overflow. *)

Empty == [item |-> Nothing, first |-> FALSE]
Occupied(i) == [item |-> i, first |-> TRUE]
Overflow(i) == [item |-> i, first |-> FALSE]

\* The first run of n empty slots, or none.
HaulingSlots(s, n) ==
    LET starts == {k \in 1..Slots : /\ k + n - 1 <= Slots
                                    /\ \A j \in k..(k + n - 1) : s[j] = Empty}
    IN  IF starts = {} THEN {} ELSE {CHOOSE k \in starts : \A j \in starts : k <= j}

Fill(s, k, i, n) ==
    [j \in 1..Slots |-> CASE j = k -> Occupied(i)
                          [] j \in (k + 1)..(k + n - 1) -> Overflow(i)
                          [] OTHER -> s[j]]

RemoveItem(s, i) == [j \in 1..Slots |-> IF s[j].item = i THEN Empty ELSE s[j]]

Equipped(s) == {s[j].item : j \in {k \in 1..Slots : s[k].first}}

\* The first item held, with the slots it takes.
FirstHeld(s) == CHOOSE k \in 1..Slots : s[k].first /\ \A j \in 1..(k - 1) : ~s[j].first
\* Mutant of EmptyFirstRange: it leaves the slots that overflow.
EmptyFirstRangeOne(s) == [s EXCEPT ![FirstHeld(s)] = Empty]
EmptyFirstRange(s) ==
    LET k == FirstHeld(s)
        run == {n \in k..Slots : \A j \in (k + 1)..n : s[j].item # Nothing /\ ~s[j].first}
    IN  [j \in 1..Slots |-> IF j \in run THEN Empty ELSE s[j]]

Fits(c, i) == c.volume + Volume[i] <= VolumeLimit
PutIn(c, i) == [inside |-> c.inside \cup {i}, volume |-> c.volume + Volume[i]]
TakeOut(c, i) == [inside |-> c.inside \ {i}, volume |-> c.volume - Volume[i]]

\* One turn of insert_item's loop: the first item held goes into the first
\* container that takes it, or the loop gives up.
Shift(inv, bags) ==
    LET i == inv.slots[FirstHeld(inv.slots)].item
        k == SelectInSeq(bags, LAMBDA c : Fits(inv.bag[c], i))
    IN  IF k = 0
        THEN [inv EXCEPT !.stuck = TRUE]
        ELSE [inv EXCEPT !.slots = EmptyFirstRange(@),
                         !.bag[bags[k]] = PutIn(@, i),
                         !.moved = @ \cup {<<i, bags[k]>>}]

\* insert_item's loop: it takes at most a turn for each slot.
MakeRoom(inv, bags, n) ==
    LET room[k \in 0..Slots] ==
            IF k = 0 THEN inv
            ELSE LET before == room[k - 1]
                 IN  IF before.stuck \/ HaulingSlots(before.slots, n) # {}
                     THEN before ELSE Shift(before, bags)
    IN  room[Slots]

InsertItem(inv, bags, i, n) ==
    LET room == MakeRoom(inv, bags, n)
    IN  IF n > Slots THEN [inv EXCEPT !.stuck = TRUE]
        ELSE IF room.stuck THEN room
        ELSE [room EXCEPT !.slots = Fill(@, CHOOSE k \in HaulingSlots(@, n) : TRUE, i, n)]

Inventory(f) == [slots |-> slots[f], bag |-> bag, moved |-> {}, stuck |-> FALSE]

\* InventoryComponent::search for one item: the slots first, then the containers.
BagWith(f, i) == {b \in ToSet(BagsOf[f]) : i \in bag[b].inside}
InInventory(f, i) == i \in Equipped(slots[f]) \/ BagWith(f, i) # {}

----------------------------------------------------------------------------
(* Activities and what they hear. *)

Idle == [kind |-> "idle", item |-> Nothing, stage |-> "none"]
Activity(k, i) == [kind |-> k, item |-> i, stage |-> "new"]

NotEaten == [by |-> NoOne, how |-> "none"]
Update(op, f, i) == [op |-> op, who |-> f, item |-> i]
Event(what, f, i, ok) == [what |-> what, who |-> f, item |-> i, ok |-> ok]

\* GoEquip and GoEat subscribe to all events of their item when they start, a
\* wait to the type of event it waits for.
Awaited(a) == CASE a.stage = "pickup" -> {"picked"}
                [] a.stage = "equip" -> {"equipped"}
                [] a.stage = "eat" -> {"eaten"}
                [] OTHER -> {}
Subscribed(a, e) ==
    /\ a.stage \notin {"none", "new"} /\ a.item = e.item
    /\ a.kind \in {"goequip", "goeat"} \/ e.what \in Awaited(a)

\* is_destructive_for
Destructive(f, e) == e.what \in {"picked", "eaten"} /\ e.ok /\ e.who # f

\* What f waits for: its own pickup, anybody's equip, its own meal.
Answers(f, e) ==
    /\ e.what \in Awaited(act[f])
    /\ e.what = "picked" => e.who = f
    /\ e.what = "eaten" => e.ok /\ e.who = f

\* Mutant of DropMeal: EatHeldItem and EatNearby have no Drop.
DropMealNever(f, complete) == UNCHANGED eaten
\* A meal that is dropped before it is complete is taken back, whoever has it.
DropMeal(f, complete) ==
    eaten' = IF act[f].stage = "eat" /\ ~complete
             THEN [eaten EXCEPT ![act[f].item] = NotEaten] ELSE eaten

\* f turns from what it does to activity a, and loses its subscriptions.
Turn(f, a, complete) ==
    /\ act' = [act EXCEPT ![f] = a]
    /\ inbox' = [inbox EXCEPT ![f] = <<>>]
    /\ DropMeal(f, complete)

Init ==
    /\ phase = "eat" /\ todo = {}
    /\ slots = [f \in Folk |-> [k \in 1..Slots |-> Empty]]
    /\ bag = [b \in Bag |-> [inside |-> {}, volume |-> 0]]
    /\ contained = [i \in Item |-> NoOne]
    /\ placed = Item /\ alive = Item /\ doomed = {}
    /\ eaten = [i \in Item |-> NotEaten]
    /\ bites = [i \in Item |-> Bites]
    /\ act = [f \in Folk |-> Idle]
    /\ updates = <<>> /\ posted = <<>> /\ inbox = [f \in Folk |-> <<>>]

----------------------------------------------------------------------------
(* The start of the tick: EatingSystem, then decisions. *)

Eat(i) ==
    /\ phase = "eat" /\ i \in todo
    /\ todo' = todo \ {i}
    /\ bites' = [bites EXCEPT ![i] = @ - 1]
    /\ IF bites[i] > 1 THEN UNCHANGED <<slots, doomed, posted>>
       ELSE /\ slots' = IF eaten[i].how = "held"
                        THEN [slots EXCEPT ![eaten[i].by] = RemoveItem(@, i)] ELSE slots
            /\ doomed' = doomed \cup {i}
            /\ posted' = Append(posted, Event("eaten", eaten[i].by, i, TRUE))
    /\ UNCHANGED <<phase, bag, contained, placed, eaten, alive, act, updates, inbox>>

AllEaten ==
    /\ phase = "eat" /\ todo = {}
    /\ phase' = "ai" /\ todo' = Folk
    /\ UNCHANGED <<held, food, act, updates, talk>>

\* The player may tell anybody to fetch anything; the food to eat from the
\* inventory, or to graze, is what the decisions of f look for.
Decisions(f) ==
    {Idle}
    \cup {Activity("goequip", i) : i \in Haulable \cap alive}
    \cup {Activity("eatheld", i) : i \in {j \in Edible \cap alive : InInventory(f, j)}}
    \cup {Activity("goeat", i) : i \in Grazes[f] \cap placed}

Decide(f) ==
    /\ phase = "ai" /\ f \in todo
    /\ todo' = todo \ {f}
    /\ \E a \in Decisions(f) :
          /\ <<a.kind, a.item>> # <<act[f].kind, act[f].item>>
          /\ Turn(f, a, FALSE)
    /\ UNCHANGED <<phase, held, bites, alive, doomed, updates, posted>>

AllDecided ==
    /\ phase = "ai"
    /\ phase' = "act" /\ todo' = {f \in Folk : act[f] # Idle}
    /\ UNCHANGED <<held, food, act, updates, talk>>

----------------------------------------------------------------------------
(* Activities *)

Acts(f) == phase = "act" /\ f \in todo

\* f's activity goes on to a stage, for which it queues an update or none.
Proceed(f, stage, queued) ==
    /\ act' = [act EXCEPT ![f].stage = stage]
    /\ updates' = updates \o [k \in 1..Len(queued) |-> Update(queued[k], f, act[f].item)]

Finish(f, complete) == Turn(f, Idle, complete) /\ UNCHANGED updates

\* Once the item is in a slot GoEquip is done, and EatHeldItem eats.
AfterEquip(f) ==
    \/ act[f].kind = "goequip" /\ Finish(f, TRUE)
    \/ act[f].kind = "eatheld" /\ Proceed(f, "eat", <<"eatheld">>) /\ UNCHANGED eaten

\* What is out in the world is walked to; anything else must be in the inventory.
Begin(f) ==
    LET i == act[f].item IN
    /\ Acts(f) /\ act[f].stage = "new"
    /\ todo' = todo \ {f}
    /\ \/ /\ act[f].kind \in {"goequip", "goeat"} /\ i \in placed
          /\ Proceed(f, "walk", <<>>) /\ UNCHANGED <<eaten, inbox>>
       \/ /\ act[f].kind = "goeat" /\ i \notin placed
          /\ Finish(f, FALSE)
       \/ /\ act[f].kind = "eatheld" \/ (act[f].kind = "goequip" /\ i \notin placed)
          /\ \/ i \in Equipped(slots[f]) /\ AfterEquip(f) /\ UNCHANGED inbox
             \/ /\ i \notin Equipped(slots[f]) /\ InInventory(f, i)
                /\ Proceed(f, "equip", <<"equip">>) /\ UNCHANGED <<eaten, inbox>>
             \/ ~InInventory(f, i) /\ Finish(f, FALSE)
    /\ UNCHANGED <<phase, held, bites, alive, doomed, posted>>

\* On the way f hears of its item; it arrives in its own time.
Walk(f) ==
    LET i == act[f].item
        lost == \E k \in DOMAIN inbox[f] : Destructive(f, inbox[f][k])
    IN
    /\ Acts(f) /\ act[f].stage = "walk"
    /\ todo' = todo \ {f}
    /\ \/ lost /\ Finish(f, FALSE)
       \/ /\ ~lost /\ inbox' = [inbox EXCEPT ![f] = <<>>]
          /\ UNCHANGED <<act, updates, eaten>>
       \/ ~lost /\ i \notin placed /\ Finish(f, FALSE)
       \/ /\ ~lost /\ i \in placed
          /\ inbox' = [inbox EXCEPT ![f] = <<>>]
          /\ \/ act[f].kind = "goequip" /\ Proceed(f, "pickup", <<"pickup">>)
             \/ act[f].kind = "goeat" /\ Proceed(f, "eat", <<"graze">>)
          /\ UNCHANGED eaten
    /\ UNCHANGED <<phase, held, bites, alive, doomed, posted>>

\* f hears up to the first event that answers its wait or ends its activity.
Hear(f) ==
    LET k == SelectInSeq(inbox[f], LAMBDA e : Answers(f, e) \/ Destructive(f, e))
        e == inbox[f][k]
        rest == [inbox EXCEPT ![f] = SubSeq(@, k + 1, Len(@))]
    IN
    /\ Acts(f) /\ Awaited(act[f]) # {}
    /\ \/ /\ k = 0
          /\ todo' = todo \ {f} /\ inbox' = [inbox EXCEPT ![f] = <<>>]
          /\ UNCHANGED <<act, updates, eaten>>
       \/ /\ k # 0 /\ Answers(f, e) /\ e.ok /\ act[f].stage = "equip" /\ act[f].kind = "eatheld"
          /\ inbox' = rest /\ UNCHANGED todo
          /\ AfterEquip(f)
       \/ /\ k # 0
          /\ ~(Answers(f, e) /\ e.ok /\ act[f].stage = "equip" /\ act[f].kind = "eatheld")
          /\ todo' = todo \ {f} /\ Finish(f, Answers(f, e) /\ e.ok)
    /\ UNCHANGED <<phase, held, bites, alive, doomed, posted>>

\* RuntimeSystem: what was posted reaches those who are subscribed by now.
Deliver ==
    /\ phase = "act" /\ todo = {}
    /\ phase' = "end"
    /\ inbox' = [f \in Folk |->
                  inbox[f] \o Kept(posted, {e \in ToSet(posted) : Subscribed(act[f], e)})]
    /\ posted' = <<>>
    /\ UNCHANGED <<todo, held, food, act, updates>>

----------------------------------------------------------------------------
(* The end of the tick: queued updates, in order, and then the deaths. *)

Runs(op) == phase = "end" /\ updates # <<>> /\ Head(updates).op = op
Post(e) == posted' = Append(posted, e)

\* Items that were shifted are told so only when the whole pickup succeeds.
PickUp ==
    LET f == Head(updates).who
        i == Head(updates).item
        inv == InsertItem(Inventory(f), BagsOf[f], i, Hands[i])
        available == i \in placed
        ok == available /\ ~inv.stuck
    IN
    /\ Runs("pickup")
    /\ IF available THEN slots' = [slots EXCEPT ![f] = inv.slots] /\ bag' = inv.bag
       ELSE UNCHANGED <<slots, bag>>
    /\ contained' = IF ok THEN [j \in Item |->
                        IF j = i THEN f
                        ELSE IF \E m \in inv.moved : m[1] = j
                        THEN (CHOOSE m \in inv.moved : m[1] = j)[2]
                        ELSE contained[j]]
                    ELSE contained
    /\ placed' = IF ok THEN placed \ ({i} \cup {m[1] : m \in inv.moved}) ELSE placed
    /\ Post(Event("picked", f, i, ok))
    /\ updates' = Tail(updates)
    /\ UNCHANGED <<clock, food, act, inbox>>

\* Out of its container, and back if there is no room in the slots.  Nobody
\* wrote what happens when another item makes room for it (a todo!()).
Equip ==
    LET f == Head(updates).who
        i == Head(updates).item
        from == CHOOSE c \in BagWith(f, i) : TRUE
        out == [Inventory(f) EXCEPT !.bag[from] = TakeOut(@, i)]
        inv == InsertItem(out, BagsOf[f], i, Hands[i])
        equipped == i \in Equipped(slots[f])
        taken == ~equipped /\ BagWith(f, i) # {}
        ok == equipped \/ (taken /\ ~inv.stuck)
    IN
    /\ Runs("equip")
    /\ \/ /\ taken /\ inv.moved # {}
          /\ phase' = "panicked"
          /\ UNCHANGED <<held, posted, updates>>
       \/ /\ taken => inv.moved = {}
          /\ IF taken /\ ~inv.stuck THEN slots' = [slots EXCEPT ![f] = inv.slots] /\ bag' = inv.bag
             ELSE UNCHANGED <<slots, bag>>
          /\ contained' = IF ok THEN [contained EXCEPT ![i] = f] ELSE contained
          /\ placed' = IF ok THEN placed \ {i} ELSE placed
          /\ Post(Event("equipped", f, i, ok))
          /\ updates' = Tail(updates)
          /\ UNCHANGED phase
    /\ UNCHANGED <<todo, food, act, inbox>>

BeginEatHeld ==
    LET f == Head(updates).who
        i == Head(updates).item
    IN
    /\ Runs("eatheld")
    /\ \/ /\ contained[i] = f
          /\ eaten' = [eaten EXCEPT ![i] = [by |-> f, how |-> "held"]]
          /\ UNCHANGED posted
       \/ contained[i] # f /\ Post(Event("eaten", f, i, FALSE)) /\ UNCHANGED eaten
    /\ updates' = Tail(updates)
    /\ UNCHANGED <<clock, held, bites, alive, doomed, act, inbox>>

BeginGraze ==
    LET i == Head(updates).item IN
    /\ Runs("graze")
    /\ eaten' = IF i \in alive
                THEN [eaten EXCEPT ![i] = [by |-> Head(updates).who, how |-> "graze"]] ELSE eaten
    /\ updates' = Tail(updates)
    /\ UNCHANGED <<clock, held, bites, alive, doomed, act, talk>>

\* maintain: the components of the dead go with them.
Maintain ==
    /\ phase = "end" /\ updates = <<>>
    /\ alive' = alive \ doomed /\ placed' = placed \ doomed /\ doomed' = {}
    /\ contained' = [i \in Item |-> IF i \in doomed THEN NoOne ELSE contained[i]]
    /\ eaten' = [i \in Item |-> IF i \in doomed THEN NotEaten ELSE eaten[i]]
    /\ phase' = "eat" /\ todo' = {i \in Item : eaten'[i] # NotEaten}
    /\ UNCHANGED <<slots, bag, bites, act, updates, talk>>

\* The todo!() of FoundSlotMut::equip.
Panicked == phase = "panicked" /\ UNCHANGED itvars

Next ==
    \/ \E i \in Item : Eat(i)
    \/ \E f \in Folk : Decide(f) \/ Begin(f) \/ Walk(f) \/ Hear(f)
    \/ AllEaten \/ AllDecided \/ Deliver
    \/ PickUp \/ Equip \/ BeginEatHeld \/ BeginGraze \/ Maintain
    \/ Panicked

ItemsSpec == Init /\ [][Next]_itvars

----------------------------------------------------------------------------
(* Properties *)

\* InventoryValidationSystem: what is in a slot or in a container lives, is in no
\* other place, knows where it is and is not out in the world; a slot that
\* overflows belongs to the item before it; a container's volume is what its
\* contents have.
InventoriesValid ==
    /\ \A f \in Folk : \A i \in Equipped(slots[f]) :
          /\ i \in alive /\ contained[i] = f /\ i \notin placed
          /\ \A g \in Folk \ {f} : i \notin Equipped(slots[g])
          /\ Cardinality({k \in 1..Slots : slots[f][k].item = i}) = Hands[i]
    /\ \A f \in Folk, k \in 1..Slots : slots[f][k].item # Nothing /\ ~slots[f][k].first =>
          k > 1 /\ slots[f][k - 1].item = slots[f][k].item
    /\ \A b \in Bag : \A i \in bag[b].inside : i \in alive /\ contained[i] = b /\ i \notin placed
    /\ \A b \in Bag : bag[b].volume = MapThenSumSet(LAMBDA i : Volume[i], bag[b].inside)

\* What is eaten from the hand is in a slot of the eater, who is busy with it: the
\* system finds it there when it is finished (its debug_assert), and an eater who
\* turns to something else, drops dead or equips something leaves no meal behind.
MealsAreAttended ==
    \A i \in Item : eaten[i].by \in Folk /\ i \notin doomed =>
        /\ act[eaten[i].by].stage = "eat" /\ act[eaten[i].by].item = i
        /\ eaten[i].how = "held" => i \in Equipped(slots[eaten[i].by])
=============================================================================
